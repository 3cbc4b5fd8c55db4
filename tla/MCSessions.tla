----------------------------- MODULE MCSessions -----------------------------
(* The programs, ports and streams for the runs of Sessions: a request,   *)
(* one with a body after it, one that stops short.                         *)
EXTENDS Sessions
AllServers == {"web", "daytime", "twoway", "single"}
AllClients == {"daytimetcpcli", "daytimeclient", "client", "browser"}
DaytimeServer == {"daytime"}
DaytimeClient == {"daytimetcpcli"}
Ports == {0, 3456, 7000, 65001, 65549}
KernelPorts == {40000}
Bytes == {"c", "eol", "nul"}
EmptyLine == <<"eol", "eol">>
Requests == {<<"c", "eol", "eol">>, <<"c", "eol", "eol", "c">>, <<"c">>}
OneWord == <<"c">>
=============================================================================
