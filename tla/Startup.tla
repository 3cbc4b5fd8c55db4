------------------------------- MODULE Startup -------------------------------
(***************************************************************************)
(* How the repository's servers come to listen and how its clients come to *)
(* be connected: socket, setsockopt, bind, listen and connect, with the    *)
(* checks each program makes of their results, and no others.              *)
(*                                                                         *)
(*   web        SimpleWebServer/WebServer.cpp over libs/Networking         *)
(*   daytime    UNP_Exercises/intro/daytimetcpsrv.cpp over libs/Wrappers   *)
(*   twoway     TestCode/TcpServer.cpp                                     *)
(*   single     server.c                                                   *)
(*                                                                         *)
(* and, as clients, daytimetcpcli.cpp, test_daytimeclient.c, client.c and  *)
(* a browser, which is any other program.  Sessions says what they do once *)
(* they are connected.                                                     *)
(***************************************************************************)
EXTENDS Integers

CONSTANTS
  Servers,    \* which of the servers are looked at
  Clients,    \* and which clients
  PortArgs,   \* numbers (0 for what is none) given on the command lines
  PortMod,    \* 2^16
  Ephemeral   \* ports the kernel may choose

ASSUME StartupAssumption ==
  /\ Servers \subseteq {"web", "daytime", "twoway", "single"}
  /\ Clients \subseteq {"daytimetcpcli", "daytimeclient", "client", "browser"}
  /\ PortArgs \subseteq Nat
  /\ PortMod \in Nat /\ PortMod > 65001
  /\ Ephemeral \subseteq Nat \ {0}

VARIABLES
  server, client, \* the two programs
  told,      \* the server's argument
  asked,     \* the port the client is to connect to
  taken,     \* whether the server cannot have its port
  valid,     \* whether the server's _sockfd is a descriptor
  bound,     \* the port it is bound to, 0 for none
  listening,
  serverPc,  \* where the server's first process is
  clientPc,
  link       \* how far the connection between the two has come

input == <<server, client, told, asked, taken>>
startup == <<valid, bound, listening>>

\* Mutant: the argument is kept in an int.
ToPortUncut(arg) == arg

\* strtoul, cut to 16 bits by the assignment to a uint16_t; htons and back.
ToPort(arg) == arg % PortMod

TwoWayPort == 7000
SinglePort == 3456
DaytimePort == 13
ClientPort == 65001

StartupInit ==
  /\ server \in Servers
  /\ client \in Clients
  /\ told \in PortArgs
  /\ \E arg \in PortArgs :
       asked = CASE client = "daytimeclient" -> DaytimePort
                 [] client = "client" -> ClientPort
                 [] OTHER -> ToPort(arg)
  /\ taken \in BOOLEAN
  /\ valid = FALSE
  /\ bound = 0
  /\ listening = FALSE
  /\ serverPc = "create"
  /\ clientPc = "connect"
  /\ link = "none"
-----------------------------------------------------------------------------
(* The socket library.  libs/Wrappers holds the same code in another       *)
(* namespace; SO_REUSEADDR | SO_REUSEPORT is SO_REUSEPORT on Linux.        *)

\* Socket::Socket: a socket that cannot be had is reported and kept as -1.
Socket == valid' \in BOOLEAN
WrapperSocket == Socket

\* SocketIPv4::SocketIPv4: the result of setsockopt is not looked at.
SocketIPv4 == Socket /\ UNCHANGED <<bound, listening>>
WrapperSocketIPv4 == WrapperSocket /\ UNCHANGED <<bound, listening>>

\* bind to port p; bound' is 0 if it fails.
BindTo(p) ==
  /\ \/ (~valid \/ (p # 0 /\ taken)) /\ bound' = 0
     \/ valid /\ p = 0 /\ bound' \in Ephemeral
     \/ valid /\ p # 0 /\ ~taken /\ bound' = p
  /\ UNCHANGED <<valid, listening>>

Bind(p) == BindTo(p)
WrapperBind(p) == BindTo(p)

\* Socket::Listen: the kernel binds a socket that is not bound.  It may refuse,
\* for want of ports or when another socket came to listen at a shared one.
Listen ==
  /\ \/ /\ valid /\ listening' = TRUE
        /\ IF bound = 0 THEN bound' \in Ephemeral ELSE UNCHANGED bound
     \/ listening' = FALSE /\ UNCHANGED bound
  /\ UNCHANGED valid

WrapperListen == Listen

\* Socket::Connect: inet_pton's 0 for what is no address passes for success,
\* and the address 0.0.0.0 then stands for the client's own host.  It reaches
\* the server if that listens there, and may always fail.
Connect(reached) ==
  reached => listening /\ bound = asked

WrapperConnect(reached) == Connect(reached)
-----------------------------------------------------------------------------
(* The servers up to their accept.                                         *)

\* WebServer.cpp looks at none of the results.
WebStarts ==
  /\ server = "web"
  /\ \/ serverPc = "create" /\ SocketIPv4 /\ serverPc' = "bind"
     \/ serverPc = "bind" /\ Bind(ToPort(told)) /\ serverPc' = "listen"
     \/ serverPc = "listen" /\ Listen /\ serverPc' = "accept"
  /\ UNCHANGED <<input, clientPc, link>>

\* daytimetcpsrv.cpp looks at that of the constructor.
DaytimeStarts ==
  /\ server = "daytime"
  /\ \/ /\ serverPc = "create" /\ WrapperSocketIPv4
        /\ serverPc' = IF valid' THEN "bind" ELSE "exited"
     \/ /\ serverPc = "bind" /\ WrapperBind(ToPort(told))
        /\ serverPc' = "listen"
     \/ serverPc = "listen" /\ WrapperListen /\ serverPc' = "accept"
  /\ UNCHANGED <<input, clientPc, link>>

\* TcpServer.cpp looks at that of setsockopt, which fails without a socket.
TwoWayStarts ==
  /\ server = "twoway"
  /\ \/ /\ serverPc = "create" /\ SocketIPv4
        /\ serverPc' = IF valid' THEN "bind" ELSE "exited"
     \/ serverPc = "bind" /\ BindTo(TwoWayPort) /\ serverPc' = "listen"
     \/ serverPc = "listen" /\ Listen /\ serverPc' = "accept"
  /\ UNCHANGED <<input, clientPc, link>>

\* Mutant: server.c goes on without its port.
SingleStartsAnyway ==
  /\ server = "single"
  /\ \/ /\ serverPc = "create" /\ SocketIPv4
        /\ serverPc' = IF valid' THEN "bind" ELSE "exited"
     \/ serverPc = "bind" /\ BindTo(SinglePort) /\ serverPc' = "listen"
     \/ serverPc = "listen" /\ Listen /\ serverPc' = "accept"
  /\ UNCHANGED <<input, clientPc, link>>

\* server.c looks at all of them, and at that of socket through setsockopt.
SingleStarts ==
  /\ server = "single"
  /\ \/ /\ serverPc = "create" /\ SocketIPv4
        /\ serverPc' = IF valid' THEN "bind" ELSE "exited"
     \/ /\ serverPc = "bind" /\ BindTo(SinglePort)
        /\ serverPc' = IF bound' = 0 THEN "exited" ELSE "listen"
     \/ /\ serverPc = "listen" /\ Listen
        /\ serverPc' = IF listening' THEN "accept" ELSE "exited"
  /\ UNCHANGED <<input, clientPc, link>>

Starts == WebStarts \/ DaytimeStarts \/ TwoWayStarts \/ SingleStarts
-----------------------------------------------------------------------------
(* The clients up to their connection.                                     *)

ConnectsTo(reached, then) ==
  /\ link' = IF reached THEN "queued" ELSE "none"
  /\ clientPc' = then
  /\ UNCHANGED <<input, startup, serverPc>>

\* daytimetcpcli.cpp gives up without a socket, but not without a connection.
CliConnects ==
  /\ client = "daytimetcpcli" /\ clientPc = "connect"
  /\ \/ \E reached \in BOOLEAN :
          WrapperConnect(reached) /\ ConnectsTo(reached, "read")
     \/ ConnectsTo(FALSE, "left")

\* test_daytimeclient.c and client.c look at every result.
DaytimeClientConnects ==
  /\ client = "daytimeclient" /\ clientPc = "connect"
  /\ \/ Connect(TRUE) /\ ConnectsTo(TRUE, "read")
     \/ ConnectsTo(FALSE, "left")

ClientConnects ==
  /\ client = "client" /\ clientPc = "connect"
  /\ \/ Connect(TRUE) /\ ConnectsTo(TRUE, "send")
     \/ ConnectsTo(FALSE, "left")

BrowserConnects ==
  /\ client = "browser" /\ clientPc = "connect"
  /\ \/ Connect(TRUE) /\ ConnectsTo(TRUE, "send")
     \/ ConnectsTo(FALSE, "left")

Connecting ==
  CliConnects \/ DaytimeClientConnects \/ ClientConnects \/ BrowserConnects
-----------------------------------------------------------------------------
\* What a server calls bind with: arguments over 65535 and below 0 are cut
\* without a word (WebServer.cpp:16).
Told ==
  CASE server = "twoway" -> TwoWayPort
    [] server = "single" -> SinglePort
    [] OTHER -> ToPort(told)

\* A server that listens does so at the port it was told; at another one, which
\* the kernel chooses, only if that port was 0 or could not be had and nobody
\* looked at the result of bind (WebServer.cpp:19).  This is all that a failed
\* call, in whatever order with others, may do: server.c never goes astray, and
\* none listens after a socket that failed.
ListensAsTold ==
  listening =>
    /\ valid
    /\ \/ bound = Told
       \/ server # "single" /\ (taken \/ Told = 0) /\ bound \in Ephemeral
=============================================================================
