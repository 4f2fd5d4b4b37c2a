----------------------------- MODULE KtcpClient -----------------------------
(***************************************************************************)
(* The module of final_project/tcp_client.c, and the network it shares     *)
(* with the server of KtcpServer.  Its thread connects, sends one message  *)
(* and yields the processor over and over until it is stopped.             *)
(***************************************************************************)
EXTENDS KtcpServer

CONSTANT Own   \* the client's connection

ASSUME ClientAssumption == Own \in Conns

VARIABLES client_loader, client, client_stop   \* as in the server

client_vars == <<client_loader, client, client_stop>>
server_side == <<module, server, socket, network, threads>>
vars        == <<ktcp, client_vars>>

Init ==
  /\ ServerInit
  /\ client_loader = "out" /\ client = "none" /\ client_stop = FALSE

ClientAt(here, next) ==
  /\ client = here /\ client' = next
  /\ UNCHANGED <<client_loader, client_stop>>

ClientLoad ==
  /\ client_loader = "out"
  /\ client_loader' = "in" /\ client' = "new"
  /\ UNCHANGED <<client_stop, ktcp>>

ClientExit ==
  /\ client_loader = "in"
  /\ client_loader' = "exit" /\ client_stop' = TRUE
  /\ client' = IF client = "asleep" THEN "test_stop" ELSE client
  /\ IF client = "ended" THEN intact' \in BOOLEAN ELSE UNCHANGED intact
  /\ UNCHANGED server_side

ClientJoined ==
  /\ client_loader = "exit" /\ client = "ended"
  /\ client_loader' = "gone"
  /\ UNCHANGED <<client, client_stop, ktcp>>

ClientFirstRun ==
  /\ ClientAt("new", IF client_stop THEN "ended" ELSE "create")
  /\ UNCHANGED ktcp

(* The error path releases a pointer that was never set. *)
ClientCreate ==
  /\ \/ ClientAt("create", "connect") /\ UNCHANGED intact
     \/ ClientAt("create", "ended") /\ intact' \in BOOLEAN
  /\ UNCHANGED server_side

(* Refused when nobody listens, or given up after a while. *)
ClientConnect ==
  \/ ClientAt("connect", "send") /\ Enqueue(Own)
  \/ ClientAt("connect", "ended") /\ UNCHANGED ktcp

(* All of the buffer is sent, the greeting and the zeros behind it, and    *)
(* comes in one piece or two.  An error is printed and nothing else.       *)
Message == [i \in Parts |-> IF i = BufLen THEN "zero" ELSE "text"]

ClientSend ==
  /\ ClientAt("send", "test_stop")
  /\ \/ Deliver(Own, <<Message>>)
     \/ \E n \in 1 .. BufLen - 1 :
          Deliver(Own, <<SubSeq(Message, 1, n), SubSeq(Message, n + 1, BufLen)>>)
     \/ UNCHANGED ktcp

ClientTestStop ==
  /\ ClientAt("test_stop", IF client_stop THEN "release" ELSE "schedule")
  /\ UNCHANGED ktcp

(* schedule() returns: the thread did not mark itself asleep. *)
Schedule_Sleeps == "asleep"
Schedule == "test_stop"

ClientYield == ClientAt("schedule", Schedule) /\ UNCHANGED ktcp

ClientRelease ==
  /\ ClientAt("release", "ended")
  /\ \/ Hangup(Own)
     \/ peer[Own] # "open" /\ UNCHANGED ktcp

ClientThread ==
  \/ ClientFirstRun \/ ClientCreate \/ ClientConnect \/ ClientSend
  \/ ClientTestStop \/ ClientYield \/ ClientRelease

-----------------------------------------------------------------------------
(* Both, with programs that make the other connections. *)

ServerSide ==
  /\ \/ InitModule \/ ExitModule \/ Joined \/ ServerThread
     \/ \E c \in Conns : ConnectionThread(c)
  /\ UNCHANGED client_vars

ClientSide == ClientLoad \/ ClientExit \/ ClientJoined \/ ClientThread

Peers ==
  /\ \/ \E c \in Conns \ {Own} : OtherPeer(c)
     \/ \E c \in Conns : Reset(c)
  /\ UNCHANGED client_vars

Next == intact /\ (ServerSide \/ ClientSide \/ Peers)

Spec == Init /\ [][Next]_vars

(* A runnable thread runs, and a kthread_stop that can return does.        *)
Fairness ==
  /\ WF_vars(intact /\ (ServerThread \/ Joined) /\ UNCHANGED client_vars)
  /\ \A c \in Conns :
       WF_vars(intact /\ ConnectionThread(c) /\ UNCHANGED client_vars)
  /\ WF_vars(intact /\ (ClientThread \/ ClientJoined))

FairSpec == Spec /\ Fairness

TypeOK ==
  /\ ServerTypeOK
  /\ client_loader \in {"out", "in", "exit", "gone"}
  /\ client \in {"none", "new", "create", "connect", "send", "test_stop",
                 "schedule", "asleep", "release", "ended"}
  /\ client_stop \in BOOLEAN

(* Unloading the client ends whenever the request comes, since its thread  *)
(* never sleeps (lines 121 to 123), unless its errors undo the kernel.     *)
ClientUnloads ==
  client_loader = "exit" ~> (client_loader = "gone" \/ ~intact)
=============================================================================
