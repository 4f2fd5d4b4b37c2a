----------------------------- MODULE UdpServer -----------------------------
(***************************************************************************)
(* final_project/udp_server.c: a thread of the module prints the datagrams *)
(* it receives.  exit stops it unless the variable server, which the thread*)
(* clears when it gives up, is NULL.                                       *)
(***************************************************************************)
EXTENDS Naturals

CONSTANT MaxWaiting   \* datagrams that the socket queues before it drops one

UdpAssumption == MaxWaiting \in Nat

VARIABLES
  loader,      \* place in init and exit
  intact,      \* no undefined behaviour has shown; the model ends there
  server,      \* whether the variable is set
  stop,
  thread,      \* place in server_start
  waiting      \* datagrams the socket has queued

vars == <<loader, intact, server, stop, thread, waiting>>

Init ==
  /\ loader = "out" /\ intact = TRUE /\ server = FALSE /\ stop = FALSE
  /\ thread = "none" /\ waiting = 0

-----------------------------------------------------------------------------

Load ==
  /\ loader = "out"
  /\ \/ loader' = "in" /\ thread' = "first" /\ server' = TRUE
     \/ loader' = "failed" /\ UNCHANGED <<thread, server>>
  /\ UNCHANGED <<intact, stop, waiting>>

(* exit looks at server, and takes it again for kthread_stop: it may be    *)
(* NULL by then, or the thread it names have ended.                        *)
LookAtServer ==
  /\ loader = "in" /\ loader' = IF server THEN "stop" ELSE "gone"
  /\ UNCHANGED <<intact, server, stop, thread, waiting>>

StopServer ==
  /\ loader = "stop" /\ loader' = "join" /\ stop' = TRUE
  /\ intact' \in IF server THEN {TRUE} ELSE BOOLEAN
  /\ UNCHANGED <<server, thread, waiting>>

Joined ==
  /\ loader = "join" /\ thread = "ended" /\ loader' = "gone"
  /\ UNCHANGED <<intact, server, stop, thread, waiting>>

-----------------------------------------------------------------------------
(* server_start *)

ThreadGoes(from, to) == thread = from /\ thread' = to

FirstRun ==
  /\ ThreadGoes("first", IF stop THEN "ended" ELSE "setup")
  /\ UNCHANGED <<server, waiting>>

(* The socket is made and bound, and given a receive timeout of 100 ms.    *)
Setup ==
  /\ \/ ThreadGoes("setup", "test") /\ UNCHANGED server
     \/ ThreadGoes("setup", "returns") /\ server' = FALSE
  /\ UNCHANGED waiting

TimesOut_Never == FALSE
TimesOut       == TRUE

Receive ==
  /\ \/ ThreadGoes("test", IF stop THEN "returns" ELSE "receive") /\ UNCHANGED waiting
     \/ ThreadGoes("receive", "test") /\ waiting > 0 /\ waiting' = waiting - 1
     \/ TimesOut /\ ThreadGoes("receive", "test") /\ UNCHANGED waiting
  /\ UNCHANGED server

Return ==
  /\ ThreadGoes("returns", "ended")
  /\ UNCHANGED <<server, waiting>>

(* A thread that has given up may still run when the module is gone.       *)
ThreadStep ==
  /\ FirstRun \/ Setup \/ Receive \/ Return
  /\ intact' = (loader # "gone")
  /\ UNCHANGED <<loader, stop>>

Datagram ==
  /\ thread \in {"test", "receive"} /\ waiting < MaxWaiting
  /\ waiting' = waiting + 1
  /\ UNCHANGED <<loader, intact, server, stop, thread>>

Thread == intact /\ ThreadStep
Exit   == intact /\ (StopServer \/ Joined)

Next == (intact /\ (Load \/ LookAtServer \/ Datagram)) \/ Thread \/ Exit

Fairness == WF_vars(Thread) /\ WF_vars(Exit)

Spec     == Init /\ [][Next]_vars
FairSpec == Spec /\ Fairness

-----------------------------------------------------------------------------
(* Properties. *)

UdpTypeOK == server \in BOOLEAN /\ stop \in BOOLEAN /\ waiting \in 0 .. MaxWaiting

(* exit returns (lines 64 to 78 and 91 to 96): the receive timeout brings  *)
(* the thread back to its test, whether or not datagrams come, unless it   *)
(* gave up just when exit had looked at server.                            *)
UdpUnloads == loader = "stop" ~> (loader = "gone" \/ ~intact)
=============================================================================
