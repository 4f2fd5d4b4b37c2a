----------------------------- MODULE KtcpServer -----------------------------
(***************************************************************************)
(* The module of final_project/tcp_server.c.  One thread listens, sleeps   *)
(* while its accept queue is empty and starts a thread for each connection *)
(* it accepts; those threads receive into one buffer, print it as a string *)
(* and clear it.  The peers are any programs that connect, each of them    *)
(* once.  TCP delivers what a peer sends in order, in pieces of its own    *)
(* choosing, and the end of the stream after it, or an error once when it  *)
(* was reset.  Of a byte it only matters whether it is zero and whose it   *)
(* is.                                                                     *)
(***************************************************************************)
EXTENDS Naturals, Sequences, SequencesExt

CONSTANTS
  Conns,       \* connections
  Zero,        \* a zero byte of the buffer
  BufLen,      \* BUF_SIZE
  Unreliable,  \* those that may be reset
  MaxPieces,   \* bound on the pieces under way on a connection
  OtherPieces  \* bound on what the other peers send

Parts  == 1 .. BufLen
Bytes  == {"text", "zero"}
Pieces == UNION {[1 .. n -> Bytes] : n \in Parts}   \* what one receive can get
Nothing == <<>>                                     \* what the last one gets

ASSUME KtcpAssumption ==
  /\ Zero \notin Conns /\ Unreliable \subseteq Conns /\ MaxPieces \in Nat
  /\ BufLen \in Nat \ {0} /\ OtherPieces \subseteq Pieces

VARIABLES
  loader,      \* ktcp_server_init and ktcp_server_exit
  server,      \* the place in ktcp_server_start_threadfn
  stop,        \* behind kthread_should_stop() of that thread
  intact,      \* no undefined behaviour has shown; the model ends there
  listening, backlog,       \* the listening socket and its accept queue
  peer, stream,             \* the far end of a connection; pieces under way
  conn, recvd,              \* connection threads and the piece they print
  buf,                      \* the global buffer
  late, missed, touched     \* history: connections queued, and a stop made,
                            \* between test and sleep; threads before whose
                            \* receive another one has filled the buffer, or
                            \* before whose print another one has used it

module  == <<loader, stop, missed>>
socket  == <<listening, backlog, late>>
network == <<peer, stream>>
threads == <<conn, recvd, buf, touched>>
ktcp    == <<module, server, intact, socket, network, threads>>

(* The buffer after piece of c came into b.                                *)
Filled(b, c, piece) ==
  [i \in Parts |-> IF i \notin DOMAIN piece THEN b[i]
                   ELSE IF piece[i] = "text" THEN c ELSE Zero]
Cleared == [i \in Parts |-> Zero]

ServerInit ==
  /\ loader = "out" /\ server = "none" /\ stop = FALSE /\ intact = TRUE
  /\ listening = FALSE /\ backlog = <<>>
  /\ peer = [c \in Conns |-> "idle"] /\ stream = [c \in Conns |-> <<>>]
  /\ conn = [c \in Conns |-> "none"] /\ recvd = [c \in Conns |-> Nothing]
  /\ buf = Cleared
  /\ late = {} /\ missed = FALSE /\ touched = {}

-----------------------------------------------------------------------------
(* init and exit.  When init fails the module is not loaded. *)

InitModule ==
  /\ loader = "out"
  /\ loader' = "in" /\ server' = "new"
  /\ UNCHANGED <<stop, missed, intact, socket, network, threads>>

(* kthread_stop wakes the thread; one that has ended by itself is gone. *)
WakesSleeper(there) == IF there = "asleep" THEN "test" ELSE there

ExitModule ==
  /\ loader = "in"
  /\ loader' = "exit" /\ stop' = TRUE
  /\ missed' = (server = "mark")
  /\ server' = WakesSleeper(server)
  /\ IF server = "ended" THEN intact' \in BOOLEAN ELSE UNCHANGED intact
  /\ UNCHANGED <<socket, network, threads>>

Joined ==
  /\ loader = "exit" /\ server = "ended"
  /\ loader' = "gone"
  /\ UNCHANGED <<server, stop, missed, intact, socket, network, threads>>

-----------------------------------------------------------------------------
(* The listening thread. *)

At(here, next) == server = here /\ server' = next

(* Closing the listening socket resets the connections it still queues. *)
ReleaseListener ==
  /\ listening' = FALSE /\ backlog' = <<>>
  /\ peer' = [c \in Conns |-> IF c \in ToSet(backlog) THEN "reset" ELSE peer[c]]
  /\ late' = {}
  /\ UNCHANGED stream

FirstRun ==
  /\ At("new", IF stop THEN "ended" ELSE "setup")
  /\ UNCHANGED <<module, intact, socket, network, threads>>

(* When the socket cannot be made, the error path releases a pointer that  *)
(* was never set; bind and listen fail cleanly.                            *)
Setup ==
  /\ \/ At("setup", "test") /\ listening' = TRUE /\ UNCHANGED intact
     \/ At("setup", "ended") /\ intact' \in BOOLEAN /\ UNCHANGED listening
  /\ UNCHANGED <<module, backlog, late, network, threads>>

AfterAccept_Sleeps == "mark"
AfterAccept == "test"

(* Both tests, of the stop flag and of the queue. *)
Test ==
  /\ \/ /\ stop /\ At("test", "ended") /\ ReleaseListener
     \/ /\ ~stop /\ At("test", IF backlog = <<>> THEN "mark" ELSE "accept")
        /\ UNCHANGED <<socket, network>>
  /\ UNCHANGED <<module, intact, threads>>

(* add_wait_queue, TASK_INTERRUPTIBLE and schedule: what woke the thread   *)
(* before this is forgotten.                                               *)
MarkAsleep ==
  /\ At("mark", "asleep")
  /\ UNCHANGED <<module, intact, socket, network, threads>>

Spawn ==
  /\ conn' = [conn EXCEPT ![Head(backlog)] = "start"]
  /\ UNCHANGED <<recvd, buf, touched>>

Dequeue_Peeks == UNCHANGED <<backlog, late>>
Dequeue       == backlog' = Tail(backlog) /\ late' = late \ {Head(backlog)}

(* Each call can fail: for a socket the listener is released, for the rest *)
(* it is not, and an accepted connection is left without a thread.         *)
Accept ==
  /\ \/ /\ At("accept", AfterAccept) /\ Dequeue /\ Spawn
        /\ UNCHANGED <<listening, network>>
     \/ At("accept", "ended") /\ ReleaseListener /\ UNCHANGED threads
     \/ At("accept", "ended") /\ UNCHANGED <<socket, network, threads>>
     \/ /\ At("accept", "ended") /\ Dequeue
        /\ UNCHANGED <<listening, network, threads>>
  /\ UNCHANGED <<module, intact>>

ServerThread == FirstRun \/ Setup \/ Test \/ MarkAsleep \/ Accept

-----------------------------------------------------------------------------
(* A connection's thread.  Its code may be gone. *)

Goes(c, here, next) == conn[c] = here /\ conn' = [conn EXCEPT ![c] = next]
OthersAt(c, places) == {d \in Conns \ {c} : conn[d] \in places}

(* Clearing the buffer also undoes what others have left in it for a       *)
(* receive to come.                                                        *)
Memset_Forgotten(c) == UNCHANGED <<buf, touched>>
Memset(c) == buf' = Cleared /\ touched' = OthersAt(c, {"print"})

Starts(c) == Goes(c, "start", "recv") /\ Memset(c) /\ UNCHANGED <<recvd, network>>

Receives(c) ==
  /\ stream[c] # <<>>
  /\ Goes(c, "recv", "print")
  /\ recvd' = [recvd EXCEPT ![c] = Head(stream[c])]
  /\ stream' = [stream EXCEPT ![c] = Tail(@)]
  /\ buf' = Filled(buf, c, Head(stream[c]))
  /\ touched' = touched \cup OthersAt(c, {"recv", "print"})
  /\ UNCHANGED peer

(* The end of the stream is a receive of nothing, and is printed too.      *)
ReceivesEnd(c) ==
  /\ stream[c] = <<>> /\ peer[c] = "closed"
  /\ Goes(c, "recv", "print")
  /\ UNCHANGED <<network, recvd, buf, touched>>

(* What %s prints: the bytes before the first zero; without a zero it goes *)
(* on into whatever is stored behind the buffer.                           *)
Printed  == {i \in Parts : \A j \in 1 .. i : buf[j] # Zero}
Overruns == \A i \in Parts : buf[i] # Zero
PrintsText == IF Overruns THEN intact' \in BOOLEAN ELSE UNCHANGED intact

Prints(c) ==
  /\ recvd[c] # Nothing
  /\ Goes(c, "print", "recv") /\ PrintsText /\ Memset(c)
  /\ recvd' = [recvd EXCEPT ![c] = Nothing]
  /\ UNCHANGED network

(* Not told from a message, but the next call shows the end.               *)
ReceivesError(c) ==
  /\ stream[c] = <<>> /\ peer[c] = "reset"
  /\ Goes(c, "recv", "recv") /\ Memset(c)
  /\ peer' = [peer EXCEPT ![c] = "closed"]
  /\ UNCHANGED <<stream, recvd>>

(* sock_release frees what the kfree after it frees again. *)
EndsAtZero_Loops(c) == Goes(c, "print", "recv") /\ UNCHANGED intact
EndsAtZero(c)       == Goes(c, "print", "ended") /\ intact' \in BOOLEAN

PrintsEnd(c) ==
  /\ recvd[c] = Nothing
  /\ EndsAtZero(c)
  /\ UNCHANGED <<network, recvd, buf, touched>>

ThreadStep(c) ==
  \/ /\ Starts(c) \/ Receives(c) \/ ReceivesEnd(c) \/ ReceivesError(c)
     /\ UNCHANGED intact
  \/ Prints(c) \/ PrintsEnd(c)

Runnable(c) ==
  \/ conn[c] \in {"start", "print"}
  \/ conn[c] = "recv" /\ (stream[c] # <<>> \/ peer[c] \in {"closed", "reset"})

RunsRemovedCode(c) ==
  /\ loader = "gone" /\ Runnable(c)
  /\ intact' = FALSE
  /\ UNCHANGED <<network, threads>>

ConnectionThread(c) ==
  /\ \/ loader # "gone" /\ ThreadStep(c)
     \/ RunsRemovedCode(c)
  /\ UNCHANGED <<module, server, socket>>

-----------------------------------------------------------------------------
(* The far ends. *)

(* A completed handshake queues the connection and wakes a sleeper. *)
Enqueue(c) ==
  /\ listening
  /\ peer[c] = "idle" /\ peer' = [peer EXCEPT ![c] = "open"]
  /\ backlog' = Append(backlog, c)
  /\ server' = WakesSleeper(server)
  /\ missed' = (missed /\ server # "asleep")
  /\ late' = IF server = "mark" THEN late \cup {c} ELSE late
  /\ UNCHANGED <<loader, stop, intact, listening, stream, threads>>

Deliver(c, pieces) ==
  /\ peer[c] = "open"
  /\ stream' = [stream EXCEPT ![c] = @ \o pieces]
  /\ UNCHANGED <<module, server, intact, socket, peer, threads>>

Hangup(c) ==
  /\ peer[c] = "open" /\ peer' = [peer EXCEPT ![c] = "closed"]
  /\ UNCHANGED <<module, server, intact, socket, stream, threads>>

(* What was under way may be lost with the connection. *)
Reset(c) ==
  /\ c \in Unreliable
  /\ peer[c] = "open" /\ peer' = [peer EXCEPT ![c] = "reset"]
  /\ \/ stream' = [stream EXCEPT ![c] = <<>>]
     \/ UNCHANGED stream
  /\ UNCHANGED <<module, server, intact, socket, threads>>

OtherPeer(c) ==
  \/ Enqueue(c) \/ Hangup(c)
  \/ /\ Len(stream[c]) < MaxPieces
     /\ \E piece \in OtherPieces : Deliver(c, <<piece>>)

-----------------------------------------------------------------------------
(* Properties. *)

ServerTypeOK ==
  /\ loader \in {"out", "in", "exit", "gone"}
  /\ server \in {"none", "new", "setup", "test", "accept", "mark", "asleep", "ended"}
  /\ stop \in BOOLEAN /\ intact \in BOOLEAN /\ listening \in BOOLEAN
  /\ missed \in BOOLEAN
  /\ backlog \in Seq(Conns) /\ late \subseteq ToSet(backlog)
  /\ \A c \in ToSet(backlog) : conn[c] = "none"
  /\ touched \subseteq Conns
  /\ peer \in [Conns -> {"idle", "open", "closed", "reset"}]
  /\ stream \in [Conns -> Seq(Pieces)] /\ recvd \in [Conns -> Pieces \cup {Nothing}]
  /\ conn \in [Conns -> {"none", "start", "recv", "print", "ended"}]
  /\ buf \in [Parts -> Conns \cup {Zero}]

(* The bytes of a piece up to its first zero.                              *)
Text(piece) == {i \in DOMAIN piece : \A j \in 1 .. i : piece[j] = "text"}

(* What a connection thread prints (lines 97 to 100) is the text it has    *)
(* received, and nothing of an earlier piece, of its connection or         *)
(* another; an empty line at the end of the stream; and something behind   *)
(* the buffer just when the piece filled the buffer with text.  This is    *)
(* promised unless another thread received into the one buffer since it    *)
(* was cleared, or used it between receive and print (lines 112 to 117).   *)
PrintsWhatCame ==
  \A c \in Conns : conn[c] = "print" /\ c \notin touched =>
    /\ Printed = Text(recvd[c])
    /\ \A i \in Printed : buf[i] = c
    /\ Overruns <=> Text(recvd[c]) = Parts

(* A connection is accepted unless it came between the test of the queue   *)
(* and the sleep (lines 191 to 195); that one waits for another.           *)
EachServed ==
  \A c \in Conns : (c \in ToSet(backlog) /\ c \notin late)
                    ~> (conn[c] # "none" \/ server = "ended" \/ ~intact)

(* The thread of a connection whose peer hung up or reset it ends.         *)
ConnectionEnds ==
  \A c \in Conns : (conn[c] # "none" /\ peer[c] \in {"closed", "reset"})
                    ~> (conn[c] = "ended" \/ ~intact)

(* Unloading ends, unless the request came between the two tests and the   *)
(* sleep and no connection has come since.                                 *)
ServerUnloads ==
  (loader = "exit" /\ ~missed) ~> (loader = "gone" \/ ~intact)
=============================================================================
