----------------------------- MODULE Ktcp_proofs -----------------------------
(***************************************************************************)
(* The server prints what came, and what it and the client keep has its    *)
(* type, for any connections, pieces and losses.                           *)
(***************************************************************************)
EXTENDS KtcpClient, SequenceTheorems, TLAPS

(***************************************************************************)
(* Types.  A connection is queued once and has no thread yet, and the      *)
(* listening thread accepts only when one is queued.                       *)
(***************************************************************************)
Once(queue) == \A i \in 1 .. Len(queue) : \A j \in 1 .. Len(queue) :
                 queue[i] = queue[j] => i = j

Queued ==
  /\ Once(backlog)
  /\ \A c \in Conns : peer[c] = "idle" => conn[c] = "none" /\ c \notin ToSet(backlog)
  /\ server = "accept" => backlog # <<>>

TInv == TypeOK /\ Queued

\* What is queued behind the others.
LEMMA QueueGrows ==
  ASSUME NEW S, NEW q \in Seq(S), NEW c \in S, Once(q), c \notin ToSet(q)
  PROVE  /\ Append(q, c) \in Seq(S) /\ Append(q, c) # <<>> /\ Once(Append(q, c))
         /\ ToSet(Append(q, c)) = ToSet(q) \cup {c}
<1>1. PICK n \in Nat : n = Len(q)
  OBVIOUS
<1>2. PICK r : r = Append(q, c) /\ r \in Seq(S)
  <2>1. Append(q, c) \in Seq(S)
    OBVIOUS
  <2> QED BY <2>1, Zenon
<1>3. Len(r) = n + 1 /\ r[n + 1] = c /\ \A i \in 1 .. n : r[i] = q[i]
  BY <1>1, <1>2
<1>4. DOMAIN q = 1 .. n /\ DOMAIN r = 1 .. n + 1
  BY <1>1, <1>3
<1>5. \A i \in 1 .. n + 1 : i \in 1 .. n \/ i = n + 1
  OBVIOUS
<1>6. \A i \in 1 .. n : q[i] # c
  BY <1>4 DEF ToSet
<1>7. Once(r)
  <2> SUFFICES ASSUME NEW i \in 1 .. n + 1, NEW j \in 1 .. n + 1, r[i] = r[j] PROVE i = j
    BY <1>3 DEF Once
  <2>1. CASE i \in 1 .. n /\ j \in 1 .. n
    BY <1>1, <1>3, <2>1 DEF Once
  <2> QED BY <1>3, <1>5, <1>6, <2>1
<1>8. ToSet(r) = ToSet(q) \cup {c}
  <2>1. ToSet(r) = {r[i] : i \in 1 .. n + 1} /\ ToSet(q) = {q[i] : i \in 1 .. n}
    BY <1>4 DEF ToSet
  <2>2. n + 1 \in 1 .. n + 1 /\ \A i \in 1 .. n : i \in 1 .. n + 1
    OBVIOUS
  <2> QED BY <1>3, <1>5, <2>1, <2>2
<1>9. r # <<>>
  BY <1>3
<1> QED BY <1>2, <1>7, <1>8, <1>9

\* What is taken from the front.
LEMMA QueueShrinks ==
  ASSUME NEW S, NEW q \in Seq(S), Once(q), q # <<>>
  PROVE  /\ Head(q) \in S /\ Head(q) \in ToSet(q) /\ Tail(q) \in Seq(S) /\ Once(Tail(q))
         /\ ToSet(Tail(q)) = ToSet(q) \ {Head(q)}
<1>1. PICK n \in Nat : n + 1 = Len(q)
  <2>1. Len(q) \in Nat /\ Len(q) # 0
    OBVIOUS
  <2>2. Len(q) - 1 \in Nat /\ (Len(q) - 1) + 1 = Len(q)
    BY <2>1
  <2> QED BY <2>2
<1>2. PICK r : r = Tail(q) /\ r \in Seq(S)
  <2>1. Tail(q) \in Seq(S)
    OBVIOUS
  <2> QED BY <2>1, Zenon
<1>3. Len(r) = n /\ \A i \in 1 .. n : r[i] = q[i + 1]
  BY <1>1, <1>2
<1>4. DOMAIN q = 1 .. n + 1 /\ DOMAIN r = 1 .. n
  BY <1>1, <1>3
<1>5. Head(q) = q[1] /\ 1 \in 1 .. n + 1 /\ q[1] \in S
  BY <1>1
<1>6. \A i \in 1 .. n : i + 1 \in 1 .. n + 1 /\ i + 1 # 1
  OBVIOUS
<1>7. \A i \in 1 .. n + 1 : i = 1 \/ (i - 1 \in 1 .. n /\ (i - 1) + 1 = i)
  OBVIOUS
<1>8. \A i \in 1 .. n + 1 : \A j \in 1 .. n + 1 : q[i] = q[j] => i = j
  BY <1>1 DEF Once
<1>9. Once(r)
  <2> SUFFICES ASSUME NEW i \in 1 .. n, NEW j \in 1 .. n, r[i] = r[j] PROVE i = j
    BY <1>3 DEF Once
  <2>1. PICK a \in 1 .. n + 1, b \in 1 .. n + 1 : a = i + 1 /\ b = j + 1
    OBVIOUS
  <2>2. q[a] = q[b]
    BY <1>3, <2>1
  <2>3. a = b
    BY <1>8, <2>2
  <2> QED BY <2>1, <2>3
<1>10. ToSet(r) = {r[i] : i \in 1 .. n} /\ ToSet(q) = {q[i] : i \in 1 .. n + 1}
  BY <1>4 DEF ToSet
<1>11. ToSet(r) = ToSet(q) \ {q[1]}
  <2>1. ASSUME NEW i \in 1 .. n PROVE r[i] \in ToSet(q) /\ r[i] # q[1]
    BY <1>3, <1>5, <1>6, <1>8, <1>10
  <2>2. ASSUME NEW i \in 1 .. n + 1, q[i] # q[1] PROVE q[i] \in ToSet(r)
    <3>1. PICK k \in 1 .. n : k + 1 = i
      BY <1>7, <2>2
    <3> QED BY <1>3, <1>10, <3>1
  <2> QED BY <1>10, <2>1, <2>2
<1>12. Head(q) \in ToSet(q)
  BY <1>5, <1>10
<1> QED BY <1>2, <1>5, <1>9, <1>11, <1>12

\* Nothing is queued at first.
LEMMA NothingQueued == ToSet(<<>>) = {} /\ Once(<<>>)
  BY DEF ToSet, Once

\* Nobody is connected and nothing runs.
LEMMA TInitIsGood == Init => TInv
<1> SUFFICES ASSUME Init PROVE TInv
  OBVIOUS
<1>1. <<>> \in Seq(Conns) /\ <<>> \in Seq(Pieces)
  OBVIOUS
<1> QED BY <1>1, NothingQueued DEF Init, ServerInit, TInv, TypeOK, ServerTypeOK, Queued,
           Cleared, Pieces

\* What leaves the queue, the connections and the listener alone.
LEMMA QueueStays ==
  ASSUME Queued, UNCHANGED <<backlog, peer, conn>>,
         server' = "accept" => server = "accept"
  PROVE  Queued'
BY DEF Queued, Once, ToSet

\* A connection that is made is queued.
LEMMA EnqueueKeeps ==
  ASSUME ServerTypeOK, Queued, NEW c \in Conns, Enqueue(c)
  PROVE  ServerTypeOK' /\ Queued'
<1>1. /\ backlog \in Seq(Conns) /\ Once(backlog) /\ c \notin ToSet(backlog)
      /\ backlog' = Append(backlog, c) /\ conn[c] = "none"
  BY DEF ServerTypeOK, Queued, Enqueue
<1>2. /\ backlog' \in Seq(Conns) /\ backlog' # <<>> /\ Once(backlog)'
      /\ ToSet(backlog') = ToSet(backlog) \cup {c}
  <2>1. /\ Append(backlog, c) \in Seq(Conns) /\ Append(backlog, c) # <<>>
        /\ Once(Append(backlog, c)) /\ ToSet(Append(backlog, c)) = ToSet(backlog) \cup {c}
    BY <1>1, QueueGrows
  <2> QED BY <1>1, <2>1 DEF Once
<1>3. Queued'
  BY <1>1, <1>2 DEF Queued, Enqueue, threads, ServerTypeOK
<1>4. late' \subseteq ToSet(backlog')
  BY <1>2 DEF Enqueue, ServerTypeOK
<1>5. missed' \in BOOLEAN
  BY DEF Enqueue, ServerTypeOK
<1>6. server' \in {"none", "new", "setup", "test", "accept", "mark", "asleep", "ended"}
  BY DEF Enqueue, WakesSleeper, ServerTypeOK
<1>7. peer' \in [Conns -> {"idle", "open", "closed", "reset"}]
  BY DEF Enqueue, ServerTypeOK
<1> QED BY <1>1, <1>2, <1>3, <1>4, <1>5, <1>6, <1>7 DEF Enqueue, threads, ServerTypeOK

\* The listening thread and the rest of the module.
LEMMA ListenerTypes ==
  ASSUME ServerTypeOK, Queued, InitModule \/ ExitModule \/ Joined \/ ServerThread
  PROVE  ServerTypeOK' /\ Queued'
<1> USE DEF ServerTypeOK, module, socket, network, threads, At
<1>1. CASE InitModule \/ ExitModule \/ Joined
  <2>1. /\ UNCHANGED <<listening, backlog, late, peer, stream, conn, recvd, buf, touched>>
        /\ loader' \in {"in", "exit", "gone"} /\ server' \in {"new", WakesSleeper(server), server}
    BY <1>1 DEF InitModule, ExitModule, Joined
  <2>2. stop' \in BOOLEAN /\ missed' \in BOOLEAN /\ intact' \in BOOLEAN
    BY <1>1 DEF InitModule, ExitModule, Joined
  <2>3. Queued'
    BY <2>1, QueueStays DEF WakesSleeper
  <2> QED BY <2>1, <2>2, <2>3 DEF WakesSleeper
<1>2. CASE FirstRun \/ Setup \/ MarkAsleep
  <2>1. /\ UNCHANGED <<loader, stop, missed, backlog, late, peer, stream, conn, recvd, buf,
                       touched>>
        /\ server' \in {"ended", "setup", "test", "asleep"}
    BY <1>2 DEF FirstRun, Setup, MarkAsleep
  <2>2. intact' \in BOOLEAN /\ listening' \in BOOLEAN
    BY <1>2 DEF FirstRun, Setup, MarkAsleep
  <2>3. Queued'
    BY <2>1, QueueStays
  <2> QED BY <2>1, <2>2, <2>3
<1>3. ASSUME ReleaseListener, UNCHANGED <<module, intact, threads>>, server' = "ended"
      PROVE  ServerTypeOK' /\ Queued'
  <2>1. <<>> \in Seq(Conns)
    OBVIOUS
  <2>2. peer' \in [Conns -> {"idle", "open", "closed", "reset"}]
        /\ \A c \in Conns : peer'[c] = "idle" => peer[c] = "idle"
    BY <1>3 DEF ReleaseListener
  <2>3. Queued'
    BY <1>3, <2>2, NothingQueued DEF ReleaseListener, Queued
  <2> QED BY <1>3, <2>1, <2>2, <2>3, NothingQueued DEF ReleaseListener
<1>4. CASE Test
  <2>1. CASE ReleaseListener /\ server' = "ended"
    BY <1>3, <1>4, <2>1 DEF Test
  <2>2. CASE /\ UNCHANGED <<socket, network>>
             /\ server' = IF backlog = <<>> THEN "mark" ELSE "accept"
    <3>1. Queued'
      BY <1>4, <2>2 DEF Test, Queued, Once, ToSet
    <3> QED BY <1>4, <2>2, <3>1 DEF Test
  <2> QED BY <1>4, <2>1, <2>2 DEF Test
<1>5. ASSUME server = "accept", Dequeue,
             UNCHANGED <<module, intact, listening, network, recvd, buf, touched>>,
             server' \in {"test", "ended"},
             \/ conn' = conn
             \/ conn' = [conn EXCEPT ![Head(backlog)] = "start"]
      PROVE  ServerTypeOK' /\ Queued'
  <2>1. /\ Head(backlog) \in Conns /\ Head(backlog) \in ToSet(backlog)
        /\ backlog' \in Seq(Conns) /\ Once(backlog)'
        /\ ToSet(backlog') = ToSet(backlog) \ {Head(backlog)}
    <3>1. backlog \in Seq(Conns) /\ Once(backlog) /\ backlog # <<>> /\ backlog' = Tail(backlog)
      BY <1>5 DEF Queued, Dequeue
    <3>2. /\ Head(backlog) \in Conns /\ Head(backlog) \in ToSet(backlog)
          /\ Tail(backlog) \in Seq(Conns) /\ Once(Tail(backlog))
          /\ ToSet(Tail(backlog)) = ToSet(backlog) \ {Head(backlog)}
      BY <3>1, QueueShrinks
    <3> QED BY <3>1, <3>2 DEF Once
  <2>2. late' \subseteq ToSet(backlog')
    BY <1>5, <2>1 DEF Dequeue
  <2>3. /\ conn' \in [Conns -> {"none", "start", "recv", "print", "ended"}]
        /\ \A c \in Conns : c # Head(backlog) => conn'[c] = conn[c]
    BY <1>5
  <2>4. \A c \in ToSet(backlog') : c \in Conns
    BY <2>1 DEF ToSet
  <2>5. \A c \in ToSet(backlog') : conn'[c] = "none"
    BY <2>1, <2>3, <2>4
  <2>6. Queued'
    BY <1>5, <2>1, <2>3 DEF Queued
  <2> QED BY <1>5, <2>1, <2>2, <2>3, <2>5, <2>6
<1>6. CASE Accept
  <2>1. CASE ReleaseListener /\ UNCHANGED threads /\ server' = "ended"
    BY <1>3, <1>6, <2>1 DEF Accept, AfterAccept
  <2>2. CASE UNCHANGED <<socket, network, threads>> /\ server' = "ended"
    <3>1. Queued'
      BY <2>2, QueueStays
    <3> QED BY <1>6, <2>2, <3>1 DEF Accept
  <2>3. CASE Dequeue /\ (Spawn \/ UNCHANGED threads) /\ UNCHANGED <<listening, network>>
    BY <1>5, <1>6, <2>3 DEF Accept, AfterAccept, Spawn
  <2> QED BY <1>6, <2>1, <2>2, <2>3 DEF Accept, AfterAccept
<1> QED BY <1>1, <1>2, <1>4, <1>6 DEF ServerThread

\* A connection's thread exists before it moves, and then it is not queued.
LEMMA ThreadTypes ==
  ASSUME ServerTypeOK, Queued, NEW c \in Conns, ConnectionThread(c)
  PROVE  ServerTypeOK' /\ Queued'
<1>1. UNCHANGED <<loader, stop, missed, server, listening, backlog, late>>
  BY DEF ConnectionThread, module, socket
<1>2. CASE RunsRemovedCode(c)
  <2>1. Queued'
    BY <1>1, <1>2, QueueStays DEF RunsRemovedCode, network, threads
  <2> QED BY <1>1, <1>2, <2>1 DEF RunsRemovedCode, network, threads, ServerTypeOK
<1>3. CASE ThreadStep(c)
  <2>1. /\ conn[c] # "none"
        /\ \E there \in {"recv", "print", "ended"} : conn' = [conn EXCEPT ![c] = there]
    BY <1>3 DEF ThreadStep, Starts, Receives, Prints, ReceivesError, ReceivesEnd,
       PrintsEnd, EndsAtZero, Goes
  <2>2. conn' \in [Conns -> {"none", "start", "recv", "print", "ended"}]
    BY <2>1 DEF ServerTypeOK
  <2>3. /\ peer' \in [Conns -> {"idle", "open", "closed", "reset"}]
        /\ \A d \in Conns : peer'[d] = "idle" => peer[d] = "idle"
    <3>1. peer' = peer \/ peer' = [peer EXCEPT ![c] = "closed"]
      BY <1>3 DEF ThreadStep, Starts, Receives, Prints, ReceivesError, ReceivesEnd,
         PrintsEnd, network
    <3> QED BY <3>1 DEF ServerTypeOK
  <2>4. \A d \in ToSet(backlog) : d \in Conns
    BY DEF ServerTypeOK, ToSet
  <2>5. Queued' /\ \A d \in ToSet(backlog') : conn'[d] = "none"
    BY <1>1, <2>1, <2>3, <2>4 DEF Queued, Once, ServerTypeOK
  <2>6. touched' \subseteq Conns
    BY <1>3 DEF ThreadStep, Starts, Receives, Prints, ReceivesError, ReceivesEnd,
       PrintsEnd, Memset, OthersAt, ServerTypeOK
  <2>7. intact' \in BOOLEAN
    BY <1>3 DEF ThreadStep, Prints, PrintsText, PrintsEnd, EndsAtZero, ServerTypeOK
  <2>8. buf' \in [Parts -> Conns \cup {Zero}]
    <3>1. \/ buf' = buf \/ buf' = Cleared
          \/ buf' = Filled(buf, c, Head(stream[c]))
      BY <1>3 DEF ThreadStep, Starts, Receives, Prints, ReceivesError, ReceivesEnd,
         PrintsEnd, Memset
    <3>2. buf \in [Parts -> Conns \cup {Zero}]
      BY DEF ServerTypeOK
    <3> QED BY <3>1, <3>2 DEF Cleared, Filled
  <2>9. /\ stream' \in [Conns -> Seq(Pieces)]
        /\ recvd' \in [Conns -> Pieces \cup {Nothing}]
    <3>1. CASE Receives(c)
      <4>1. PICK q : q = stream[c] /\ q \in Seq(Pieces) /\ q # <<>>
        <5>1. stream[c] \in Seq(Pieces) /\ stream[c] # <<>>
          BY <3>1 DEF Receives, ServerTypeOK
        <5> QED BY <5>1, Zenon
      <4>2. Head(q) \in Pieces /\ Tail(q) \in Seq(Pieces)
        BY <4>1
      <4>3. recvd' = [recvd EXCEPT ![c] = Head(q)] /\ stream' = [stream EXCEPT ![c] = Tail(q)]
        BY <3>1, <4>1 DEF Receives
      <4> QED BY <4>2, <4>3 DEF ServerTypeOK
    <3>2. CASE ~Receives(c)
      <4>1. stream' = stream /\ (recvd' = recvd \/ recvd' = [recvd EXCEPT ![c] = Nothing])
        BY <1>3, <3>2 DEF ThreadStep, Starts, Prints, ReceivesError, ReceivesEnd,
           PrintsEnd, network
      <4> QED BY <4>1 DEF ServerTypeOK
    <3> QED BY <3>1, <3>2
  <2> QED BY <1>1, <2>2, <2>3, <2>5, <2>6, <2>7, <2>8, <2>9 DEF ServerTypeOK
<1> QED BY <1>2, <1>3 DEF ConnectionThread

\* What the far ends do to a connection.
LEMMA PeerTypes ==
  ASSUME ServerTypeOK, Queued, NEW c \in Conns,
         \/ Hangup(c) \/ Reset(c)
         \/ \E pieces \in Seq(Pieces) : Deliver(c, pieces)
  PROVE  ServerTypeOK' /\ Queued'
<1>1. /\ UNCHANGED <<loader, stop, missed, server, intact, listening, backlog, late>>
      /\ UNCHANGED <<conn, recvd, buf, touched>>
  BY DEF Hangup, Reset, Deliver, module, socket, threads
<1>2. /\ peer' \in [Conns -> {"idle", "open", "closed", "reset"}]
      /\ \A d \in Conns : peer'[d] = "idle" => peer[d] = "idle"
  <2>1. \/ peer' = peer \/ peer' = [peer EXCEPT ![c] = "closed"]
        \/ peer' = [peer EXCEPT ![c] = "reset"]
    BY DEF Hangup, Reset, Deliver
  <2> QED BY <2>1 DEF ServerTypeOK
<1>3. stream' \in [Conns -> Seq(Pieces)]
  <2>1. CASE \E pieces \in Seq(Pieces) : Deliver(c, pieces)
    <3>1. PICK pieces \in Seq(Pieces) : Deliver(c, pieces)
      BY <2>1
    <3>2. stream[c] \o pieces \in Seq(Pieces)
      BY DEF ServerTypeOK
    <3>3. stream' = [stream EXCEPT ![c] = stream[c] \o pieces]
      BY <3>1 DEF Deliver
    <3> QED BY <3>2, <3>3 DEF ServerTypeOK
  <2>2. CASE Hangup(c) \/ Reset(c)
    <3>1. stream' = stream \/ stream' = [stream EXCEPT ![c] = <<>>]
      BY <2>2 DEF Hangup, Reset
    <3>2. <<>> \in Seq(Pieces)
      OBVIOUS
    <3> QED BY <3>1, <3>2 DEF ServerTypeOK
  <2> QED BY <2>1, <2>2
<1>4. Queued'
  BY <1>1, <1>2 DEF Queued, Once
<1> QED BY <1>1, <1>2, <1>3, <1>4 DEF ServerTypeOK

\* The client's message, whole or in two.
LEMMA MessageInPieces ==
  /\ <<Message>> \in Seq(Pieces)
  /\ \A n \in 1 .. BufLen - 1 :
       <<SubSeq(Message, 1, n), SubSeq(Message, n + 1, BufLen)>> \in Seq(Pieces)
<1>1. Message \in [1 .. BufLen -> Bytes] /\ BufLen \in Parts
  BY KtcpAssumption DEF Message, Parts, Bytes
<1>2. Message \in Pieces /\ Message \in Seq(Bytes) /\ Len(Message) = BufLen
  BY <1>1, KtcpAssumption DEF Pieces, Parts
<1>3. ASSUME NEW m \in Parts, NEW n \in m .. BufLen
      PROVE  SubSeq(Message, m, n) \in Pieces
  <2>1. n - m + 1 \in Parts
    BY KtcpAssumption DEF Parts
  <2>2. m \in 1 .. Len(Message) /\ n \in m .. Len(Message)
    BY <1>2 DEF Parts
  <2>3. /\ SubSeq(Message, m, n) \in Seq(Bytes)
        /\ Len(SubSeq(Message, m, n)) = n - m + 1
    BY <1>2, <2>2, SubSeqProperties DEF Parts
  <2>4. PICK x \in Seq(Bytes) : x = SubSeq(Message, m, n) /\ Len(x) = n - m + 1
    BY <2>3, Zenon
  <2>5. PICK k \in Parts : k = n - m + 1
    BY <2>1
  <2>6. x \in [1 .. k -> Bytes]
    BY <2>4, <2>5, LenProperties
  <2> QED BY <2>4, <2>5, <2>6 DEF Pieces
<1>4. ASSUME NEW n \in 1 .. BufLen - 1
      PROVE  SubSeq(Message, 1, n) \in Pieces /\ SubSeq(Message, n + 1, BufLen) \in Pieces
  <2>1. 1 \in Parts /\ n \in 1 .. BufLen /\ n + 1 \in Parts /\ BufLen \in n + 1 .. BufLen
    BY KtcpAssumption DEF Parts
  <2> QED BY <1>3, <2>1
<1> QED BY <1>2, <1>4

\* What the client's thread and module do.
LEMMA ClientTypes ==
  ASSUME TInv, ClientSide
  PROVE  TInv'
<1>0. Own \in Conns
  BY ClientAssumption
<1>1. /\ client_loader' \in {"out", "in", "exit", "gone"} /\ client_stop' \in BOOLEAN
      /\ client' \in {"none", "new", "create", "connect", "send", "test_stop",
                      "schedule", "asleep", "release", "ended"}
  <2>1. /\ client_loader' \in {client_loader, "in", "exit", "gone"}
        /\ client_stop' = client_stop \/ client_stop' = TRUE
    BY DEF ClientSide, ClientLoad, ClientExit, ClientJoined, ClientThread, ClientFirstRun,
       ClientCreate, ClientConnect, ClientSend, ClientTestStop, ClientYield, ClientRelease,
       ClientAt
  <2>2. client' \in {client, "new", "create", "connect", "send", "test_stop", "schedule",
                     "release", "ended"}
    BY DEF ClientSide, ClientLoad, ClientExit, ClientJoined, ClientThread, ClientFirstRun,
       ClientCreate, ClientConnect, ClientSend, ClientTestStop, ClientYield, ClientRelease,
       ClientAt, Schedule
  <2> QED BY <2>1, <2>2 DEF TInv, TypeOK
<1>2. \/ UNCHANGED server_side /\ intact' \in BOOLEAN
      \/ Enqueue(Own) \/ Hangup(Own)
      \/ \E pieces \in Seq(Pieces) : Deliver(Own, pieces)
  <2>1. CASE ClientSend
    BY <2>1, MessageInPieces DEF ClientSend, ktcp, server_side, TInv, TypeOK, ServerTypeOK
  <2>2. CASE ~ClientSend
    BY <2>2 DEF ClientSide, ClientLoad, ClientExit, ClientJoined, ClientThread, ClientFirstRun,
       ClientCreate, ClientConnect, ClientTestStop, ClientYield, ClientRelease,
       ktcp, server_side, TInv, TypeOK, ServerTypeOK
  <2> QED BY <2>1, <2>2
<1>3. ServerTypeOK' /\ Queued'
  <2>1. CASE UNCHANGED server_side /\ intact' \in BOOLEAN
    BY <2>1 DEF server_side, module, socket, network, threads, TInv, TypeOK, ServerTypeOK,
       Queued, Once
  <2> QED BY <1>0, <1>2, <2>1, EnqueueKeeps, PeerTypes DEF TInv, TypeOK
<1> QED BY <1>1, <1>3 DEF TInv, TypeOK

\* Every step keeps the types.
LEMMA StepKeepsTypes == TInv /\ [Next]_vars => TInv'
<1> SUFFICES ASSUME TInv, [Next]_vars PROVE TInv'
  OBVIOUS
<1>1. CASE UNCHANGED vars
  BY <1>1 DEF vars, ktcp, module, socket, network, threads, client_vars, TInv, TypeOK,
     ServerTypeOK, Queued, Once
<1>2. CASE ClientSide
  BY <1>2, ClientTypes
<1>3. CASE ServerSide
  <2>1. ServerTypeOK' /\ Queued'
    BY <1>3, ListenerTypes, ThreadTypes DEF ServerSide, TInv, TypeOK
  <2> QED BY <1>3, <2>1 DEF ServerSide, client_vars, TInv, TypeOK
<1>4. CASE Peers
  <2>1. \A piece \in OtherPieces : <<piece>> \in Seq(Pieces)
    BY KtcpAssumption DEF Pieces
  <2>2. ServerTypeOK' /\ Queued'
    BY <1>4, <2>1, EnqueueKeeps, PeerTypes DEF Peers, OtherPeer, TInv, TypeOK
  <2> QED BY <1>4, <2>2 DEF Peers, client_vars, TInv, TypeOK
<1> QED BY <1>1, <1>2, <1>3, <1>4 DEF Next

\* The queue is in order and everything has its type.
LEMMA TypeInvariant == Spec => []TInv
<1> QED BY TInitIsGood, StepKeepsTypes, PTL DEF Spec

(* What tcp_server.c and tcp_client.c keep has its type.  No connection    *)
(* that waits in the accept queue has a thread already (tcp_server.c lines *)
(* 185 to 226).                                                            *)
THEOREM TypeCorrect == Spec => []TypeOK
<1>1. TInv => TypeOK
  BY DEF TInv
<1> QED BY <1>1, TypeInvariant, PTL
-----------------------------------------------------------------------------
(* While no other thread has filled the buffer since it was cleared, it is *)
(* clear when a thread is to receive, and while none has used it since     *)
(* then it is the piece when the thread prints.                            *)
Undisturbed(c) ==
  /\ conn[c] # "print" => recvd[c] = Nothing
  /\ c \notin touched =>
       /\ conn[c] = "recv" => buf = Cleared
       /\ conn[c] = "print" => buf = Filled(Cleared, c, recvd[c])

Domains == DOMAIN conn = Conns /\ DOMAIN recvd = Conns

IInv == Domains /\ \A c \in Conns : Undisturbed(c)

\* No connection has a thread.
LEMMA InitIsGood == Init => IInv
  BY DEF Init, ServerInit, IInv, Domains, Undisturbed

\* Steps that leave the threads and the buffer alone.
LEMMA StutterKeeps == IInv /\ UNCHANGED threads => IInv'
  BY DEF IInv, Domains, Undisturbed, threads

(* Clearing the buffer disturbs those who are to print, who are recorded.  *)
LEMMA ClearingKeeps ==
  ASSUME IInv, NEW c \in Conns, NEW from, Memset(c), Goes(c, from, "recv"),
         recvd' \in {recvd, [recvd EXCEPT ![c] = Nothing]},
         recvd'[c] = Nothing
  PROVE  IInv'
<1>1. Domains'
  BY DEF Goes, IInv, Domains
<1>2. ASSUME NEW d \in Conns PROVE Undisturbed(d)'
  <2>1. CASE d = c
    <3>1. conn'[d] = "recv" BY <2>1 DEF Goes, IInv, Domains
    <3> QED BY <2>1, <3>1 DEF Undisturbed, Memset
  <2>2. CASE d # c
    <3>1. conn'[d] = conn[d] /\ recvd'[d] = recvd[d]
      BY <2>2 DEF Goes, IInv, Domains
    <3> QED BY <2>2, <3>1 DEF Undisturbed, Memset, OthersAt, IInv
  <2> QED BY <2>1, <2>2
<1> QED BY <1>1, <1>2 DEF IInv

(* A piece that comes into a clear buffer is its text. *)
LEMMA ReceivingKeeps ==
  ASSUME IInv, NEW c \in Conns, Receives(c)
  PROVE  IInv'
<1>1. Domains'
  BY DEF Receives, Goes, IInv, Domains
<1>2. ASSUME NEW d \in Conns PROVE Undisturbed(d)'
  <2>1. CASE d = c
    <3> SUFFICES ASSUME c \notin touched'
                 PROVE  buf' = Filled(Cleared, c, recvd'[c])
      BY <2>1 DEF Undisturbed, Receives, Goes, IInv, Domains
    <3>1. buf = Cleared
      BY DEF Receives, Goes, IInv, Undisturbed
    <3>2. recvd'[c] = Head(stream[c])
      BY DEF Receives, IInv, Domains
    <3> QED BY <3>1, <3>2 DEF Receives
  <2>2. CASE d # c
    <3>1. conn'[d] = conn[d] /\ recvd'[d] = recvd[d]
      BY <2>2 DEF Receives, Goes, IInv, Domains
    <3> QED BY <2>2, <3>1 DEF Undisturbed, Receives, OthersAt, IInv
  <2> QED BY <2>1, <2>2
<1> QED BY <1>1, <1>2 DEF IInv

\* A step of a connection's thread.
LEMMA ThreadKeeps ==
  ASSUME IInv, NEW c \in Conns, ConnectionThread(c)
  PROVE  IInv'
<1>1. CASE RunsRemovedCode(c)
  BY <1>1, StutterKeeps DEF RunsRemovedCode
<1>2. CASE Starts(c)
  <2>1. recvd'[c] = Nothing
    BY <1>2 DEF Starts, Goes, IInv, Undisturbed
  <2> QED BY <1>2, <2>1, ClearingKeeps DEF Starts
<1>3. CASE Receives(c)
  BY <1>3, ReceivingKeeps
<1>4. CASE Prints(c)
  BY <1>4, ClearingKeeps DEF Prints, IInv, Domains
<1>5. CASE ReceivesError(c)
  <2>1. recvd'[c] = Nothing
    BY <1>5 DEF ReceivesError, Goes, IInv, Undisturbed
  <2> QED BY <1>5, <2>1, ClearingKeeps DEF ReceivesError
<1>6. CASE ReceivesEnd(c)
  <2>1. /\ conn[c] = "recv" /\ conn' = [conn EXCEPT ![c] = "print"]
        /\ UNCHANGED <<recvd, buf, touched>>
    BY <1>6 DEF ReceivesEnd, Goes
  <2>2. Filled(Cleared, c, Nothing) = Cleared
    BY DEF Filled, Cleared, Nothing
  <2> QED BY <2>1, <2>2 DEF IInv, Domains, Undisturbed
<1>7. CASE PrintsEnd(c)
  <2>1. /\ recvd[c] = Nothing /\ conn' = [conn EXCEPT ![c] = "ended"]
        /\ UNCHANGED <<recvd, buf, touched>>
    BY <1>7 DEF PrintsEnd, EndsAtZero, Goes
  <2> QED BY <2>1 DEF IInv, Domains, Undisturbed
<1> QED BY <1>1, <1>2, <1>3, <1>4, <1>5, <1>6, <1>7 DEF ConnectionThread, ThreadStep

(* Only an accepted connection gets a thread, and it had none. *)
LEMMA ListenerKeeps ==
  ASSUME IInv, TInv, ServerThread
  PROVE  IInv'
<1>1. CASE Accept
  <2>1. CASE Spawn
    <3>1. backlog \in Seq(Conns) /\ Once(backlog) /\ backlog # <<>>
      BY <1>1, <2>1 DEF Accept, At, TInv, TypeOK, ServerTypeOK, Queued
    <3>2. PICK c \in Conns : c = Head(backlog) /\ c \in ToSet(backlog)
      BY <3>1, QueueShrinks
    <3>3. conn[c] = "none"
      BY <3>2 DEF TInv, TypeOK, ServerTypeOK
    <3> QED BY <2>1, <3>2, <3>3 DEF Spawn, IInv, Domains, Undisturbed
  <2>2. CASE UNCHANGED threads
    BY <2>2, StutterKeeps
  <2> QED BY <1>1, <2>1, <2>2 DEF Accept
<1>2. CASE FirstRun \/ Setup \/ Test \/ MarkAsleep
  BY <1>2, StutterKeeps DEF FirstRun, Setup, Test, MarkAsleep
<1> QED BY <1>1, <1>2 DEF ServerThread

\* The rest has no part in the buffer.
LEMMA OthersKeep ==
  ASSUME IInv, Peers \/ ClientSide \/ InitModule \/ ExitModule \/ Joined
  PROVE  IInv'
<1>1. CASE Peers
  BY <1>1, StutterKeeps DEF Peers, OtherPeer, Enqueue, Deliver, Hangup, Reset
<1>2. CASE ClientSide
  BY <1>2, StutterKeeps DEF ClientSide, ClientLoad, ClientExit, ClientJoined,
     ClientThread, ClientFirstRun, ClientCreate, ClientConnect, ClientSend,
     ClientTestStop, ClientYield, ClientRelease, Enqueue, Deliver, Hangup,
     ktcp, server_side
<1>3. CASE InitModule \/ ExitModule \/ Joined
  BY <1>3, StutterKeeps DEF InitModule, ExitModule, Joined
<1> QED BY <1>1, <1>2, <1>3

\* No step breaks the invariant.
LEMMA StepKeeps == IInv /\ TInv /\ [Next]_vars => IInv'
<1> SUFFICES ASSUME IInv, TInv, [Next]_vars PROVE IInv'
  OBVIOUS
<1>1. CASE UNCHANGED vars
  BY <1>1, StutterKeeps DEF vars, ktcp
<1>2. CASE ServerSide
  BY <1>2, ListenerKeeps, ThreadKeeps, OthersKeep DEF ServerSide
<1>3. CASE ClientSide \/ Peers
  BY <1>3, OthersKeep
<1> QED BY <1>1, <1>2, <1>3 DEF Next

\* The buffer keeps what its threads have received.
LEMMA BufferInvariant == Spec => []IInv
<1> QED BY InitIsGood, StepKeeps, TypeInvariant, PTL DEF Spec

(* The buffer that all connection threads of tcp_server.c share (lines 106 *)
(* to 128) gives, when one prints, the text it received and nothing else,  *)
(* and is overrun just when the piece filled it with text, as long as no   *)
(* other thread received since it was cleared, or used it since.           *)
THEOREM PrintsWhatCameHolds == Spec => []PrintsWhatCame
<1>1. TypeOK /\ IInv => PrintsWhatCame
  <2> SUFFICES ASSUME TypeOK, IInv, NEW c \in Conns, conn[c] = "print", c \notin touched
               PROVE  /\ Printed = Text(recvd[c])
                      /\ \A i \in Printed : buf[i] = c
                      /\ Overruns <=> Text(recvd[c]) = Parts
    BY DEF PrintsWhatCame
  <2>1. PICK p \in Pieces \cup {Nothing} : p = recvd[c]
    BY DEF TypeOK, ServerTypeOK
  <2>2. DOMAIN p \subseteq Parts /\ \A i \in DOMAIN p : 1 .. i \subseteq DOMAIN p
    BY <2>1, KtcpAssumption DEF Pieces, Nothing, Parts
  <2>3. buf = Filled(Cleared, c, p) /\ c # Zero
    BY <2>1, KtcpAssumption DEF IInv, Undisturbed
  <2>4. \A i \in Parts : /\ buf[i] # Zero <=> i \in DOMAIN p /\ p[i] = "text"
                         /\ buf[i] # Zero => buf[i] = c
    BY <2>3 DEF Filled, Cleared
  <2>5. \A i \in Parts : i \in 1 .. i /\ 1 .. i \subseteq Parts
    BY KtcpAssumption DEF Parts
  <2>6. Printed = Text(p)
    BY <2>2, <2>4, <2>5 DEF Printed, Text
  <2>7. \A i \in Printed : buf[i] = c
    BY <2>4, <2>5 DEF Printed
  <2>8. Overruns <=> Printed = Parts
    BY <2>5 DEF Overruns, Printed
  <2> QED BY <2>1, <2>6, <2>7, <2>8
<1> QED BY <1>1, TypeCorrect, BufferInvariant, PTL
=============================================================================
