---------------------------- MODULE UDPRelayProofs ----------------------------
(***************************************************************************)
(* Proofs about the UDP relay, for every number of packets, backends and   *)
(* lines, every MTU and every capacity of the queue.                       *)
(***************************************************************************)
EXTENDS UDPRelay, Accumulation, SequenceTheorems, TLAPS

(***************************************************************************)
(* The inductive invariant.                                                *)
(***************************************************************************)
One(P) == IF P THEN 1 ELSE 0

\* Run() has the last packet that arrived in its array, then in a buffer of its own.
Reading ==
    /\ reader \in {"copy", "enqueue"} => Len(arrived) > 0
    /\ reader = "copy" => buf = Data(arrived[Len(arrived)])
    /\ IF reader = "enqueue"
       THEN data \in Buffers /\ content[data] = Data(arrived[Len(arrived)])
       ELSE data = Unused

\* The worker has a packet to parse, then the lines of one to write.
Posting ==
    /\ IF worker = "parse"
       THEN wdata \in Buffers /\ \E p \in Packets : content[wdata] = Data(p)
       ELSE wdata = Unused
    /\ IF worker = "post"
       THEN wout \in Buffers /\ \E p \in Packets : content[wout] = Printed(p)
       ELSE wout = Unused

\* No buffer is in two hands: in the pool, in the queue or with a goroutine.
Apart ==
    /\ \A i \in 1..Len(queue) : queue[i] \notin pool \cup {data, wdata, wout}
    /\ \A i, j \in 1..Len(queue) : queue[i] = queue[j] => i = j
    /\ data \notin pool /\ wdata \notin pool /\ wout \notin pool
    /\ data # Unused => data # wdata /\ data # wout

\* The WaitGroup counts the packets that are queued, or in the hands of Run() or
\* of the worker.
Counting ==
    /\ wg = Len(queue) + One(reader = "enqueue") + One(worker \in {"parse", "post", "done"})
    /\ reader = "returned" => wg = 0

\* Stop() sets `closing' before it closes the socket.
Stopping == ~open => closing = 1

IInv ==
    /\ TypeOK /\ Reading /\ Posting /\ Apart /\ Counting /\ Stopping
    /\ QueuedInArrivalOrder /\ StopIsNoError /\ DatagramsFit

-----------------------------------------------------------------------------
(***************************************************************************)
(* Numbers and sums.                                                       *)
(***************************************************************************)
\* Max is the greatest element of a set of natural numbers that has a bound.
LEMMA MaxOfNats ==
    ASSUME NEW S \in SUBSET Nat, S # {}, NEW n \in Nat, \A s \in S : s <= n
    PROVE  Max(S) \in S /\ \A s \in S : s <= Max(S)
<1> DEFINE U == {u \in Nat : \A s \in S : s <= u}
<1>1. PICK x \in U : \A y \in U : x <= y
  <2>1. n \in U OBVIOUS
  <2>2. U \in SUBSET Nat /\ U # {} BY <2>1
  <2> HIDE DEF U
  <2>3. QED BY <2>2, LeastNat
<1>2. x \in Nat /\ \A s \in S : s <= x /\ s \in Nat OBVIOUS
<1>3. PICK s0 \in S : TRUE OBVIOUS
<1>4. x \in S
  <2> SUFFICES ASSUME x \notin S PROVE FALSE OBVIOUS
  <2>1. \A s \in S : s <= x - 1 BY <1>2
  <2>2. x - 1 \in Nat BY <2>1, <1>2, <1>3
  <2>3. x - 1 \in U BY <2>1, <2>2
  <2>4. QED BY <1>1, <1>2, <2>3
<1>5. \E m \in S : \A s \in S : m >= s BY <1>2, <1>4
<1>6. QED BY <1>5, <1>2 DEF Max

\* No lines have no bytes.
LEMMA NoBytes == ASSUME NEW lines PROVE Bytes(lines, 0) = 0
<1> DEFINE f == [i \in 1..0 |-> SizeOf(lines[i])]
<1>1. DOMAIN f = {} OBVIOUS
<1> HIDE DEF f
<1>2. SumFunction(f) = 0
  BY <1>1 DEF SumFunction, SumFunctionOnSet, FoldFunctionOnSet, MapThenFoldSet
<1>3. QED BY <1>2 DEF f, Bytes

\* The first lines of some have the bytes they had before.
LEMMA BytesOfPrefix ==
    ASSUME NEW S, NEW lines \in Seq(S), NEW n \in 0..Len(lines)
    PROVE  /\ Len(SubSeq(lines, 1, n)) = n
           /\ Bytes(SubSeq(lines, 1, n), n) = Bytes(lines, n)
<1> DEFINE d == SubSeq(lines, 1, n)
<1>1. n \in Int /\ 1 \in Int /\ Len(lines) \in Nat BY LenProperties
<1>2. \A i \in 1..n : lines[i] \in S BY <1>1, ElementOfSeq
<1>3. /\ Len(d) = IF 1 <= n THEN n - 1 + 1 ELSE 0
      /\ \A i \in 1..n - 1 + 1 : d[i] = lines[1 + i - 1]
  BY <1>1, <1>2, SubSeqProperties
<1> HIDE DEF d
<1>4. \A i \in 1..n : d[i] = lines[i] BY <1>1, <1>3
<1>5. [i \in 1..n |-> SizeOf(d[i])] = [i \in 1..n |-> SizeOf(lines[i])] BY <1>4
<1>6. Bytes(d, n) = Bytes(lines, n) BY <1>5 DEF Bytes
<1>7. QED BY <1>1, <1>3, <1>6 DEF d

\* post() cuts off whole lines, and no more of them than the MTU allows.
LEMMA FittingFacts ==
    ASSUME NEW S, NEW lines \in Seq(S), NEW mtu \in Nat
    PROVE  /\ Fitting(lines, mtu) \in 0..Len(lines)
           /\ Bytes(lines, Fitting(lines, mtu)) <= mtu
           /\ \A k \in 0..Len(lines) : Bytes(lines, k) <= mtu => k <= Fitting(lines, mtu)
<1> DEFINE K == {k \in 0..Len(lines) : Bytes(lines, k) <= mtu}
<1>1. Len(lines) \in Nat BY LenProperties
<1>2. 0 \in K BY <1>1, NoBytes
<1>3. K \in SUBSET Nat /\ K # {} /\ \A k \in K : k <= Len(lines) BY <1>1, <1>2
<1>4. \A k : k \in K <=> k \in 0..Len(lines) /\ Bytes(lines, k) <= mtu OBVIOUS
<1> HIDE DEF K
<1>5. Max(K) \in K /\ \A k \in K : k <= Max(K) BY <1>1, <1>3, MaxOfNats
<1>6. Fitting(lines, mtu) = Max(K) BY DEF Fitting, K
<1>7. QED BY <1>4, <1>5, <1>6

\* The lines printed for a packet.
LEMMA LinesType == ASSUME NEW p \in Packets PROVE LinesOf(p) \in Seq(AnyLine)
<1>1. LineSizes[p] \in Seq(Nat) BY UDPAssumption
<1>2. Len(LineSizes[p]) \in Nat BY <1>1, LenProperties
<1>3. \A n \in 1..Len(LineSizes[p]) : Line(p, n) \in AnyLine BY DEF AnyLine
<1>4. QED BY <1>2, <1>3, IsASeq DEF LinesOf

-----------------------------------------------------------------------------
(***************************************************************************)
(* Buffers.                                                                *)
(***************************************************************************)
\* A buffer that udpPool hands out is in nobody's hands.
LEMMA GettableFacts ==
    ASSUME IInv
    PROVE  /\ Unused \notin Buffers /\ Gettable \subseteq Buffers
           /\ \A i \in Gettable :
                 /\ i # data /\ i # wdata /\ i # wout
                 /\ \A j \in 1..Len(queue) : i # queue[j]
<1>1. MaxBuffers \in Nat BY UDPAssumption
<1>2. Unused \notin Buffers BY <1>1 DEF Unused, Buffers
<1>3. pool \subseteq Buffers BY DEF IInv, TypeOK
<1>4. \A i \in Gettable : i \in Buffers /\ (i \in pool \/ i \notin InUse)
  BY <1>3 DEF Gettable
<1>5. ASSUME NEW i \in Gettable
      PROVE  /\ i # data /\ i # wdata /\ i # wout
             /\ \A j \in 1..Len(queue) : i # queue[j]
  <2>1. CASE i \in pool BY <2>1 DEF IInv, Apart
  <2>2. CASE i \notin InUse BY <2>2 DEF InUse
  <2>3. QED BY <1>4, <2>1, <2>2
<1>6. QED BY <1>2, <1>4, <1>5

\* The queue.
LEMMA QueueFacts ==
    ASSUME TypeOK
    PROVE  /\ Len(queue) \in Nat /\ Len(arrived) \in Nat
           /\ \A i \in 1..Len(queue) : queue[i] \in Buffers
           /\ \A b \in Buffers : /\ Append(queue, b) \in Seq(Buffers)
                                 /\ Len(Append(queue, b)) = Len(queue) + 1
                                 /\ Append(queue, b)[Len(queue) + 1] = b
                                 /\ \A i \in 1..Len(queue) : Append(queue, b)[i] = queue[i]
           /\ queue # <<>> => /\ Len(queue) > 0 /\ Head(queue) = queue[1]
                              /\ Head(queue) \in Buffers
                              /\ Tail(queue) \in Seq(Buffers)
                              /\ Len(Tail(queue)) = Len(queue) - 1
                              /\ \A i \in 1..Len(queue) - 1 : Tail(queue)[i] = queue[i + 1]
<1>1. queue \in Seq(Buffers) /\ arrived \in Seq(Packets) BY DEF TypeOK
<1>2. Len(queue) \in Nat /\ Len(arrived) \in Nat BY <1>1, LenProperties
<1>3. \A i \in 1..Len(queue) : queue[i] \in Buffers BY <1>1, ElementOfSeq
<1>4. ASSUME NEW b \in Buffers
      PROVE  /\ Append(queue, b) \in Seq(Buffers)
             /\ Len(Append(queue, b)) = Len(queue) + 1
             /\ Append(queue, b)[Len(queue) + 1] = b
             /\ \A i \in 1..Len(queue) : Append(queue, b)[i] = queue[i]
  BY <1>1, AppendProperties
<1>5. ASSUME queue # <<>>
      PROVE  /\ Len(queue) > 0 /\ Head(queue) = queue[1] /\ Head(queue) \in Buffers
             /\ Tail(queue) \in Seq(Buffers) /\ Len(Tail(queue)) = Len(queue) - 1
             /\ \A i \in 1..Len(queue) - 1 : Tail(queue)[i] = queue[i + 1]
  <2>1. /\ Head(queue) \in Buffers /\ Tail(queue) \in Seq(Buffers)
        /\ Len(Tail(queue)) = Len(queue) - 1
        /\ \A i \in 1..Len(Tail(queue)) : Tail(queue)[i] = queue[i + 1]
    BY <1>1, <1>5, HeadTailProperties
  <2>2. Len(queue) > 0 BY <1>1, <1>5, EmptySeq
  <2>3. Head(queue) = queue[1] OBVIOUS
  <2>4. QED BY <2>1, <2>2, <2>3
<1>6. QED BY <1>2, <1>3, <1>4, <1>5

-----------------------------------------------------------------------------
(***************************************************************************)
(* The initial states.                                                     *)
(***************************************************************************)
\* The invariant holds when Run() begins.
LEMMA Initially == Init => IInv
<1> SUFFICES ASSUME Init PROVE IInv OBVIOUS
<1>1. Len(queue) = 0 /\ Len(arrived) = 0 /\ 1..0 = {} BY EmptySeq DEF Init
<1>2. TypeOK
  <2>1. NumBackends \in Nat /\ 1 \in 1..NumBackends + 1 BY UDPAssumption
  <2>2. /\ <<>> \in Seq(Packets) /\ <<>> \in Seq(Buffers) /\ <<>> \in Seq(AnyLine)
        /\ <<>> \in Seq(Seq(AnyLine))
    BY EmptySeq
  <2>3. NoPacket \in Contents /\ Unused \in Slots BY DEF Contents, Slots
  <2>4. sent \in [Backends -> Seq(Seq(AnyLine))] /\ lost \in [Backends -> SUBSET Packets]
    BY <2>2 DEF Init
  <2>5. content \in [Buffers -> Contents] BY <2>3 DEF Init
  <2>6. wg \in Nat /\ to \in 1..NumBackends + 1 /\ closing \in 0..1 BY <2>1 DEF Init
  <2>7. QED BY <2>2, <2>3, <2>4, <2>5, <2>6 DEF TypeOK, Init
<1>3. Reading BY DEF Reading, Init
<1>4. Posting BY DEF Posting, Init
<1>5. Apart BY <1>1 DEF Apart, Init
<1>6. Counting BY <1>1 DEF Counting, One, Init
<1>7. Stopping /\ StopIsNoError BY DEF Stopping, StopIsNoError, Init
<1>8. QueuedInArrivalOrder BY <1>1 DEF QueuedInArrivalOrder, Init
<1>9. DatagramsFit
  <2>1. \A b \in Backends : Len(sent[b]) = 0 BY EmptySeq DEF Init
  <2>2. QED BY <1>1, <2>1 DEF DatagramsFit
<1>10. QED BY <1>2, <1>3, <1>4, <1>5, <1>6, <1>7, <1>8, <1>9 DEF IInv

-----------------------------------------------------------------------------
(***************************************************************************)
(* The steps.                                                              *)
(***************************************************************************)
\* The steps of Run() and Stop() keep the types.
LEMMA RunTypes ==
    ASSUME IInv,
           \/ \E p \in Packets : Read(p)
           \/ Running \/ ReadFails \/ StoreClosing \/ CloseSocket
    PROVE  TypeOK'
<1>t. TypeOK BY DEF IInv
<1> USE DEF readerVars, queueVars, workerVars, poolVars, stopVars, endVars
<1>1. ASSUME NEW p \in Packets, Read(p) PROVE TypeOK'
  <2>1. buf' \in Contents BY <1>1 DEF Read, Contents
  <2>2. arrived' \in Seq(Packets) BY <1>1, <1>t, AppendProperties DEF TypeOK, Read
  <2>3. QED BY <1>1, <1>t, <2>1, <2>2 DEF TypeOK, Read
<1>2. CASE Copy
  <2>1. PICK i \in Gettable : /\ data' = i /\ pool' = pool \ {i}
                              /\ content' = [content EXCEPT ![i] = buf]
    BY <1>2 DEF Copy
  <2>2. i \in Buffers BY GettableFacts
  <2>3. content' \in [Buffers -> Contents] /\ data' \in Slots /\ pool' \subseteq Buffers
    BY <1>t, <2>1, <2>2 DEF TypeOK, Slots
  <2>4. wg' \in Nat BY <1>2, <1>t DEF TypeOK, Copy
  <2>5. QED BY <1>2, <1>t, <2>3, <2>4 DEF TypeOK, Copy
<1>3. CASE Enqueue
  <2>1. data \in Buffers BY <1>3 DEF Enqueue, IInv, Reading
  <2>2. queue' \in Seq(Buffers) BY <1>3, <1>t, <2>1, QueueFacts DEF Enqueue
  <2>3. data' \in Slots BY <1>3 DEF Enqueue, Slots
  <2>4. QED BY <1>3, <1>t, <2>2, <2>3 DEF TypeOK, Enqueue
<1>4. CASE ReadClosed \/ ReadFails
  <2>1. runErr' \in BOOLEAN /\ fault' \in BOOLEAN
    BY <1>4, <1>t DEF TypeOK, ReadClosed, ReadFails, EndOfReading
  <2>2. QED BY <1>4, <1>t, <2>1 DEF TypeOK, ReadClosed, ReadFails, EndOfReading
<1>5. CASE Return BY <1>5, <1>t DEF TypeOK, Return
<1>6. CASE StoreClosing BY <1>6, <1>t DEF TypeOK, StoreClosing
<1>7. CASE CloseSocket BY <1>7, <1>t DEF TypeOK, CloseSocket
<1>8. QED BY <1>1, <1>2, <1>3, <1>4, <1>5, <1>6, <1>7 DEF Running

\* The steps of the worker keep the types.
LEMMA WorkerTypes == ASSUME IInv, Working PROVE TypeOK'
<1>t. TypeOK BY DEF IInv
<1>b. NumBackends \in Nat BY UDPAssumption
<1>n. NoPacket \in Contents /\ Unused \in Slots BY DEF Contents, Slots
<1> USE DEF readerVars, queueVars, workerVars, poolVars, stopVars, endVars
<1>1. CASE Receive
  <2>1. wdata' \in Slots /\ queue' \in Seq(Buffers)
    BY <1>1, <1>t, QueueFacts DEF Receive, Slots
  <2>2. QED BY <1>1, <1>t, <2>1 DEF TypeOK, Receive
<1>2. CASE Drop
  <2>1. wdata \in Buffers BY <1>2 DEF Drop, IInv, Posting
  <2>2. content' \in [Buffers -> Contents] /\ pool' \subseteq Buffers
    BY <1>2, <1>t, <1>n, <2>1 DEF TypeOK, Drop, Put
  <2>3. QED BY <1>2, <1>t, <1>n, <2>2 DEF TypeOK, Drop
<1>3. CASE Encode
  <2>1. wdata \in Buffers BY <1>3 DEF Encode, IInv, Posting
  <2>2. PICK p \in Packets : content[wdata] = Data(p) BY <1>3 DEF Encode, IInv, Posting
  <2>3. content[wdata].of = p BY <2>2 DEF Data
  <2>4. PICK i \in Gettable :
           /\ wout' = i /\ pool' = (pool \ {i}) \cup {wdata}
           /\ content' = [content EXCEPT ![i] = Printed(p), ![wdata] = NoPacket]
           /\ rest' = LinesOf(p)
    BY <1>3, <2>3 DEF Encode
  <2>5. i \in Buffers BY GettableFacts
  <2>6. Printed(p) \in Contents BY DEF Contents
  <2>7. content' \in [Buffers -> Contents] /\ pool' \subseteq Buffers /\ wout' \in Slots
    BY <1>t, <1>n, <2>1, <2>4, <2>5, <2>6 DEF TypeOK, Slots
  <2>8. rest' \in Seq(AnyLine) BY <2>4, LinesType
  <2>9. to' \in 1..NumBackends + 1 BY <1>3, <1>b DEF Encode
  <2>10. QED BY <1>3, <1>t, <1>n, <2>7, <2>8, <2>9 DEF TypeOK, Encode
<1>4. CASE GiveUpLines \/ WriteFails
  <2>0. worker = "post" /\ to \in Backends /\ NextBackend
    BY <1>4 DEF GiveUpLines, WriteFails
  <2>1. PICK p \in Packets : content[wout] = Printed(p) BY <2>0 DEF IInv, Posting
  <2>2. content[wout].of = p BY <2>1 DEF Printed
  <2>3. rest' \in Seq(AnyLine) BY <2>0, <2>2, LinesType DEF NextBackend
  <2>4. to' \in 1..NumBackends + 1 BY <2>0, <1>b DEF NextBackend, Backends
  <2>5. CASE GiveUpLines BY <1>t, <2>3, <2>4, <2>5 DEF TypeOK, GiveUpLines
  <2>6. CASE WriteFails
    <3>1. lost' \in [Backends -> SUBSET Packets]
      BY <1>t, <2>0, <2>2, <2>6 DEF TypeOK, WriteFails
    <3>2. QED BY <1>t, <2>3, <2>4, <2>6, <3>1 DEF TypeOK, WriteFails
  <2>7. QED BY <1>4, <2>5, <2>6
<1>5. CASE WriteDatagram
  <2>1. PICK p \in Packets : content[wout] = Printed(p) BY <1>5 DEF WriteDatagram, IInv, Posting
  <2>2. content[wout].of = p BY <2>1 DEF Printed
  <2>3. to \in Backends /\ MTU[to] \in Nat BY <1>5, UDPAssumption DEF WriteDatagram
  <2> DEFINE n == Fitting(rest, MTU[to])
  <2>4. rest \in Seq(AnyLine) BY <1>t DEF TypeOK
  <2>5. n \in 0..Len(rest) /\ Len(rest) \in Nat BY <2>3, <2>4, FittingFacts, LenProperties
  <2>6. /\ sent' = [sent EXCEPT ![to] = Append(@, SubSeq(rest, 1, n))]
        /\ IF n < Len(rest)
           THEN rest' = LinesLeft(rest, n) /\ UNCHANGED <<to, lost>>
           ELSE UNCHANGED lost /\ NextBackend
    BY <1>5 DEF WriteDatagram
  <2> HIDE DEF n
  <2>7. \A i \in 1..Len(rest) : rest[i] \in AnyLine BY <2>4, ElementOfSeq
  <2>8. SubSeq(rest, 1, n) \in Seq(AnyLine)
    <3>1. \A i \in 1..n : rest[i] \in AnyLine BY <2>5, <2>7
    <3>2. n \in Int BY <2>5
    <3>3. QED BY <3>1, <3>2, SubSeqProperties
  <2>9. SubSeq(rest, n + 1, Len(rest)) \in Seq(AnyLine)
    <3>1. \A i \in (n + 1)..Len(rest) : rest[i] \in AnyLine BY <2>5, <2>7
    <3>2. n + 1 \in Int /\ Len(rest) \in Int BY <2>5
    <3>3. QED BY <3>1, <3>2, SubSeqProperties
  <2>10. sent' \in [Backends -> Seq(Seq(AnyLine))]
    <3>1. sent[to] \in Seq(Seq(AnyLine)) BY <1>t, <2>3 DEF TypeOK
    <3>2. Append(sent[to], SubSeq(rest, 1, n)) \in Seq(Seq(AnyLine))
      BY <2>8, <3>1, AppendProperties
    <3>3. QED BY <1>t, <2>6, <3>2 DEF TypeOK
  <2>11. rest' \in Seq(AnyLine)
    BY <2>2, <2>6, <2>9, LinesType DEF LinesLeft, NextBackend
  <2>12. to' \in 1..NumBackends + 1
    BY <1>t, <1>b, <2>3, <2>6 DEF TypeOK, NextBackend, Backends
  <2>13. UNCHANGED lost BY <2>6
  <2>14. QED BY <1>t, <1>5, <2>10, <2>11, <2>12, <2>13 DEF TypeOK, WriteDatagram
<1>6. CASE PutOut
  <2>1. wout \in Buffers BY <1>6 DEF PutOut, IInv, Posting
  <2>2. content' \in [Buffers -> Contents] /\ pool' \subseteq Buffers
    BY <1>6, <1>t, <1>n, <2>1 DEF TypeOK, PutOut, Put
  <2>3. rest' \in Seq(AnyLine) BY <1>6, EmptySeq DEF PutOut
  <2>4. QED BY <1>6, <1>t, <1>n, <2>2, <2>3 DEF TypeOK, PutOut
<1>7. CASE Done
  <2>1. wg' \in Nat
    <3>1. wg = Len(queue) + One(reader = "enqueue") + 1 BY <1>7 DEF Done, IInv, Counting, One
    <3>2. Len(queue) \in Nat BY <1>t, QueueFacts
    <3>3. QED BY <1>7, <3>1, <3>2 DEF Done, One
  <2>2. QED BY <1>7, <1>t, <2>1 DEF TypeOK, Done
<1>8. CASE WorkerEnds BY <1>8, <1>t DEF TypeOK, WorkerEnds
<1>9. QED
  BY <1>1, <1>2, <1>3, <1>4, <1>5, <1>6, <1>7, <1>8 DEF Working, GiveUpLines, WriteFails

\* Every step keeps the order in which Stop() works, and its silence.
LEMMA StopStep == ASSUME IInv, [Next]_vars PROVE Stopping' /\ StopIsNoError'
<1>t. closing \in 0..1 /\ open \in BOOLEAN BY DEF IInv, TypeOK
<1>i. (~open => closing = 1) /\ (runErr => fault) BY DEF IInv, Stopping, StopIsNoError
<1> USE DEF readerVars, queueVars, workerVars, poolVars, stopVars, endVars
<1>1. ASSUME UNCHANGED <<closing, open, runErr, fault>> PROVE Stopping' /\ StopIsNoError'
  BY <1>1, <1>i DEF Stopping, StopIsNoError
<1>2. CASE \E p \in Packets : Read(p) BY <1>1, <1>2 DEF Read
<1>3. CASE Copy \/ Enqueue \/ Return BY <1>1, <1>3 DEF Copy, Enqueue, Return
<1>4. CASE ReadClosed
  <2>1. runErr' = (closing = 0) /\ ~open /\ UNCHANGED <<closing, open, fault>>
    BY <1>4 DEF ReadClosed, EndOfReading
  <2>2. closing # 0 BY <2>1, <1>i
  <2>3. ~runErr' BY <2>1, <2>2
  <2>4. QED BY <2>1, <2>3, <1>i DEF Stopping, StopIsNoError
<1>5. CASE ReadFails
  BY <1>5, <1>i DEF ReadFails, EndOfReading, Stopping, StopIsNoError
<1>6. CASE StoreClosing BY <1>6, <1>i DEF StoreClosing, Stopping, StopIsNoError
<1>7. CASE CloseSocket BY <1>7, <1>i DEF CloseSocket, Stopping, StopIsNoError
<1>8. CASE Working
  BY <1>1, <1>8 DEF Working, Receive, Drop, Encode, GiveUpLines, WriteDatagram, WriteFails,
                    PutOut, Done, WorkerEnds
<1>9. CASE UNCHANGED vars BY <1>1, <1>9 DEF vars
<1>10. QED BY <1>2, <1>3, <1>4, <1>5, <1>6, <1>7, <1>8, <1>9 DEF Next, Running

\* Every step keeps the count of the packets in the WaitGroup.
LEMMA CountStep == ASSUME IInv, [Next]_vars PROVE Counting'
<1>t. TypeOK BY DEF IInv
<1>c. /\ wg = Len(queue) + One(reader = "enqueue") + One(worker \in {"parse", "post", "done"})
      /\ reader = "returned" => wg = 0
  BY DEF IInv, Counting
<1>q. Len(queue) \in Nat /\ wg \in Nat BY <1>t, QueueFacts DEF TypeOK
<1> USE DEF readerVars, queueVars, workerVars, poolVars, stopVars, endVars
<1>1. CASE \E p \in Packets : Read(p) BY <1>1, <1>c DEF Read, Counting, One
<1>2. CASE Copy BY <1>2, <1>c, <1>q DEF Copy, Counting, One
<1>3. CASE Enqueue
  <2>1. data \in Buffers BY <1>3 DEF Enqueue, IInv, Reading
  <2>2. Len(queue') = Len(queue) + 1 BY <1>3, <1>t, <2>1, QueueFacts DEF Enqueue
  <2>3. QED BY <1>3, <1>c, <1>q, <2>2 DEF Enqueue, Counting, One
<1>4. CASE ReadClosed \/ ReadFails
  BY <1>4, <1>c DEF ReadClosed, ReadFails, EndOfReading, Counting, One
<1>5. CASE Return BY <1>5, <1>c DEF Return, Counting, One
<1>6. CASE StoreClosing \/ CloseSocket
  <2>1. UNCHANGED <<wg, queue, reader, worker>> BY <1>6 DEF StoreClosing, CloseSocket
  <2>2. QED BY <1>c, <2>1 DEF Counting
<1>7. CASE Receive
  <2>1. Len(queue') = Len(queue) - 1 /\ Len(queue) > 0 BY <1>7, <1>t, QueueFacts DEF Receive
  <2>2. worker = "receive" /\ worker' = "parse" /\ UNCHANGED <<wg, reader>>
    BY <1>7 DEF Receive
  <2>3. wg = Len(queue) + One(reader = "enqueue") /\ One(reader = "enqueue") \in Nat
    BY <1>c, <1>q, <2>2 DEF One
  <2>4. wg' = Len(queue') + One(reader' = "enqueue") + 1
    BY <1>q, <2>1, <2>2, <2>3
  <2>5. One(worker' \in {"parse", "post", "done"}) = 1 BY <2>2 DEF One
  <2>6. QED BY <1>c, <2>2, <2>4, <2>5 DEF Counting
<1>8. CASE Drop \/ Encode \/ PutOut
  BY <1>8, <1>c DEF Drop, Encode, PutOut, Counting, One
<1>9. CASE GiveUpLines \/ WriteDatagram \/ WriteFails
  BY <1>9, <1>c DEF GiveUpLines, WriteDatagram, WriteFails, Counting, One
<1>10. CASE Done BY <1>10, <1>c, <1>q DEF Done, Counting, One
<1>11. CASE WorkerEnds BY <1>11, <1>c DEF WorkerEnds, Counting, One
<1>12. CASE UNCHANGED vars BY <1>12, <1>c DEF vars, Counting, One
<1>13. QED
  BY <1>1, <1>2, <1>3, <1>4, <1>5, <1>6, <1>7, <1>8, <1>9, <1>10, <1>11, <1>12
     DEF Next, Running, Working

\* Every datagram that is written is within the MTU.
LEMMA FitStep == ASSUME IInv, [Next]_vars PROVE DatagramsFit'
<1>t. TypeOK BY DEF IInv
<1>f. \A b \in Backends : \A i \in 1..Len(sent[b]) :
         Bytes(sent[b][i], Len(sent[b][i])) <= MTU[b]
  BY DEF IInv, DatagramsFit
<1> USE DEF readerVars, queueVars, workerVars, poolVars, stopVars, endVars
<1>1. CASE UNCHANGED sent BY <1>1, <1>f DEF DatagramsFit
<1>2. CASE WriteDatagram
  <2>1. to \in Backends /\ MTU[to] \in Nat BY <1>2, UDPAssumption DEF WriteDatagram
  <2> DEFINE n == Fitting(rest, MTU[to])
             d == SubSeq(rest, 1, n)
  <2>2. sent' = [sent EXCEPT ![to] = Append(@, d)] BY <1>2 DEF WriteDatagram
  <2>3. rest \in Seq(AnyLine) /\ sent[to] \in Seq(Seq(AnyLine)) BY <1>t, <2>1 DEF TypeOK
  <2>4. n \in 0..Len(rest) /\ Bytes(rest, n) <= MTU[to] BY <2>1, <2>3, FittingFacts
  <2> HIDE DEF n
  <2>5. Len(d) = n /\ Bytes(d, n) = Bytes(rest, n) BY <2>3, <2>4, BytesOfPrefix
  <2>6. Bytes(d, Len(d)) <= MTU[to] BY <2>4, <2>5
  <2>7. d \in Seq(AnyLine)
    <3>1. \A i \in 1..n : rest[i] \in AnyLine BY <2>3, <2>4, ElementOfSeq, LenProperties
    <3>2. n \in Int BY <2>4, <2>3, LenProperties
    <3>3. QED BY <3>1, <3>2, SubSeqProperties
  <2> HIDE DEF d
  <2>8. \A b \in Backends \ {to} : sent'[b] = sent[b] BY <2>2, <1>t DEF TypeOK
  <2>9. sent'[to] = Append(sent[to], d) BY <2>1, <2>2, <1>t DEF TypeOK
  <2>10. /\ Len(sent'[to]) = Len(sent[to]) + 1 /\ sent'[to][Len(sent[to]) + 1] = d
         /\ \A i \in 1..Len(sent[to]) : sent'[to][i] = sent[to][i]
         /\ Len(sent[to]) \in Nat
    BY <2>3, <2>7, <2>9, AppendProperties, LenProperties
  <2>11. ASSUME NEW i \in 1..Len(sent'[to])
         PROVE  Bytes(sent'[to][i], Len(sent'[to][i])) <= MTU[to]
    <3>1. CASE i = Len(sent[to]) + 1 BY <2>6, <2>10, <3>1
    <3>2. CASE i \in 1..Len(sent[to]) BY <2>1, <2>10, <3>2, <1>f
    <3>3. QED BY <2>10, <3>1, <3>2
  <2>12. QED BY <2>8, <2>11, <1>f DEF DatagramsFit
<1>3. CASE (\E p \in Packets : Read(p)) \/ Running \/ ReadFails \/ StoreClosing \/ CloseSocket
  BY <1>1, <1>3 DEF Read, Running, Copy, Enqueue, ReadClosed, ReadFails, EndOfReading, Return,
                    StoreClosing, CloseSocket
<1>4. CASE Working
  BY <1>1, <1>2, <1>4 DEF Working, Receive, Drop, Encode, GiveUpLines, WriteFails, PutOut, Done,
                          WorkerEnds
<1>5. CASE UNCHANGED vars BY <1>1, <1>5 DEF vars
<1>6. QED BY <1>3, <1>4, <1>5 DEF Next

\* What the goroutines have in their hands.
Hands == Reading /\ Posting /\ Apart /\ QueuedInArrivalOrder

\* Where a step leaves everything that buffers and packets are in as it is.
LEMMA HandsAlone ==
    ASSUME IInv, UNCHANGED <<buf, data, arrived, queue, wdata, wout, pool, content>>,
           \/ reader' = reader
           \/ {reader, reader'} \cap {"copy", "enqueue"} = {},
           \/ worker' = worker
           \/ {worker, worker'} \cap {"parse", "post"} = {}
    PROVE  Hands'
<1>1. Reading' BY DEF IInv, Reading
<1>2. Posting' BY DEF IInv, Posting
<1>3. Apart' BY DEF IInv, Apart
<1>4. QueuedInArrivalOrder' BY DEF IInv, QueuedInArrivalOrder
<1>5. QED BY <1>1, <1>2, <1>3, <1>4 DEF Hands

\* A packet is read into the array while the packets before it are queued.
LEMMA ReadHands == ASSUME IInv, NEW p \in Packets, Read(p) PROVE Hands'
<1>t. TypeOK BY DEF IInv
<1> USE DEF queueVars, workerVars, poolVars
<1>1. /\ reader = "read" /\ reader' = "copy" /\ buf' = Data(p) /\ arrived' = Append(arrived, p)
      /\ UNCHANGED <<data, queue, worker, wdata, wout, pool, content>>
  BY DEF Read
<1>2. /\ Len(arrived) \in Nat /\ Len(arrived') = Len(arrived) + 1
      /\ arrived'[Len(arrived) + 1] = p
      /\ \A i \in 1..Len(arrived) : arrived'[i] = arrived[i]
  BY <1>1, <1>t, AppendProperties, LenProperties DEF TypeOK
<1>3. Reading'
  <2>1. data' = Unused /\ reader' # "enqueue" BY <1>1 DEF IInv, Reading
  <2>2. buf' = Data(arrived'[Len(arrived')]) BY <1>1, <1>2
  <2>3. QED BY <1>2, <2>1, <2>2 DEF Reading
<1>4. Posting' BY <1>1 DEF IInv, Posting
<1>5. Apart' BY <1>1 DEF IInv, Apart
<1>6. QueuedInArrivalOrder'
  <2> DEFINE n == Len(queue)
  <2>1. n \in Nat BY <1>t, QueueFacts
  <2>2. n <= Len(arrived)
        /\ \A i \in 1..n : content[queue[i]] = Data(arrived[Len(arrived) - n + i])
    BY <1>1, <1>2 DEF IInv, QueuedInArrivalOrder
  <2>3. \A i \in 1..n : Len(arrived) - n + i \in 1..Len(arrived) BY <1>2, <2>1, <2>2
  <2>4. Len(arrived') - 1 = Len(arrived) BY <1>2
  <2>5. n <= Len(arrived') - 1
        /\ \A i \in 1..n : content[queue[i]] = Data(arrived'[Len(arrived') - 1 - n + i])
    BY <1>2, <2>2, <2>3, <2>4
  <2>6. QED BY <1>1, <2>5 DEF QueuedInArrivalOrder
<1>7. QED BY <1>3, <1>4, <1>5, <1>6 DEF Hands

\* Run() copies the packet into a buffer that nobody holds.
LEMMA CopyHands == ASSUME IInv, Copy PROVE Hands'
<1>t. TypeOK BY DEF IInv
<1> USE DEF workerVars
<1>1. /\ reader = "copy" /\ reader' = "enqueue"
      /\ UNCHANGED <<arrived, queue, worker, wdata, wout>>
  BY DEF Copy
<1>2. PICK i \in Gettable : /\ data' = i /\ pool' = pool \ {i}
                            /\ content' = [content EXCEPT ![i] = buf]
  BY DEF Copy
<1>3. /\ i \in Buffers /\ i # wdata /\ i # wout /\ Unused \notin Buffers
      /\ \A j \in 1..Len(queue) : i # queue[j] /\ queue[j] \in Buffers
  BY <1>t, GettableFacts, QueueFacts
<1>4. content'[i] = buf /\ \A j \in Buffers \ {i} : content'[j] = content[j]
  BY <1>2, <1>3, <1>t DEF TypeOK
<1>5. Reading' BY <1>1, <1>2, <1>3, <1>4 DEF IInv, Reading
<1>6. Posting' BY <1>1, <1>3, <1>4 DEF IInv, Posting
<1>7. Apart' BY <1>1, <1>2, <1>3 DEF IInv, Apart
<1>8. QueuedInArrivalOrder' BY <1>1, <1>3, <1>4 DEF IInv, QueuedInArrivalOrder
<1>9. QED BY <1>5, <1>6, <1>7, <1>8 DEF Hands

\* The packet is queued behind the others.
LEMMA EnqueueHands == ASSUME IInv, Enqueue PROVE Hands'
<1>t. TypeOK BY DEF IInv
<1> USE DEF workerVars, poolVars
<1>1. /\ reader = "enqueue" /\ reader' = "read" /\ queue' = Append(queue, data)
      /\ data' = Unused /\ UNCHANGED <<arrived, worker, wdata, wout, pool, content>>
  BY DEF Enqueue
<1>2. /\ data \in Buffers /\ data # Unused /\ content[data] = Data(arrived[Len(arrived)])
      /\ Len(arrived) > 0 /\ Len(arrived) \in Nat /\ Unused \notin Buffers
  BY <1>1, <1>t, GettableFacts, QueueFacts DEF IInv, Reading
<1>3. /\ Len(queue) \in Nat /\ Len(queue') = Len(queue) + 1 /\ queue'[Len(queue) + 1] = data
      /\ \A i \in 1..Len(queue) : queue'[i] = queue[i] /\ queue[i] \in Buffers
  BY <1>1, <1>2, <1>t, QueueFacts
<1>4. data \notin pool /\ data # wdata /\ data # wout BY <1>2 DEF IInv, Apart
<1>5. \A i \in 1..Len(queue) : queue[i] # data BY DEF IInv, Apart
<1>6. \A i \in 1..Len(queue') : i \in 1..Len(queue) \/ i = Len(queue) + 1 BY <1>3
<1>7. Reading' BY <1>1 DEF Reading
<1>8. Posting' BY <1>1 DEF IInv, Posting
<1>9. Apart'
  <2>1. ASSUME NEW i \in 1..Len(queue')
        PROVE  queue'[i] \notin pool' \cup {data', wdata', wout'}
    <3>1. CASE i = Len(queue) + 1 BY <1>1, <1>2, <1>3, <1>4, <3>1
    <3>2. CASE i \in 1..Len(queue) BY <1>1, <1>2, <1>3, <3>2 DEF IInv, Apart
    <3>3. QED BY <1>6, <3>1, <3>2
  <2>2. ASSUME NEW i \in 1..Len(queue'), NEW j \in 1..Len(queue'), queue'[i] = queue'[j]
        PROVE  i = j
    <3>1. CASE i \in 1..Len(queue) /\ j \in 1..Len(queue)
      BY <1>3, <2>2, <3>1 DEF IInv, Apart
    <3>2. QED BY <1>3, <1>5, <1>6, <2>2, <3>1
  <2>3. Unused \notin pool BY <1>2, <1>t DEF TypeOK
  <2>4. QED BY <1>1, <2>1, <2>2, <2>3 DEF IInv, Apart
<1>10. QueuedInArrivalOrder'
  <2> DEFINE n == Len(queue)
  <2>1. n <= Len(arrived) - 1
        /\ \A i \in 1..n : content[queue[i]] = Data(arrived[Len(arrived) - 1 - n + i])
    BY <1>1 DEF IInv, QueuedInArrivalOrder
  <2>2. ASSUME NEW i \in 1..n + 1
        PROVE  content[queue'[i]] = Data(arrived[Len(arrived) - (n + 1) + i])
    <3>1. CASE i = n + 1
      <4>1. Len(arrived) - (n + 1) + i = Len(arrived) BY <1>2, <1>3, <3>1
      <4>2. QED BY <1>2, <1>3, <3>1, <4>1
    <3>2. CASE i \in 1..n
      <4>1. Len(arrived) - (n + 1) + i = Len(arrived) - 1 - n + i BY <1>2, <1>3, <3>2
      <4>2. QED BY <1>3, <2>1, <3>2, <4>1
    <3>3. QED BY <1>3, <3>1, <3>2
  <2>3. n + 1 <= Len(arrived) - 0 BY <1>2, <1>3, <2>1
  <2>4. Len(arrived) - 0 = Len(arrived) BY <1>2
  <2>5. QED BY <1>1, <1>3, <2>2, <2>3, <2>4 DEF QueuedInArrivalOrder
<1>11. QED BY <1>7, <1>8, <1>9, <1>10 DEF Hands

\* The worker takes the packet that has been queued longest.
LEMMA ReceiveHands == ASSUME IInv, Receive PROVE Hands'
<1>t. TypeOK BY DEF IInv
<1> USE DEF readerVars, poolVars
<1>1. /\ worker = "receive" /\ queue # <<>> /\ worker' = "parse"
      /\ wdata' = Head(queue) /\ queue' = Tail(queue)
      /\ UNCHANGED <<reader, buf, data, arrived, wout, pool, content>>
  BY DEF Receive
<1>2. /\ Len(queue) \in Nat /\ Len(queue) > 0 /\ wdata' = queue[1] /\ wdata' \in Buffers
      /\ Len(queue') = Len(queue) - 1
      /\ \A i \in 1..Len(queue) - 1 : queue'[i] = queue[i + 1]
      /\ Len(arrived) \in Nat /\ 1 \in 1..Len(queue)
  BY <1>1, <1>t, QueueFacts
<1>3. \A i \in 1..Len(queue') : i + 1 \in 1..Len(queue) /\ queue'[i] = queue[i + 1] /\ i + 1 # 1
  BY <1>2
<1>4. Unused \notin Buffers BY GettableFacts
<1>5. /\ \A i \in 1..Len(queue) : queue[i] \notin pool \cup {data, wdata, wout}
      /\ \A i, j \in 1..Len(queue) : queue[i] = queue[j] => i = j
      /\ data \notin pool /\ wout \notin pool /\ (data # Unused => data # wout)
  BY DEF IInv, Apart
<1>6. QueuedInArrivalOrder'
  <2> DEFINE n == Len(queue)
             last == Len(arrived) - (IF reader \in {"copy", "enqueue"} THEN 1 ELSE 0)
  <2>1. n <= last /\ \A i \in 1..n : content[queue[i]] = Data(arrived[last - n + i])
    BY DEF IInv, QueuedInArrivalOrder
  <2>2. last \in Int BY <1>2
  <2> HIDE DEF last
  <2>3. ASSUME NEW i \in 1..n - 1
        PROVE  content[queue'[i]] = Data(arrived[last - (n - 1) + i])
    <3>1. last - (n - 1) + i = last - n + (i + 1) BY <1>2, <2>2
    <3>2. QED BY <1>2, <1>3, <2>1, <3>1
  <2>4. n - 1 <= last BY <1>2, <2>1, <2>2
  <2>5. QED BY <1>1, <1>2, <2>3, <2>4 DEF QueuedInArrivalOrder, last
<1>7. Reading' BY <1>1 DEF IInv, Reading
<1>8. Posting'
  <2>1. content[queue[1]] \in {Data(p) : p \in Packets}
    <3> DEFINE last == Len(arrived) - (IF reader \in {"copy", "enqueue"} THEN 1 ELSE 0)
    <3>1. Len(queue) <= last /\ content[queue[1]] = Data(arrived[last - Len(queue) + 1])
      BY <1>2 DEF IInv, QueuedInArrivalOrder
    <3>2. last - Len(queue) + 1 \in 1..Len(arrived) BY <1>2, <3>1
    <3>3. arrived[last - Len(queue) + 1] \in Packets BY <3>2, <1>t, ElementOfSeq DEF TypeOK
    <3>4. QED BY <3>1, <3>3
  <2>2. QED BY <1>1, <1>2, <2>1 DEF IInv, Posting
<1>9. Apart'
  <2>1. \A i \in 1..Len(queue') : queue'[i] \notin pool' \cup {data', wdata', wout'}
    BY <1>1, <1>2, <1>3, <1>5
  <2>2. \A i, j \in 1..Len(queue') : queue'[i] = queue'[j] => i = j
    BY <1>2, <1>3, <1>5
  <2>3. wdata' \notin pool /\ (data # Unused => data # wdata') BY <1>2, <1>5
  <2>4. QED BY <1>1, <1>5, <2>1, <2>2, <2>3 DEF Apart
<1>10. QED BY <1>6, <1>7, <1>8, <1>9 DEF Hands

\* The worker gives up a packet, or has written its lines: a buffer goes back.
LEMMA PutHands == ASSUME IInv, Drop \/ PutOut PROVE Hands'
<1>t. TypeOK BY DEF IInv
<1> USE DEF readerVars, queueVars
<1>1. PICK i \in Buffers :
         /\ pool' = pool \cup {i} /\ content' = [content EXCEPT ![i] = NoPacket]
         /\ \/ worker = "parse" /\ i = wdata /\ wdata' = Unused /\ wout' = wout
            \/ worker = "post" /\ i = wout /\ wout' = Unused /\ wdata' = wdata
         /\ worker' = "done"
         /\ UNCHANGED <<reader, buf, data, arrived, queue>>
  BY DEF Drop, PutOut, Put, IInv, Posting
<1>2. Unused \notin Buffers /\ \A j \in 1..Len(queue) : queue[j] \in Buffers
  BY <1>t, GettableFacts, QueueFacts
<1>3. \A j \in Buffers \ {i} : content'[j] = content[j] BY <1>1, <1>t DEF TypeOK
<1>4. wdata' = Unused /\ wout' = Unused BY <1>1 DEF IInv, Posting
<1>5. i # data /\ \A j \in 1..Len(queue) : queue[j] # i
  BY <1>1, <1>2 DEF IInv, Apart
<1>6. Reading' BY <1>1, <1>3, <1>5 DEF IInv, Reading
<1>7. Posting' BY <1>1, <1>4 DEF Posting
<1>8. Apart'
  <2>1. Unused \notin pool' BY <1>1, <1>2, <1>t DEF TypeOK
  <2>2. \A j \in 1..Len(queue') : queue'[j] \notin pool' \cup {data', wdata', wout'}
    BY <1>1, <1>2, <1>4, <1>5 DEF IInv, Apart
  <2>3. data' \notin pool' BY <1>1, <1>5 DEF IInv, Apart
  <2>4. QED BY <1>1, <1>4, <2>1, <2>2, <2>3 DEF IInv, Apart
<1>9. QueuedInArrivalOrder' BY <1>1, <1>2, <1>3, <1>5 DEF IInv, QueuedInArrivalOrder
<1>10. QED BY <1>6, <1>7, <1>8, <1>9 DEF Hands

\* The worker prints the points into a second buffer, and gives back the first.
LEMMA EncodeHands == ASSUME IInv, Encode PROVE Hands'
<1>t. TypeOK BY DEF IInv
<1> USE DEF readerVars, queueVars
<1>1. /\ worker = "parse" /\ worker' = "post" /\ wdata' = Unused
      /\ UNCHANGED <<reader, buf, data, arrived, queue>>
  BY DEF Encode
<1>2. wdata \in Buffers /\ wout = Unused BY <1>1 DEF IInv, Posting
<1>3. PICK p \in Packets : content[wdata] = Data(p) BY <1>1 DEF IInv, Posting
<1>4. content[wdata].of = p BY <1>3 DEF Data
<1>5. PICK i \in Gettable :
         /\ wout' = i /\ pool' = (pool \ {i}) \cup {wdata}
         /\ content' = [content EXCEPT ![i] = Printed(p), ![wdata] = NoPacket]
  BY <1>4 DEF Encode
<1>6. /\ i \in Buffers /\ i # wdata /\ i # data /\ Unused \notin Buffers
      /\ \A j \in 1..Len(queue) : i # queue[j] /\ queue[j] \in Buffers
  BY <1>t, GettableFacts, QueueFacts
<1>7. content'[i] = Printed(p) /\ \A j \in Buffers \ {i, wdata} : content'[j] = content[j]
  BY <1>2, <1>5, <1>6, <1>t DEF TypeOK
<1>8. wdata # data /\ \A j \in 1..Len(queue) : queue[j] # wdata
  BY <1>2, <1>6 DEF IInv, Apart
<1>9. Reading' BY <1>1, <1>6, <1>7, <1>8 DEF IInv, Reading
<1>10. Posting' BY <1>1, <1>5, <1>6, <1>7 DEF Posting
<1>11. Apart'
  <2>1. Unused \notin pool' /\ wdata # Unused BY <1>2, <1>5, <1>6, <1>t DEF TypeOK
  <2>2. \A j \in 1..Len(queue') : queue'[j] \notin pool' \cup {data', wdata', wout'}
    BY <1>1, <1>5, <1>6, <1>8 DEF IInv, Apart
  <2>3. data' \notin pool' BY <1>1, <1>5, <1>8 DEF IInv, Apart
  <2>4. wout' \notin pool' BY <1>5, <1>6
  <2>5. QED BY <1>1, <1>5, <1>6, <2>1, <2>2, <2>3, <2>4 DEF IInv, Apart
<1>12. QueuedInArrivalOrder' BY <1>1, <1>6, <1>7, <1>8 DEF IInv, QueuedInArrivalOrder
<1>13. QED BY <1>9, <1>10, <1>11, <1>12 DEF Hands

\* Every step keeps every buffer in one hand, and the queue in order of arrival.
LEMMA HandStep == ASSUME IInv, [Next]_vars PROVE Hands'
<1> USE DEF readerVars, queueVars, workerVars, poolVars, stopVars, endVars
<1>1. CASE (\E p \in Packets : Read(p)) \/ Copy \/ Enqueue
  BY <1>1, ReadHands, CopyHands, EnqueueHands
<1>2. CASE ReadClosed \/ ReadFails \/ Return
  BY <1>2, HandsAlone DEF ReadClosed, ReadFails, EndOfReading, Return
<1>3. CASE StoreClosing \/ CloseSocket BY <1>3, HandsAlone DEF StoreClosing, CloseSocket
<1>4. CASE Receive \/ Drop \/ Encode \/ PutOut
  BY <1>4, ReceiveHands, PutHands, EncodeHands
<1>5. CASE GiveUpLines \/ WriteDatagram \/ WriteFails
  BY <1>5, HandsAlone DEF GiveUpLines, WriteDatagram, WriteFails
<1>6. CASE Done \/ WorkerEnds BY <1>6, HandsAlone DEF Done, WorkerEnds
<1>7. CASE UNCHANGED vars BY <1>7, HandsAlone DEF vars
<1>8. QED BY <1>1, <1>2, <1>3, <1>4, <1>5, <1>6, <1>7 DEF Next, Running, Working

\* Every step keeps the invariant.
LEMMA Inductive == IInv /\ [Next]_vars => IInv'
<1> SUFFICES ASSUME IInv, [Next]_vars PROVE IInv' OBVIOUS
<1>1. TypeOK'
  <2>1. CASE Next BY <2>1, RunTypes, WorkerTypes DEF Next
  <2>2. CASE UNCHANGED vars
    BY <2>2 DEF IInv, TypeOK, vars, readerVars, queueVars, workerVars, poolVars, stopVars,
                endVars
  <2>3. QED BY <2>1, <2>2
<1>2. Reading' /\ Posting' /\ Apart' /\ QueuedInArrivalOrder' BY HandStep DEF Hands
<1>3. QED BY <1>1, <1>2, CountStep, StopStep, FitStep DEF IInv

-----------------------------------------------------------------------------
(***************************************************************************)
(* The lines of a packet, on top of the invariant.                         *)
(***************************************************************************)
\* How many packets the worker is done with; it may be at work on the next.
Handled ==
    Len(arrived) - One(reader \in {"copy", "enqueue"}) - Len(queue)
        - One(worker \in {"parse", "post"})

NextPacket == arrived[Handled + 1]

\* A packet arrives once.
Once == \A i, j \in 1..Len(arrived) : arrived[i] = arrived[j] => i = j

\* The worker takes the packets in the order of arrival.
AtWork ==
    /\ Handled \in Nat
    /\ worker = "parse" => content[wdata] = Data(NextPacket)
    /\ worker = "post" => content[wout] = Printed(NextPacket)

Past(p) == \E i \in 1..Handled : arrived[i] = p
BeingPosted(p) == worker = "post" /\ p = NextPacket

\* What a backend has got of a packet that the worker is done with, is not done
\* with, or is posting.
LinesSoFar(b, p) ==
    /\ \E more \in Seq(AnyLine) : Received(b, p) \o more = LinesOf(p)
    /\ Past(p) /\ p \in Parseable => Served(b, p)
    /\ ~Past(p) /\ ~BeingPosted(p) => Received(b, p) = <<>>
    /\ BeingPosted(p) =>
          /\ b < to => Served(b, p)
          /\ b = to => Received(b, p) \o rest = LinesOf(p)
          /\ b > to => Received(b, p) = <<>>

Progress == \A b \in Backends : \A p \in Packets : LinesSoFar(b, p)

LInv == IInv /\ Once /\ AtWork /\ Progress

\* What has arrived, and what was before the packet at work.
LEMMA ArrivedFacts ==
    ASSUME TypeOK, AtWork
    PROVE  /\ Len(arrived) \in Nat /\ Len(queue) \in Nat /\ Handled \in 0..Len(arrived)
           /\ \A i \in 1..Len(arrived) : arrived[i] \in Packets
           /\ worker \in {"parse", "post"} =>
                 Handled + 1 \in 1..Len(arrived) /\ NextPacket \in Packets
           /\ Handled + One(worker \in {"parse", "post"}) + Len(queue)
                 + One(reader \in {"copy", "enqueue"}) = Len(arrived)
<1>1. Len(arrived) \in Nat /\ Len(queue) \in Nat BY QueueFacts
<1>2. \A i \in 1..Len(arrived) : arrived[i] \in Packets BY ElementOfSeq DEF TypeOK
<1>3. Handled \in Nat BY DEF AtWork
<1>4. /\ One(worker \in {"parse", "post"}) \in {0, 1}
      /\ One(reader \in {"copy", "enqueue"}) \in {0, 1}
      /\ worker \in {"parse", "post"} => One(worker \in {"parse", "post"}) = 1
  BY DEF One
<1>5. Handled + One(worker \in {"parse", "post"}) + Len(queue)
                 + One(reader \in {"copy", "enqueue"}) = Len(arrived)
  BY <1>1, <1>4 DEF Handled
<1>6. Handled <= Len(arrived) /\ (worker \in {"parse", "post"} => Handled + 1 <= Len(arrived))
  BY <1>1, <1>3, <1>4, <1>5
<1>7. QED BY <1>1, <1>2, <1>3, <1>5, <1>6 DEF NextPacket

\* What a backend has received, and is to receive, are lines.
LEMMA ReceivedType ==
    ASSUME TypeOK, NEW b \in Backends, NEW p
    PROVE  /\ [i \in 1..Len(sent[b]) |-> PartOf(sent[b][i], p)] \in Seq(Seq(AnyLine))
           /\ Received(b, p) \in Seq(AnyLine)
<1>1. sent[b] \in Seq(Seq(AnyLine)) BY DEF TypeOK
<1>2. Len(sent[b]) \in Nat BY <1>1, LenProperties
<1>3. \A i \in 1..Len(sent[b]) : PartOf(sent[b][i], p) \in Seq(AnyLine)
  BY <1>1, ElementOfSeq, EmptySeq DEF PartOf
<1>4. [i \in 1..Len(sent[b]) |-> PartOf(sent[b][i], p)] \in Seq(Seq(AnyLine))
  BY <1>2, <1>3, IsASeq
<1>5. QED BY <1>4, FlattenType DEF Received, LinesIn

\* The parts of the datagrams, when there is one more of them.
LEMMA PartsOfAppend ==
    ASSUME NEW s \in Seq(Seq(AnyLine)), NEW d \in Seq(AnyLine), NEW q
    PROVE  [i \in 1..Len(Append(s, d)) |-> PartOf(Append(s, d)[i], q)]
              = Append([i \in 1..Len(s) |-> PartOf(s[i], q)], PartOf(d, q))
<1> DEFINE n == Len(s)
           t == Append(s, d)
           old == [i \in 1..n |-> PartOf(s[i], q)]
           new == [i \in 1..Len(t) |-> PartOf(t[i], q)]
<1>1. n \in Nat BY LenProperties
<1>2. /\ t \in Seq(Seq(AnyLine)) /\ Len(t) = n + 1 /\ t[n + 1] = d
      /\ \A i \in 1..n : t[i] = s[i]
  BY AppendProperties
<1>3. \A e \in Seq(AnyLine) : PartOf(e, q) \in Seq(AnyLine) BY EmptySeq DEF PartOf
<1>4. \A i \in 1..n : PartOf(s[i], q) \in Seq(AnyLine) BY <1>3, ElementOfSeq
<1>5. \A i \in 1..n + 1 : PartOf(t[i], q) \in Seq(AnyLine)
  BY <1>2, <1>3, ElementOfSeq
<1> HIDE DEF t
<1>6. old \in Seq(Seq(AnyLine)) BY <1>1, <1>4, IsASeq
<1>7. Len(old) = n /\ \A i \in 1..n : old[i] = PartOf(s[i], q)
  BY <1>1, <1>6, LenProperties
<1>8. new \in Seq(Seq(AnyLine)) BY <1>1, <1>2, <1>5, IsASeq
<1>9. Len(new) = n + 1 /\ \A i \in 1..n + 1 : new[i] = PartOf(t[i], q)
  BY <1>1, <1>2, <1>8, LenProperties
<1> HIDE DEF old, new
<1>10. PICK e \in Seq(AnyLine) : e = PartOf(d, q) BY <1>3
<1>11. /\ Append(old, e) \in Seq(Seq(AnyLine))
       /\ Len(Append(old, e)) = Len(old) + 1
       /\ Append(old, e)[Len(old) + 1] = e
       /\ \A i \in 1..Len(old) : Append(old, e)[i] = old[i]
  BY <1>6, AppendProperties
<1> HIDE DEF n
<1>12. ASSUME NEW i \in 1..n + 1 PROVE new[i] = Append(old, e)[i]
  <2>1. CASE i = n + 1
    <3>1. new[i] = e BY <1>2, <1>9, <1>10, <2>1
    <3>2. Append(old, e)[i] = e BY <1>7, <1>11, <2>1
    <3>3. QED BY <3>1, <3>2
  <2>2. CASE i # n + 1
    <3>1. i \in 1..n BY <1>1, <2>2
    <3>2. new[i] = PartOf(s[i], q) BY <1>2, <1>9, <3>1
    <3>3. Append(old, e)[i] = PartOf(s[i], q) BY <1>7, <1>11, <3>1
    <3>4. QED BY <3>2, <3>3
  <2>3. QED BY <2>1, <2>2
<1>13. new = Append(old, e) BY <1>7, <1>8, <1>9, <1>11, <1>12, SeqEqual
<1>14. QED BY <1>10, <1>13 DEF new, old, t, n

\* A datagram of lines of one packet adds to what was received of that packet.
LEMMA ReceivedStep ==
    ASSUME TypeOK, NEW p, NEW d \in Seq(AnyLine), \A i \in 1..Len(d) : d[i].of = p,
           NEW c \in Backends, sent' = [sent EXCEPT ![c] = Append(@, d)]
    PROVE  /\ Received(c, p)' = Received(c, p) \o d
           /\ \A b \in Backends : \A q : b # c \/ q # p => Received(b, q)' = Received(b, q)
<1>1. sent[c] \in Seq(Seq(AnyLine)) /\ sent'[c] = Append(sent[c], d)
      /\ \A b \in Backends : b # c => sent'[b] = sent[b]
  BY DEF TypeOK
<1>2. ASSUME NEW q PROVE Received(c, q)' = Received(c, q) \o PartOf(d, q)
  <2>1. PartOf(d, q) \in Seq(AnyLine) BY EmptySeq DEF PartOf
  <2>2. [i \in 1..Len(sent[c]) |-> PartOf(sent[c][i], q)] \in Seq(Seq(AnyLine))
    BY ReceivedType
  <2>3. [i \in 1..Len(sent'[c]) |-> PartOf(sent'[c][i], q)]
          = Append([i \in 1..Len(sent[c]) |-> PartOf(sent[c][i], q)], PartOf(d, q))
    BY <1>1, PartsOfAppend
  <2>4. LinesIn(sent'[c], q) = Received(c, q) \o PartOf(d, q)
    BY <2>1, <2>2, <2>3, FlattenOfAppend DEF Received, LinesIn
  <2>5. QED BY <2>4 DEF Received
<1>3. Len(d) \in Nat /\ (Len(d) = 0 => d = <<>>) BY LenProperties, EmptySeq
<1>4. PartOf(d, p) = d
  <2>1. CASE Len(d) = 0 BY <1>3, <2>1 DEF PartOf
  <2>2. CASE Len(d) # 0
    <3>1. 1 \in 1..Len(d) BY <1>3, <2>2
    <3>2. d[1].of = p BY <3>1
    <3>3. QED BY <3>1, <3>2 DEF PartOf
  <2>3. QED BY <2>1, <2>2
<1>5. ASSUME NEW q, q # p PROVE Received(c, q)' = Received(c, q)
  <2>1. PartOf(d, q) = <<>> BY <1>5 DEF PartOf
  <2>2. Received(c, q) \o <<>> = Received(c, q) BY ReceivedType, ConcatEmptySeq
  <2>3. QED BY <1>2, <2>1, <2>2
<1>6. ASSUME NEW b \in Backends, b # c, NEW q PROVE Received(b, q)' = Received(b, q)
  <2>1. sent'[b] = sent[b] BY <1>1, <1>6
  <2>2. QED BY <2>1 DEF Received
<1>7. Received(c, p)' = Received(c, p) \o d BY <1>2, <1>4
<1>8. QED BY <1>5, <1>6, <1>7

\* The packets that have arrived stay where they are, and none arrives twice.
LEMMA ArrivalStep ==
    ASSUME LInv, [Next]_vars
    PROVE  /\ Once' /\ Len(arrived') \in Nat /\ Len(arrived) <= Len(arrived')
           /\ \A i \in 1..Len(arrived) : arrived'[i] = arrived[i]
<1>t. arrived \in Seq(Packets) /\ Len(arrived) \in Nat /\ Once
  BY LenProperties DEF LInv, IInv, TypeOK
<1> USE DEF readerVars, queueVars, workerVars, poolVars, stopVars, endVars
<1>1. ASSUME NEW p \in Packets, Read(p)
      PROVE  /\ Once' /\ Len(arrived') \in Nat /\ Len(arrived) <= Len(arrived')
             /\ \A i \in 1..Len(arrived) : arrived'[i] = arrived[i]
  <2>1. arrived' = Append(arrived, p) /\ \A i \in 1..Len(arrived) : arrived[i] # p
    BY <1>1 DEF Read, HasArrived
  <2>2. /\ Len(arrived') = Len(arrived) + 1 /\ arrived'[Len(arrived) + 1] = p
        /\ \A i \in 1..Len(arrived) : arrived'[i] = arrived[i]
    BY <1>t, <2>1, AppendProperties
  <2>3. \A i \in 1..Len(arrived') : i \in 1..Len(arrived) \/ i = Len(arrived) + 1
    BY <1>t, <2>2
  <2>4. Once' BY <1>t, <2>1, <2>2, <2>3 DEF Once
  <2>5. QED BY <1>t, <2>2, <2>4
<1>2. ASSUME arrived' = arrived
      PROVE  /\ Once' /\ Len(arrived') \in Nat /\ Len(arrived) <= Len(arrived')
             /\ \A i \in 1..Len(arrived) : arrived'[i] = arrived[i]
  BY <1>t, <1>2 DEF Once
<1>3. CASE Running \/ ReadFails \/ StoreClosing \/ CloseSocket
  BY <1>2, <1>3 DEF Running, Copy, Enqueue, ReadClosed, ReadFails, EndOfReading, Return,
                    StoreClosing, CloseSocket
<1>4. CASE Working
  BY <1>2, <1>4 DEF Working, Receive, Drop, Encode, GiveUpLines, WriteDatagram, WriteFails,
                    PutOut, Done, WorkerEnds
<1>5. CASE UNCHANGED vars BY <1>2, <1>5 DEF vars
<1>6. QED BY <1>1, <1>3, <1>4, <1>5 DEF Next

\* Only Drop and PutOut are done with a packet.
LEMMA HandledStep ==
    ASSUME LInv, [Next]_vars
    PROVE  Handled' = IF Drop \/ PutOut THEN Handled + 1 ELSE Handled
<1>t. TypeOK /\ Len(queue) \in Nat /\ Len(arrived) \in Nat /\ arrived \in Seq(Packets)
  BY QueueFacts DEF LInv, IInv, TypeOK
<1> USE DEF readerVars, queueVars, workerVars, poolVars, stopVars, endVars
<1>1. CASE Drop \/ PutOut
  <2>1. /\ worker \in {"parse", "post"} /\ worker' = "done"
        /\ UNCHANGED <<arrived, reader, queue>>
    BY <1>1 DEF Drop, PutOut
  <2>2. One(worker \in {"parse", "post"}) = 1 /\ One(worker' \in {"parse", "post"}) = 0
    BY <2>1 DEF One
  <2>3. One(reader \in {"copy", "enqueue"}) \in Int BY DEF One
  <2>4. Handled' = Handled + 1 BY <1>t, <2>1, <2>2, <2>3 DEF Handled
  <2>5. QED BY <1>1, <2>4
<1>2. ASSUME ~(Drop \/ PutOut) PROVE Handled' = Handled
  <2>1. CASE \E p \in Packets : Read(p)
    <3>1. Len(arrived') = Len(arrived) + 1 BY <2>1, <1>t, AppendProperties DEF Read
    <3>2. reader = "read" /\ reader' = "copy" /\ UNCHANGED <<queue, worker>>
      BY <2>1 DEF Read
    <3>3. QED BY <1>t, <3>1, <3>2 DEF Handled, One
  <2>2. CASE Enqueue
    <3>1. data \in Buffers BY <2>2 DEF Enqueue, LInv, IInv, Reading
    <3>2. Len(queue') = Len(queue) + 1 BY <2>2, <1>t, <3>1, QueueFacts DEF Enqueue
    <3>3. reader = "enqueue" /\ reader' = "read" /\ UNCHANGED <<arrived, worker>>
      BY <2>2 DEF Enqueue
    <3>4. QED BY <1>t, <3>2, <3>3 DEF Handled, One
  <2>3. CASE Receive
    <3>1. Len(queue') = Len(queue) - 1 BY <2>3, <1>t, QueueFacts DEF Receive
    <3>2. worker = "receive" /\ worker' = "parse" /\ UNCHANGED <<arrived, reader>>
      BY <2>3 DEF Receive
    <3>3. QED BY <1>t, <3>1, <3>2 DEF Handled, One
  <2>4. CASE Copy \/ ReadClosed \/ ReadFails \/ Return
    <3>1. /\ UNCHANGED <<arrived, queue, worker>>
          /\ \/ reader = "copy" /\ reader' = "enqueue"
             \/ reader = "read" /\ reader' = "wait"
             \/ reader = "wait" /\ reader' = "returned"
      BY <2>4 DEF Copy, ReadClosed, ReadFails, EndOfReading, Return
    <3>2. QED BY <3>1 DEF Handled, One
  <2>5. CASE Encode \/ GiveUpLines \/ WriteDatagram \/ WriteFails
    <3>1. /\ worker \in {"parse", "post"} /\ worker' = "post"
          /\ UNCHANGED <<arrived, queue, reader>>
      BY <2>5 DEF Encode, GiveUpLines, WriteDatagram, WriteFails
    <3>2. QED BY <3>1 DEF Handled, One
  <2>6. CASE Done \/ WorkerEnds
    <3>1. /\ worker \in {"done", "receive"} /\ worker' \in {"receive", "ended"}
          /\ UNCHANGED <<arrived, queue, reader>>
      BY <2>6 DEF Done, WorkerEnds
    <3>2. QED BY <3>1 DEF Handled, One
  <2>7. CASE StoreClosing \/ CloseSocket \/ UNCHANGED vars
    <3>1. UNCHANGED <<arrived, queue, reader, worker>>
      BY <2>7 DEF StoreClosing, CloseSocket, vars
    <3>2. QED BY <3>1 DEF Handled
  <2>8. QED BY <1>2, <2>1, <2>2, <2>3, <2>4, <2>5, <2>6, <2>7 DEF Next, Running, Working
<1>3. QED BY <1>1, <1>2

\* The worker has the packet that arrived after those it is done with.
LEMMA WorkStep == ASSUME LInv, [Next]_vars PROVE AtWork'
<1>t. TypeOK /\ IInv BY DEF LInv, IInv
<1>w. /\ Handled \in Nat
      /\ worker = "parse" => content[wdata] = Data(NextPacket)
      /\ worker = "post" => content[wout] = Printed(NextPacket)
  BY DEF LInv, AtWork
<1>h. Handled' \in Nat BY <1>w, HandledStep
<1>n. ASSUME ~(Drop \/ PutOut), worker \in {"parse", "post"} PROVE NextPacket' = NextPacket
  <2>1. Handled' = Handled BY <1>n, HandledStep
  <2>2. Handled + 1 \in 1..Len(arrived) BY <1>n, <1>t, ArrivedFacts DEF LInv
  <2>3. arrived'[Handled + 1] = arrived[Handled + 1] BY <2>2, ArrivalStep
  <2>4. QED BY <2>1, <2>3 DEF NextPacket
<1> USE DEF readerVars, queueVars, workerVars, poolVars, stopVars, endVars
<1>1. ASSUME ~(Drop \/ PutOut), worker' = worker, wdata' = wdata, wout' = wout,
             worker = "parse" => content'[wdata] = content[wdata],
             worker = "post" => content'[wout] = content[wout]
      PROVE  AtWork'
  BY <1>1, <1>h, <1>n, <1>w DEF AtWork
<1>2. ASSUME worker' \notin {"parse", "post"} PROVE AtWork' BY <1>2, <1>h DEF AtWork
<1>3. CASE Copy
  <2>1. PICK i \in Gettable : content' = [content EXCEPT ![i] = buf] BY <1>3 DEF Copy
  <2>2. i # wdata /\ i # wout BY <1>t, GettableFacts
  <2>3. wdata \in Slots /\ wout \in Slots /\ content \in [Buffers -> Contents]
    BY <1>t DEF TypeOK
  <2>4. worker = "parse" => content'[wdata] = content[wdata]
    BY <1>t, <2>1, <2>2, <2>3 DEF IInv, Posting
  <2>5. worker = "post" => content'[wout] = content[wout]
    BY <1>t, <2>1, <2>2, <2>3 DEF IInv, Posting
  <2>6. UNCHANGED <<worker, wdata, wout>> /\ ~(Drop \/ PutOut)
    BY <1>3 DEF Copy, Drop, PutOut
  <2>7. QED BY <1>1, <2>4, <2>5, <2>6
<1>4. CASE (\E p \in Packets : Read(p)) \/ Enqueue \/ ReadClosed \/ ReadFails \/ Return
              \/ StoreClosing \/ CloseSocket \/ UNCHANGED vars
  <2>1. UNCHANGED <<worker, wdata, wout, content>>
    BY <1>4 DEF Read, Enqueue, ReadClosed, ReadFails, EndOfReading, Return, StoreClosing,
                CloseSocket, vars
  <2>2. ~(Drop \/ PutOut)
    <3>1. worker' = worker BY <2>1
    <3>2. QED BY <3>1 DEF Drop, PutOut
  <2>3. QED BY <1>1, <2>1, <2>2
<1>5. CASE Receive
  <2>1. /\ worker = "receive" /\ worker' = "parse" /\ wdata' = Head(queue) /\ queue # <<>>
        /\ UNCHANGED <<content, arrived, reader>>
    BY <1>5 DEF Receive
  <2>2. Len(queue) \in Nat /\ Len(queue) > 0 /\ Head(queue) = queue[1]
    BY <1>t, <2>1, QueueFacts
  <2>3. ~(Drop \/ PutOut) BY <2>1 DEF Drop, PutOut
  <2>4. Handled' = Handled BY <2>3, HandledStep
  <2> DEFINE last == Len(arrived) - (IF reader \in {"copy", "enqueue"} THEN 1 ELSE 0)
  <2>5. 1 \in 1..Len(queue) /\ content[queue[1]] = Data(arrived[last - Len(queue) + 1])
    BY <1>t, <2>2 DEF IInv, QueuedInArrivalOrder
  <2>6. last - Len(queue) = Handled
    <3>1. Len(arrived) \in Nat BY <1>t, QueueFacts
    <3>2. QED BY <2>1, <2>2, <3>1 DEF Handled, One
  <2>7. content'[wdata'] = Data(arrived'[Handled' + 1])
    BY <2>1, <2>2, <2>4, <2>5, <2>6
  <2>8. QED BY <1>h, <2>1, <2>7 DEF AtWork, NextPacket
<1>6. CASE Encode
  <2>1. worker = "parse" /\ worker' = "post" BY <1>6 DEF Encode
  <2>2. PICK p \in Packets : content[wdata] = Data(p) BY <1>t, <2>1 DEF IInv, Posting
  <2>3. content[wdata].of = p BY <2>2 DEF Data
  <2>4. PICK i \in Gettable :
          /\ wout' = i
          /\ content' = [content EXCEPT ![i] = Printed(p), ![wdata] = NoPacket]
    BY <1>6, <2>3 DEF Encode
  <2>5. i \in Buffers /\ i # wdata BY <1>t, GettableFacts
  <2>6. content'[i] = Printed(p) BY <1>t, <2>4, <2>5 DEF TypeOK
  <2>7. p = NextPacket
    <3>1. content[wdata] = Data(NextPacket) BY <1>w, <2>1
    <3>2. Data(NextPacket).of = NextPacket BY DEF Data
    <3>3. QED BY <2>3, <3>1, <3>2
  <2>8. ~(Drop \/ PutOut) BY <2>1 DEF Drop, PutOut
  <2>9. NextPacket' = NextPacket BY <1>n, <2>1, <2>8
  <2>10. QED BY <1>h, <2>1, <2>4, <2>6, <2>7, <2>9 DEF AtWork
<1>7. CASE GiveUpLines \/ WriteDatagram \/ WriteFails
  <2>1. worker = "post" /\ UNCHANGED <<worker, wdata, wout, content>>
    BY <1>7 DEF GiveUpLines, WriteDatagram, WriteFails
  <2>2. ~(Drop \/ PutOut) BY <2>1 DEF Drop, PutOut
  <2>3. QED BY <1>1, <2>1, <2>2
<1>8. CASE Drop \/ PutOut \/ Done \/ WorkerEnds
  BY <1>2, <1>8 DEF Drop, PutOut, Done, WorkerEnds
<1>9. QED
  BY <1>3, <1>4, <1>5, <1>6, <1>7, <1>8 DEF Next, Running, Working

\* Every line is one of a packet, and has the size printed for it.
LEMMA LineFacts ==
    ASSUME NEW l \in AnyLine
    PROVE  \E p \in Packets : \E n \in 1..Len(LineSizes[p]) :
              l = Line(p, n) /\ SizeOf(l) = LineSizes[p][n] /\ SizeOf(l) \in Nat
<1>1. PICK p \in Packets : \E n \in 1..Len(LineSizes[p]) : l = Line(p, n) BY DEF AnyLine
<1>2. PICK n \in 1..Len(LineSizes[p]) : l = Line(p, n) BY <1>1
<1>3. SizeOf(l) = LineSizes[p][n] BY <1>2 DEF SizeOf, Line
<1>4. LineSizes[p] \in Seq(Nat) BY UDPAssumption
<1>5. LineSizes[p][n] \in Nat BY <1>4, ElementOfSeq
<1>6. QED BY <1>2, <1>3, <1>5

\* What is given up begins with a line that no datagram can take.
LEMMA FirstIsTooLarge ==
    ASSUME NEW lines \in Seq(AnyLine), NEW mtu \in Nat,
           Bytes(lines, Len(lines)) > mtu, Fitting(lines, mtu) = 0
    PROVE  lines # <<>> /\ SizeOf(lines[1]) > mtu
<1>1. Len(lines) \in Nat BY LenProperties
<1>2. Len(lines) # 0
  <2>1. Bytes(lines, 0) = 0 BY NoBytes
  <2>2. QED BY <2>1
<1>3. 1 \in 0..Len(lines) /\ 1 \in 1..Len(lines) BY <1>1, <1>2
<1>4. ~(Bytes(lines, 1) <= mtu) BY <1>3, FittingFacts
<1>5. Bytes(lines, 1) = SizeOf(lines[1]) /\ SizeOf(lines[1]) \in Nat
  <2> DEFINE f == [i \in 1..1 |-> SizeOf(lines[i])]
  <2>1. lines[1] \in AnyLine BY <1>3, ElementOfSeq
  <2>2. SizeOf(lines[1]) \in Nat BY <2>1, LineFacts
  <2>3. DOMAIN f = {1} /\ f[1] = SizeOf(lines[1]) OBVIOUS
  <2>4. SumFunction(f) = Bytes(lines, 1) BY DEF Bytes
  <2> HIDE DEF f
  <2>5. IsFiniteSet({1}) BY FS_Singleton
  <2>6. SumFunctionOnSet(f, {1}) = f[1] + SumFunctionOnSet(f, {1} \ {1})
    BY <2>2, <2>3, <2>5, SumWithout
  <2>7. {1} \ {1} = {} OBVIOUS
  <2>8. SumFunctionOnSet(f, {}) = 0 BY SumOfNone
  <2>9. SumFunction(f) = SumFunctionOnSet(f, {1}) BY <2>3 DEF SumFunction
  <2>10. SumFunctionOnSet(f, {1}) = f[1] + 0 BY <2>6, <2>7, <2>8
  <2>11. f[1] + 0 = f[1] BY <2>2, <2>3
  <2>12. QED BY <2>2, <2>3, <2>4, <2>9, <2>10, <2>11
<1>6. lines # <<>> BY <1>2, EmptySeq
<1>7. QED BY <1>4, <1>5, <1>6

\* What was past stays so, and the packet at work is not.
LEMMA PastFacts ==
    ASSUME LInv, [Next]_vars
    PROVE  /\ ~(Drop \/ PutOut) => \A p : Past(p)' <=> Past(p)
           /\ Drop \/ PutOut => \A p : Past(p)' <=> Past(p) \/ p = NextPacket
           /\ worker \in {"parse", "post"} => ~Past(NextPacket)
           /\ worker \in {"parse", "post"} /\ ~(Drop \/ PutOut) => NextPacket' = NextPacket
<1>1. /\ Len(arrived) \in Nat /\ Handled \in 0..Len(arrived)
      /\ worker \in {"parse", "post"} => Handled + 1 \in 1..Len(arrived)
  BY ArrivedFacts DEF LInv, IInv
<1>2. \A i \in 1..Len(arrived) : arrived'[i] = arrived[i] BY ArrivalStep
<1>3. \A i \in 1..Handled : arrived'[i] = arrived[i] BY <1>1, <1>2
<1>4. ASSUME ~(Drop \/ PutOut), NEW p PROVE Past(p)' <=> Past(p)
  <2>1. Handled' = Handled BY <1>4, HandledStep
  <2>2. QED BY <1>3, <2>1 DEF Past
<1>5. ASSUME Drop \/ PutOut, NEW p PROVE Past(p)' <=> Past(p) \/ p = NextPacket
  <2>1. worker \in {"parse", "post"} BY <1>5 DEF Drop, PutOut
  <2>2. Handled' = Handled + 1 BY <1>5, HandledStep
  <2>3. arrived'[Handled + 1] = NextPacket BY <1>1, <1>2, <2>1 DEF NextPacket
  <2>4. \A i : i \in 1..Handled + 1 <=> i \in 1..Handled \/ i = Handled + 1 BY <1>1
  <2>5. QED BY <1>3, <2>2, <2>3, <2>4 DEF Past
<1>6. ASSUME worker \in {"parse", "post"}, Past(NextPacket) PROVE FALSE
  <2>1. PICK i \in 1..Handled : arrived[i] = arrived[Handled + 1] BY <1>6 DEF Past, NextPacket
  <2>2. i \in 1..Len(arrived) /\ Handled + 1 \in 1..Len(arrived) /\ i # Handled + 1
    BY <1>1, <1>6
  <2>3. QED BY <2>1, <2>2 DEF LInv, Once
<1>7. ASSUME worker \in {"parse", "post"}, ~(Drop \/ PutOut) PROVE NextPacket' = NextPacket
  <2>1. Handled' = Handled BY <1>7, HandledStep
  <2>2. arrived'[Handled + 1] = arrived[Handled + 1] BY <1>1, <1>2, <1>7
  <2>3. QED BY <2>1, <2>2 DEF NextPacket
<1>8. QED BY <1>4, <1>5, <1>6, <1>7

\* Steps that neither write lines nor change which packet is posted.
LEMMA LinesAlone ==
    ASSUME LInv, [Next]_vars, UNCHANGED <<sent, lost>>, ~(Drop \/ PutOut),
           worker = "post" <=> worker' = "post",
           worker = "post" => UNCHANGED <<to, rest>>
    PROVE  Progress'
<1>1. SUFFICES ASSUME NEW b \in Backends, NEW p \in Packets PROVE LinesSoFar(b, p)'
  BY DEF Progress
<1>2. LinesSoFar(b, p) BY DEF LInv, Progress
<1>3. Received(b, p)' = Received(b, p) BY DEF Received
<1>4. Served(b, p)' <=> Served(b, p) BY <1>3 DEF Served
<1>5. Past(p)' <=> Past(p) BY PastFacts
<1>6. BeingPosted(p)' <=> BeingPosted(p) BY PastFacts DEF BeingPosted
<1>7. worker = "post" => to' = to /\ rest' = rest OBVIOUS
<1>8. BeingPosted(p) => worker = "post" BY DEF BeingPosted
<1>9. QED BY <1>2, <1>3, <1>4, <1>5, <1>6, <1>7, <1>8 DEF LinesSoFar

\* A packet that does not parse is done with, and so is one that all have got.
LEMMA DoneLines == ASSUME LInv, [Next]_vars, Drop \/ PutOut PROVE Progress'
<1>1. SUFFICES ASSUME NEW b \in Backends, NEW p \in Packets PROVE LinesSoFar(b, p)'
  BY DEF Progress
<1>2. LinesSoFar(b, p) BY DEF LInv, Progress
<1>3. /\ UNCHANGED <<sent, lost>> /\ worker' = "done" /\ worker \in {"parse", "post"}
  BY DEF Drop, PutOut
<1>4. Received(b, p)' = Received(b, p) BY <1>3 DEF Received
<1>5. Served(b, p)' <=> Served(b, p) BY <1>3, <1>4 DEF Served
<1>6. Past(p)' <=> Past(p) \/ p = NextPacket BY PastFacts
<1>7. ~BeingPosted(p)' BY <1>3 DEF BeingPosted
<1>8. ASSUME p = NextPacket, p \in Parseable PROVE Served(b, p)
  <2>1. CASE Drop
    <3>1. worker = "parse" /\ content[wdata].of \notin Parseable BY <2>1 DEF Drop
    <3>2. content[wdata] = Data(NextPacket) BY <3>1 DEF LInv, AtWork
    <3>3. QED BY <1>8, <3>1, <3>2 DEF Data
  <2>2. CASE PutOut
    <3>1. worker = "post" /\ to \notin Backends BY <2>2 DEF PutOut
    <3>2. to \in 1..NumBackends + 1 /\ NumBackends \in Nat
      BY UDPAssumption DEF LInv, IInv, TypeOK
    <3>3. b < to BY <3>1, <3>2 DEF Backends
    <3>4. QED BY <1>2, <1>8, <3>1, <3>3 DEF LinesSoFar, BeingPosted
  <2>3. QED BY <2>1, <2>2
<1>9. ~Past(p)' => ~Past(p) /\ p # NextPacket BY <1>6
<1>10. QED BY <1>2, <1>4, <1>5, <1>6, <1>7, <1>8, <1>9 DEF LinesSoFar, BeingPosted

\* The first backend's turn.
LEMMA EncodeLines == ASSUME LInv, [Next]_vars, Encode PROVE Progress'
<1>1. SUFFICES ASSUME NEW b \in Backends, NEW p \in Packets PROVE LinesSoFar(b, p)'
  BY DEF Progress
<1>2. LinesSoFar(b, p) BY DEF LInv, Progress
<1>3. /\ worker = "parse" /\ worker' = "post" /\ to' = 1 /\ UNCHANGED <<sent, lost>>
      /\ rest' = LinesOf(content[wdata].of)
  BY DEF Encode
<1>4. content[wdata].of = NextPacket
  BY <1>3 DEF LInv, AtWork, Data
<1>5. ~(Drop \/ PutOut) BY <1>3 DEF Drop, PutOut
<1>6. Received(b, p)' = Received(b, p) BY <1>3 DEF Received
<1>7. Served(b, p)' <=> Served(b, p) BY <1>3, <1>6 DEF Served
<1>8. (Past(p)' <=> Past(p)) /\ NextPacket' = NextPacket /\ ~Past(NextPacket)
  BY <1>3, <1>5, PastFacts
<1>9. (BeingPosted(p)' <=> p = NextPacket) /\ ~BeingPosted(p) BY <1>3, <1>8 DEF BeingPosted
<1>10. b >= 1 BY UDPAssumption DEF Backends
<1>11. p = NextPacket => Received(b, p) = <<>> /\ rest' = LinesOf(p)
  BY <1>2, <1>3, <1>4, <1>8, <1>9 DEF LinesSoFar
<1>12. <<>> \o LinesOf(p) = LinesOf(p) BY LinesType, ConcatEmptySeq
<1>13. QED
  BY <1>2, <1>3, <1>6, <1>7, <1>8, <1>9, <1>10, <1>11, <1>12 DEF LinesSoFar, Backends

\* The loop goes on to the next backend.
LEMMA NextLines ==
    ASSUME LInv, [Next]_vars, worker = "post", worker' = "post", NEW c \in Backends, c = to,
           NextBackend, NEW p \in Packets, p = NextPacket,
           \A b \in Backends : lost[b] \subseteq lost'[b],
           \A b \in Backends : \A q : b # c \/ q # p => Received(b, q)' = Received(b, q),
           \E more \in Seq(AnyLine) : Received(c, p)' \o more = LinesOf(p),
           Served(c, p)'
    PROVE  Progress'
<1>1. SUFFICES ASSUME NEW b \in Backends, NEW q \in Packets PROVE LinesSoFar(b, q)'
  BY DEF Progress
<1>2. LinesSoFar(b, q) BY DEF LInv, Progress
<1>3. ~(Drop \/ PutOut) BY DEF Drop, PutOut
<1>4. /\ Past(q)' <=> Past(q)
      /\ NextPacket' = NextPacket /\ ~Past(p)
  BY <1>3, PastFacts
<1>5. BeingPosted(q)' <=> q = p BY <1>4 DEF BeingPosted
<1>6. BeingPosted(q) <=> q = p BY DEF BeingPosted
<1>7. to' = c + 1 /\ rest' = LinesOf(p)
  <2>1. content[wout] = Printed(p) BY DEF LInv, AtWork
  <2>2. content[wout].of = p BY <2>1 DEF Printed
  <2>3. QED BY <2>2 DEF NextBackend
<1>8. CASE b = c /\ q = p
  BY <1>4, <1>5, <1>7, <1>8 DEF LinesSoFar, Backends
<1>9. CASE ~(b = c /\ q = p)
  <2>1. Received(b, q)' = Received(b, q) BY <1>9
  <2>2. Served(b, q) => Served(b, q)' BY <2>1 DEF Served
  <2>3. <<>> \o LinesOf(p) = LinesOf(p) BY LinesType, ConcatEmptySeq
  <2>4. b \in Int /\ c \in Int BY DEF Backends
  <2>5. ASSUME q = p
        PROVE  /\ b < c + 1 => Served(b, q)'
               /\ b = c + 1 => Received(b, q)' \o rest' = LinesOf(q)
               /\ b > c + 1 => Received(b, q)' = <<>>
    <3>1. b # c BY <1>9, <2>5
    <3>2. b < c + 1 => b < c BY <2>4, <3>1
    <3>3. b >= c + 1 => b > c BY <2>4
    <3>4. (b < c => Served(b, q)) /\ (b > c => Received(b, q) = <<>>)
      BY <1>2, <1>6, <2>5 DEF LinesSoFar
    <3>5. b < c + 1 => Served(b, q)' BY <2>2, <3>2, <3>4
    <3>6. b >= c + 1 => Received(b, q)' = <<>> BY <2>1, <3>3, <3>4
    <3>7. QED BY <1>7, <2>3, <2>4, <2>5, <3>5, <3>6
  <2>6. /\ \E more \in Seq(AnyLine) : Received(b, q)' \o more = LinesOf(q)
        /\ Past(q)' /\ q \in Parseable => Served(b, q)'
        /\ ~Past(q)' /\ ~BeingPosted(q)' => Received(b, q)' = <<>>
    BY <1>2, <1>4, <1>5, <1>6, <2>1, <2>2 DEF LinesSoFar
  <2>7. QED BY <1>5, <1>7, <2>5, <2>6 DEF LinesSoFar
<1>10. QED BY <1>8, <1>9

\* What is posted to the backend whose turn it is.
LEMMA PostFacts ==
    ASSUME LInv, worker = "post", to \in Backends
    PROVE  /\ NextPacket \in Packets /\ MTU[to] \in Nat
           /\ rest \in Seq(AnyLine) /\ Received(to, NextPacket) \in Seq(AnyLine)
           /\ Received(to, NextPacket) \o rest = LinesOf(NextPacket)
<1>1. TypeOK /\ AtWork BY DEF LInv, IInv
<1>2. NextPacket \in Packets BY <1>1, ArrivedFacts
<1>3. rest \in Seq(AnyLine) BY <1>1 DEF TypeOK
<1>4. PICK c \in Backends : c = to OBVIOUS
<1>5. LinesSoFar(c, NextPacket) BY <1>2 DEF LInv, Progress
<1>6. Received(c, NextPacket) \o rest = LinesOf(NextPacket)
  BY <1>4, <1>5 DEF LinesSoFar, BeingPosted
<1>7. Received(c, NextPacket) \in Seq(AnyLine) BY <1>1, ReceivedType
<1>8. MTU[to] \in Nat BY UDPAssumption
<1>9. QED BY <1>2, <1>3, <1>4, <1>6, <1>7, <1>8

\* The first of the lines left is larger than the MTU.
LEMMA GiveUpLinesLines == ASSUME LInv, [Next]_vars, GiveUpLines PROVE Progress'
<1>1. /\ worker = "post" /\ worker' = "post" /\ to \in Backends /\ TooLarge /\ NextBackend
      /\ UNCHANGED <<sent, lost>>
  BY DEF GiveUpLines
<1>2. PICK c \in Backends : c = to BY <1>1
<1>3. PICK p \in Packets : p = NextPacket BY <1>1, PostFacts
<1>4. /\ rest \in Seq(AnyLine) /\ Received(c, p) \in Seq(AnyLine)
      /\ Received(c, p) \o rest = LinesOf(p) /\ MTU[c] \in Nat
  BY <1>1, <1>2, <1>3, PostFacts
<1>5. rest # <<>> /\ SizeOf(rest[1]) > MTU[c]
  BY <1>1, <1>2, <1>4, FirstIsTooLarge DEF TooLarge
<1>6. \E n \in 1..Len(LineSizes[p]) : LineSizes[p][n] > MTU[c]
  <2> DEFINE n == Len(Received(c, p)) + 1
  <2>1. Len(rest) \in Nat \ {0} /\ Len(Received(c, p)) \in Nat
    BY <1>4, <1>5, EmptySeq, LenProperties
  <2>2. n \in 1..Len(Received(c, p)) + Len(rest) BY <2>1
  <2>3. LinesOf(p)[n] = rest[1] /\ Len(LinesOf(p)) = Len(Received(c, p)) + Len(rest)
    <3>1. Len(Received(c, p) \o rest) = Len(Received(c, p)) + Len(rest)
      BY <1>4, ConcatProperties
    <3>2. (Received(c, p) \o rest)[n] = rest[n - Len(Received(c, p))]
      BY <1>4, <2>1, <2>2, ConcatProperties
    <3>3. n - Len(Received(c, p)) = 1 BY <2>1
    <3>4. QED BY <1>4, <3>1, <3>2, <3>3
  <2> HIDE DEF n
  <2>4. Len(LineSizes[p]) \in Nat BY UDPAssumption, LenProperties
  <2>5. Len(LinesOf(p)) = Len(LineSizes[p]) BY <2>4 DEF LinesOf
  <2>6. n \in 1..Len(LineSizes[p]) BY <2>2, <2>3, <2>5
  <2>7. rest[1] = Line(p, n) BY <2>3, <2>6 DEF LinesOf
  <2>8. SizeOf(rest[1]) = LineSizes[p][n] BY <2>7 DEF SizeOf, Line
  <2>9. QED BY <1>5, <2>6, <2>8
<1>7. Served(c, p)' BY <1>6 DEF Served
<1>8. \A b \in Backends : \A q : Received(b, q)' = Received(b, q) BY <1>1 DEF Received
<1>9. \E more \in Seq(AnyLine) : Received(c, p)' \o more = LinesOf(p) BY <1>4, <1>8
<1>10. QED BY <1>1, <1>2, <1>3, <1>7, <1>8, <1>9, NextLines

\* A write fails: the packet is lost to that backend.
LEMMA WriteFailsLines == ASSUME LInv, [Next]_vars, WriteFails PROVE Progress'
<1>1. /\ worker = "post" /\ worker' = "post" /\ to \in Backends /\ NextBackend
      /\ sent' = sent /\ lost' = [lost EXCEPT ![to] = @ \cup {content[wout].of}]
  BY DEF WriteFails
<1>2. PICK c \in Backends : c = to BY <1>1
<1>3. PICK p \in Packets : p = NextPacket BY <1>1, PostFacts
<1>4. /\ rest \in Seq(AnyLine)
      /\ Received(c, p) \o rest = LinesOf(p)
  BY <1>1, <1>2, <1>3, PostFacts
<1>5. content[wout].of = p BY <1>1, <1>3 DEF LInv, AtWork, Printed
<1>6. lost'[c] = lost[c] \cup {p} /\ \A b \in Backends : lost[b] \subseteq lost'[b]
  <2>1. lost \in [Backends -> SUBSET Packets] BY DEF LInv, IInv, TypeOK
  <2>2. QED BY <1>1, <1>2, <1>5, <2>1
<1>7. Served(c, p)' BY <1>6 DEF Served
<1>8. \A b \in Backends : \A q : Received(b, q)' = Received(b, q) BY <1>1 DEF Received
<1>9. \E more \in Seq(AnyLine) : Received(c, p)' \o more = LinesOf(p) BY <1>4, <1>8
<1>10. QED BY <1>1, <1>2, <1>3, <1>6, <1>7, <1>8, <1>9, NextLines

\* The lines left are lines of the packet.
LEMMA RestFacts ==
    ASSUME NEW p \in Packets, NEW r \in Seq(AnyLine), NEW s \in Seq(AnyLine),
           r \o s = LinesOf(p)
    PROVE  \A i \in 1..Len(s) : s[i].of = p
<1>1. SUFFICES ASSUME NEW i \in 1..Len(s) PROVE s[i].of = p OBVIOUS
<1> DEFINE n == Len(r) + i
<1>2. Len(r) \in Nat /\ Len(s) \in Nat BY LenProperties
<1>3. n \in 1..Len(r) + Len(s) /\ n - Len(r) = i /\ n > Len(r) BY <1>2
<1>4. (r \o s)[n] = s[n - Len(r)] /\ Len(r \o s) = Len(r) + Len(s)
  BY <1>3, ConcatProperties
<1>5. LinesOf(p)[n] = s[i] /\ n \in 1..Len(LinesOf(p)) BY <1>3, <1>4
<1> HIDE DEF n
<1>6. Len(LineSizes[p]) \in Nat BY UDPAssumption, LenProperties
<1>7. Len(LinesOf(p)) = Len(LineSizes[p]) BY <1>6 DEF LinesOf
<1>8. LinesOf(p)[n] = Line(p, n) BY <1>5, <1>7 DEF LinesOf
<1>9. QED BY <1>5, <1>8 DEF Line

\* A datagram is written: the lines that fit, or all that are left.
LEMMA WriteDatagramLines == ASSUME LInv, [Next]_vars, WriteDatagram PROVE Progress'
<1> DEFINE n == Fitting(rest, MTU[to])
           d == SubSeq(rest, 1, n)
<1>1. /\ worker = "post" /\ worker' = "post" /\ to \in Backends /\ lost' = lost
      /\ sent' = [sent EXCEPT ![to] = Append(@, d)]
      /\ n < Len(rest) => rest' = SubSeq(rest, n + 1, Len(rest)) /\ to' = to
      /\ ~(n < Len(rest)) => NextBackend
  BY DEF WriteDatagram, LinesLeft
<1>2. PICK c \in Backends : c = to BY <1>1
<1>3. PICK p \in Packets : p = NextPacket BY <1>1, PostFacts
<1>4. /\ rest \in Seq(AnyLine) /\ Received(c, p) \in Seq(AnyLine)
      /\ Received(c, p) \o rest = LinesOf(p) /\ MTU[c] \in Nat
  BY <1>1, <1>2, <1>3, PostFacts
<1>5. n \in 0..Len(rest) /\ Len(rest) \in Nat
  BY <1>2, <1>4, FittingFacts, LenProperties
<1> HIDE DEF n
<1> DEFINE left == SubSeq(rest, n + 1, Len(rest))
<1>6. d \in Seq(AnyLine) /\ left \in Seq(AnyLine) /\ d \o left = rest
  <2>1. \A i \in 1..Len(rest) : rest[i] \in AnyLine BY <1>4, ElementOfSeq
  <2>2. d \in Seq(AnyLine) BY <1>5, <2>1, SubSeqProperties
  <2>3. left \in Seq(AnyLine) BY <1>5, <2>1, SubSeqProperties
  <2>4. d \o left = SubSeq(rest, 1, Len(rest))
    <3>1. 1 \in 1..Len(rest) + 1 /\ n \in 1 - 1 .. Len(rest) /\ Len(rest) \in n..Len(rest)
      BY <1>5
    <3>2. QED BY <1>4, <3>1, ConcatAdjacentSubSeq
  <2>5. SubSeq(rest, 1, Len(rest)) = rest BY <1>4, SubSeqFull
  <2>6. QED BY <2>2, <2>3, <2>4, <2>5
<1> HIDE DEF d, left
<1>7. (Received(c, p) \o d) \o left = LinesOf(p)
  <2>1. \A r, s, t \in Seq(AnyLine) : (r \o s) \o t = r \o (s \o t)
    BY ConcatAssociative
  <2>2. (Received(c, p) \o d) \o left = Received(c, p) \o (d \o left)
    BY <1>4, <1>6, <2>1
  <2>3. QED BY <1>4, <1>6, <2>1, <2>2
<1>8. \A i \in 1..Len(d) : d[i].of = p
  <2>1. \A i \in 1..Len(rest) : rest[i].of = p BY <1>4, RestFacts
  <2>2. \A i \in 1..Len(d) : i \in 1..Len(rest) /\ d[i] = rest[i]
    <3>1. Len(d) = n /\ \A i \in 1..n : d[i] = rest[i] BY <1>4, <1>5 DEF d
    <3>2. QED BY <1>5, <3>1
  <2>3. QED BY <2>1, <2>2
<1>9. /\ Received(c, p)' = Received(c, p) \o d
      /\ \A b \in Backends : \A q : b # c \/ q # p => Received(b, q)' = Received(b, q)
  <2>1. TypeOK /\ sent' = [sent EXCEPT ![c] = Append(@, d)]
    BY <1>1, <1>2 DEF LInv, IInv
  <2>2. QED BY <1>6, <1>8, <2>1, ReceivedStep
<1>10. \E more \in Seq(AnyLine) : Received(c, p)' \o more = LinesOf(p) BY <1>6, <1>7, <1>9
<1>11. CASE ~(n < Len(rest))
  <2>1. n = Len(rest) BY <1>5, <1>11
  <2>2. d = rest BY <1>4, <2>1, SubSeqFull DEF d
  <2>3. Received(c, p)' = LinesOf(p) BY <1>4, <1>9, <2>2
  <2>4. Served(c, p)' BY <2>3 DEF Served
  <2>5. \A b \in Backends : lost[b] \subseteq lost'[b] BY <1>1
  <2>6. QED BY <1>1, <1>2, <1>3, <1>9, <1>10, <1>11, <2>4, <2>5, NextLines
<1>12. CASE n < Len(rest)
  <2>1. rest' = left /\ to' = to BY <1>1, <1>12 DEF left
  <2>2. SUFFICES ASSUME NEW b \in Backends, NEW q \in Packets PROVE LinesSoFar(b, q)'
    BY DEF Progress
  <2>3. LinesSoFar(b, q) BY DEF LInv, Progress
  <2>4. ~(Drop \/ PutOut) BY <1>1 DEF Drop, PutOut
  <2>5. (Past(q)' <=> Past(q)) /\ NextPacket' = NextPacket /\ ~Past(p)
    BY <1>1, <1>3, <2>4, PastFacts
  <2>6. BeingPosted(q)' <=> BeingPosted(q) BY <1>1, <2>5 DEF BeingPosted
  <2>7. BeingPosted(q) <=> q = p BY <1>1, <1>3 DEF BeingPosted
  <2>8. CASE b = c /\ q = p
    <3>1. Received(c, p)' \o rest' = LinesOf(p) BY <1>7, <1>9, <2>1
    <3>2. ~(b < to') /\ ~(b > to') BY <1>2, <2>1, <2>8 DEF Backends
    <3>3. QED BY <1>10, <2>5, <2>6, <2>7, <2>8, <3>1, <3>2 DEF LinesSoFar
  <2>9. CASE ~(b = c /\ q = p)
    <3>1. Received(b, q)' = Received(b, q) BY <1>9, <2>9
    <3>2. Served(b, q)' <=> Served(b, q) BY <1>1, <3>1 DEF Served
    <3>3. BeingPosted(q) => b # to' BY <1>2, <2>1, <2>7, <2>9
    <3>4. QED BY <2>1, <2>3, <2>5, <2>6, <3>1, <3>2, <3>3 DEF LinesSoFar
  <2>10. QED BY <2>8, <2>9
<1>13. QED BY <1>11, <1>12

\* Nothing has arrived and nothing was written.
LEMMA LInitially == Init => LInv
<1> SUFFICES ASSUME Init PROVE LInv OBVIOUS
<1>1. IInv BY Initially
<1>2. /\ arrived = <<>> /\ queue = <<>> /\ reader = "read" /\ worker = "receive"
      /\ \A b \in Backends : sent[b] = <<>>
  BY DEF Init
<1>3. Len(arrived) = 0 /\ Len(queue) = 0 BY <1>2, EmptySeq
<1>4. Handled = 0 BY <1>2, <1>3 DEF Handled, One
<1>5. Once /\ AtWork BY <1>2, <1>3, <1>4 DEF Once, AtWork
<1>6. ASSUME NEW b \in Backends, NEW p \in Packets PROVE LinesSoFar(b, p)
  <2>1. Received(b, p) = <<>>
    <3>1. Len(sent[b]) = 0 BY <1>2, <1>6, EmptySeq
    <3>2. [i \in 1..Len(sent[b]) |-> PartOf(sent[b][i], p)] = <<>> BY <3>1
    <3>3. QED BY <3>2, FlattenOfNone DEF Received, LinesIn
  <2>2. LinesOf(p) \in Seq(AnyLine) /\ <<>> \o LinesOf(p) = LinesOf(p)
    BY LinesType, ConcatEmptySeq
  <2>3. ~Past(p) /\ ~BeingPosted(p) BY <1>2, <1>4 DEF Past, BeingPosted
  <2>4. QED BY <2>1, <2>2, <2>3 DEF LinesSoFar
<1>7. QED BY <1>1, <1>5, <1>6 DEF LInv, Progress

\* Every step brings every backend on as it should.
LEMMA ProgressStep == ASSUME LInv, [Next]_vars PROVE Progress'
<1> USE DEF readerVars, queueVars, workerVars, poolVars, stopVars, endVars
<1>1. CASE Drop \/ PutOut BY <1>1, DoneLines
<1>2. CASE Encode BY <1>2, EncodeLines
<1>3. CASE GiveUpLines \/ WriteDatagram \/ WriteFails
  BY <1>3, GiveUpLinesLines, WriteDatagramLines, WriteFailsLines
<1>4. CASE (\E p \in Packets : Read(p)) \/ Running \/ ReadFails \/ StoreClosing \/ CloseSocket
              \/ UNCHANGED vars
  <2>1. UNCHANGED <<worker, to, rest, sent, lost>>
    BY <1>4 DEF Read, Running, Copy, Enqueue, ReadClosed, ReadFails, EndOfReading, Return,
                StoreClosing, CloseSocket, vars
  <2>2. ~(Drop \/ PutOut) BY <2>1 DEF Drop, PutOut
  <2>3. QED BY <2>1, <2>2, LinesAlone
<1>5. CASE Receive \/ Done \/ WorkerEnds
  <2>1. /\ worker \in {"receive", "done"} /\ worker' \in {"parse", "receive", "ended"}
        /\ UNCHANGED <<sent, lost>>
    BY <1>5 DEF Receive, Done, WorkerEnds
  <2>2. ~(Drop \/ PutOut) BY <2>1 DEF Drop, PutOut
  <2>3. QED BY <2>1, <2>2, LinesAlone
<1>6. QED BY <1>1, <1>2, <1>3, <1>4, <1>5 DEF Next, Working

\* A packet that has arrived is in hand, or the worker is done with it.
LEMMA InHandOrPast ==
    ASSUME LInv, NEW p, HasArrived(p), ~InHand(p)
    PROVE  Past(p)
<1> DEFINE n == Len(queue)
           last == Len(arrived) - One(reader \in {"copy", "enqueue"})
<1>1. PICK i \in 1..Len(arrived) : arrived[i] = p BY DEF HasArrived
<1>2. /\ Len(arrived) \in Nat /\ n \in Nat /\ Handled \in Nat
      /\ Handled + One(worker \in {"parse", "post"}) + n
            + One(reader \in {"copy", "enqueue"}) = Len(arrived)
  BY ArrivedFacts DEF LInv, IInv
<1>3. One(worker \in {"parse", "post"}) \in {0, 1} /\ One(reader \in {"copy", "enqueue"}) \in {0, 1}
  BY DEF One
<1>4. ASSUME i > last PROVE FALSE
  <2>1. reader \in {"copy", "enqueue"} /\ i = Len(arrived)
    <3>1. One(reader \in {"copy", "enqueue"}) # 0 BY <1>2, <1>4
    <3>2. One(reader \in {"copy", "enqueue"}) = 1 BY <1>3, <3>1
    <3>3. i = Len(arrived) BY <1>2, <1>4, <3>2
    <3>4. QED BY <3>1, <3>3 DEF One
  <2>2. CASE reader = "copy" BY <1>1, <2>1, <2>2 DEF LInv, IInv, Reading, InHand
  <2>3. CASE reader = "enqueue"
    <3>1. data \in Buffers /\ content[data] = Data(p)
      BY <1>1, <2>1, <2>3 DEF LInv, IInv, Reading
    <3>2. data \in InUse /\ data # Unused BY <3>1 DEF InUse, Buffers, Unused
    <3>3. QED BY <3>1, <3>2 DEF InHand
  <2>4. QED BY <2>1, <2>2, <2>3
<1>5. ASSUME i \in last - n + 1 .. last PROVE FALSE
  <2> DEFINE j == i - (last - n)
  <2>1. j \in 1..n /\ last - n + j = i
    <3>1. last \in Int /\ n \in Int BY <1>2, <1>3
    <3>2. i \in last - n + 1 .. last BY <1>5
    <3> HIDE DEF last, n
    <3>3. QED BY <3>1, <3>2
  <2>2. content[queue[j]] = Data(arrived[last - n + j])
    <3>1. last = Len(arrived) - (IF reader \in {"copy", "enqueue"} THEN 1 ELSE 0) BY DEF One
    <3> HIDE DEF last, j
    <3>2. QED BY <2>1, <3>1 DEF LInv, IInv, QueuedInArrivalOrder
  <2> HIDE DEF last, j
  <2>3. content[queue[j]] = Data(p) BY <1>1, <2>1, <2>2
  <2>4. queue[j] \in Buffers BY <2>1, ElementOfSeq DEF LInv, IInv, TypeOK
  <2>5. queue[j] \in InUse /\ queue[j] # Unused BY <2>1, <2>4 DEF InUse, Buffers, Unused
  <2>6. QED BY <2>3, <2>5 DEF InHand
<1>6. ASSUME i = Handled + 1, worker \in {"parse", "post"} PROVE FALSE
  <2>1. p = NextPacket BY <1>1, <1>6 DEF NextPacket
  <2>2. CASE worker = "parse"
    <3>1. content[wdata] = Data(p) /\ wdata \in Buffers
      BY <2>1, <2>2 DEF LInv, AtWork, IInv, Posting
    <3>2. wdata \in InUse /\ wdata # Unused BY <3>1 DEF InUse, Buffers, Unused
    <3>3. QED BY <3>1, <3>2 DEF InHand
  <2>3. CASE worker = "post"
    <3>1. content[wout] = Printed(p) /\ wout \in Buffers
      BY <2>1, <2>3 DEF LInv, AtWork, IInv, Posting
    <3>2. wout \in InUse /\ wout # Unused BY <3>1 DEF InUse, Buffers, Unused
    <3>3. QED BY <3>1, <3>2 DEF InHand
  <2>4. QED BY <1>6, <2>2, <2>3
<1>7. i \in 1..Handled
  <2>1. i <= last - n BY <1>2, <1>3, <1>4, <1>5
  <2>2. last - n = Handled + One(worker \in {"parse", "post"}) BY <1>2, <1>3
  <2> HIDE DEF last, n
  <2>3. CASE worker \in {"parse", "post"}
    <3>1. One(worker \in {"parse", "post"}) = 1 BY <2>3 DEF One
    <3>2. i # Handled + 1 BY <1>6, <2>3
    <3>3. QED BY <1>2, <2>1, <2>2, <3>1, <3>2
  <2>4. CASE worker \notin {"parse", "post"}
    <3>1. One(worker \in {"parse", "post"}) = 0 BY <2>4 DEF One
    <3>2. QED BY <1>2, <2>1, <2>2, <3>1
  <2>5. QED BY <2>3, <2>4
<1>8. QED BY <1>1, <1>7 DEF Past

-----------------------------------------------------------------------------
(***************************************************************************)
(* The theorems.                                                           *)
(***************************************************************************)
\* Every reachable state of the UDP relay satisfies the invariant.
THEOREM Invariance == Spec => []IInv
<1>1. QED BY Initially, Inductive, PTL DEF Spec

\* The variables of the UDP relay have their types.
THEOREM TypesHold == Spec => []TypeOK
<1>1. IInv => TypeOK BY DEF IInv
<1>2. QED BY <1>1, Invariance, PTL

\* The buffers in the queue hold the packets not handled yet, in order of arrival:
\* neither the array that Run() reads into nor the pool mixes them up.
THEOREM QueueKeepsOrder == Spec => []QueuedInArrivalOrder
<1>1. IInv => QueuedInArrivalOrder BY DEF IInv
<1>2. QED BY <1>1, Invariance, PTL

\* wg.Wait() in Run() returns when no packet is queued, read or being relayed.
THEOREM ReturnIsDrained == Spec => []DrainedOnReturn
<1>1. ASSUME IInv, reader = "returned", NEW p \in Packets PROVE ~InHand(p)
  <2>1. Len(queue) \in Nat BY <1>1, QueueFacts DEF IInv
  <2>2. Len(queue) = 0 /\ worker \notin {"parse", "post", "done"}
    <3>1. 0 = Len(queue) + One(worker \in {"parse", "post", "done"})
      BY <1>1, <2>1 DEF IInv, Counting, One
    <3>2. One(worker \in {"parse", "post", "done"}) \in {0, 1} BY DEF One
    <3>3. One(worker \in {"parse", "post", "done"}) = 0 BY <2>1, <3>1, <3>2
    <3>4. QED BY <2>1, <3>1, <3>3 DEF One
  <2>3. data = Unused /\ wdata = Unused /\ wout = Unused
    BY <1>1, <2>2 DEF IInv, Reading, Posting
  <2>4. InUse = {Unused} BY <2>2, <2>3 DEF InUse
  <2>5. QED BY <1>1, <2>4 DEF InHand
<1>2. IInv => DrainedOnReturn BY <1>1 DEF DrainedOnReturn
<1>3. QED BY <1>2, Invariance, PTL

\* Run() sees `closing' when its socket was closed by Stop(): it returns no error.
THEOREM StoppingIsSilent == Spec => []StopIsNoError
<1>1. IInv => StopIsNoError BY DEF IInv
<1>2. QED BY <1>1, Invariance, PTL

\* However long the lines are, no datagram exceeds the MTU of its backend.
THEOREM DatagramsAreWithinMTU == Spec => []DatagramsFit
<1>1. IInv => DatagramsFit BY DEF IInv
<1>2. QED BY <1>1, Invariance, PTL

\* Every backend gets the lines of a packet in order and none twice; and, whatever
\* happened at the others, all of them, unless a write to it failed or a line is
\* larger than its MTU: post() cuts the lines into datagrams without losing any.
THEOREM LinesArrive == Spec => []LinesAreComplete
<1>1. LInv /\ [Next]_vars => LInv'
  BY Inductive, ArrivalStep, WorkStep, ProgressStep DEF LInv
<1>2. LInv => LinesAreComplete
  <2> SUFFICES ASSUME LInv, NEW b \in Backends, NEW p \in Packets
               PROVE  /\ IsPrefix(Received(b, p), LinesOf(p))
                      /\ p \in Parseable /\ HasArrived(p) /\ ~InHand(p) => Served(b, p)
    BY DEF LinesAreComplete
  <2>1. LinesSoFar(b, p) BY DEF LInv, Progress
  <2>2. IsPrefix(Received(b, p), LinesOf(p))
    <3> DEFINE r == Received(b, p)
    <3>1. PICK more \in Seq(AnyLine) : r \o more = LinesOf(p) BY <2>1 DEF LinesSoFar
    <3>2. r \in Seq(AnyLine) BY ReceivedType DEF LInv, IInv
    <3> HIDE DEF r
    <3>3. /\ Len(r \o more) = Len(r) + Len(more)
          /\ \A i \in 1..Len(r) : (r \o more)[i] = r[i]
          /\ Len(r) \in Nat /\ Len(more) \in Nat /\ r \o more \in Seq(AnyLine)
      <4>1. Len(r) \in Nat /\ Len(more) \in Nat BY <3>1, <3>2, LenProperties
      <4>2. /\ r \o more \in Seq(AnyLine)
            /\ Len(r \o more) = Len(r) + Len(more)
            /\ \A i \in 1..Len(r) + Len(more) :
                  (r \o more)[i] = IF i <= Len(r) THEN r[i] ELSE more[i - Len(r)]
        BY <3>1, <3>2, ConcatProperties
      <4>3. \A i \in 1..Len(r) : i \in 1..Len(r) + Len(more) /\ i <= Len(r) BY <4>1
      <4>4. QED BY <4>1, <4>2, <4>3
    <3> DEFINE q == LinesOf(p)
               u == SubSeq(q, 1, Len(r))
    <3>4. /\ Len(r) <= Len(q) /\ \A i \in 1..Len(r) : q[i] = r[i]
          /\ q \in Seq(AnyLine) /\ Len(q) \in Nat
      BY <3>1, <3>3
    <3> HIDE DEF q
    <3>5. u \in Seq(AnyLine) /\ Len(u) = Len(r) /\ \A i \in 1..Len(r) : u[i] = r[i]
      BY <3>3, <3>4
    <3> HIDE DEF u
    <3>6. u = r BY <3>2, <3>5, SeqEqual
    <3>7. SubSeq(r, 1, Len(r)) = r BY <3>2, SubSeqFull
    <3>8. QED BY <3>4, <3>6, <3>7 DEF IsPrefix, q, r, u
  <2>3. p \in Parseable /\ HasArrived(p) /\ ~InHand(p) => Served(b, p)
    BY <2>1, InHandOrPast DEF LinesSoFar
  <2>4. QED BY <2>2, <2>3
<1>3. QED BY LInitially, <1>1, <1>2, PTL DEF Spec
=============================================================================
