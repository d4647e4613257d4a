------------------------------- MODULE UDPRelay --------------------------------
(***************************************************************************)
(* The UDP relay (relay/udp.go).  Run() reads packets and queues them for  *)
(* a worker goroutine, which parses them and writes the lines to every     *)
(* backend in datagrams of at most its MTU.  Stop() closes the socket; Run *)
(* then returns once the worker has drained the queue.                     *)
(***************************************************************************)
EXTENDS Integers, SequencesExt

CONSTANTS
    Packets,       \* the packets that may arrive, each at most once
    Parseable,     \* those that are line protocol
    LineSizes,     \* the sizes of the lines printed for each packet
    NumBackends,
    MTU,           \* of each backend
    QueueSize,     \* the capacity of the channel `queue', 1024
    MaxBuffers     \* bound: how many buffers udpPool.New makes

Backends == 1..NumBackends

ASSUME UDPAssumption ==
    /\ Parseable \subseteq Packets
    /\ LineSizes \in [Packets -> Seq(Nat)]
    /\ NumBackends \in Nat
    /\ MTU \in [Backends -> Nat \ {0}]
    /\ QueueSize \in Nat
    /\ MaxBuffers \in Nat

VARIABLES
    reader,        \* where Run() is
    buf,           \* what the array `buf' of Run() holds
    data,          \* the local `b' of Run()
    queue,         \* the channel: the buffers in it
    queueClosed,
    wg,            \* the WaitGroup
    worker,        \* where the worker goroutine is
    wdata, wout,   \* the locals p.data and out of post()
    to,            \* the backend post() is writing to
    rest,          \* the local `data' of udpBackend.post()
    sent,          \* the datagrams written to each backend
    pool,          \* the buffers in udpPool
    content,       \* what each buffer holds
    closing, open, \* UDP.closing, and whether the socket u.l is open
    runErr,        \* Run() returned an error
    arrived,       \* history: the packets read, in order
    lost,          \* history: the packets a write to each backend failed for
    fault          \* history: a read failed although nobody closed the socket

readerVars == <<reader, buf, data, arrived>>
queueVars == <<queue, queueClosed, wg>>
workerVars == <<worker, wdata, wout, to, rest, sent, lost>>
poolVars == <<pool, content>>
stopVars == <<closing, open>>
endVars == <<runErr, fault>>
vars == <<readerVars, queueVars, workerVars, poolVars, stopVars, endVars>>

NoPacket == [form |-> "empty"]
Data(p) == [form |-> "packet", of |-> p]
Printed(p) == [form |-> "lines", of |-> p]

Buffers == 1..MaxBuffers
Unused == 0

Line(p, n) == [of |-> p, no |-> n]
LinesOf(p) == [n \in 1..Len(LineSizes[p]) |-> Line(p, n)]
SizeOf(l) == LineSizes[l.of][l.no]

\* len() of the first k of some lines.
Bytes(lines, k) == SumFunction([i \in 1..k |-> SizeOf(lines[i])])

-----------------------------------------------------------------------------
Init ==
    /\ reader = "read" /\ buf = NoPacket /\ data = Unused /\ arrived = <<>>
    /\ queue = <<>> /\ queueClosed = FALSE /\ wg = 0
    /\ worker = "receive" /\ wdata = Unused /\ wout = Unused
    /\ to = 1 /\ rest = <<>>
    /\ sent = [b \in Backends |-> <<>>] /\ lost = [b \in Backends |-> {}]
    /\ pool = {} /\ content = [i \in Buffers |-> NoPacket]
    /\ closing = 0 /\ open = TRUE /\ runErr = FALSE /\ fault = FALSE

\* getUDPBuf: a buffer of the pool, or a new one.
InUse == {data, wdata, wout} \cup {queue[i] : i \in 1..Len(queue)}
Gettable ==
    pool \cup {i \in Buffers : /\ i \notin pool \cup InUse
                               /\ \A j \in 1..i - 1 : j \in pool \cup InUse}

(***************************************************************************)
(* Run().                                                                  *)
(***************************************************************************)
HasArrived(p) == \E i \in 1..Len(arrived) : arrived[i] = p

\* u.l.ReadFromUDP(buf[:])
Read(p) ==
    /\ reader = "read" /\ open /\ ~HasArrived(p)
    /\ reader' = "copy"
    /\ buf' = Data(p)
    /\ arrived' = Append(arrived, p)
    /\ UNCHANGED <<data, queueVars, workerVars, poolVars, stopVars, endVars>>

\* Mutant of Copy: the packet is not counted.
CopyUncounted ==
    /\ reader = "copy"
    /\ reader' = "enqueue"
    /\ \E i \in Gettable :
          /\ data' = i
          /\ pool' = pool \ {i}
          /\ content' = [content EXCEPT ![i] = buf]
    /\ UNCHANGED <<buf, arrived, queueVars, workerVars, stopVars, endVars>>

\* Mutant of Copy: the buffer stays in the pool while it is queued.
CopyStaysPooled ==
    /\ reader = "copy"
    /\ reader' = "enqueue"
    /\ wg' = wg + 1
    /\ \E i \in Gettable :
          /\ data' = i
          /\ pool' = pool \cup {i}
          /\ content' = [content EXCEPT ![i] = buf]
    /\ UNCHANGED <<buf, arrived, queue, queueClosed, workerVars, stopVars, endVars>>

\* wg.Add(1), and the copy into a buffer of the pool.
Copy ==
    /\ reader = "copy"
    /\ reader' = "enqueue"
    /\ wg' = wg + 1
    /\ \E i \in Gettable :
          /\ data' = i
          /\ pool' = pool \ {i}
          /\ content' = [content EXCEPT ![i] = buf]
    /\ UNCHANGED <<buf, arrived, queue, queueClosed, workerVars, stopVars, endVars>>

\* queue <- packet{start, b, remote}
Enqueue ==
    /\ reader = "enqueue" /\ Len(queue) < QueueSize
    /\ reader' = "read"
    /\ queue' = Append(queue, data)
    /\ data' = Unused
    /\ UNCHANGED <<buf, arrived, queueClosed, wg, workerVars, poolVars, stopVars, endVars>>

\* The read has failed: close(queue).  The error counts unless Stop was called.
EndOfReading ==
    /\ reader = "read"
    /\ reader' = "wait"
    /\ runErr' = (closing = 0)
    /\ queueClosed' = TRUE
    /\ UNCHANGED <<buf, data, arrived, queue, wg, workerVars, poolVars, stopVars>>

\* The read fails because the socket is closed ...
ReadClosed == ~open /\ EndOfReading /\ UNCHANGED fault

\* ... or by itself, which ends the relay as well.
ReadFails == open /\ EndOfReading /\ fault' = TRUE

\* Mutant of Return: the queue is closed but not waited for.
ReturnAtOnce ==
    /\ reader = "wait"
    /\ reader' = "returned"
    /\ UNCHANGED <<buf, data, arrived, queueVars, workerVars, poolVars, stopVars, endVars>>

\* wg.Wait(); return err
Return ==
    /\ reader = "wait" /\ wg = 0
    /\ reader' = "returned"
    /\ UNCHANGED <<buf, data, arrived, queueVars, workerVars, poolVars, stopVars, endVars>>

(***************************************************************************)
(* Stop().                                                                 *)
(***************************************************************************)
\* atomic.StoreInt64(&u.closing, 1)
StoreClosing ==
    /\ closing = 0
    /\ closing' = 1
    /\ UNCHANGED <<open, readerVars, queueVars, workerVars, poolVars, endVars>>

\* Mutant of CloseSocket: the socket is closed before the flag is set.
CloseSocketFirst ==
    /\ open
    /\ open' = FALSE
    /\ UNCHANGED <<closing, readerVars, queueVars, workerVars, poolVars, endVars>>

\* u.l.Close()
CloseSocket ==
    /\ closing = 1 /\ open
    /\ open' = FALSE
    /\ UNCHANGED <<closing, readerVars, queueVars, workerVars, poolVars, endVars>>

(***************************************************************************)
(* The worker: for p := range queue { u.post(&p); wg.Done() }              *)
(***************************************************************************)
Put(i) ==
    /\ pool' = pool \cup {i}
    /\ content' = [content EXCEPT ![i] = NoPacket]

Receive ==
    /\ worker = "receive" /\ queue # <<>>
    /\ worker' = "parse"
    /\ wdata' = Head(queue)
    /\ queue' = Tail(queue)
    /\ UNCHANGED <<readerVars, queueClosed, wg, wout, to, rest, sent, lost, poolVars,
                   stopVars, endVars>>

\* Mutant of Drop: a packet that does not parse is not counted as done.
DropUncounted ==
    /\ worker = "parse" /\ content[wdata].of \notin Parseable
    /\ worker' = "receive"
    /\ Put(wdata)
    /\ wdata' = Unused
    /\ UNCHANGED <<readerVars, queueVars, wout, to, rest, sent, lost, stopVars, endVars>>

\* The packet does not parse.
Drop ==
    /\ worker = "parse" /\ content[wdata].of \notin Parseable
    /\ worker' = "done"
    /\ Put(wdata)
    /\ wdata' = Unused
    /\ UNCHANGED <<readerVars, queueVars, wout, to, rest, sent, lost, stopVars, endVars>>

\* The points are printed into `out', and p.data goes back to the pool.
Encode ==
    /\ worker = "parse" /\ content[wdata].of \in Parseable
    /\ worker' = "post"
    /\ LET p == content[wdata].of
       IN \E i \in Gettable :
             /\ wout' = i
             /\ pool' = (pool \ {i}) \cup {wdata}
             /\ content' = [content EXCEPT ![i] = Printed(p), ![wdata] = NoPacket]
             /\ rest' = LinesOf(p)
    /\ wdata' = Unused
    /\ to' = 1
    /\ UNCHANGED <<readerVars, queueVars, sent, lost, stopVars, endVars>>

\* Mutant of Fitting: the line that crosses the MTU is taken along.
FittingOneMore(lines, mtu) ==
    Min({Len(lines)} \cup {k \in 1..Len(lines) : Bytes(lines, k) > mtu})

\* The number of lines in the longest prefix of whole lines within the MTU.
Fitting(lines, mtu) ==
    Max({k \in 0..Len(lines) : Bytes(lines, k) <= mtu})

\* "first line is larger than MTU": all the lines left are given up.
TooLarge ==
    Bytes(rest, Len(rest)) > MTU[to] /\ Fitting(rest, MTU[to]) = 0

\* Mutant of NextBackend: errPacketTooLarge ends the loop over the backends.
NextBackendUnlessTooLarge ==
    /\ to' = IF TooLarge THEN NumBackends + 1 ELSE to + 1
    /\ rest' = LinesOf(content[wout].of)

\* for _, b := range u.backends: the next b.post(out.Bytes())
NextBackend ==
    /\ to' = to + 1
    /\ rest' = LinesOf(content[wout].of)

GiveUpLines ==
    /\ worker = "post" /\ to \in Backends /\ TooLarge
    /\ NextBackend
    /\ UNCHANGED <<readerVars, queueVars, worker, wdata, wout, sent, lost, poolVars,
                   stopVars, endVars>>

\* Mutant of LinesLeft: the last line sent is sent again.
LinesLeftAfterLast(lines, n) == SubSeq(lines, Max({n, 1}), Len(lines))

\* data = data[idx+1:]
LinesLeft(lines, n) == SubSeq(lines, n + 1, Len(lines))

\* b.u.c.WriteToUDP: of the lines that fit, or of all that is left.
WriteDatagram ==
    /\ worker = "post" /\ to \in Backends /\ ~TooLarge
    /\ LET n == Fitting(rest, MTU[to])
       IN /\ sent' = [sent EXCEPT ![to] = Append(@, SubSeq(rest, 1, n))]
          /\ IF n < Len(rest)
             THEN rest' = LinesLeft(rest, n) /\ UNCHANGED <<to, lost>>
             ELSE UNCHANGED lost /\ NextBackend
    /\ UNCHANGED <<readerVars, queueVars, worker, wdata, wout, poolVars, stopVars, endVars>>

\* The write fails: what is left is not sent to this backend.
WriteFails ==
    /\ worker = "post" /\ to \in Backends /\ ~TooLarge
    /\ lost' = [lost EXCEPT ![to] = @ \cup {content[wout].of}]
    /\ NextBackend
    /\ UNCHANGED <<readerVars, queueVars, worker, wdata, wout, sent, poolVars, stopVars,
                   endVars>>

\* putUDPBuf(out)
PutOut ==
    /\ worker = "post" /\ to \notin Backends
    /\ worker' = "done"
    /\ Put(wout)
    /\ wout' = Unused
    /\ rest' = <<>>
    /\ UNCHANGED <<readerVars, queueVars, wdata, to, sent, lost, stopVars, endVars>>

\* wg.Done()
Done ==
    /\ worker = "done"
    /\ worker' = "receive"
    /\ wg' = wg - 1
    /\ UNCHANGED <<readerVars, queue, queueClosed, wdata, wout, to, rest, sent, lost,
                   poolVars, stopVars, endVars>>

\* The queue is closed and empty.
WorkerEnds ==
    /\ worker = "receive" /\ queueClosed /\ queue = <<>>
    /\ worker' = "ended"
    /\ UNCHANGED <<readerVars, queueVars, wdata, wout, to, rest, sent, lost, poolVars,
                   stopVars, endVars>>

-----------------------------------------------------------------------------
Running == Copy \/ Enqueue \/ ReadClosed \/ Return
Working ==
    \/ Receive \/ Drop \/ Encode \/ GiveUpLines \/ WriteDatagram \/ WriteFails
    \/ PutOut \/ Done \/ WorkerEnds

Next ==
    \/ \E p \in Packets : Read(p)
    \/ Running \/ ReadFails \/ Working \/ StoreClosing \/ CloseSocket

Spec == Init /\ [][Next]_vars

\* Goroutines are scheduled; nobody has to send packets or call Stop.
Fairness == WF_vars(Running) /\ WF_vars(Working) /\ WF_vars(CloseSocket)

FairSpec == Spec /\ Fairness
-----------------------------------------------------------------------------
(***************************************************************************)
(* Properties.                                                             *)
(***************************************************************************)
Contents == {NoPacket} \cup {Data(p) : p \in Packets} \cup {Printed(p) : p \in Packets}
Slots == Buffers \cup {Unused}
AnyLine == UNION {{Line(p, n) : n \in 1..Len(LineSizes[p])} : p \in Packets}

\* The types of the variables.
TypeOK ==
    /\ reader \in {"read", "copy", "enqueue", "wait", "returned"}
    /\ buf \in Contents /\ arrived \in Seq(Packets)
    /\ data \in Slots /\ wdata \in Slots /\ wout \in Slots
    /\ queue \in Seq(Buffers) /\ queueClosed \in BOOLEAN /\ wg \in Nat
    /\ worker \in {"receive", "parse", "post", "done", "ended"}
    /\ to \in 1..NumBackends + 1 /\ rest \in Seq(AnyLine)
    /\ sent \in [Backends -> Seq(Seq(AnyLine))]
    /\ lost \in [Backends -> SUBSET Packets]
    /\ pool \subseteq Buffers /\ content \in [Buffers -> Contents]
    /\ closing \in 0..1 /\ open \in BOOLEAN
    /\ runErr \in BOOLEAN /\ fault \in BOOLEAN

\* A packet is where Run() or the worker still has to deal with it.
InHand(p) ==
    \/ reader = "copy" /\ buf = Data(p)
    \/ \E i \in InUse \ {Unused} : content[i] \in {Data(p), Printed(p)}

\* The packets queued are those read and not yet handled, in order of arrival,
\* although Run() reads all of them into the same array and both goroutines
\* take their buffers from the same pool.
QueuedInArrivalOrder ==
    LET n == Len(queue)
        last == Len(arrived) - (IF reader \in {"copy", "enqueue"} THEN 1 ELSE 0)
    IN /\ n <= last
       /\ \A i \in 1..n : content[queue[i]] = Data(arrived[last - n + i])

\* Run() returns when every packet it has read has been relayed or dropped.
DrainedOnReturn ==
    reader = "returned" => \A p \in Packets : ~InHand(p)

\* Run() reports no error for a socket that was closed by Stop() only.
StopIsNoError == runErr => fault

\* Every datagram is within the MTU of its backend.
DatagramsFit ==
    \A b \in Backends : \A i \in 1..Len(sent[b]) :
        Bytes(sent[b][i], Len(sent[b][i])) <= MTU[b]

\* The lines backend b has got in datagrams with lines of packet p.
PartOf(d, p) == IF \E j \in 1..Len(d) : d[j].of = p THEN d ELSE <<>>
LinesIn(ds, p) == FlattenSeq([i \in 1..Len(ds) |-> PartOf(ds[i], p)])
Received(b, p) == LinesIn(sent[b], p)

\* It has got all of them, or a write to it failed, or a line exceeds its MTU.
Served(b, p) ==
    \/ Received(b, p) = LinesOf(p)
    \/ p \in lost[b]
    \/ \E n \in 1..Len(LineSizes[p]) : LineSizes[p][n] > MTU[b]

\* A backend gets the lines of a packet in order, none twice, and when the
\* packet is done it has got all of them, whatever went wrong with the other
\* backends, unless a write to it failed or a line exceeds its MTU.
LinesAreComplete ==
    \A b \in Backends : \A p \in Packets :
        /\ IsPrefix(Received(b, p), LinesOf(p))
        /\ p \in Parseable /\ HasArrived(p) /\ ~InHand(p) => Served(b, p)

\* Stop() makes Run() return, however many packets are queued and however
\* many of them do not parse.
StopEndsRun == ~open ~> reader = "returned"
=============================================================================
