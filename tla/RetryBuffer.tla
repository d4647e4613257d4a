------------------------------ MODULE RetryBuffer ------------------------------
(***************************************************************************)
(* The retry buffer that sits in front of one HTTP backend                 *)
(* (relay/retry.go).  Handler goroutines call post(); the goroutine started *)
(* by newRetryBuffer executes run().  They share the flag `buffering' and  *)
(* the linked list of batches behind bufferList.                           *)
(*                                                                         *)
(* The linked list is kept as the sequence `batches' of every batch ever   *)
(* linked, in linking order, and `popped', the number of them that pop()   *)
(* has unlinked: add() only links at the tail and pop() only unlinks the   *)
(* head, so the list is the part of `batches' after `popped'.  Goroutines  *)
(* hold pointers to unlinked batches, which is why they stay in the state. *)
(***************************************************************************)
EXTENDS Integers, SequencesExt, FiniteSetsExt

CONSTANTS
    Writes,           \* the calls of post(), one goroutine each
    Query, Auth,      \* the query string and the credentials of each write
    Size,             \* len(buf) of each write
    MaxBuffered,      \* buffer-size-mb, in bytes
    MaxBatch,         \* max-batch-kb, in bytes
    InitialInterval,  \* retryInitial
    MaxInterval,      \* max-delay-interval
    Classes           \* StatusCode/100 of the responses the backend may give

Multiplier == 2       \* retryMultiplier

ASSUME ConstantsAssumption ==
    /\ Size \in [Writes -> Nat]
    /\ MaxBuffered \in Nat
    /\ MaxBatch \in Nat
    /\ InitialInterval \in Nat \ {0}
    /\ MaxInterval \in Int
    /\ Classes \subseteq 1..5

VARIABLES
    buffering,        \* retryBuffer.buffering
    batches,          \* every batch linked so far
    popped,           \* how many of them pop() has unlinked
    size,             \* bufferList.size
    pc,               \* where each call of post() is
    cur,              \* the local `cur' of add(): what it points at when the
                      \* mutex is released, and whether it is &l.head
    got,              \* the batch add() handed to post()
    result,           \* what post() returned
    rpc,              \* where run() is
    interval,         \* the local `interval' of run()
    crashed           \* a nil pointer was dereferenced: the process is gone

vars == <<buffering, batches, popped, size, pc, cur, got, result, rpc,
          interval, crashed>>

postVars == <<pc, cur, got, result>>
runVars == <<rpc, interval>>
listVars == <<batches, popped, size>>

NoResponse == 0       \* post() of the wrapped poster returned an error
Nil == 0              \* the nil *batch

Answers == Classes \cup {NoResponse}

\* The test both loops make on the wrapped poster's answer: no error, no 5xx.
Accepted(a) == a # NoResponse /\ a # 5

Listed == popped + 1 .. Len(batches)

\* l.head
HeadBatch == IF popped < Len(batches) THEN popped + 1 ELSE Nil

NewBatch(w) ==
    [query |-> Query[w], auth |-> Auth[w], bufs |-> <<w>>, size |-> Size[w],
     full |-> FALSE, resp |-> NoResponse, done |-> FALSE]

-----------------------------------------------------------------------------
Init ==
    /\ buffering = 0
    /\ batches = <<>>
    /\ popped = 0
    /\ size = 0
    /\ pc = [w \in Writes |-> "load"]
    /\ cur = [w \in Writes |-> [head |-> FALSE, batch |-> Nil]]
    /\ got = [w \in Writes |-> Nil]
    /\ result = [w \in Writes |-> NoResponse]
    /\ rpc = "pop"
    /\ interval = InitialInterval
    /\ crashed = FALSE

(***************************************************************************)
(* post(): the caller's side.                                              *)
(***************************************************************************)
Goto(w, from, to) ==
    /\ ~crashed
    /\ pc[w] = from
    /\ pc' = [pc EXCEPT ![w] = to]

\* if atomic.LoadInt32(&r.buffering) == 0
LoadFlag(w) ==
    /\ Goto(w, "load", IF buffering = 0 THEN "direct" ELSE "add")
    /\ UNCHANGED <<buffering, listVars, cur, got, result, runVars, crashed>>

\* The write goes straight to the backend, whose answer is handed back
\* unless it asks for buffering.
PostDirect(w) ==
    \E a \in Answers :
        /\ Goto(w, "direct", IF Accepted(a) THEN "returned" ELSE "mark")
        /\ result' = [result EXCEPT ![w] = IF Accepted(a) THEN a ELSE @]
        /\ UNCHANGED <<buffering, listVars, cur, got, runVars, crashed>>

\* Mutant of SetBuffering: the failed write is buffered, the flag is not set.
SetBufferingForgotten(w) ==
    /\ Goto(w, "mark", "add")
    /\ UNCHANGED <<buffering, listVars, cur, got, result, runVars, crashed>>

\* atomic.StoreInt32(&r.buffering, 1)
SetBuffering(w) ==
    /\ Goto(w, "mark", "add")
    /\ buffering' = 1
    /\ UNCHANGED <<listVars, cur, got, result, runVars, crashed>>

Overflows(w) == size + Size[w] > MaxBuffered

\* add() returns ErrBufferFull; the flag set by SetBuffering stays set.
AddRefused(w) ==
    /\ Overflows(w)
    /\ Goto(w, "add", "refused")
    /\ UNCHANGED <<buffering, listVars, cur, got, result, runVars, crashed>>

\* Mutant of Matches: credentials are not compared.
MatchesAnyUser(b, w) == b.query = Query[w] /\ ~b.full

\* The loop of add() looks at batch b for write w ...
Matches(b, w) == b.query = Query[w] /\ b.auth = Auth[w] /\ ~b.full

\* ... and stops there unless the batch would grow beyond MaxBatch.
Fits(b, w) == b.size + Size[w] <= MaxBatch

\* Mutant of IsTarget: the batch being posted is still the head of the list.
IsTargetInFlight(w, t) ==
    /\ t \in (IF rpc = "pop" THEN popped + 1 ELSE popped) .. Len(batches) + 1
    /\ t <= Len(batches) => Matches(batches[t], w) /\ Fits(batches[t], w)
    /\ \A i \in popped .. t - 1 : i > 0 => ~(Matches(batches[i], w) /\ Fits(batches[i], w))

\* The batch at which the loop of add() stops: the first that takes the
\* write, or the nil link behind the last one.
IsTarget(w, t) ==
    /\ t \in popped + 1 .. Len(batches) + 1
    /\ t <= Len(batches) => Matches(batches[t], w) /\ Fits(batches[t], w)
    /\ \A i \in popped + 1 .. t - 1 : ~(Matches(batches[i], w) /\ Fits(batches[i], w))

\* Mutant of MarkFull: only a batch with no room at all is closed.
MarkFullLate(i, w, t) == batches[i].full \/ batches[i].size >= MaxBatch

\* "prevent future writes from preceding this write"
MarkFull(i, w, t) ==
    batches[i].full \/ (i \in popped + 1 .. t - 1 /\ Matches(batches[i], w))

Marked(w, t) ==
    [i \in 1..Len(batches) |-> [batches[i] EXCEPT !.full = MarkFull(i, w, t)]]

\* "append to current batch"
Joined(b, w) == [b EXCEPT !.size = @ + Size[w], !.bufs = Append(@, w)]

\* newBatch at the tail, or append to the batch found.
Linked(w, t) ==
    IF t > Len(batches)
    THEN Append(Marked(w, t), NewBatch(w))
    ELSE [Marked(w, t) EXCEPT ![t] = Joined(@, w)]

\* add() under its mutex: l.cond.Signal() needs no state, since pop() waits
\* on the condition l.size == 0 itself.
Add(w) ==
    \E t \in 1 .. Len(batches) + 1 :
        /\ ~Overflows(w)
        /\ IsTarget(w, t)
        /\ Goto(w, "add", "linked")
        /\ size' = size + Size[w]
        /\ batches' = Linked(w, t)
        /\ cur' = [cur EXCEPT ![w] = [head |-> t = popped + 1, batch |-> t]]
        /\ UNCHANGED <<buffering, popped, got, result, runVars, crashed>>

\* What `*cur' is once the mutex is released.  &l.head follows the list,
\* while the next field of an older batch is never written again.
Deref(w) == IF cur[w].head THEN HeadBatch ELSE cur[w].batch

\* `return *cur, nil' after Unlock, and batch.wg.Wait() on a nil batch.
ReturnBatch(w) ==
    /\ Goto(w, "linked", IF Deref(w) = Nil THEN "linked" ELSE "wait")
    /\ got' = [got EXCEPT ![w] = Deref(w)]
    /\ crashed' = (Deref(w) = Nil)
    /\ UNCHANGED <<buffering, listVars, cur, result, runVars>>

\* Mutant of Awake: the caller does not wait for its batch.
AwakeAtOnce(w) ==
    /\ Goto(w, "wait", "returned")
    /\ result' = [result EXCEPT ![w] = batches[got[w]].resp]
    /\ UNCHANGED <<buffering, listVars, cur, got, runVars, crashed>>

\* batch.wg.Wait() returns, post() returns batch.resp.
Awake(w) ==
    /\ Goto(w, "wait", "returned")
    /\ batches[got[w]].done
    /\ result' = [result EXCEPT ![w] = batches[got[w]].resp]
    /\ UNCHANGED <<buffering, listVars, cur, got, runVars, crashed>>

(***************************************************************************)
(* run(): the retrying goroutine.                                          *)
(***************************************************************************)
RunGoto(from, to) ==
    /\ ~crashed
    /\ rpc = from
    /\ rpc' = to

\* Mutant of Pop: the size of the popped batch is not given back.
PopKeepsSize ==
    /\ size # 0
    /\ RunGoto("pop", "attempt")
    /\ popped' = popped + 1
    /\ interval' = InitialInterval
    /\ UNCHANGED <<buffering, batches, size, postVars, crashed>>

\* pop() blocks while l.size is zero.
Pop ==
    /\ size # 0
    /\ RunGoto("pop", "attempt")
    /\ popped' = popped + 1
    /\ size' = size - batches[popped + 1].size
    /\ interval' = InitialInterval
    /\ UNCHANGED <<buffering, batches, postVars, crashed>>

\* The delay before the next attempt.
NextInterval ==
    IF interval = MaxInterval THEN interval
    ELSE IF interval * Multiplier > MaxInterval THEN MaxInterval
    ELSE interval * Multiplier

\* Mutant of AttemptSucceeds: a rejected batch is tried again.
AttemptSucceedsUnlessRejected ==
    \E a \in Answers :
        /\ Accepted(a)
        /\ RunGoto("attempt", IF a = 4 THEN "sleep" ELSE "clear")
        /\ batches' = [batches EXCEPT ![popped].resp = a]
        /\ UNCHANGED <<buffering, popped, size, postVars, interval, crashed>>

\* One r.p.post() of the popped batch.
AttemptSucceeds ==
    \E a \in Answers :
        /\ Accepted(a)
        /\ RunGoto("attempt", "clear")
        /\ batches' = [batches EXCEPT ![popped].resp = a]
        /\ UNCHANGED <<buffering, popped, size, postVars, interval, crashed>>

\* Mutant of AttemptFails: run() gives up once the delay is at its maximum.
AttemptFailsGivesUp ==
    \E a \in Answers :
        /\ ~Accepted(a)
        /\ RunGoto("attempt", IF interval = MaxInterval THEN "clear" ELSE "sleep")
        /\ interval' = NextInterval
        /\ UNCHANGED <<buffering, listVars, postVars, crashed>>

AttemptFails ==
    \E a \in Answers :
        /\ ~Accepted(a)
        /\ RunGoto("attempt", "sleep")
        /\ interval' = NextInterval
        /\ UNCHANGED <<buffering, listVars, postVars, crashed>>

\* time.Sleep(interval) is over.
SleepOver ==
    /\ RunGoto("sleep", "attempt")
    /\ UNCHANGED <<buffering, listVars, postVars, interval, crashed>>

\* Mutant of ClearBuffering: the flag counts down instead of being reset.
ClearBufferingDecrements ==
    /\ RunGoto("clear", "release")
    /\ buffering' = buffering - 1
    /\ UNCHANGED <<listVars, postVars, interval, crashed>>

\* Mutant of ClearBuffering: the flag is cleared only while batches are listed.
ClearBufferingIfListed ==
    /\ RunGoto("clear", "release")
    /\ buffering' = IF Listed = {} THEN buffering ELSE 0
    /\ UNCHANGED <<listVars, postVars, interval, crashed>>

\* atomic.StoreInt32(&r.buffering, 0)
ClearBuffering ==
    /\ RunGoto("clear", "release")
    /\ buffering' = 0
    /\ UNCHANGED <<listVars, postVars, interval, crashed>>

\* batch.wg.Done()
Release ==
    /\ RunGoto("release", "pop")
    /\ batches' = [batches EXCEPT ![popped].done = TRUE]
    /\ UNCHANGED <<buffering, popped, size, postVars, interval, crashed>>

\* Every call has returned and run() waits for more, or the process is gone.  A
\* listed batch without bytes does not wake run(): its callers wait for other calls.
Finished ==
    \/ crashed
    \/ /\ \A w \in Writes :
             pc[w] \in {"returned", "refused"} \/ (pc[w] = "wait" /\ got[w] \in Listed)
       /\ rpc = "pop"
       /\ size = 0

Stop == Finished /\ UNCHANGED vars

-----------------------------------------------------------------------------
Post(w) ==
    \/ LoadFlag(w) \/ PostDirect(w) \/ SetBuffering(w)
    \/ AddRefused(w) \/ Add(w) \/ ReturnBatch(w) \/ Awake(w)

Run ==
    \/ Pop \/ AttemptSucceeds \/ AttemptFails \/ SleepOver
    \/ ClearBuffering \/ Release

Next == (\E w \in Writes : Post(w)) \/ Run \/ Stop

Spec == Init /\ [][Next]_vars

(***************************************************************************)
(* Goroutines are scheduled, and http.Client.Timeout bounds every attempt, *)
(* hence weak fairness.  Strong fairness of AttemptSucceeds is the         *)
(* README's premise that the backend comes back: if the batch is attempted *)
(* again and again, one attempt is answered.                               *)
(***************************************************************************)
Fairness ==
    /\ \A w \in Writes : WF_vars(Post(w))
    /\ WF_vars(Run)
    /\ SF_vars(AttemptSucceeds)

FairSpec == Spec /\ Fairness
-----------------------------------------------------------------------------
(***************************************************************************)
(* Properties.                                                             *)
(***************************************************************************)
Batch == [query : {Query[w] : w \in Writes}, auth : {Auth[w] : w \in Writes},
          bufs : Seq(Writes), size : Nat, full : BOOLEAN, resp : Answers,
          done : BOOLEAN]

\* The types of the variables.
TypeOK ==
    /\ buffering \in 0..1
    /\ batches \in Seq(Batch)
    /\ popped \in 0..Len(batches)
    /\ size \in Int
    /\ pc \in [Writes -> {"load", "direct", "mark", "add", "linked", "wait",
                          "returned", "refused"}]
    /\ cur \in [Writes -> [head : BOOLEAN, batch : Nat]]
    /\ got \in [Writes -> Nat]
    /\ result \in [Writes -> Answers]
    /\ rpc \in {"pop", "attempt", "sleep", "clear", "release"}
    /\ interval \in Int
    /\ crashed \in BOOLEAN

Members(i) == {batches[i].bufs[j] : j \in 1..Len(batches[i].bufs)}

\* The counters pop() and add() decide on agree with the list they describe,
\* through every add, pop and concurrent retry: l.size is the sum of the listed
\* batches, the size of a batch that of its writes, and a batch that merges
\* several writes is within max-batch-kb.
SizeAccounting ==
    /\ size = SumFunction([i \in Listed |-> batches[i].size])
    /\ \A i \in 1..Len(batches) :
          /\ batches[i].size = SumFunctionOnSet(Size, Members(i))
          /\ Len(batches[i].bufs) > 1 => batches[i].size <= MaxBatch

\* Writes of different users or databases are never merged: every write of a
\* batch has the query and the credentials the batch is posted with.
OneUserPerBatch ==
    \A i \in 1..Len(batches) : \A w \in Members(i) :
        Query[w] = batches[i].query /\ Auth[w] = batches[i].auth

SameKey(b, w) == b.query = Query[w] /\ b.auth = Auth[w]

\* A write accepted by add() is placed behind every listed write of the same
\* query and credentials, so no later write is posted before an earlier one.
NoOvertaking ==
    [][\A w \in Writes : (pc[w] = "add" /\ pc'[w] = "linked") =>
          LET t == cur'[w].batch
          IN /\ batches'[t].bufs[Len(batches'[t].bufs)] = w
             /\ \A i \in t + 1 .. Len(batches') : ~SameKey(batches'[i], w)]_vars

\* A popped batch is sealed: run() concatenates its writes without the mutex,
\* so none may be added to it, whatever add() is doing meanwhile.
SealedOncePopped ==
    [][\A i \in 1..popped : batches'[i].bufs = batches[i].bufs]_vars

\* A buffered write's caller gets its answer, and so may recycle the bytes it
\* passed in, only when the backend has accepted the batch that holds those
\* bytes.  It holds although add() may hand the caller a later batch than its own.
ReleasedOnlyAfterDelivered ==
    \A w \in Writes :
        pc[w] = "returned" /\ cur[w].batch # Nil =>
            batches[cur[w].batch].done /\ Accepted(batches[cur[w].batch].resp)

TooLarge(w) == Size[w] > MaxBuffered

\* A write that no buffer can hold has failed and set the flag in vain.
StuckByTooLarge == \E w \in Writes : pc[w] = "refused" /\ TooLarge(w)

\* What is listed has no bytes, and pop() takes the list for empty.
OnlyEmptyListed == Listed # {} /\ size = 0

\* The batches the backend has accepted are those up to here.
NumDelivered == IF rpc \in {"attempt", "sleep"} THEN popped - 1 ELSE popped

\* The flag tells what it should.  While the direct path is closed there is a batch
\* that run() will take or has taken, or a write about to be added, whose success
\* will open it.  The exceptions are two: a write larger than the whole buffer, and
\* batches of writes without bytes only, which pop() leaves where they are.  And
\* while batches are listed the direct path is open only after a first buffered
\* write has succeeded (README.md, Caveats): none passes a backend's first failure by.
FlagHasCause ==
    /\ buffering = 1 =>
          \/ size # 0
          \/ rpc \in {"attempt", "sleep", "clear"}
          \/ \E w \in Writes : pc[w] = "add"
          \/ StuckByTooLarge
          \/ OnlyEmptyListed
    /\ buffering = 0 /\ Listed # {} => NumDelivered > 0

\* run() waits before a list without bytes, and no call is under way that could add
\* to it, or open the direct path.
HeldByEmpty ==
    /\ rpc = "pop" /\ OnlyEmptyListed
    /\ \A w \in Writes : pc[w] \notin {"load", "direct", "mark", "add"}

\* Once buffering has begun, the direct path is opened again.  The exceptions are
\* those of FlagHasCause; the second holds only until another call adds a byte.
BufferingEnds ==
    buffering = 1 ~> (buffering = 0 \/ crashed \/ StuckByTooLarge \/ HeldByEmpty)

(***************************************************************************)
(* The mapping to KeyedQueue.                                              *)
(***************************************************************************)
\* The batches the backend has accepted, and those it has not.
DeliveredBatches == SubSeq(batches, 1, NumDelivered)
PendingBatches == SubSeq(batches, NumDelivered + 1, Len(batches))

KeyOf == [w \in Writes |-> <<Query[w], Auth[w]>>]

\* The writes of key k in a sequence of batches, in the order they are posted.
BufsFor(b, k) == IF <<b.query, b.auth>> = k THEN b.bufs ELSE <<>>
WritesOf(bs, k) == FlattenSeq([i \in 1..Len(bs) |-> BufsFor(bs[i], k)])

PendingOf(k) == WritesOf(PendingBatches, k)
DeliveredOf(k) == WritesOf(DeliveredBatches, k)

Queued == [k \in {KeyOf[w] : w \in Writes} |-> PendingOf(k)]
Posted == [k \in {KeyOf[w] : w \in Writes} |-> DeliveredOf(k)]

Abstract == INSTANCE KeyedQueue WITH
    Key <- KeyOf, pending <- Queued, delivered <- Posted

\* The retry buffer of relay/retry.go implements KeyedQueue: per query and
\* credentials, accepted writes reach the backend once each and in order.
ImplementsKeyedQueue == Abstract!Spec

(***************************************************************************)
(* What the documentation says, and the code does not do.                  *)
(***************************************************************************)
\* README: a request that makes it into the buffer is retried until success.
\* The process that holds the buffer does not bring itself down.
NoNilBatch == ~crashed
=============================================================================
