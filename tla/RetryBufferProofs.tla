--------------------------- MODULE RetryBufferProofs ---------------------------
(***************************************************************************)
(* Proofs about RetryBuffer, for every set of writes, every size of the    *)
(* buffer and of its batches, and every delay.                             *)
(***************************************************************************)
EXTENDS RetryBuffer, Accumulation, SequenceTheorems, TLAPS

-----------------------------------------------------------------------------
(***************************************************************************)
(* The inductive invariant.                                                *)
(***************************************************************************)

\* F[i] is the total size of the batches after the i-th: l.size is F[popped].
SuffixSums(F) ==
    /\ F[Len(batches)] = 0
    /\ \A i \in 1..Len(batches) : F[i - 1] = F[i] + batches[i].size
    /\ size = F[popped]

SizeIsSum == \E F \in [0..Len(batches) -> Nat] : SuffixSums(F)

\* Batches are accepted and their callers released in list order.
Delivered(i) == i < popped \/ (i = popped /\ rpc \in {"clear", "release", "pop"})
Released(i) == i < popped \/ (i = popped /\ rpc = "pop")

ReleasedInOrder ==
    /\ rpc # "pop" => popped > 0
    /\ \A i \in 1..Len(batches) :
          /\ batches[i].done <=> Released(i)
          /\ Delivered(i) => Accepted(batches[i].resp)

\* The batch a caller waits for is never before the batch its write is in.
CallerBehind(w) ==
    /\ pc[w] \in {"load", "direct", "mark", "add", "refused"} => cur[w].batch = Nil
    /\ pc[w] \in {"linked", "wait"} => cur[w].batch \in 1..Len(batches)
    /\ pc[w] = "linked" /\ cur[w].head => cur[w].batch <= popped + 1
    /\ pc[w] = "wait" => got[w] \in cur[w].batch .. Len(batches)
    /\ pc[w] = "returned" /\ cur[w].batch # Nil =>
          cur[w].batch \in 1..Len(batches) /\ Released(cur[w].batch)

\* What a caller is told is what the backend said to the batch it waited for.
AnsweredByGot(w) ==
    pc[w] = "returned" /\ cur[w].batch # Nil =>
        /\ got[w] \in cur[w].batch .. Len(batches) /\ Released(got[w])
        /\ result[w] = batches[got[w]].resp

\* A listed batch that is followed by another of its key takes no more writes.
ClosedBehind ==
    \A i \in Listed : \A j \in i + 1 .. Len(batches) :
        batches[i].query = batches[j].query /\ batches[i].auth = batches[j].auth
            => batches[i].full

\* A write is in the batch add() put it into, and in no other.
InOneBatch ==
    \A w \in Writes : \A i \in 1..Len(batches) : w \in Members(i) <=> cur[w].batch = i

\* A batch is as large as its writes; those that were merged fit into a batch.
BatchSizes ==
    \A i \in 1..Len(batches) :
        /\ batches[i].size = SumFunctionOnSet(Size, Members(i))
        /\ Len(batches[i].bufs) > 1 => batches[i].size <= MaxBatch

IInv ==
    /\ TypeOK
    /\ SizeIsSum
    /\ BatchSizes
    /\ ReleasedInOrder
    /\ \A w \in Writes : CallerBehind(w) /\ AnsweredByGot(w)
    /\ OneUserPerBatch
    /\ ClosedBehind
    /\ InOneBatch

-----------------------------------------------------------------------------
(***************************************************************************)
(* Lemmas about the list.                                                  *)
(***************************************************************************)

\* Every batch has the fields of a batch.
LEMMA BatchFields ==
    ASSUME TypeOK, NEW i \in 1..Len(batches)
    PROVE  /\ batches[i] \in Batch
           /\ batches[i].bufs \in Seq(Writes)
           /\ batches[i].size \in Nat
           /\ batches[i].full \in BOOLEAN
           /\ batches[i].done \in BOOLEAN
           /\ batches[i].resp \in Answers
<1>1. batches[i] \in Batch
  BY ElementOfSeq DEF TypeOK
<1> QED
  BY <1>1 DEF Batch

\* What add() does to the batches of the list: it changes `full', and size
\* and bufs of the batch it stops at, or links a new batch behind all others.
LEMMA LinkedList ==
    ASSUME TypeOK, NEW w \in Writes, NEW t \in 1..Len(batches) + 1,
           NEW b, b = Linked(w, t)
    PROVE  /\ b \in Seq(Batch)
           /\ Len(b) = IF t > Len(batches) THEN t ELSE Len(batches)
           /\ t > Len(batches) => b[t] = NewBatch(w)
           /\ \A i \in 1..Len(batches) :
                 /\ b[i].query = batches[i].query
                 /\ b[i].auth = batches[i].auth
                 /\ b[i].resp = batches[i].resp
                 /\ b[i].done = batches[i].done
                 /\ b[i].full = MarkFull(i, w, t)
                 /\ b[i].size = batches[i].size + (IF i = t THEN Size[w] ELSE 0)
                 /\ b[i].bufs = IF i = t THEN Append(batches[i].bufs, w)
                                         ELSE batches[i].bufs
<1> DEFINE m == Marked(w, t)
<1> USE ConstantsAssumption
<1>1. \A i \in 1..Len(batches) : batches[i] \in Batch /\ MarkFull(i, w, t) \in BOOLEAN
  BY ElementOfSeq DEF TypeOK, Batch, MarkFull, Matches
<1>2. Len(batches) \in Nat
  BY DEF TypeOK
<1>3. m \in [1..Len(batches) -> Batch]
  BY <1>1 DEF Marked, Batch
<1>4. m \in Seq(Batch) /\ Len(m) = Len(batches)
  BY <1>2, <1>3, SeqDef
<1>5. \A i \in 1..Len(batches) :
         /\ m[i].query = batches[i].query
         /\ m[i].auth = batches[i].auth
         /\ m[i].resp = batches[i].resp
         /\ m[i].done = batches[i].done
         /\ m[i].full = MarkFull(i, w, t)
         /\ m[i].size = batches[i].size
         /\ m[i].bufs = batches[i].bufs
         /\ m[i].size \in Nat
         /\ m[i].bufs \in Seq(Writes)
  BY <1>1 DEF Marked, Batch
<1>6. CASE t > Len(batches)
  <2>1. NewBatch(w) \in Batch
    BY DEF NewBatch, Batch, Answers
  <2>2. b = Append(m, NewBatch(w))
    BY <1>6 DEF Linked
  <2> HIDE DEF m
  <2>3. /\ b \in Seq(Batch)
        /\ Len(b) = Len(batches) + 1
        /\ b[Len(batches) + 1] = NewBatch(w)
        /\ \A i \in 1..Len(batches) : b[i] = m[i]
    BY <2>1, <2>2, <1>4
  <2>4. t = Len(batches) + 1 /\ \A i \in 1..Len(batches) : i # t
    BY <1>2, <1>6
  <2> QED
    BY <2>3, <2>4, <1>5, <1>6
<1>7. CASE ~(t > Len(batches))
  <2> DEFINE n == Joined(m[t], w)
  <2>1. b = [m EXCEPT ![t] = n]
    BY <1>7 DEF Linked
  <2> HIDE DEF m
  <2>2. t \in 1..Len(batches)
    BY <1>2, <1>7
  <2>3. m[t] \in Batch
    BY <1>3, <2>2
  <2>4. m[t].size + Size[w] \in Nat /\ Append(m[t].bufs, w) \in Seq(Writes)
    BY <1>5, <2>2
  <2>5. /\ n \in Batch
        /\ n.query = m[t].query /\ n.auth = m[t].auth
        /\ n.resp = m[t].resp /\ n.done = m[t].done
        /\ n.full = m[t].full
        /\ n.size = m[t].size + Size[w]
        /\ n.bufs = Append(m[t].bufs, w)
    BY <2>3, <2>4 DEF Batch, Joined
  <2> HIDE DEF n
  <2>6. /\ b \in Seq(Batch)
        /\ Len(b) = Len(batches)
        /\ \A i \in 1..Len(batches) : b[i] = IF i = t THEN n ELSE m[i]
    BY <1>4, <2>1, <2>2, <2>5, ExceptSeq
  <2>7. ASSUME NEW i \in 1..Len(batches)
        PROVE  /\ b[i].query = batches[i].query
               /\ b[i].auth = batches[i].auth
               /\ b[i].resp = batches[i].resp
               /\ b[i].done = batches[i].done
               /\ b[i].full = MarkFull(i, w, t)
               /\ b[i].size = batches[i].size + (IF i = t THEN Size[w] ELSE 0)
               /\ b[i].bufs = IF i = t THEN Append(batches[i].bufs, w)
                                       ELSE batches[i].bufs
    <3>1. CASE i = t
      <4>1. b[i] = n
        BY <2>6, <3>1
      <4>2. m[t].bufs = batches[i].bufs /\ m[t].size = batches[i].size
        BY <1>5, <3>1
      <4>3. /\ b[i].query = batches[i].query
            /\ b[i].auth = batches[i].auth
            /\ b[i].resp = batches[i].resp
            /\ b[i].done = batches[i].done
            /\ b[i].full = MarkFull(i, w, t)
        BY <4>1, <2>5, <1>5, <3>1
      <4> QED
        BY <4>1, <4>2, <4>3, <2>5, <3>1
    <3>2. CASE i # t
      <4>1. b[i] = m[i]
        BY <2>6, <3>2
      <4> QED
        BY <4>1, <1>5, <3>2
    <3> QED
      BY <3>1, <3>2
  <2> QED
    BY <2>6, <2>7, <1>7
<1> QED
  BY <1>6, <1>7

\* What run() does to the batch it has popped.
LEMMA PoppedUpdate ==
    ASSUME TypeOK, ReleasedInOrder, rpc # "pop"
    PROVE  /\ popped \in 1..Len(batches)
           /\ \A a \in Answers :
                 LET b == [batches EXCEPT ![popped].resp = a]
                 IN /\ b \in Seq(Batch) /\ Len(b) = Len(batches)
                    /\ \A i \in 1..Len(batches) :
                          b[i] = IF i = popped THEN [batches[popped] EXCEPT !.resp = a]
                                               ELSE batches[i]
           /\ LET b == [batches EXCEPT ![popped].done = TRUE]
              IN /\ b \in Seq(Batch) /\ Len(b) = Len(batches)
                 /\ \A i \in 1..Len(batches) :
                       b[i] = IF i = popped THEN [batches[popped] EXCEPT !.done = TRUE]
                                            ELSE batches[i]
<1>1. popped \in 1..Len(batches) /\ batches \in Seq(Batch)
  BY DEF TypeOK, ReleasedInOrder
<1>2. batches[popped] \in Batch
  BY <1>1, ElementOfSeq
<1>3. ASSUME NEW a \in Answers
      PROVE  [batches[popped] EXCEPT !.resp = a] \in Batch
  BY <1>2 DEF Batch
<1>4. [batches[popped] EXCEPT !.done = TRUE] \in Batch
  BY <1>2 DEF Batch
<1>5. ASSUME NEW e \in Batch
      PROVE  LET b == [batches EXCEPT ![popped] = e]
             IN /\ b \in Seq(Batch) /\ Len(b) = Len(batches)
                /\ \A i \in 1..Len(batches) :
                      b[i] = IF i = popped THEN e ELSE batches[i]
  BY <1>1, ExceptSeq
<1>6. ASSUME NEW a \in Answers
      PROVE  LET b == [batches EXCEPT ![popped].resp = a]
             IN /\ b \in Seq(Batch) /\ Len(b) = Len(batches)
                /\ \A i \in 1..Len(batches) :
                      b[i] = IF i = popped THEN [batches[popped] EXCEPT !.resp = a]
                                           ELSE batches[i]
  <2>1. [batches EXCEPT ![popped].resp = a]
          = [batches EXCEPT ![popped] = [batches[popped] EXCEPT !.resp = a]]
    BY <1>1
  <2> QED
    BY <2>1, <1>3, <1>5
<1>7. LET b == [batches EXCEPT ![popped].done = TRUE]
      IN /\ b \in Seq(Batch) /\ Len(b) = Len(batches)
         /\ \A i \in 1..Len(batches) :
               b[i] = IF i = popped THEN [batches[popped] EXCEPT !.done = TRUE]
                                    ELSE batches[i]
  <2> DEFINE e == [batches[popped] EXCEPT !.done = TRUE]
  <2>1. [batches EXCEPT ![popped].done = TRUE] = [batches EXCEPT ![popped] = e]
    BY <1>1
  <2>2. LET b == [batches EXCEPT ![popped] = e]
        IN /\ b \in Seq(Batch) /\ Len(b) = Len(batches)
           /\ \A i \in 1..Len(batches) :
                 b[i] = IF i = popped THEN e ELSE batches[i]
    BY <1>4, <1>5
  <2> QED
    BY <2>1, <2>2
<1> QED
  BY <1>1, <1>6, <1>7

\* pop() finds a head whenever l.size lets it through.
LEMMA HeadWhenSized ==
    ASSUME TypeOK, SizeIsSum, size # 0
    PROVE  popped + 1 \in 1..Len(batches)
<1>1. PICK F \in [0..Len(batches) -> Nat] : SuffixSums(F)
  BY DEF SizeIsSum
<1>2. popped # Len(batches)
  BY <1>1 DEF SuffixSums
<1> QED
  BY <1>2 DEF TypeOK

-----------------------------------------------------------------------------
(***************************************************************************)
(* Every conjunct of the invariant is kept by every step.                  *)
(***************************************************************************)

\* The types are kept by every step of post() and run().
LEMMA TypeStep ==
    ASSUME IInv, [Next]_vars
    PROVE  TypeOK'
<1> USE ConstantsAssumption DEF IInv
<1>1. ASSUME NEW w \in Writes, LoadFlag(w) \/ SetBuffering(w) \/ AddRefused(w)
      PROVE  TypeOK'
  <2>1. CASE LoadFlag(w)
    BY <2>1 DEF TypeOK, LoadFlag, Goto, listVars, runVars
  <2>2. CASE SetBuffering(w)
    BY <2>2 DEF TypeOK, SetBuffering, Goto, listVars, runVars
  <2>3. CASE AddRefused(w)
    BY <2>3 DEF TypeOK, AddRefused, Goto, listVars, runVars
  <2> QED
    BY <1>1, <2>1, <2>2, <2>3
<1>2. ASSUME NEW w \in Writes, PostDirect(w)
      PROVE  TypeOK'
  BY <1>2 DEF TypeOK, PostDirect, Goto, listVars, runVars
<1>3. ASSUME NEW w \in Writes, Add(w)
      PROVE  TypeOK'
  <2>1. PICK t \in 1..Len(batches) + 1 :
           /\ ~Overflows(w)
           /\ IsTarget(w, t)
           /\ Goto(w, "add", "linked")
           /\ size' = size + Size[w]
           /\ batches' = Linked(w, t)
           /\ cur' = [cur EXCEPT ![w] = [head |-> t = popped + 1, batch |-> t]]
           /\ UNCHANGED <<buffering, popped, got, result, runVars, crashed>>
    BY <1>3 DEF Add
  <2>2. batches' \in Seq(Batch) /\ Len(batches') >= Len(batches)
    BY <2>1, LinkedList DEF TypeOK
  <2>3. popped' \in 0..Len(batches')
    BY <2>1, <2>2 DEF TypeOK
  <2>4. cur' \in [Writes -> [head : BOOLEAN, batch : Nat]]
    BY <2>1 DEF TypeOK
  <2> QED
    BY <2>1, <2>2, <2>3, <2>4 DEF TypeOK, Goto, runVars
<1>4. ASSUME NEW w \in Writes, ReturnBatch(w)
      PROVE  TypeOK'
  <2>1. Deref(w) \in Nat
    BY DEF TypeOK, Deref, HeadBatch, Nil
  <2> QED
    BY <1>4, <2>1 DEF TypeOK, ReturnBatch, Goto, listVars, runVars
<1>5. ASSUME NEW w \in Writes, Awake(w)
      PROVE  TypeOK'
  <2>1. got[w] \in 1..Len(batches)
    BY <1>5 DEF Awake, Goto, CallerBehind, TypeOK
  <2>2. batches[got[w]].resp \in Answers
    BY <2>1, BatchFields
  <2> QED
    BY <1>5, <2>2 DEF TypeOK, Awake, Goto, listVars, runVars
<1>6. CASE Pop
  <2>1. popped + 1 \in 1..Len(batches)
    BY <1>6, HeadWhenSized DEF Pop
  <2>2. batches[popped + 1].size \in Nat
    BY <2>1, BatchFields
  <2> QED
    BY <1>6, <2>1, <2>2 DEF TypeOK, Pop, RunGoto, postVars
<1>7. CASE AttemptSucceeds
  BY <1>7, PoppedUpdate DEF TypeOK, AttemptSucceeds, RunGoto, postVars
<1>8. CASE AttemptFails
  <2>1. NextInterval \in Int
    BY DEF NextInterval, Multiplier, TypeOK
  <2> QED
    BY <1>8, <2>1 DEF TypeOK, AttemptFails, RunGoto, postVars, listVars
<1>9. CASE SleepOver \/ ClearBuffering
  BY <1>9 DEF TypeOK, SleepOver, ClearBuffering, RunGoto, postVars, listVars
<1>10. CASE Release
  BY <1>10, PoppedUpdate DEF TypeOK, Release, RunGoto, postVars
<1>11. CASE UNCHANGED vars
  BY <1>11 DEF TypeOK, vars
<1> QED
  BY <1>1, <1>2, <1>3, <1>4, <1>5, <1>6, <1>7, <1>8, <1>9, <1>10, <1>11
     DEF Next, Post, Run, Stop

\* The steps that leave the list, and how far run() is with it, alone.
QuietStep ==
    \/ \E w \in Writes :
          \/ LoadFlag(w) \/ PostDirect(w) \/ SetBuffering(w)
          \/ AddRefused(w) \/ ReturnBatch(w) \/ Awake(w)
    \/ AttemptFails \/ SleepOver \/ ClearBuffering
    \/ UNCHANGED vars

\* The steps of Next, with those that change neither the list nor the popped
\* batch taken together.
LEMMA StepCases ==
    ASSUME [Next]_vars
    PROVE  \/ QuietStep
           \/ \E w \in Writes : Add(w)
           \/ Pop
           \/ AttemptSucceeds
           \/ Release
BY DEF Next, Post, Run, Stop, QuietStep

\* A quiet step leaves the list, and how far run() is with the popped batch,
\* alone.
LEMMA QuietStepList ==
    ASSUME QuietStep
    PROVE  /\ UNCHANGED listVars
           /\ (rpc' = "pop") <=> (rpc = "pop")
           /\ rpc' \in {"clear", "release", "pop"} <=> rpc \in {"clear", "release", "pop"}
<1>1. CASE \E w \in Writes :
              \/ LoadFlag(w) \/ PostDirect(w) \/ SetBuffering(w)
              \/ AddRefused(w) \/ ReturnBatch(w) \/ Awake(w)
  BY <1>1 DEF LoadFlag, PostDirect, SetBuffering, AddRefused, ReturnBatch, Awake,
              listVars, runVars
<1>2. CASE AttemptFails \/ SleepOver \/ ClearBuffering
  BY <1>2 DEF AttemptFails, SleepOver, ClearBuffering, RunGoto, listVars
<1>3. CASE UNCHANGED vars
  BY <1>3 DEF vars, listVars
<1> QED
  BY <1>1, <1>2, <1>3 DEF QuietStep

\* What Add(w) does, in terms of the batch it stops at.
LEMMA AddStep ==
    ASSUME IInv, NEW w \in Writes, Add(w)
    PROVE  \E t \in popped + 1 .. Len(batches) + 1 :
              /\ t \in 1..Len(batches) + 1
              /\ t <= Len(batches) => Matches(batches[t], w) /\ Fits(batches[t], w)
              /\ batches' = Linked(w, t)
              /\ cur' = [cur EXCEPT ![w] = [head |-> t = popped + 1, batch |-> t]]
              /\ pc[w] = "add" /\ pc' = [pc EXCEPT ![w] = "linked"]
              /\ size' = size + Size[w]
              /\ UNCHANGED <<popped, rpc, got, buffering, crashed>>
BY DEF Add, IsTarget, Goto, runVars

\* A step of run() that writes to the popped batch changes no other, and of
\* that one resp and done only.
LEMMA PoppedStep ==
    ASSUME IInv, AttemptSucceeds \/ Release
    PROVE  /\ UNCHANGED <<popped, size, postVars>>
           /\ popped \in 1..Len(batches)
           /\ batches' \in Seq(Batch)
           /\ Len(batches') = Len(batches)
           /\ \A i \in 1..Len(batches) :
                 /\ batches'[i].query = batches[i].query
                 /\ batches'[i].auth = batches[i].auth
                 /\ batches'[i].bufs = batches[i].bufs
                 /\ batches'[i].size = batches[i].size
                 /\ batches'[i].full = batches[i].full
           /\ \A i \in 1..Len(batches) : i # popped => batches'[i] = batches[i]
<1>1. rpc # "pop"
  BY DEF AttemptSucceeds, Release, RunGoto
<1>2. popped \in 1..Len(batches) /\ batches[popped] \in Batch
  BY <1>1, PoppedUpdate, BatchFields DEF IInv
<1>3. /\ UNCHANGED <<popped, size, postVars>>
      /\ batches' \in Seq(Batch)
      /\ Len(batches') = Len(batches)
      /\ \A i \in 1..Len(batches) : i # popped => batches'[i] = batches[i]
      /\ \/ \E a \in Answers : batches'[popped] = [batches[popped] EXCEPT !.resp = a]
         \/ batches'[popped] = [batches[popped] EXCEPT !.done = TRUE]
  <2>1. CASE AttemptSucceeds
    <3>1. PICK a \in Answers : batches' = [batches EXCEPT ![popped].resp = a]
      BY <2>1 DEF AttemptSucceeds
    <3>2. UNCHANGED <<popped, size, postVars>>
      BY <2>1 DEF AttemptSucceeds
    <3> QED
      BY <3>1, <3>2, <1>1, <1>2, PoppedUpdate DEF IInv
  <2>2. CASE Release
    <3>1. batches' = [batches EXCEPT ![popped].done = TRUE] /\ UNCHANGED <<popped, size, postVars>>
      BY <2>2 DEF Release
    <3> QED
      BY <3>1, <1>1, <1>2, PoppedUpdate DEF IInv
  <2> QED
    BY <2>1, <2>2
<1>4. /\ batches'[popped].query = batches[popped].query
      /\ batches'[popped].auth = batches[popped].auth
      /\ batches'[popped].bufs = batches[popped].bufs
      /\ batches'[popped].size = batches[popped].size
      /\ batches'[popped].full = batches[popped].full
  BY <1>2, <1>3 DEF Batch
<1> QED
  BY <1>2, <1>3, <1>4

\* Every step keeps l.size the sum of the sizes of the listed batches.
LEMMA SizeStep ==
    ASSUME IInv, [Next]_vars
    PROVE  SizeIsSum'
<1> USE ConstantsAssumption DEF IInv
<1>1. PICK F \in [0..Len(batches) -> Nat] : SuffixSums(F)
  BY DEF SizeIsSum
<1>2. Len(batches) \in Nat /\ popped \in 0..Len(batches)
  BY DEF TypeOK
<1>3. CASE QuietStep
  BY <1>1, <1>3, QuietStepList DEF SizeIsSum, SuffixSums, listVars
<1>4. ASSUME NEW w \in Writes, Add(w)
      PROVE  SizeIsSum'
  <2>1. PICK t \in popped + 1 .. Len(batches) + 1 :
           /\ t \in 1..Len(batches) + 1
           /\ batches' = Linked(w, t)
           /\ size' = size + Size[w]
           /\ popped' = popped
    BY <1>4, AddStep
  <2> DEFINE G == [i \in 0..Len(batches') |->
                      IF i >= t THEN (IF i > Len(batches) THEN 0 ELSE F[i])
                      ELSE F[i] + Size[w]]
  <2>2. /\ Len(batches') = IF t > Len(batches) THEN t ELSE Len(batches)
        /\ t > Len(batches) => batches'[t] = NewBatch(w)
        /\ \A i \in 1..Len(batches) :
              batches'[i].size = batches[i].size + (IF i = t THEN Size[w] ELSE 0)
    <3> HIDE DEF IInv
    <3>1. TypeOK
      BY DEF IInv
    <3> QED
      BY <2>1, <3>1, LinkedList
  <2>3. \A i \in 0..Len(batches) : F[i] \in Nat
    BY <1>1
  <2>4. Size[w] \in Nat
    OBVIOUS
  <2>5. \A i \in 1..Len(batches) : batches[i].size \in Nat /\ F[i - 1] = F[i] + batches[i].size
    BY <1>1, BatchFields DEF SuffixSums
  <2>6. G \in [0..Len(batches') -> Nat]
    BY <2>2, <2>3, <2>4, <1>2
  <2>7. G[Len(batches')] = 0
    BY <2>2, <1>1, <1>2 DEF SuffixSums
  <2>8. ASSUME NEW i \in 1..Len(batches')
        PROVE  G[i - 1] = G[i] + batches'[i].size
    <3>1. CASE i <= Len(batches)
      <4>1. i \in 1..Len(batches) /\ i - 1 \in 0..Len(batches) /\ i \in 0..Len(batches)
        BY <3>1, <1>2
      <4>2. i \in 0..Len(batches') /\ i - 1 \in 0..Len(batches')
        BY <4>1, <2>2, <1>2
      <4>3. F[i - 1] = F[i] + batches[i].size
        BY <4>1, <2>5
      <4>4. batches'[i].size = batches[i].size + (IF i = t THEN Size[w] ELSE 0)
        BY <4>1, <2>2
      <4>5. F[i] \in Nat /\ F[i - 1] \in Nat /\ batches[i].size \in Nat /\ t \in Int /\ i \in Int
        BY <4>1, <2>3, <2>5, <1>2
      <4>6. /\ G[i] = IF i >= t THEN F[i] ELSE F[i] + Size[w]
            /\ G[i - 1] = IF i - 1 >= t THEN F[i - 1] ELSE F[i - 1] + Size[w]
        BY <4>1, <4>2, <3>1, <1>2
      <4> HIDE DEF G
      <4> QED
        BY <4>3, <4>4, <4>5, <4>6, <2>4
    <3>2. CASE i > Len(batches)
      <4>1. i = t /\ t = Len(batches) + 1 /\ batches'[i].size = Size[w]
        BY <3>2, <2>1, <2>2, <1>2 DEF NewBatch
      <4>2. F[Len(batches)] = 0
        BY <1>1 DEF SuffixSums
      <4> QED
        BY <4>1, <4>2, <2>2, <2>3, <2>4, <1>2
    <3> QED
      BY <3>1, <3>2, <1>2, <2>2
  <2>9. size' = G[popped']
    BY <2>1, <2>2, <1>1, <1>2 DEF SuffixSums
  <2> HIDE DEF G
  <2> QED
    BY <2>6, <2>7, <2>8, <2>9 DEF SizeIsSum, SuffixSums
<1>5. CASE Pop
  <2>1. popped + 1 \in 1..Len(batches)
    BY <1>5, HeadWhenSized DEF Pop
  <2>2. F[popped] = F[popped + 1] + batches[popped + 1].size
    BY <2>1, <1>1, <1>2 DEF SuffixSums
  <2>3. F[popped + 1] \in Nat /\ batches[popped + 1].size \in Nat
    BY <2>1, <1>1, BatchFields
  <2>4. size' = F[popped']
    BY <1>5, <2>2, <2>3, <1>1 DEF Pop, SuffixSums
  <2> QED
    BY <1>5, <2>4, <1>1 DEF Pop, SizeIsSum, SuffixSums
<1>6. CASE AttemptSucceeds \/ Release
  <2>1. /\ UNCHANGED <<popped, size>>
        /\ Len(batches') = Len(batches)
        /\ \A i \in 1..Len(batches) : batches'[i].size = batches[i].size
    BY <1>6, PoppedStep
  <2> QED
    BY <1>1, <2>1 DEF SizeIsSum, SuffixSums
<1> QED
  BY <1>3, <1>4, <1>5, <1>6, StepCases

\* Batches are answered and released in the order they were linked.
LEMMA ReleasedStep ==
    ASSUME IInv, [Next]_vars
    PROVE  ReleasedInOrder'
<1> USE DEF IInv
<1>1. Len(batches) \in Nat /\ popped \in 0..Len(batches)
  BY DEF TypeOK
<1>2. CASE QuietStep
  BY <1>2, QuietStepList DEF ReleasedInOrder, Released, Delivered, listVars
<1>3. ASSUME NEW w \in Writes, Add(w)
      PROVE  ReleasedInOrder'
  <2>1. PICK t \in popped + 1 .. Len(batches) + 1 :
           /\ t \in 1..Len(batches) + 1
           /\ batches' = Linked(w, t)
           /\ UNCHANGED <<popped, rpc>>
    BY <1>3, AddStep
  <2>2. /\ Len(batches') = IF t > Len(batches) THEN t ELSE Len(batches)
        /\ t > Len(batches) => batches'[t] = NewBatch(w)
        /\ \A i \in 1..Len(batches) : /\ batches'[i].done = batches[i].done
                                      /\ batches'[i].resp = batches[i].resp
    BY <2>1, LinkedList
  <2>3. ASSUME NEW i \in 1..Len(batches')
        PROVE  (batches'[i].done <=> Released(i)') /\ (Delivered(i)' => Accepted(batches'[i].resp))
    <3>1. CASE i \in 1..Len(batches)
      BY <3>1, <2>1, <2>2 DEF ReleasedInOrder, Released, Delivered
    <3>2. CASE i \notin 1..Len(batches)
      <4>1. i = t /\ i > Len(batches) /\ batches'[i].done = FALSE
        BY <3>2, <2>1, <2>2, <1>1 DEF NewBatch
      <4>2. ~(i < popped) /\ i # popped
        BY <4>1, <1>1
      <4> QED
        BY <4>1, <4>2, <2>1 DEF Released, Delivered
    <3> QED
      BY <3>1, <3>2
  <2> QED
    BY <2>1, <2>3 DEF ReleasedInOrder
<1>4. CASE Pop
  <2>1. popped' = popped + 1 /\ batches' = batches /\ rpc = "pop" /\ rpc' = "attempt"
    BY <1>4 DEF Pop, RunGoto
  <2>2. ASSUME NEW i \in 1..Len(batches)
        PROVE  (Released(i)' <=> Released(i)) /\ (Delivered(i)' => Delivered(i))
    BY <2>1, <1>1 DEF Released, Delivered
  <2> QED
    BY <2>1, <2>2, <1>1 DEF ReleasedInOrder
<1>5. CASE AttemptSucceeds
  <2>1. PICK a \in Answers : Accepted(a) /\ batches' = [batches EXCEPT ![popped].resp = a]
    BY <1>5 DEF AttemptSucceeds
  <2>2. rpc = "attempt" /\ rpc' = "clear" /\ popped' = popped
    BY <1>5 DEF AttemptSucceeds, RunGoto
  <2>3. /\ popped \in 1..Len(batches) /\ Len(batches') = Len(batches)
        /\ batches'[popped] = [batches[popped] EXCEPT !.resp = a]
        /\ \A i \in 1..Len(batches) : i # popped => batches'[i] = batches[i]
    BY <2>1, <2>2, PoppedUpdate
  <2>4. batches'[popped].resp = a /\ batches'[popped].done = batches[popped].done
    BY <2>3, BatchFields DEF Batch
  <2> QED
    BY <2>1, <2>2, <2>3, <2>4 DEF ReleasedInOrder, Released, Delivered
<1>6. CASE Release
  <2>1. /\ batches' = [batches EXCEPT ![popped].done = TRUE]
        /\ rpc = "release" /\ rpc' = "pop" /\ popped' = popped
    BY <1>6 DEF Release, RunGoto
  <2>2. /\ popped \in 1..Len(batches) /\ Len(batches') = Len(batches)
        /\ batches'[popped] = [batches[popped] EXCEPT !.done = TRUE]
        /\ \A i \in 1..Len(batches) : i # popped => batches'[i] = batches[i]
    BY <2>1, PoppedUpdate
  <2>3. batches'[popped].done = TRUE /\ batches'[popped].resp = batches[popped].resp
    BY <2>2, BatchFields DEF Batch
  <2> QED
    BY <2>1, <2>2, <2>3 DEF ReleasedInOrder, Released, Delivered
<1> QED
  BY <1>2, <1>3, <1>4, <1>5, <1>6, StepCases

\* Every step keeps the writes of a batch those of its query and credentials.
LEMMA OneUserStep ==
    ASSUME IInv, [Next]_vars
    PROVE  OneUserPerBatch'
<1> USE DEF IInv
<1>1. Len(batches) \in Nat /\ popped \in 0..Len(batches)
  BY DEF TypeOK
<1>2. CASE QuietStep \/ Pop
  <2>1. batches' = batches
    BY <1>2, QuietStepList DEF Pop, listVars
  <2> QED
    BY <2>1 DEF OneUserPerBatch, Members
<1>3. ASSUME NEW w \in Writes, Add(w)
      PROVE  OneUserPerBatch'
  <2>1. PICK t \in popped + 1 .. Len(batches) + 1 :
           /\ t \in 1..Len(batches) + 1
           /\ t <= Len(batches) => Matches(batches[t], w)
           /\ batches' = Linked(w, t)
    BY <1>3, AddStep
  <2>2. /\ Len(batches') = IF t > Len(batches) THEN t ELSE Len(batches)
        /\ t > Len(batches) => batches'[t] = NewBatch(w)
        /\ \A i \in 1..Len(batches) :
              /\ batches'[i].query = batches[i].query
              /\ batches'[i].auth = batches[i].auth
              /\ batches'[i].bufs = IF i = t THEN Append(batches[i].bufs, w)
                                             ELSE batches[i].bufs
    BY <2>1, LinkedList
  <2>3. ASSUME NEW i \in 1..Len(batches'), NEW v \in Members(i)'
        PROVE  Query[v] = batches'[i].query /\ Auth[v] = batches'[i].auth
    <3>1. PICK j \in 1..Len(batches'[i].bufs) : v = batches'[i].bufs[j]
      BY DEF Members
    <3>2. CASE i \in 1..Len(batches) /\ i # t
      BY <3>1, <3>2, <2>2 DEF OneUserPerBatch, Members
    <3>3. CASE i \in 1..Len(batches) /\ i = t
      <4>1. batches'[i].bufs = Append(batches[i].bufs, w) /\ batches[i].bufs \in Seq(Writes)
        BY <3>3, <2>2, BatchFields
      <4>2. \/ v = w
            \/ j \in 1..Len(batches[i].bufs) /\ v = batches[i].bufs[j]
        BY <4>1, <3>1
      <4>3. CASE v = w
        BY <4>3, <3>3, <2>1, <2>2, <1>1 DEF Matches
      <4>4. CASE j \in 1..Len(batches[i].bufs) /\ v = batches[i].bufs[j]
        BY <4>4, <3>3, <2>2 DEF OneUserPerBatch, Members
      <4> QED
        BY <4>2, <4>3, <4>4
    <3>4. CASE i \notin 1..Len(batches)
      <4>1. batches'[i] = NewBatch(w)
        BY <3>4, <2>1, <2>2, <1>1
      <4>2. v = w
        BY <4>1, <3>1 DEF NewBatch
      <4> QED
        BY <4>1, <4>2 DEF NewBatch
    <3> QED
      BY <3>2, <3>3, <3>4
  <2> QED
    BY <2>3 DEF OneUserPerBatch
<1>4. CASE AttemptSucceeds \/ Release
  BY <1>4, PoppedStep DEF OneUserPerBatch, Members
<1> QED
  BY <1>2, <1>3, <1>4, StepCases

\* A batch that is followed by another of its key is closed to later writes.
LEMMA ClosedStep ==
    ASSUME IInv, [Next]_vars
    PROVE  ClosedBehind'
<1> USE DEF IInv
<1>0. Len(batches) \in Nat /\ popped \in 0..Len(batches)
  BY DEF TypeOK
<1>1. CASE QuietStep
  BY <1>1, QuietStepList DEF ClosedBehind, Listed, listVars
<1>2. ASSUME NEW w \in Writes, Add(w)
      PROVE  ClosedBehind'
  <2>1. PICK t \in popped + 1 .. Len(batches) + 1 :
           /\ t \in 1..Len(batches) + 1
           /\ batches' = Linked(w, t)
           /\ popped' = popped
    BY <1>2, AddStep
  <2>2. /\ Len(batches') = IF t > Len(batches) THEN t ELSE Len(batches)
        /\ t > Len(batches) => batches'[t] = NewBatch(w)
        /\ \A i \in 1..Len(batches) :
              /\ batches'[i].query = batches[i].query
              /\ batches'[i].auth = batches[i].auth
              /\ batches'[i].full = MarkFull(i, w, t)
    BY <2>1, LinkedList
  <2>3. ASSUME NEW i \in popped + 1 .. Len(batches'), NEW j \in i + 1 .. Len(batches'),
               batches'[i].query = batches'[j].query,
               batches'[i].auth = batches'[j].auth
        PROVE  batches'[i].full
    <3>1. i \in 1..Len(batches) /\ i \in Listed
      BY <2>1, <2>2, <1>0 DEF Listed
    <3>2. CASE j \in 1..Len(batches)
      <4>1. j \in i + 1 .. Len(batches)
        BY <3>2, <3>1
      <4> QED
        BY <3>1, <3>2, <4>1, <2>2, <2>3 DEF ClosedBehind, MarkFull
    <3>3. CASE j \notin 1..Len(batches)
      <4>1. j = t /\ t > Len(batches) /\ batches'[j] = NewBatch(w)
        BY <3>3, <3>1, <2>1, <2>2, <1>0
      <4>2. i \in popped + 1 .. t - 1
        BY <4>1, <3>1, <1>0 DEF Listed
      <4>3. batches[i].query = Query[w] /\ batches[i].auth = Auth[w]
        BY <4>1, <3>1, <2>2, <2>3 DEF NewBatch
      <4> QED
        BY <4>2, <4>3, <3>1, <2>2 DEF MarkFull, Matches
    <3> QED
      BY <3>2, <3>3
  <2> QED
    BY <2>1, <2>3 DEF ClosedBehind, Listed
<1>3. CASE Pop
  <2>1. popped' = popped + 1 /\ batches' = batches
    BY <1>3 DEF Pop
  <2>2. \A i \in popped' + 1 .. Len(batches) : i \in Listed
    BY <2>1, <1>0 DEF Listed
  <2> QED
    BY <2>1, <2>2 DEF ClosedBehind, Listed
<1>4. CASE AttemptSucceeds \/ Release
  <2>1. /\ popped' = popped /\ Len(batches') = Len(batches)
        /\ \A i \in 1..Len(batches) : /\ batches'[i].query = batches[i].query
                                      /\ batches'[i].auth = batches[i].auth
                                      /\ batches'[i].full = batches[i].full
    BY <1>4, PoppedStep
  <2>2. ASSUME NEW i \in popped + 1 .. Len(batches), NEW j \in i + 1 .. Len(batches)
        PROVE  i \in 1..Len(batches) /\ j \in 1..Len(batches)
    BY <1>0
  <2> QED
    BY <2>1, <2>2 DEF ClosedBehind, Listed
<1> QED
  BY <1>1, <1>2, <1>3, <1>4, StepCases

\* The variables of post() that the invariant of a caller reads.
LEMMA CallerFrame ==
    ASSUME IInv, NEW v \in Writes,
           pc'[v] = pc[v], cur'[v] = cur[v], got'[v] = got[v],
           Len(batches') \in Nat, Len(batches') >= Len(batches),
           popped' \in Nat, popped' >= popped,
           (popped' = popped /\ (rpc = "pop" => rpc' = "pop")) \/ popped' = popped + 1
    PROVE  CallerBehind(v)'
<1>0. CallerBehind(v) /\ popped \in Nat /\ Len(batches) \in Nat /\ cur[v].batch \in Nat
  BY DEF IInv, TypeOK
<1> QED
  BY <1>0 DEF CallerBehind, Released

\* Every step keeps each caller behind its own batch: the batch add() handed it
\* is released no earlier than the one that holds its write.
LEMMA CallerStep ==
    ASSUME IInv, [Next]_vars, NEW v \in Writes
    PROVE  CallerBehind(v)'
<1> USE DEF IInv
<1>0. /\ Len(batches) \in Nat /\ popped \in 0..Len(batches)
      /\ CallerBehind(v) /\ cur[v].batch \in Nat
      /\ Len(batches') \in Nat
  BY TypeStep DEF TypeOK
<1>1. ASSUME NEW w \in Writes, Post(w), w # v
      PROVE  CallerBehind(v)'
  <2>1. /\ pc'[v] = pc[v] /\ cur'[v] = cur[v] /\ got'[v] = got[v]
        /\ rpc' = rpc /\ popped' = popped
    BY <1>1 DEF TypeOK, Post, LoadFlag, PostDirect, SetBuffering, AddRefused, Add,
                ReturnBatch, Awake, Goto, listVars, runVars
  <2>2. Len(batches') >= Len(batches)
    <3>1. CASE Add(w)
      <4>1. PICK t \in 1..Len(batches) + 1 : batches' = Linked(w, t)
        BY <3>1 DEF Add
      <4> QED
        BY <4>1, <1>0, LinkedList
    <3>2. CASE ~Add(w)
      <4>1. batches' = batches
        BY <1>1, <3>2 DEF Post, LoadFlag, PostDirect, SetBuffering, AddRefused,
                          ReturnBatch, Awake, listVars
      <4> QED
        BY <4>1, <1>0
    <3> QED
      BY <3>1, <3>2
  <2> QED
    BY <2>1, <2>2, <1>0, CallerFrame
<1>2. CASE LoadFlag(v) \/ PostDirect(v) \/ SetBuffering(v) \/ AddRefused(v)
  <2>1. /\ pc[v] \in {"load", "direct", "mark", "add"}
        /\ UNCHANGED <<batches, popped, rpc, cur, got>>
    BY <1>2 DEF LoadFlag, PostDirect, SetBuffering, AddRefused, Goto, listVars, runVars
  <2>2. cur'[v].batch = 0
    BY <2>1, <1>0 DEF CallerBehind, Nil
  <2>3. pc'[v] \in {"direct", "mark", "add", "returned", "refused"}
    BY <1>2 DEF LoadFlag, PostDirect, SetBuffering, AddRefused, Goto, TypeOK
  <2> QED
    BY <2>2, <2>3 DEF CallerBehind, Nil
<1>3. CASE Add(v)
  <2>1. PICK t \in popped + 1 .. Len(batches) + 1 :
           /\ t \in 1..Len(batches) + 1
           /\ batches' = Linked(v, t)
           /\ cur' = [cur EXCEPT ![v] = [head |-> t = popped + 1, batch |-> t]]
           /\ pc' = [pc EXCEPT ![v] = "linked"]
           /\ UNCHANGED popped
    BY <1>3, AddStep
  <2>2. t \in 1..Len(batches')
    BY <2>1, <1>0, LinkedList
  <2>3. /\ pc'[v] = "linked"
        /\ cur'[v].batch = t
        /\ cur'[v].head <=> t = popped + 1
    BY <2>1 DEF TypeOK
  <2> QED
    BY <2>1, <2>2, <2>3, <1>0 DEF CallerBehind, Nil
<1>4. CASE ReturnBatch(v)
  <2>1. /\ pc[v] = "linked" /\ UNCHANGED <<batches, popped, rpc, cur>>
        /\ got'[v] = Deref(v)
        /\ pc'[v] = IF Deref(v) = Nil THEN "linked" ELSE "wait"
    BY <1>4 DEF ReturnBatch, Goto, listVars, runVars, TypeOK
  <2>2. /\ cur[v].batch \in 1..Len(batches)
        /\ cur[v].head => cur[v].batch <= popped + 1
    BY <2>1, <1>0 DEF CallerBehind
  <2>3. Deref(v) # Nil => Deref(v) \in cur[v].batch .. Len(batches)
    BY <2>2, <1>0 DEF Deref, HeadBatch, Nil
  <2> QED
    BY <2>1, <2>2, <2>3 DEF CallerBehind
<1>5. CASE Awake(v)
  <2>1. /\ pc[v] = "wait" /\ UNCHANGED <<batches, popped, rpc, cur>>
        /\ pc'[v] = "returned"
        /\ batches[got[v]].done
    BY <1>5 DEF Awake, Goto, listVars, runVars, TypeOK
  <2>2. cur[v].batch \in 1..Len(batches) /\ got[v] \in cur[v].batch .. Len(batches)
    BY <2>1, <1>0 DEF CallerBehind
  <2>3. got[v] \in 1..Len(batches)
    BY <2>2
  <2>4. Released(got[v])
    BY <2>1, <2>3 DEF ReleasedInOrder
  <2>5. Released(cur[v].batch)
    BY <2>2, <2>4, <1>0 DEF Released
  <2> QED
    BY <2>1, <2>2, <2>5 DEF CallerBehind, Released
<1>6. CASE Run
  <2>1. UNCHANGED <<pc, cur, got>>
    BY <1>6 DEF Run, Pop, AttemptSucceeds, AttemptFails, SleepOver, ClearBuffering,
                Release, postVars
  <2>2. Len(batches') = Len(batches)
    BY <1>6, PoppedStep DEF Run, Pop, AttemptFails, SleepOver, ClearBuffering, listVars
  <2>3. (popped' = popped /\ (rpc = "pop" => rpc' = "pop")) \/ popped' = popped + 1
    BY <1>6 DEF Run, Pop, AttemptSucceeds, AttemptFails, SleepOver, ClearBuffering,
                Release, RunGoto, listVars
  <2> QED
    BY <2>1, <2>2, <2>3, <1>0, CallerFrame
<1>7. CASE UNCHANGED vars
  BY <1>7, <1>0, CallerFrame DEF vars
<1> QED
  BY <1>1, <1>2, <1>3, <1>4, <1>5, <1>6, <1>7 DEF Next, Post, Stop

\* Every step keeps what a caller was told: a batch that is released is not answered anew.
LEMMA AnswerStep ==
    ASSUME IInv, [Next]_vars, NEW v \in Writes
    PROVE  AnsweredByGot(v)'
<1>0. /\ Len(batches) \in Nat /\ popped \in 0..Len(batches)
      /\ CallerBehind(v) /\ AnsweredByGot(v) /\ ReleasedInOrder
      /\ cur[v].batch \in Nat /\ cur \in [Writes -> [head : BOOLEAN, batch : Nat]]
      /\ got \in [Writes -> Nat] /\ result \in [Writes -> Answers]
      /\ pc \in [Writes -> {"load", "direct", "mark", "add", "linked", "wait",
                            "returned", "refused"}]
  BY DEF IInv, TypeOK
<1>1. ASSUME pc'[v] = pc[v], UNCHANGED <<cur[v], got[v], result[v]>>,
             Len(batches') \in Nat, Len(batches') >= Len(batches),
             \A i \in 1..Len(batches) : Released(i) => batches'[i].resp = batches[i].resp,
             \A i \in 1..Len(batches) : Released(i) => Released(i)'
      PROVE  AnsweredByGot(v)'
  <2>1. CASE pc[v] = "returned" /\ cur[v].batch # Nil
    <3>1. /\ cur[v].batch \in 1..Len(batches)
          /\ got[v] \in cur[v].batch .. Len(batches) /\ Released(got[v])
          /\ result[v] = batches[got[v]].resp
      BY <2>1, <1>0 DEF CallerBehind, AnsweredByGot
    <3>2. got[v] \in 1..Len(batches) /\ got[v] \in cur[v].batch .. Len(batches')
      BY <3>1, <1>1, <1>0
    <3>3. Released(got[v])' /\ result'[v] = batches'[got[v]].resp
      <4>1. PICK i \in 1..Len(batches) : i = got[v] /\ Released(i)
        BY <3>1, <3>2
      <4> QED
        BY <4>1, <3>1, <1>1 DEF Released
    <3> QED
      BY <1>1, <3>2, <3>3 DEF AnsweredByGot
  <2>2. CASE ~(pc[v] = "returned" /\ cur[v].batch # Nil)
    BY <2>2, <1>1 DEF AnsweredByGot
  <2> QED
    BY <2>1, <2>2
<1>2. ASSUME NEW w \in Writes, w # v,
             LoadFlag(w) \/ PostDirect(w) \/ SetBuffering(w)
                 \/ AddRefused(w) \/ ReturnBatch(w) \/ Awake(w)
      PROVE  AnsweredByGot(v)'
  <2>1. /\ pc'[v] = pc[v] /\ UNCHANGED <<cur[v], got[v], result[v], batches, popped, rpc>>
    BY <1>2, <1>0 DEF LoadFlag, PostDirect, SetBuffering, AddRefused, ReturnBatch, Awake,
                      Goto, listVars, runVars
  <2> QED
    BY <2>1, <1>0, <1>1 DEF Released
<1>3. CASE LoadFlag(v) \/ PostDirect(v) \/ SetBuffering(v) \/ AddRefused(v) \/ ReturnBatch(v)
  <2>1. CASE PostDirect(v)
    BY <2>1, <1>0 DEF PostDirect, Goto, CallerBehind, AnsweredByGot
  <2>2. CASE ~PostDirect(v)
    <3>1. pc'[v] # "returned"
      BY <2>2, <1>3, <1>0 DEF LoadFlag, SetBuffering, AddRefused, ReturnBatch, Goto
    <3> QED
      BY <3>1 DEF AnsweredByGot
  <2> QED
    BY <2>1, <2>2
<1>4. CASE Awake(v)
  <2>1. /\ pc[v] = "wait" /\ UNCHANGED <<batches, popped, rpc, cur, got>>
        /\ batches[got[v]].done /\ result'[v] = batches[got[v]].resp
    BY <1>4, <1>0 DEF Awake, Goto, listVars, runVars
  <2>2. cur[v].batch \in 1..Len(batches) /\ got[v] \in cur[v].batch .. Len(batches)
    BY <2>1, <1>0 DEF CallerBehind
  <2>3. got[v] \in 1..Len(batches)
    BY <2>2
  <2>4. Released(got[v])
    BY <2>1, <2>3, <1>0 DEF ReleasedInOrder
  <2> QED
    BY <2>1, <2>2, <2>4 DEF AnsweredByGot, Released
<1>5. ASSUME NEW w \in Writes, Add(w)
      PROVE  AnsweredByGot(v)'
  <2>1. PICK t \in popped + 1 .. Len(batches) + 1 :
           /\ t \in 1..Len(batches) + 1
           /\ batches' = Linked(w, t)
           /\ cur' = [cur EXCEPT ![w] = [head |-> t = popped + 1, batch |-> t]]
           /\ pc' = [pc EXCEPT ![w] = "linked"]
           /\ UNCHANGED <<popped, rpc, got>>
    BY <1>5, AddStep
  <2>2. result' = result
    BY <1>5 DEF Add
  <2>3. /\ Len(batches') \in Nat /\ Len(batches') >= Len(batches)
        /\ \A i \in 1..Len(batches) : batches'[i].resp = batches[i].resp
    BY <2>1, <1>0, LinkedList DEF IInv
  <2>4. CASE w = v
    BY <2>1, <2>4, <1>0 DEF AnsweredByGot
  <2>5. CASE w # v
    BY <2>1, <2>2, <2>3, <2>5, <1>0, <1>1 DEF Released
  <2> QED
    BY <2>4, <2>5
<1>6. CASE Pop \/ AttemptFails \/ SleepOver \/ ClearBuffering
  <2>1. /\ UNCHANGED <<pc, cur, got, result, batches>>
        /\ (rpc = "pop" /\ popped' = popped + 1) \/ (rpc # "pop" /\ popped' = popped)
    BY <1>6 DEF Pop, AttemptFails, SleepOver, ClearBuffering, RunGoto, listVars, postVars
  <2> QED
    BY <2>1, <1>0, <1>1 DEF Released
<1>7. CASE AttemptSucceeds \/ Release
  <2>1. /\ UNCHANGED <<pc, cur, got, result, popped>>
        /\ Len(batches') = Len(batches) /\ rpc # "pop"
        /\ \A i \in 1..Len(batches) : i # popped => batches'[i] = batches[i]
    BY <1>7, PoppedStep DEF postVars, AttemptSucceeds, Release, RunGoto
  <2>2. \A i \in 1..Len(batches) : Released(i) => i # popped /\ Released(i)'
    BY <2>1, <1>0 DEF Released
  <2> QED
    BY <2>1, <2>2, <1>0, <1>1
<1>8. CASE UNCHANGED vars
  BY <1>8, <1>0, <1>1 DEF vars, Released
<1> QED
  BY <1>2, <1>3, <1>4, <1>5, <1>6, <1>7, <1>8 DEF Next, Post, Run, Stop

\* Appending a write adds it to the elements of a sequence.
LEMMA AppendedElements ==
    ASSUME NEW b \in Seq(Writes), NEW v \in Writes, NEW c, c = Append(b, v)
    PROVE  {c[j] : j \in 1..Len(c)} = {b[j] : j \in 1..Len(b)} \cup {v}
<1>0. /\ Len(c) = Len(b) + 1 /\ c[Len(b) + 1] = v
      /\ \A j \in 1..Len(b) : c[j] = b[j]
      /\ Len(b) \in Nat
  BY AppendProperties, LenProperties
<1>1. \A j \in 1..Len(c) : j \in 1..Len(b) \/ j = Len(b) + 1
  BY <1>0
<1>2. /\ \A j \in 1..Len(b) : j \in 1..Len(c)
      /\ Len(b) + 1 \in 1..Len(c)
  BY <1>0
<1> QED
  BY <1>0, <1>1, <1>2

\* Every step keeps each write in the one batch it was added to.
LEMMA InOneStep ==
    ASSUME IInv, [Next]_vars
    PROVE  InOneBatch'
<1>0. /\ Len(batches) \in Nat /\ popped \in 0..Len(batches) /\ InOneBatch
      /\ \A w \in Writes : cur[w].batch \in Nat /\ CallerBehind(w)
      /\ cur \in [Writes -> [head : BOOLEAN, batch : Nat]]
      /\ pc \in [Writes -> {"load", "direct", "mark", "add", "linked", "wait",
                            "returned", "refused"}]
  BY DEF IInv, TypeOK
<1>1. CASE QuietStep \/ Pop
  <2>1. UNCHANGED <<batches, cur>>
    <3>1. CASE QuietStep
      BY <3>1 DEF QuietStep, LoadFlag, PostDirect, SetBuffering, AddRefused, ReturnBatch,
                  Awake, AttemptFails, SleepOver, ClearBuffering, listVars, postVars, vars
    <3>2. CASE Pop
      BY <3>2 DEF Pop, postVars
    <3> QED
      BY <1>1, <3>1, <3>2
  <2> QED
    BY <2>1, <1>0 DEF InOneBatch, Members
<1>2. ASSUME NEW v \in Writes, Add(v)
      PROVE  InOneBatch'
  <2>1. PICK t \in 1..Len(batches) + 1 :
           /\ batches' = Linked(v, t)
           /\ cur' = [cur EXCEPT ![v] = [head |-> t = popped + 1, batch |-> t]]
           /\ pc[v] = "add"
    BY <1>2, AddStep
  <2>2. /\ Len(batches') = IF t > Len(batches) THEN t ELSE Len(batches)
        /\ t > Len(batches) => batches'[t].bufs = <<v>>
        /\ \A i \in 1..Len(batches) :
              batches'[i].bufs = IF i = t THEN Append(batches[i].bufs, v) ELSE batches[i].bufs
    <3>1. t > Len(batches) => batches'[t] = NewBatch(v)
      BY <2>1, LinkedList DEF IInv
    <3>2. NewBatch(v).bufs = <<v>>
      BY DEF NewBatch
    <3>3. /\ Len(batches') = IF t > Len(batches) THEN t ELSE Len(batches)
          /\ \A i \in 1..Len(batches) :
                batches'[i].bufs = IF i = t THEN Append(batches[i].bufs, v) ELSE batches[i].bufs
      BY <2>1, LinkedList DEF IInv
    <3> QED
      BY <3>1, <3>2, <3>3
  <2>3. \A i \in 1..Len(batches) : batches[i].bufs \in Seq(Writes)
    BY BatchFields DEF IInv
  <2>4. cur[v].batch = Nil /\ cur'[v].batch = t /\ \A w \in Writes \ {v} : cur'[w] = cur[w]
    BY <2>1, <1>0 DEF CallerBehind
  <2>5. ASSUME NEW i \in 1..Len(batches), i # t
        PROVE  Members(i)' = Members(i)
    BY <2>2, <2>5 DEF Members
  <2>6. CASE t > Len(batches)
    <3>1. Members(t)' = {v}
      <4>1. Members(t)' = {batches'[t].bufs[j] : j \in 1..Len(batches'[t].bufs)}
        BY DEF Members
      <4>2. batches'[t].bufs = <<v>>
        BY <2>2, <2>6
      <4> QED
        BY <4>1, <4>2
    <3>2. \A w \in Writes : cur[w].batch # t
      BY <2>6, <1>0 DEF CallerBehind, Nil
    <3>3. \A i \in 1..Len(batches') : i = t \/ i \in 1..Len(batches)
      BY <2>2, <2>6
    <3> QED
      BY <3>1, <3>2, <3>3, <2>4, <2>5, <1>0 DEF InOneBatch, Nil
  <2>7. CASE t \in 1..Len(batches)
    <3>1. Members(t)' = Members(t) \cup {v}
      <4>1. batches'[t].bufs = Append(batches[t].bufs, v) /\ batches[t].bufs \in Seq(Writes)
        BY <2>2, <2>3, <2>7
      <4> QED
        BY <4>1, AppendedElements DEF Members
    <3>2. 1..Len(batches') = 1..Len(batches)
      BY <2>2, <2>7
    <3> QED
      BY <3>1, <3>2, <2>4, <2>5, <2>7, <1>0 DEF InOneBatch, Nil
  <2> QED
    BY <2>6, <2>7
<1>3. CASE AttemptSucceeds \/ Release
  <2>1. /\ Len(batches') = Len(batches) /\ cur' = cur
        /\ \A i \in 1..Len(batches) : batches'[i].bufs = batches[i].bufs
    BY <1>3, PoppedStep DEF postVars
  <2>2. \A i \in 1..Len(batches) : Members(i)' = Members(i)
    BY <2>1 DEF Members
  <2> QED
    BY <2>1, <2>2, <1>0 DEF InOneBatch
<1> QED
  BY <1>1, <1>2, <1>3, StepCases

\* The members of a batch are writes, and finitely many.
LEMMA MembersFacts ==
    ASSUME TypeOK, NEW i \in 1..Len(batches)
    PROVE  Members(i) \in SUBSET Writes /\ IsFiniteSet(Members(i))
<1> DEFINE b == batches[i].bufs
<1>0. b \in Seq(Writes)
  BY BatchFields
<1> HIDE DEF b
<1>1. Len(b) \in Nat /\ b \in [1..Len(b) -> Writes]
  BY <1>0, LenProperties
<1> DEFINE M == {b[j] : j \in 1..Len(b)}
<1>2. M \in SUBSET Writes
  BY <1>1
<1>3. b \in Surjection(1..Len(b), M)
  BY <1>1 DEF Surjection
<1>4. IsFiniteSet(1..Len(b))
  BY <1>1, FS_Interval
<1>5. IsFiniteSet(M)
  BY <1>3, <1>4, FS_Surjection
<1> QED
  BY <1>2, <1>5 DEF Members, b

\* A write adds its size to the sum of those of a batch it is not in.
LEMMA OneMoreMember ==
    ASSUME NEW M \in SUBSET Writes, IsFiniteSet(M), NEW w \in Writes, w \notin M
    PROVE  SumFunctionOnSet(Size, M \cup {w}) = SumFunctionOnSet(Size, M) + Size[w]
<1> DEFINE N == M \cup {w}
<1>0. N \in SUBSET Writes /\ w \in N /\ N \ {w} = M
  OBVIOUS
<1>1. IsFiniteSet(N)
  BY FS_AddElement
<1> HIDE DEF N
<1>2. (\A x \in N : Size[x] \in Int) /\ Size[w] \in Int
  BY <1>0, ConstantsAssumption
<1>3. /\ SumFunctionOnSet(Size, N \ {w}) \in Int
      /\ SumFunctionOnSet(Size, N) = Size[w] + SumFunctionOnSet(Size, N \ {w})
  BY <1>0, <1>1, <1>2, SumWithout
<1>4. SumFunctionOnSet(Size, N) = SumFunctionOnSet(Size, M) + Size[w]
  <2>1. N \ {w} = M
    BY <1>0
  <2>2. /\ SumFunctionOnSet(Size, M) \in Int
        /\ SumFunctionOnSet(Size, N) = Size[w] + SumFunctionOnSet(Size, M)
    BY <1>3, <2>1, Zenon
  <2> QED
    BY <2>2, <1>2
<1> QED
  BY <1>4 DEF N

\* Every step keeps each batch as large as its writes.
LEMMA BatchSizesStep ==
    ASSUME IInv, [Next]_vars
    PROVE  BatchSizes'
<1>0. /\ Len(batches) \in Nat /\ BatchSizes /\ InOneBatch /\ InOneBatch'
      /\ \A i \in 1..Len(batches) : Members(i) \in SUBSET Writes /\ IsFiniteSet(Members(i))
      /\ \A i \in 1..Len(batches) : batches[i].size \in Nat
      /\ MaxBatch \in Nat /\ Size \in [Writes -> Nat]
  BY InOneStep, MembersFacts, BatchFields, ConstantsAssumption DEF IInv, TypeOK
<1>1. CASE QuietStep \/ Pop
  <2>1. batches' = batches
    BY <1>1, QuietStepList DEF Pop, listVars
  <2> QED
    BY <2>1, <1>0 DEF BatchSizes, Members
<1>2. ASSUME NEW v \in Writes, Add(v)
      PROVE  BatchSizes'
  <2>1. PICK t \in 1..Len(batches) + 1 :
           /\ batches' = Linked(v, t)
           /\ t <= Len(batches) => Fits(batches[t], v)
           /\ cur' = [cur EXCEPT ![v] = [head |-> t = popped + 1, batch |-> t]]
           /\ pc[v] = "add"
    BY <1>2, AddStep
  <2>2. /\ Len(batches') = IF t > Len(batches) THEN t ELSE Len(batches)
        /\ t > Len(batches) => batches'[t] = NewBatch(v)
        /\ \A i \in 1..Len(batches) :
              /\ batches'[i].bufs = IF i = t THEN Append(batches[i].bufs, v)
                                    ELSE batches[i].bufs
              /\ batches'[i].size = batches[i].size + (IF i = t THEN Size[v] ELSE 0)
    BY <2>1, LinkedList DEF IInv
  <2>3. ASSUME NEW i \in 1..Len(batches), i # t
        PROVE  /\ batches'[i].size = SumFunctionOnSet(Size, Members(i)')
               /\ Len(batches'[i].bufs) > 1 => batches'[i].size <= MaxBatch
    <3>1. batches'[i].bufs = batches[i].bufs /\ batches'[i].size = batches[i].size
      BY <2>2, <2>3, <1>0
    <3>2. Members(i)' = Members(i)
      BY <3>1 DEF Members
    <3> QED
      BY <3>1, <3>2, <1>0 DEF BatchSizes
  <2>4. CASE t > Len(batches)
    <3>1. batches'[t].bufs = <<v>> /\ batches'[t].size = Size[v]
      BY <2>2, <2>4 DEF NewBatch
    <3>2. Members(t)' = {v}
      BY <3>1 DEF Members
    <3>3. SumFunctionOnSet(Size, {v}) = Size[v]
      <4>1. {v} = {} \cup {v} /\ {} \in SUBSET Writes /\ v \notin {}
        OBVIOUS
      <4>2. SumFunctionOnSet(Size, {v}) = SumFunctionOnSet(Size, {}) + Size[v]
        BY <4>1, FS_EmptySet, OneMoreMember
      <4> QED
        BY <4>2, <1>0, SumOfNone
    <3>4. Len(<<v>>) = 1
      OBVIOUS
    <3>5. \A i \in 1..Len(batches') : i = t \/ (i # t /\ i \in 1..Len(batches))
      BY <2>2, <2>4, <1>0
    <3>6. batches'[t].size = SumFunctionOnSet(Size, Members(t)')
      BY <3>1, <3>2, <3>3
    <3>7. ~(Len(batches'[t].bufs) > 1)
      BY <3>1, <3>4
    <3> QED
      BY <3>5, <3>6, <3>7, <2>3 DEF BatchSizes
  <2>5. CASE t \in 1..Len(batches)
    <3>1. cur[v].batch = Nil /\ cur'[v].batch = t
          /\ \A w \in Writes \ {v} : cur'[w].batch = cur[w].batch
      BY <2>1 DEF CallerBehind, IInv, TypeOK
    <3>2. Len(batches') = Len(batches) /\ t # Nil
      BY <2>2, <2>5 DEF Nil
    <3>3. v \notin Members(t)
      BY <3>1, <3>2, <2>5, <1>0 DEF InOneBatch
    <3>4. batches'[t].bufs = Append(batches[t].bufs, v) /\ batches[t].bufs \in Seq(Writes)
      BY <2>2, <2>5, BatchFields DEF IInv
    <3>5. Members(t)' = Members(t) \cup {v}
      BY <3>4, AppendedElements DEF Members
    <3>6. batches'[t].size = SumFunctionOnSet(Size, Members(t)) + Size[v]
      BY <2>2, <2>5, <1>0 DEF BatchSizes
    <3>7. batches'[t].size = SumFunctionOnSet(Size, Members(t)')
      BY <3>3, <3>5, <3>6, <2>5, <1>0, OneMoreMember
    <3>8. batches'[t].size <= MaxBatch
      BY <2>1, <2>2, <2>5, <1>0 DEF Fits
    <3> QED
      BY <3>2, <3>7, <3>8, <2>3 DEF BatchSizes
  <2> QED
    BY <2>1, <2>4, <2>5, <1>0
<1>3. CASE AttemptSucceeds \/ Release
  <2>1. /\ Len(batches') = Len(batches)
        /\ \A i \in 1..Len(batches) : batches'[i].bufs = batches[i].bufs
                                      /\ batches'[i].size = batches[i].size
    BY <1>3, PoppedStep
  <2>2. \A i \in 1..Len(batches) : Members(i)' = Members(i)
    BY <2>1 DEF Members
  <2> QED
    BY <2>1, <2>2, <1>0 DEF BatchSizes
<1> QED
  BY <1>1, <1>2, <1>3, StepCases

-----------------------------------------------------------------------------
(***************************************************************************)
(* The theorems.                                                           *)
(***************************************************************************)

\* A new retry buffer satisfies the invariant.
LEMMA InitIInv ==
    ASSUME Init
    PROVE  IInv
<1> USE ConstantsAssumption DEF Init
<1>0. TypeOK
  <2>1. batches \in Seq(Batch) /\ Len(batches) = 0
    BY EmptySeq
  <2>2. result \in [Writes -> Answers]
    BY DEF Answers
  <2>3. cur \in [Writes -> [head : BOOLEAN, batch : Nat]]
    BY DEF Nil
  <2>4. /\ pc \in [Writes -> {"load", "direct", "mark", "add", "linked", "wait",
                              "returned", "refused"}]
        /\ got \in [Writes -> Nat]
    BY DEF Nil
  <2>5. popped \in 0..Len(batches) /\ size \in Int /\ interval \in Int /\ buffering \in 0..1
    BY <2>1
  <2> QED
    BY <2>1, <2>2, <2>3, <2>4, <2>5 DEF TypeOK
<1>1. SizeIsSum
  <2> DEFINE F == [i \in 0..Len(batches) |-> 0]
  <2>1. F \in [0..Len(batches) -> Nat] /\ SuffixSums(F)
    BY DEF SuffixSums
  <2> QED
    BY <2>1 DEF SizeIsSum
<1>2. ReleasedInOrder
  BY DEF ReleasedInOrder
<1>3. \A w \in Writes : CallerBehind(w) /\ AnsweredByGot(w)
  BY DEF CallerBehind, AnsweredByGot
<1>4. OneUserPerBatch /\ ClosedBehind /\ InOneBatch /\ BatchSizes
  BY DEF OneUserPerBatch, ClosedBehind, InOneBatch, BatchSizes, Listed
<1> QED
  BY <1>0, <1>1, <1>2, <1>3, <1>4 DEF IInv

\* The invariant is inductive.
LEMMA StepIInv ==
    ASSUME IInv, [Next]_vars
    PROVE  IInv'
BY TypeStep, SizeStep, BatchSizesStep, ReleasedStep, CallerStep, AnswerStep, OneUserStep,
   ClosedStep, InOneStep DEF IInv

\* The invariant holds in every reachable state of every instance.
THEOREM Invariance == Spec => []IInv
BY InitIInv, StepIInv, PTL DEF Spec

\* Type correctness: in particular pop() never finds the list empty when
\* l.size lets it through.
THEOREM TypeCorrect == Spec => []TypeOK
<1>0. IInv => TypeOK
  BY DEF IInv
<1> QED
  BY <1>0, Invariance, PTL

\* The bytes of a buffered write are in use until the backend has accepted
\* them: no caller, whichever batch add() handed it, returns before that.
THEOREM CallersAreReleasedAfterDelivery == Spec => []ReleasedOnlyAfterDelivered
<1>0. ASSUME IInv
      PROVE  ReleasedOnlyAfterDelivered
  <2>1. SUFFICES ASSUME NEW w \in Writes, pc[w] = "returned", cur[w].batch # Nil
                 PROVE  batches[cur[w].batch].done /\ Accepted(batches[cur[w].batch].resp)
    BY DEF ReleasedOnlyAfterDelivered
  <2>2. cur[w].batch \in 1..Len(batches) /\ Released(cur[w].batch)
    BY <1>0, <2>1 DEF IInv, CallerBehind
  <2>3. Delivered(cur[w].batch)
    BY <2>2 DEF Released, Delivered
  <2> QED
    BY <1>0, <2>2, <2>3 DEF IInv, ReleasedInOrder
<1> QED
  BY <1>0, Invariance, PTL

\* A batch never mixes users or databases.
THEOREM UsersAreKeptApart == Spec => []OneUserPerBatch
<1>0. IInv => OneUserPerBatch
  BY DEF IInv
<1> QED
  BY <1>0, Invariance, PTL

\* The list keeps the writes of one key in the order add() accepted them.
THEOREM WritesKeepTheirOrder == Spec => NoOvertaking
<1>0. ASSUME IInv, [Next]_vars
      PROVE  [\A w \in Writes : (pc[w] = "add" /\ pc'[w] = "linked") =>
                LET t == cur'[w].batch
                IN /\ batches'[t].bufs[Len(batches'[t].bufs)] = w
                   /\ \A i \in t + 1 .. Len(batches') : ~SameKey(batches'[i], w)]_vars
  <2>1. SUFFICES ASSUME NEW w \in Writes, pc[w] = "add", pc'[w] = "linked"
                 PROVE  LET t == cur'[w].batch
                        IN /\ batches'[t].bufs[Len(batches'[t].bufs)] = w
                           /\ \A i \in t + 1 .. Len(batches') : ~SameKey(batches'[i], w)
    OBVIOUS
  <2>2. Add(w)
    <3>1. ASSUME NEW v \in Writes, Post(v), v # w
          PROVE  pc'[w] = pc[w]
      BY <3>1, <1>0 DEF IInv, TypeOK, Post, LoadFlag, PostDirect, SetBuffering, AddRefused,
                        Add, ReturnBatch, Awake, Goto
    <3>2. CASE Post(w)
      BY <3>2, <2>1, <1>0 DEF IInv, TypeOK, Post, LoadFlag, PostDirect, SetBuffering,
                              AddRefused, ReturnBatch, Awake, Goto
    <3>3. CASE Run \/ UNCHANGED vars
      BY <3>3, <2>1 DEF Run, Pop, AttemptSucceeds, AttemptFails, SleepOver,
                        ClearBuffering, Release, postVars, vars
    <3> QED
      BY <3>1, <3>2, <3>3, <2>1, <1>0 DEF Next, Stop
  <2>3. PICK t \in popped + 1 .. Len(batches) + 1 :
           /\ t \in 1..Len(batches) + 1
           /\ t <= Len(batches) => Matches(batches[t], w)
           /\ batches' = Linked(w, t)
           /\ cur' = [cur EXCEPT ![w] = [head |-> t = popped + 1, batch |-> t]]
    BY <2>2, <1>0, AddStep
  <2>4. /\ Len(batches') = IF t > Len(batches) THEN t ELSE Len(batches)
        /\ t > Len(batches) => batches'[t] = NewBatch(w)
        /\ \A i \in 1..Len(batches) :
              /\ batches'[i].query = batches[i].query
              /\ batches'[i].auth = batches[i].auth
              /\ batches'[i].bufs = IF i = t THEN Append(batches[i].bufs, w)
                                             ELSE batches[i].bufs
    BY <2>3, <1>0, LinkedList DEF IInv
  <2>5. cur'[w].batch = t /\ Len(batches) \in Nat /\ popped \in 0..Len(batches)
    BY <2>3, <1>0 DEF IInv, TypeOK
  <2>6. CASE t > Len(batches)
    <3>1. batches'[t].bufs = <<w>>
      BY <2>4, <2>6 DEF NewBatch
    <3>2. Len(batches'[t].bufs) = 1 /\ batches'[t].bufs[1] = w
      BY <3>1
    <3>3. t + 1 .. Len(batches') = {}
      BY <2>4, <2>5, <2>6, <2>3
    <3> QED
      BY <3>2, <3>3, <2>5
  <2>7. CASE t <= Len(batches)
    <3>1. t \in Listed /\ t \in 1..Len(batches)
      BY <2>3, <2>5, <2>7 DEF Listed
    <3>2. batches'[t].bufs = Append(batches[t].bufs, w) /\ batches[t].bufs \in Seq(Writes)
      BY <2>4, <3>1, <1>0, BatchFields DEF IInv
    <3>3. batches'[t].bufs[Len(batches'[t].bufs)] = w
      BY <3>2
    <3>4. ASSUME NEW i \in t + 1 .. Len(batches'), SameKey(batches'[i], w)
          PROVE  FALSE
      <4>1. i \in 1..Len(batches) /\ i \in t + 1 .. Len(batches)
        BY <2>4, <2>5, <2>7, <3>1
      <4>2. batches[i].query = Query[w] /\ batches[i].auth = Auth[w]
        BY <4>1, <2>4, <3>4 DEF SameKey
      <4>3. /\ batches[t].query = Query[w] /\ batches[t].auth = Auth[w]
            /\ ~batches[t].full
        BY <2>3, <2>7 DEF Matches
      <4> QED
        BY <4>1, <4>2, <4>3, <3>1, <1>0 DEF IInv, ClosedBehind
    <3> QED
      BY <3>3, <3>4, <2>5
  <2> QED
    BY <2>6, <2>7, <2>5, <2>3
<1> QED
  BY <1>0, Invariance, PTL DEF Spec, NoOvertaking

\* run() reads the writes of the batch it has popped without the mutex; no
\* step of any handler changes them.
THEOREM PoppedBatchesAreSealed == Spec => SealedOncePopped
<1>0. ASSUME IInv, [Next]_vars
      PROVE  [\A i \in 1..popped : batches'[i].bufs = batches[i].bufs]_vars
  <2>1. popped \in Nat /\ \A i \in 1..popped : i \in 1..Len(batches)
    BY <1>0 DEF IInv, TypeOK
  <2>2. CASE QuietStep \/ Pop
    BY <2>2, QuietStepList DEF Pop, listVars
  <2>3. ASSUME NEW w \in Writes, Add(w)
        PROVE  \A i \in 1..popped : batches'[i].bufs = batches[i].bufs
    <3>1. PICK t \in popped + 1 .. Len(batches) + 1 :
             t \in 1..Len(batches) + 1 /\ batches' = Linked(w, t)
      BY <1>0, <2>3, AddStep
    <3>2. \A i \in 1..popped : i # t
      BY <3>1, <2>1
    <3> QED
      BY <3>1, <3>2, <2>1, <1>0, LinkedList DEF IInv
  <2>4. CASE AttemptSucceeds \/ Release
    BY <2>4, <2>1, <1>0, PoppedStep
  <2> QED
    BY <2>2, <2>3, <2>4, <1>0, StepCases
<1> QED
  BY <1>0, Invariance, PTL DEF Spec, SealedOncePopped

(***************************************************************************)
(* The flag.                                                               *)
(***************************************************************************)
\* While the flag is set something is there to clear it.
ClosedForCause ==
    buffering = 1 =>
        \/ Listed # {}
        \/ rpc \in {"attempt", "sleep", "clear"}
        \/ \E w \in Writes : pc[w] = "add"
        \/ StuckByTooLarge

\* While it is not, nothing has gone into the list, or is about to, before a first batch
\* was delivered.
OpenForCause ==
    buffering = 0 /\ (Listed # {} \/ rpc \in {"attempt", "sleep"} \/ \E w \in Writes : pc[w] = "add")
        => NumDelivered > 0

\* Every step keeps the cause of a closed path: a refused write that is not larger than
\* the buffer shows that there is a batch to retry.
LEMMA ClosedCauseStep ==
    ASSUME IInv, ClosedForCause, [Next]_vars
    PROVE  ClosedForCause'
<1>1. /\ pc \in [Writes -> {"load", "direct", "mark", "add", "linked", "wait",
                            "returned", "refused"}]
      /\ popped \in 0..Len(batches) /\ Len(batches) \in Nat /\ size \in Int
  BY DEF IInv, TypeOK
<1>2. ASSUME NEW w \in Writes, LoadFlag(w) \/ PostDirect(w) \/ ReturnBatch(w) \/ Awake(w)
      PROVE  ClosedForCause'
  <2>1. /\ UNCHANGED <<buffering, batches, popped, rpc>>
        /\ \A v \in Writes : pc[v] \in {"add", "refused"} => pc'[v] = pc[v]
    BY <1>2, <1>1 DEF LoadFlag, PostDirect, ReturnBatch, Awake, Goto, listVars, runVars
  <2> QED
    BY <2>1 DEF ClosedForCause, StuckByTooLarge, Listed
<1>3. ASSUME NEW w \in Writes, SetBuffering(w)
      PROVE  ClosedForCause'
  BY <1>3, <1>1 DEF SetBuffering, Goto, ClosedForCause, StuckByTooLarge
<1>4. ASSUME NEW w \in Writes, AddRefused(w)
      PROVE  ClosedForCause'
  <2>1. pc'[w] = "refused" /\ UNCHANGED <<batches, popped>>
    BY <1>4, <1>1 DEF AddRefused, Goto, listVars
  <2>2. CASE TooLarge(w)
    BY <2>1, <2>2 DEF ClosedForCause, StuckByTooLarge
  <2>3. CASE ~TooLarge(w)
    <3>1. size # 0
      BY <1>4, <2>3, <1>1, ConstantsAssumption DEF AddRefused, Overflows, TooLarge
    <3>2. popped + 1 \in Listed
      BY <3>1, <1>1, HeadWhenSized DEF IInv, Listed
    <3> QED
      BY <3>2, <2>1 DEF ClosedForCause, StuckByTooLarge, Listed
  <2> QED
    BY <2>2, <2>3
<1>5. ASSUME NEW w \in Writes, Add(w)
      PROVE  ClosedForCause'
  <2>1. PICK t \in popped + 1 .. Len(batches) + 1 :
           t \in 1..Len(batches) + 1 /\ batches' = Linked(w, t) /\ popped' = popped
    BY <1>5, AddStep
  <2>2. t <= Len(batches')
    BY <2>1, <1>1, LinkedList DEF IInv
  <2>3. Len(batches') \in Nat
    BY TypeStep DEF TypeOK
  <2> QED
    BY <2>1, <2>2, <2>3, <1>1 DEF ClosedForCause, StuckByTooLarge, Listed
<1>6. CASE Pop \/ AttemptSucceeds \/ AttemptFails \/ SleepOver
  BY <1>6 DEF Pop, AttemptSucceeds, AttemptFails, SleepOver, RunGoto, ClosedForCause, StuckByTooLarge
<1>7. CASE ClearBuffering
  BY <1>7 DEF ClearBuffering, ClosedForCause, StuckByTooLarge
<1>8. CASE Release
  <2>1. /\ rpc = "release" /\ buffering' = buffering
        /\ popped' = popped /\ pc' = pc /\ Len(batches') = Len(batches)
    BY <1>8, PoppedStep DEF Release, RunGoto, postVars
  <2>2. Listed' = Listed
    BY <2>1 DEF Listed
  <2> QED
    BY <2>1, <2>2 DEF ClosedForCause, StuckByTooLarge
<1>9. CASE UNCHANGED vars
  BY <1>9 DEF vars, ClosedForCause, StuckByTooLarge, Listed
<1> QED
  BY <1>2, <1>3, <1>4, <1>5, <1>6, <1>7, <1>8, <1>9 DEF Next, Post, Run, Stop

\* And every step keeps the cause of an open one: run() clears the flag when the
\* backend has taken a batch, and what it has taken stays taken.
LEMMA OpenCauseStep ==
    ASSUME IInv, OpenForCause, [Next]_vars
    PROVE  OpenForCause'
<1>1. /\ pc \in [Writes -> {"load", "direct", "mark", "add", "linked", "wait",
                            "returned", "refused"}]
      /\ popped \in 0..Len(batches) /\ Len(batches) \in Nat
      /\ rpc # "pop" => popped > 0
      /\ buffering \in 0..1
  BY DEF IInv, TypeOK, ReleasedInOrder
<1>2. ASSUME NEW w \in Writes, LoadFlag(w) \/ PostDirect(w) \/ SetBuffering(w)
                                \/ AddRefused(w) \/ ReturnBatch(w) \/ Awake(w)
      PROVE  OpenForCause'
  <2>1. CASE SetBuffering(w)
    BY <2>1 DEF SetBuffering, OpenForCause
  <2>2. CASE ~SetBuffering(w)
    <3>1. /\ UNCHANGED <<buffering, popped, batches, rpc>>
          /\ buffering = 0 => \A v \in Writes : pc'[v] = "add" => pc[v] = "add"
      BY <1>1, <1>2, <2>2 DEF LoadFlag, PostDirect, AddRefused, ReturnBatch, Awake, Goto,
                              listVars, runVars
    <3> QED
      BY <3>1 DEF OpenForCause, Listed, NumDelivered
  <2> QED
    BY <2>1, <2>2
<1>3. ASSUME NEW w \in Writes, Add(w)
      PROVE  OpenForCause'
  <2>1. pc[w] = "add" /\ UNCHANGED <<buffering, popped, rpc>>
    BY <1>3, AddStep
  <2> QED
    BY <2>1 DEF OpenForCause, NumDelivered
<1>4. CASE Pop
  <2>1. Listed # {}
    BY <1>4, <1>1, HeadWhenSized DEF IInv, Listed, Pop
  <2> QED
    BY <1>1, <1>4, <2>1 DEF Pop, RunGoto, OpenForCause, NumDelivered
<1>5. CASE AttemptSucceeds \/ ClearBuffering
  BY <1>1, <1>5 DEF AttemptSucceeds, ClearBuffering, RunGoto, OpenForCause, NumDelivered, listVars
<1>6. CASE AttemptFails \/ SleepOver
  <2>1. /\ rpc \in {"attempt", "sleep"} /\ rpc' \in {"attempt", "sleep"}
        /\ UNCHANGED <<buffering, popped>>
    BY <1>6 DEF AttemptFails, SleepOver, RunGoto, listVars
  <2> QED
    BY <2>1 DEF OpenForCause, NumDelivered
<1>7. CASE Release
  BY <1>1, <1>7 DEF Release, RunGoto, OpenForCause, NumDelivered
<1>8. CASE UNCHANGED vars
  BY <1>8 DEF vars, OpenForCause, NumDelivered, Listed
<1> QED
  BY <1>2, <1>3, <1>4, <1>5, <1>6, <1>7, <1>8 DEF Next, Post, Run, Stop

\* The direct path is closed only while something is there to open it again, or what is
\* listed has no bytes, or a write larger than the buffer was refused; and it is open,
\* with batches listed, only after one was delivered.
THEOREM FlagIsNeverStuck == Spec => []FlagHasCause
<1>1. Init => ClosedForCause /\ OpenForCause
  BY DEF Init, ClosedForCause, OpenForCause, StuckByTooLarge, Listed
<1>2. IInv /\ ClosedForCause /\ OpenForCause /\ [Next]_vars
         => ClosedForCause' /\ OpenForCause'
  BY ClosedCauseStep, OpenCauseStep
<1>3. ClosedForCause /\ OpenForCause => FlagHasCause
  BY DEF ClosedForCause, OpenForCause, FlagHasCause, OnlyEmptyListed
<1> QED
  BY <1>1, <1>2, <1>3, Invariance, PTL DEF Spec

\* The counters that pop() and add() decide on are right at every step: l.size is the
\* sum of the sizes of the listed batches, whose sizes are those of their writes, and a
\* batch that merges writes is within max-batch-kb (retry.go:142-195).
THEOREM SizesAreAccounted == Spec => []SizeAccounting
<1> DEFINE bs == [i \in 1..Len(batches) |-> batches[i].size]
           L == Len(batches)
<1>1. ASSUME IInv PROVE SizeAccounting
  <2>1. PICK F \in [0..L -> Nat] : SuffixSums(F)
    BY <1>1 DEF IInv, SizeIsSum
  <2>2. L \in Nat /\ popped \in 0..L /\ \A i \in 1..L : batches[i].size \in Nat
    BY <1>1, BatchFields DEF IInv, TypeOK
  <2> DEFINE Bad == {n \in 0..L : F[L - n] # SumFunctionOnSet(bs, L - n + 1 .. L)}
  <2>3. \A n : n \in Bad <=> n \in 0..L /\ F[L - n] # SumFunctionOnSet(bs, L - n + 1 .. L)
    OBVIOUS
  <2>4. Bad \in SUBSET Nat
    BY <2>2
  <2>5. \A i \in 1..L : bs[i] = batches[i].size /\ bs[i] \in Int
    BY <2>2
  <2>6. F[L] = 0 /\ (\A i \in 1..L : F[i - 1] = F[i] + bs[i]) /\ size = F[popped]
    BY <2>1, <2>5 DEF SuffixSums
  <2> HIDE DEF Bad, bs, L
  <2>7. Bad = {}
    <3> SUFFICES ASSUME Bad # {} PROVE FALSE
      OBVIOUS
    <3>1. PICK n \in Bad : \A m \in Bad : n <= m
      BY <2>4, LeastNat
    <3>2. n \in 0..L
      BY <2>3, <3>1
    <3>3. CASE n = 0
      <4>1. L - n + 1 .. L = {} /\ F[L - n] = 0
        BY <2>2, <2>6, <3>3
      <4> QED
        BY <4>1, <3>1, <2>3, SumOfNone
    <3>4. CASE n # 0
      <4> DEFINE y == L - n + 1
                 S == y .. L
                 T == y + 1 .. L
      <4>1. /\ n - 1 \in 0..L /\ ~(n <= n - 1) /\ y \in 1..L /\ y \in Int
            /\ L - (n - 1) = y /\ L - (n - 1) + 1 = y + 1 /\ y - 1 = L - n
        BY <2>2, <3>2, <3>4
      <4>2. n - 1 \notin Bad
        BY <3>1, <4>1
      <4>3. F[L - (n - 1)] = SumFunctionOnSet(bs, L - (n - 1) + 1 .. L)
        BY <2>3, <4>1, <4>2
      <4> HIDE DEF y
      <4>4. F[y] = SumFunctionOnSet(bs, T)
        BY <4>1, <4>3
      <4>5. IsFiniteSet(S) /\ S \in SUBSET (1..L) /\ y \in S /\ S \ {y} = T
        <5>1. L \in Int /\ IsFiniteSet(S)
          BY <2>2, <4>1, FS_Interval
        <5>2. S \in SUBSET (1..L) /\ y \in S
          BY <2>2, <4>1
        <5>3. S \ {y} = T
          BY <2>2, <4>1
        <5> QED
          BY <5>1, <5>2, <5>3
      <4> HIDE DEF S, T
      <4>6. \A x \in S : bs[x] \in Int
        BY <4>5, <2>5
      <4>7. SumFunctionOnSet(bs, S) = bs[y] + SumFunctionOnSet(bs, T)
            /\ SumFunctionOnSet(bs, T) \in Int
        BY <4>5, <4>6, SumWithout
      <4>8. F[y - 1] = SumFunctionOnSet(bs, S)
        BY <4>1, <4>4, <4>7, <2>5, <2>6
      <4>9. F[L - n] = SumFunctionOnSet(bs, L - n + 1 .. L)
        BY <4>1, <4>8 DEF S, y
      <4> QED
        BY <4>9, <3>1, <2>3
    <3> QED
      BY <3>3, <3>4
  <2>8. size = SumFunctionOnSet(bs, Listed)
    <3>1. L - popped \in 0..L /\ L - (L - popped) = popped
      BY <2>2
    <3>2. F[popped] = SumFunctionOnSet(bs, popped + 1 .. L)
      BY <3>1, <2>3, <2>7
    <3> QED
      BY <3>2, <2>6 DEF Listed, L
  <2>9. size = SumFunction([i \in Listed |-> batches[i].size])
    <3> DEFINE e == [i \in Listed |-> batches[i].size]
    <3>1. IsFiniteSet(Listed) /\ Listed \in SUBSET (1..L)
      BY <2>2, FS_Interval DEF Listed, L
    <3>2. DOMAIN e = Listed /\ \A i \in Listed : e[i] = bs[i]
      BY <3>1, <2>5
    <3> HIDE DEF e
    <3>3. SumFunction(e) = SumFunctionOnSet(bs, Listed)
      BY <3>1, <3>2, SumAgrees DEF SumFunction
    <3> QED
      BY <3>3, <2>8 DEF e
  <2> QED
    BY <1>1, <2>9 DEF IInv, BatchSizes, SizeAccounting
<1> QED
  BY <1>1, Invariance, PTL

-----------------------------------------------------------------------------
(***************************************************************************)
(* The writes of a key, in the batches delivered and in those pending.     *)
(***************************************************************************)
PartsFor(bs, k) == [i \in 1..Len(bs) |-> BufsFor(bs[i], k)]

\* What the first n of some batches hold of a key, and what the others hold.
FirstOf(bs, n, k) == WritesOf(SubSeq(bs, 1, n), k)
LaterOf(bs, n, k) == WritesOf(SubSeq(bs, n + 1, Len(bs)), k)

\* The part of a batch, and the parts of some.
LEMMA PartsFacts ==
    ASSUME NEW bs \in Seq(Batch), NEW k
    PROVE  /\ PartsFor(bs, k) \in Seq(Seq(Writes)) /\ Len(PartsFor(bs, k)) = Len(bs)
           /\ \A i \in 1..Len(bs) : /\ PartsFor(bs, k)[i] = BufsFor(bs[i], k)
                                    /\ BufsFor(bs[i], k) \in Seq(Writes)
           /\ WritesOf(bs, k) = FlattenSeq(PartsFor(bs, k)) /\ WritesOf(bs, k) \in Seq(Writes)
<1>1. Len(bs) \in Nat BY LenProperties
<1>2. \A i \in 1..Len(bs) : bs[i] \in Batch BY ElementOfSeq
<1>3. \A b \in Batch : BufsFor(b, k) \in Seq(Writes) BY EmptySeq DEF Batch, BufsFor
<1>4. PartsFor(bs, k) \in Seq(Seq(Writes)) BY <1>1, <1>2, <1>3, IsASeq DEF PartsFor
<1>5. /\ Len(PartsFor(bs, k)) = Len(bs)
      /\ \A i \in 1..Len(bs) : PartsFor(bs, k)[i] = BufsFor(bs[i], k)
  BY <1>1, <1>4, LenProperties DEF PartsFor
<1>6. WritesOf(bs, k) = FlattenSeq(PartsFor(bs, k)) BY DEF WritesOf, PartsFor
<1>7. QED BY <1>2, <1>3, <1>4, <1>5, <1>6, FlattenType

\* Only the keys and the writes of the batches matter.
LEMMA SameParts ==
    ASSUME NEW bs \in Seq(Batch), NEW cs \in Seq(Batch), Len(cs) = Len(bs), NEW k,
           \A i \in 1..Len(bs) : BufsFor(cs[i], k) = BufsFor(bs[i], k)
    PROVE  WritesOf(cs, k) = WritesOf(bs, k)
<1>1. PartsFor(cs, k) = PartsFor(bs, k)
  <2>1. \A i \in 1..Len(bs) : PartsFor(cs, k)[i] = PartsFor(bs, k)[i] BY PartsFacts
  <2>2. QED BY <2>1, PartsFacts, SeqEqual
<1>2. QED BY <1>1, PartsFacts

\* One batch more at the end.
LEMMA WritesOfAppend ==
    ASSUME NEW bs \in Seq(Batch), NEW b \in Batch, NEW k
    PROVE  WritesOf(Append(bs, b), k) = WritesOf(bs, k) \o BufsFor(b, k)
<1> DEFINE cs == Append(bs, b)
<1>1. /\ cs \in Seq(Batch) /\ Len(cs) = Len(bs) + 1 /\ cs[Len(bs) + 1] = b
      /\ \A i \in 1..Len(bs) : cs[i] = bs[i]
      /\ Len(bs) \in Nat
  BY AppendProperties, LenProperties
<1> HIDE DEF cs
<1>2. PICK p \in Seq(Writes) : p = BufsFor(b, k) BY EmptySeq DEF Batch, BufsFor
<1>3. PartsFor(cs, k) = Append(PartsFor(bs, k), p)
  <2> DEFINE d == Append(PartsFor(bs, k), p)
  <2>1. PartsFor(bs, k) \in Seq(Seq(Writes)) /\ Len(PartsFor(bs, k)) = Len(bs)
    BY PartsFacts
  <2>2. /\ d \in Seq(Seq(Writes)) /\ Len(d) = Len(bs) + 1 /\ d[Len(bs) + 1] = p
        /\ \A i \in 1..Len(bs) : d[i] = PartsFor(bs, k)[i]
    BY <2>1, AppendProperties
  <2> HIDE DEF d
  <2>3. ASSUME NEW i \in 1..Len(cs) PROVE PartsFor(cs, k)[i] = d[i]
    <3>1. PartsFor(cs, k)[i] = BufsFor(cs[i], k) BY <1>1, PartsFacts
    <3>2. CASE i = Len(bs) + 1 BY <1>1, <1>2, <2>2, <3>1, <3>2
    <3>3. CASE i # Len(bs) + 1
      <4>1. i \in 1..Len(bs) BY <1>1, <3>3
      <4>2. PartsFor(bs, k)[i] = BufsFor(bs[i], k) BY <4>1, PartsFacts
      <4>3. QED BY <1>1, <2>2, <3>1, <4>1, <4>2
    <3>4. QED BY <3>2, <3>3
  <2>4. PartsFor(cs, k) \in Seq(Seq(Writes)) /\ Len(PartsFor(cs, k)) = Len(cs)
    BY <1>1, PartsFacts
  <2>5. PartsFor(cs, k) = d BY <1>1, <2>2, <2>3, <2>4, SeqEqual
  <2>6. QED BY <2>5 DEF d
<1>4. FlattenSeq(Append(PartsFor(bs, k), p)) = FlattenSeq(PartsFor(bs, k)) \o p
  BY PartsFacts, FlattenOfAppend
<1>5. WritesOf(cs, k) = FlattenSeq(PartsFor(cs, k)) BY <1>1, PartsFacts
<1>6. WritesOf(bs, k) = FlattenSeq(PartsFor(bs, k)) BY PartsFacts
<1>7. QED BY <1>2, <1>3, <1>4, <1>5, <1>6 DEF cs

\* The first batch, and the others.
LEMMA WritesOfFirst ==
    ASSUME NEW bs \in Seq(Batch), bs # <<>>, NEW k
    PROVE  WritesOf(bs, k) = BufsFor(bs[1], k) \o WritesOf(Tail(bs), k)
<1>1. /\ Tail(bs) \in Seq(Batch) /\ Len(Tail(bs)) = Len(bs) - 1 /\ Len(bs) \in Nat \ {0}
      /\ \A i \in 1..Len(bs) - 1 : Tail(bs)[i] = bs[i + 1]
  BY HeadTailProperties, EmptySeq, LenProperties
<1> DEFINE ps == PartsFor(bs, k)
<1>2. ps \in Seq(Seq(Writes)) /\ Len(ps) = Len(bs) /\ ps # <<>>
      /\ \A i \in 1..Len(bs) : ps[i] = BufsFor(bs[i], k)
  <2>1. ps \in Seq(Seq(Writes)) /\ Len(ps) = Len(bs)
      /\ \A i \in 1..Len(bs) : ps[i] = BufsFor(bs[i], k)
    BY PartsFacts
  <2> HIDE DEF ps
  <2>2. QED BY <1>1, <2>1, EmptySeq
<1> HIDE DEF ps
<1>3. Tail(ps) = PartsFor(Tail(bs), k)
  <2>1. /\ Tail(ps) \in Seq(Seq(Writes)) /\ Len(Tail(ps)) = Len(bs) - 1
        /\ \A i \in 1..Len(bs) - 1 : Tail(ps)[i] = ps[i + 1]
    BY <1>2, HeadTailProperties
  <2>2. /\ PartsFor(Tail(bs), k) \in Seq(Seq(Writes))
        /\ Len(PartsFor(Tail(bs), k)) = Len(bs) - 1
        /\ \A i \in 1..Len(bs) - 1 : PartsFor(Tail(bs), k)[i] = BufsFor(Tail(bs)[i], k)
    BY <1>1, PartsFacts
  <2>3. ASSUME NEW i \in 1..Len(bs) - 1 PROVE Tail(ps)[i] = PartsFor(Tail(bs), k)[i]
    <3>1. i + 1 \in 1..Len(bs) BY <1>1
    <3>2. QED BY <1>1, <1>2, <2>1, <2>2, <3>1
  <2>4. QED BY <2>1, <2>2, <2>3, SeqEqual
<1>4. FlattenSeq(ps) = ps[1] \o FlattenSeq(Tail(ps)) BY <1>2, FlattenOfFirst
<1>5. ps[1] = BufsFor(bs[1], k) BY <1>1, <1>2
<1>6. WritesOf(bs, k) = FlattenSeq(ps) BY PartsFacts DEF ps
<1>7. WritesOf(Tail(bs), k) = FlattenSeq(Tail(ps)) BY <1>1, <1>3, PartsFacts
<1>8. QED BY <1>4, <1>5, <1>6, <1>7

\* Batch t of cs has one write more of key k than that of bs, and is the last of k.
Longer(bs, cs, k, t, v) ==
    /\ Len(cs) = Len(bs) /\ t \in 1..Len(bs)
    /\ BufsFor(cs[t], k) = Append(BufsFor(bs[t], k), v)
    /\ \A i \in t + 1 .. Len(bs) : BufsFor(bs[i], k) = <<>>
    /\ \A i \in 1..Len(bs) : i # t => BufsFor(cs[i], k) = BufsFor(bs[i], k)

\* One write more in the last batch of its key.
LEMMA WritesOfLonger ==
    ASSUME NEW bs \in Seq(Batch), NEW cs \in Seq(Batch), NEW k, NEW t, NEW v \in Writes,
           Longer(bs, cs, k, t, v)
    PROVE  WritesOf(cs, k) = Append(WritesOf(bs, k), v)
<1> USE DEF Longer
<1> DEFINE ps == PartsFor(bs, k)
           qs == PartsFor(cs, k)
<1>1. /\ ps \in Seq(Seq(Writes)) /\ Len(ps) = Len(bs)
      /\ \A i \in 1..Len(bs) : ps[i] = BufsFor(bs[i], k)
      /\ qs \in Seq(Seq(Writes)) /\ Len(qs) = Len(bs)
      /\ \A i \in 1..Len(bs) : qs[i] = BufsFor(cs[i], k)
      /\ WritesOf(bs, k) = FlattenSeq(ps) /\ WritesOf(cs, k) = FlattenSeq(qs)
  BY PartsFacts
<1> HIDE DEF ps, qs
<1>2. \A i \in t + 1 .. Len(ps) : ps[i] = <<>>
  <2>1. Len(bs) \in Nat BY LenProperties
  <2>2. \A i \in t + 1 .. Len(bs) : i \in 1..Len(bs) BY <2>1
  <2>3. QED BY <1>1, <2>2
<1>3. qs[t] = Append(ps[t], v) /\ \A i \in 1..Len(ps) : i # t => qs[i] = ps[i] BY <1>1
<1>4. FlattenSeq(qs) = Append(FlattenSeq(ps), v)
  <2>1. t \in 1..Len(ps) /\ Len(qs) = Len(ps) BY <1>1
  <2>2. QED BY <1>1, <1>2, <1>3, <2>1, FlattenOfLonger
<1>5. QED BY <1>1, <1>4

\* The first n batches and the others.
LEMMA SliceFacts ==
    ASSUME NEW bs \in Seq(Batch), NEW n \in 0..Len(bs)
    PROVE  /\ SubSeq(bs, 1, n) \in Seq(Batch) /\ Len(SubSeq(bs, 1, n)) = n
           /\ \A i \in 1..n : SubSeq(bs, 1, n)[i] = bs[i] /\ i \in 1..Len(bs)
           /\ SubSeq(bs, n + 1, Len(bs)) \in Seq(Batch)
           /\ Len(SubSeq(bs, n + 1, Len(bs))) = Len(bs) - n
           /\ \A i \in 1..Len(bs) - n :
                 SubSeq(bs, n + 1, Len(bs))[i] = bs[n + i] /\ n + i \in 1..Len(bs)
<1>1. Len(bs) \in Nat /\ n \in Nat /\ n <= Len(bs) BY LenProperties
<1>2. \A i \in 1..Len(bs) : bs[i] \in Batch BY ElementOfSeq
<1>3. /\ SubSeq(bs, 1, n) \in Seq(Batch) /\ Len(SubSeq(bs, 1, n)) = n
      /\ \A i \in 1..n : SubSeq(bs, 1, n)[i] = bs[i] /\ i \in 1..Len(bs)
  <2>1. \A i \in 1..n : bs[i] \in Batch BY <1>1, <1>2
  <2> DEFINE s == SubSeq(bs, 1, n)
  <2>2. /\ s \in Seq(Batch) /\ Len(s) = IF 1 <= n THEN n - 1 + 1 ELSE 0
        /\ \A i \in 1..n - 1 + 1 : s[i] = bs[1 + i - 1]
    BY <1>1, <2>1, SubSeqProperties
  <2> HIDE DEF s
  <2>3. s \in Seq(Batch) /\ Len(s) = n /\ \A i \in 1..n : s[i] = bs[i] /\ i \in 1..Len(bs)
    BY <1>1, <2>2
  <2>4. QED BY <2>3 DEF s
<1>4. /\ SubSeq(bs, n + 1, Len(bs)) \in Seq(Batch)
      /\ Len(SubSeq(bs, n + 1, Len(bs))) = Len(bs) - n
      /\ \A i \in 1..Len(bs) - n :
            SubSeq(bs, n + 1, Len(bs))[i] = bs[n + i] /\ n + i \in 1..Len(bs)
  <2>1. \A i \in n + 1 .. Len(bs) : bs[i] \in Batch BY <1>1, <1>2
  <2> DEFINE s == SubSeq(bs, n + 1, Len(bs))
             m == Len(bs)
  <2>2. /\ s \in Seq(Batch) /\ Len(s) = IF n + 1 <= m THEN m - (n + 1) + 1 ELSE 0
        /\ \A i \in 1..m - (n + 1) + 1 : s[i] = bs[n + 1 + i - 1]
    BY <1>1, <2>1, SubSeqProperties
  <2> HIDE DEF s, m
  <2>3. m \in Nat /\ n <= m BY <1>1 DEF m
  <2>4. Len(s) = m - n BY <1>1, <2>2, <2>3
  <2>5. ASSUME NEW i \in 1..m - n PROVE s[i] = bs[n + i] /\ n + i \in 1..m
    <3>1. i \in 1..m - (n + 1) + 1 /\ n + 1 + i - 1 = n + i /\ n + i \in 1..m BY <1>1, <2>3
    <3>2. QED BY <2>2, <3>1
  <2>6. QED BY <2>2, <2>4, <2>5 DEF s, m
<1>5. QED BY <1>3, <1>4

\* A batch is delivered.
LEMMA OneMoreDelivered ==
    ASSUME NEW bs \in Seq(Batch), NEW n \in 0..Len(bs) - 1, NEW k
    PROVE  /\ BufsFor(bs[n + 1], k) \in Seq(Writes)
           /\ FirstOf(bs, n, k) \in Seq(Writes) /\ LaterOf(bs, n + 1, k) \in Seq(Writes)
           /\ FirstOf(bs, n + 1, k) = FirstOf(bs, n, k) \o BufsFor(bs[n + 1], k)
           /\ LaterOf(bs, n, k) = BufsFor(bs[n + 1], k) \o LaterOf(bs, n + 1, k)
<1>1. /\ Len(bs) \in Nat /\ n \in 0..Len(bs) /\ n + 1 \in 0..Len(bs) /\ n + 1 \in 1..Len(bs)
      /\ n < Len(bs)
  BY LenProperties
<1>2. bs[n + 1] \in Batch BY <1>1, ElementOfSeq
<1>3. BufsFor(bs[n + 1], k) \in Seq(Writes) BY <1>1, PartsFacts
<1>4. /\ SubSeq(bs, 1, n) \in Seq(Batch) /\ Len(SubSeq(bs, 1, n)) = n
      /\ \A i \in 1..n : SubSeq(bs, 1, n)[i] = bs[i]
  BY <1>1, SliceFacts
<1>5. /\ SubSeq(bs, 1, n + 1) \in Seq(Batch) /\ Len(SubSeq(bs, 1, n + 1)) = n + 1
      /\ \A i \in 1..n + 1 : SubSeq(bs, 1, n + 1)[i] = bs[i]
  BY <1>1, SliceFacts
<1>6. SubSeq(bs, 1, n + 1) = Append(SubSeq(bs, 1, n), bs[n + 1])
  <2> DEFINE s == SubSeq(bs, 1, n)
             u == SubSeq(bs, 1, n + 1)
             a == Append(s, bs[n + 1])
  <2>1. /\ a \in Seq(Batch) /\ Len(a) = n + 1 /\ a[n + 1] = bs[n + 1]
        /\ \A i \in 1..n : a[i] = s[i]
    BY <1>2, <1>4, AppendProperties
  <2>2. /\ \A i \in 1..n : s[i] = bs[i]
        /\ u \in Seq(Batch) /\ Len(u) = n + 1 /\ \A i \in 1..n + 1 : u[i] = bs[i]
    BY <1>4, <1>5
  <2> HIDE DEF s, u, a
  <2>3. \A i \in 1..n + 1 : i \in 1..n \/ i = n + 1 BY <1>1
  <2>4. \A i \in 1..n + 1 : u[i] = a[i] BY <2>1, <2>2, <2>3
  <2>5. u = a BY <2>1, <2>2, <2>4, SeqEqual
  <2>6. QED BY <2>5 DEF s, u, a
<1>7. FirstOf(bs, n + 1, k) = FirstOf(bs, n, k) \o BufsFor(bs[n + 1], k)
  BY <1>2, <1>4, <1>6, WritesOfAppend DEF FirstOf
<1> DEFINE r == SubSeq(bs, n + 1, Len(bs))
           q == SubSeq(bs, n + 1 + 1, Len(bs))
<1>8. /\ r \in Seq(Batch) /\ Len(r) = Len(bs) - n
      /\ \A i \in 1..Len(bs) - n : r[i] = bs[n + i]
  BY <1>1, SliceFacts
<1>9. /\ q \in Seq(Batch) /\ Len(q) = Len(bs) - (n + 1)
      /\ \A i \in 1..Len(bs) - (n + 1) : q[i] = bs[n + 1 + i]
  BY <1>1, SliceFacts
<1>10. LaterOf(bs, n, k) = WritesOf(r, k) /\ LaterOf(bs, n + 1, k) = WritesOf(q, k)
  BY DEF LaterOf
<1> HIDE DEF r, q
<1>11. r # <<>> /\ r[1] = bs[n + 1]
  <2>1. 1 \in 1..Len(bs) - n /\ Len(r) # 0 BY <1>1, <1>8
  <2>2. QED BY <1>8, <2>1, EmptySeq
<1>12. Tail(r) = q
  <2>1. /\ Tail(r) \in Seq(Batch) /\ Len(Tail(r)) = Len(r) - 1
        /\ \A i \in 1..Len(r) - 1 : Tail(r)[i] = r[i + 1]
    BY <1>8, <1>11, HeadTailProperties
  <2>2. Len(Tail(r)) = Len(q) BY <1>1, <1>8, <1>9, <2>1
  <2>3. ASSUME NEW i \in 1..Len(q) PROVE Tail(r)[i] = q[i]
    <3>1. i \in 1..Len(r) - 1 /\ i + 1 \in 1..Len(bs) - n /\ n + (i + 1) = n + 1 + i
      BY <1>1, <1>8, <1>9
    <3>2. Tail(r)[i] = bs[n + (i + 1)] BY <1>8, <2>1, <3>1
    <3>3. QED BY <1>9, <3>1, <3>2
  <2>4. QED BY <1>9, <2>1, <2>2, <2>3, SeqEqual
<1>13. LaterOf(bs, n, k) = BufsFor(bs[n + 1], k) \o LaterOf(bs, n + 1, k)
  BY <1>8, <1>10, <1>11, <1>12, WritesOfFirst
<1>14. FirstOf(bs, n, k) \in Seq(Writes) /\ LaterOf(bs, n + 1, k) \in Seq(Writes)
  BY <1>4, <1>9, <1>10, PartsFacts DEF FirstOf
<1>15. QED BY <1>3, <1>7, <1>13, <1>14

\* The first batches are those with the same writes.
LEMMA SameFirst ==
    ASSUME NEW bs \in Seq(Batch), NEW cs \in Seq(Batch), NEW k,
           NEW n \in 0..Len(bs), n <= Len(cs),
           \A i \in 1..n : BufsFor(cs[i], k) = BufsFor(bs[i], k)
    PROVE  FirstOf(cs, n, k) = FirstOf(bs, n, k)
<1> DEFINE r == SubSeq(bs, 1, n)
           q == SubSeq(cs, 1, n)
<1>1. r \in Seq(Batch) /\ Len(r) = n /\ \A i \in 1..n : r[i] = bs[i] BY SliceFacts
<1>2. q \in Seq(Batch) /\ Len(q) = n /\ \A i \in 1..n : q[i] = cs[i]
  <2>1. n \in 0..Len(cs) BY LenProperties
  <2>2. QED BY <2>1, SliceFacts
<1>3. FirstOf(bs, n, k) = WritesOf(r, k) /\ FirstOf(cs, n, k) = WritesOf(q, k)
  BY DEF FirstOf
<1> HIDE DEF r, q
<1>4. \A i \in 1..n : BufsFor(q[i], k) = BufsFor(r[i], k) BY <1>1, <1>2
<1>5. QED BY <1>1, <1>2, <1>3, <1>4, SameParts

\* The later batches are those with the same writes.
LEMMA SameLater ==
    ASSUME NEW bs \in Seq(Batch), NEW cs \in Seq(Batch), Len(cs) = Len(bs), NEW k,
           NEW n \in 0..Len(bs),
           \A i \in n + 1 .. Len(bs) : BufsFor(cs[i], k) = BufsFor(bs[i], k)
    PROVE  LaterOf(cs, n, k) = LaterOf(bs, n, k)
<1> DEFINE m == Len(bs)
           r == SubSeq(bs, n + 1, m)
           q == SubSeq(cs, n + 1, m)
<1>1. /\ r \in Seq(Batch) /\ Len(r) = m - n
      /\ \A i \in 1..m - n : r[i] = bs[n + i] /\ n + i \in 1..m
  BY SliceFacts
<1>2. /\ q \in Seq(Batch) /\ Len(q) = m - n
      /\ \A i \in 1..m - n : q[i] = cs[n + i]
  BY SliceFacts
<1>3. LaterOf(bs, n, k) = WritesOf(r, k) /\ LaterOf(cs, n, k) = WritesOf(q, k)
  BY DEF LaterOf
<1> HIDE DEF r, q
<1>4. \A i \in 1..m - n : n + i \in n + 1 .. m BY LenProperties
<1>5. \A i \in 1..m - n : BufsFor(q[i], k) = BufsFor(r[i], k) BY <1>1, <1>2, <1>4
<1>6. QED BY <1>1, <1>2, <1>3, <1>5, SameParts

\* A write joins batch t, the last of its key.
LEMMA OneJoins ==
    ASSUME NEW bs \in Seq(Batch), NEW cs \in Seq(Batch), Len(cs) = Len(bs), NEW k,
           NEW n \in 0..Len(bs), NEW t \in n + 1 .. Len(bs), NEW v \in Writes,
           BufsFor(cs[t], k) = Append(BufsFor(bs[t], k), v),
           \A i \in t + 1 .. Len(bs) : BufsFor(bs[i], k) = <<>>,
           \A i \in 1..Len(bs) : i # t => BufsFor(cs[i], k) = BufsFor(bs[i], k)
    PROVE  LaterOf(cs, n, k) = Append(LaterOf(bs, n, k), v)
<1> DEFINE m == Len(bs)
           r == SubSeq(bs, n + 1, m)
           q == SubSeq(cs, n + 1, m)
           u == t - n
<1>1. /\ r \in Seq(Batch) /\ Len(r) = m - n
      /\ \A i \in 1..m - n : r[i] = bs[n + i] /\ n + i \in 1..m
  BY SliceFacts
<1>2. /\ q \in Seq(Batch) /\ Len(q) = m - n
      /\ \A i \in 1..m - n : q[i] = cs[n + i]
  BY SliceFacts
<1>3. LaterOf(bs, n, k) = WritesOf(r, k) /\ LaterOf(cs, n, k) = WritesOf(q, k)
  BY DEF LaterOf
<1> HIDE DEF r, q
<1>4. m \in Nat /\ n \in Nat /\ n <= m /\ t \in Nat /\ n < t /\ t <= m BY LenProperties
<1>5. u \in 1..m - n /\ n + u = t BY <1>4
<1>6. BufsFor(q[u], k) = Append(BufsFor(r[u], k), v) BY <1>1, <1>2, <1>5
<1> HIDE DEF m
<1>7. ASSUME NEW i \in u + 1 .. m - n PROVE BufsFor(r[i], k) = <<>>
  <2>1. i \in 1..m - n /\ n + i \in t + 1 .. m BY <1>4
  <2>2. BufsFor(bs[n + i], k) = <<>> BY <2>1 DEF m
  <2>3. QED BY <1>1, <2>1, <2>2
<1>8. ASSUME NEW i \in 1..m - n, i # u PROVE BufsFor(q[i], k) = BufsFor(r[i], k)
  <2>1. n + i # t /\ n + i \in 1..m BY <1>4, <1>8
  <2>2. BufsFor(cs[n + i], k) = BufsFor(bs[n + i], k) BY <2>1 DEF m
  <2>3. QED BY <1>1, <1>2, <2>2
<1> HIDE DEF u
<1>9. WritesOf(q, k) = Append(WritesOf(r, k), v)
  <2>1. u \in 1..Len(r) /\ Len(q) = Len(r) BY <1>1, <1>2, <1>5
  <2>2. \A i \in u + 1 .. Len(r) : BufsFor(r[i], k) = <<>> BY <1>1, <1>7
  <2>3. \A i \in 1..Len(r) : i # u => BufsFor(q[i], k) = BufsFor(r[i], k) BY <1>1, <1>8
  <2>4. r \in Seq(Batch) /\ q \in Seq(Batch) BY <1>1, <1>2
  <2>5. Longer(r, q, k, u, v) BY <1>6, <2>1, <2>2, <2>3 DEF Longer
  <2>6. QED BY <2>4, <2>5, WritesOfLonger
<1>10. QED BY <1>3, <1>9

\* A batch is linked behind the others.
LEMMA OneIsLinked ==
    ASSUME NEW bs \in Seq(Batch), NEW cs \in Seq(Batch), Len(cs) = Len(bs) + 1, NEW k,
           NEW n \in 0..Len(bs),
           \A i \in 1..Len(bs) : BufsFor(cs[i], k) = BufsFor(bs[i], k)
    PROVE  /\ LaterOf(bs, n, k) \in Seq(Writes)
           /\ LaterOf(cs, n, k) = LaterOf(bs, n, k) \o BufsFor(cs[Len(bs) + 1], k)
<1> DEFINE m == Len(bs)
           e == cs[m + 1]
           r == SubSeq(bs, n + 1, m)
           q == SubSeq(cs, n + 1, m + 1)
           a == Append(r, e)
<1>1. m \in Nat /\ n \in Nat /\ n <= m /\ n \in 0..Len(cs) /\ m + 1 \in 1..Len(cs)
  BY LenProperties
<1>2. e \in Batch BY <1>1, ElementOfSeq
<1>3. /\ r \in Seq(Batch) /\ Len(r) = m - n
      /\ \A i \in 1..m - n : r[i] = bs[n + i] /\ n + i \in 1..m
  BY SliceFacts
<1>4. /\ q \in Seq(Batch) /\ Len(q) = m + 1 - n
      /\ \A i \in 1..m + 1 - n : q[i] = cs[n + i]
  BY <1>1, SliceFacts
<1>5. LaterOf(bs, n, k) = WritesOf(r, k) /\ LaterOf(cs, n, k) = WritesOf(q, k)
  BY DEF LaterOf
<1> HIDE DEF r, q, e
<1>6. /\ a \in Seq(Batch) /\ Len(a) = m - n + 1 /\ a[m - n + 1] = e
      /\ \A i \in 1..m - n : a[i] = r[i]
  BY <1>2, <1>3, AppendProperties
<1> HIDE DEF a
<1>7. ASSUME NEW i \in 1..m + 1 - n PROVE BufsFor(q[i], k) = BufsFor(a[i], k)
  <2>1. CASE i \in 1..m - n BY <1>3, <1>4, <1>6, <2>1
  <2>2. CASE i \notin 1..m - n
    <3>1. i = m - n + 1 /\ n + i = m + 1 BY <1>1, <2>2
    <3>2. QED BY <1>4, <1>6, <3>1 DEF e
  <2>3. QED BY <2>1, <2>2
<1>8. Len(q) = Len(a) BY <1>1, <1>4, <1>6
<1>9. WritesOf(q, k) = WritesOf(a, k)
  <2>1. \A i \in 1..Len(a) : BufsFor(q[i], k) = BufsFor(a[i], k) BY <1>4, <1>7, <1>8
  <2>2. QED BY <1>4, <1>6, <1>8, <2>1, SameParts
<1>10. WritesOf(a, k) = WritesOf(r, k) \o BufsFor(e, k)
  BY <1>2, <1>3, WritesOfAppend DEF a
<1>11. WritesOf(r, k) \in Seq(Writes) BY <1>3, PartsFacts
<1>12. QED BY <1>5, <1>9, <1>10, <1>11 DEF e

-----------------------------------------------------------------------------
(***************************************************************************)
(* Every step is one of KeyedQueue, or leaves its variables alone.         *)
(***************************************************************************)
\* How many batches are delivered.
LEMMA DeliveredFacts ==
    ASSUME IInv
    PROVE  /\ NumDelivered \in 0..Len(batches) /\ NumDelivered <= popped
           /\ popped \in 0..Len(batches) /\ Len(batches) \in Nat /\ batches \in Seq(Batch)
           /\ \A k : /\ PendingOf(k) = LaterOf(batches, NumDelivered, k)
                     /\ DeliveredOf(k) = FirstOf(batches, NumDelivered, k)
<1>1. popped \in 0..Len(batches) /\ batches \in Seq(Batch) /\ Len(batches) \in Nat
  BY LenProperties DEF IInv, TypeOK
<1>2. rpc # "pop" => popped > 0 BY DEF IInv, ReleasedInOrder
<1>3. NumDelivered \in 0..Len(batches) /\ NumDelivered <= popped
  BY <1>1, <1>2 DEF NumDelivered
<1>4. \A k : /\ PendingOf(k) = LaterOf(batches, NumDelivered, k)
             /\ DeliveredOf(k) = FirstOf(batches, NumDelivered, k)
  BY DEF PendingOf, DeliveredOf, PendingBatches, DeliveredBatches, LaterOf, FirstOf
<1>5. QED BY <1>1, <1>3, <1>4

\* Batches with the same writes, as many of them delivered, are the same queues.
LEMMA QueuesAlone ==
    ASSUME IInv, IInv', Len(batches') = Len(batches), NumDelivered' = NumDelivered,
           \A i \in 1..Len(batches) :
              /\ batches'[i].query = batches[i].query /\ batches'[i].auth = batches[i].auth
              /\ batches'[i].bufs = batches[i].bufs
    PROVE  UNCHANGED <<Queued, Posted>>
<1>1. ASSUME NEW k PROVE PendingOf(k)' = PendingOf(k) /\ DeliveredOf(k)' = DeliveredOf(k)
  <2>1. \A i \in 1..Len(batches) : BufsFor(batches'[i], k) = BufsFor(batches[i], k)
    BY DEF BufsFor
  <2>2. /\ NumDelivered \in 0..Len(batches)
        /\ PendingOf(k) = LaterOf(batches, NumDelivered, k)
        /\ DeliveredOf(k) = FirstOf(batches, NumDelivered, k)
    BY DeliveredFacts
  <2>3. /\ PendingOf(k)' = LaterOf(batches', NumDelivered', k)
        /\ DeliveredOf(k)' = FirstOf(batches', NumDelivered', k)
    BY DEF PendingOf, DeliveredOf, PendingBatches, DeliveredBatches, LaterOf, FirstOf
  <2>4. batches \in Seq(Batch) /\ batches' \in Seq(Batch) BY DEF IInv, TypeOK
  <2>5. /\ LaterOf(batches', NumDelivered, k) = LaterOf(batches, NumDelivered, k)
        /\ FirstOf(batches', NumDelivered, k) = FirstOf(batches, NumDelivered, k)
    <3>1. PICK n \in 0..Len(batches) : n = NumDelivered BY <2>2
    <3>2. n <= Len(batches') /\ \A i \in 1..n : i \in 1..Len(batches) BY DeliveredFacts
    <3>3. \A i \in n + 1 .. Len(batches) : i \in 1..Len(batches) BY DeliveredFacts
    <3>4. \A i \in 1..n : BufsFor(batches'[i], k) = BufsFor(batches[i], k) BY <2>1, <3>2
    <3>5. \A i \in n + 1 .. Len(batches) : BufsFor(batches'[i], k) = BufsFor(batches[i], k)
      BY <2>1, <3>3
    <3>6. QED BY <2>4, <3>1, <3>2, <3>4, <3>5, SameFirst, SameLater
  <2>6. QED BY <2>2, <2>3, <2>5
<1>2. Queued' = Queued /\ Posted' = Posted BY <1>1 DEF Queued, Posted
<1>3. QED BY <1>2

\* What run() has not delivered is left alone by the other steps, and what it has, too.
LEMMA OtherSteps ==
    ASSUME IInv, IInv', QuietStep \/ Pop \/ Release
    PROVE  UNCHANGED <<Queued, Posted>>
<1>1. rpc \in {"pop", "attempt", "sleep", "clear", "release"} /\ popped \in Nat
      /\ rpc' \in {"pop", "attempt", "sleep", "clear", "release"}
  BY DeliveredFacts DEF IInv, TypeOK
<1>2. CASE QuietStep
  <2>1. batches' = batches /\ popped' = popped BY <1>2, QuietStepList DEF listVars
  <2>2. rpc' \in {"attempt", "sleep"} <=> rpc \in {"attempt", "sleep"}
    BY <1>1, <1>2, QuietStepList
  <2>3. NumDelivered' = NumDelivered BY <2>1, <2>2 DEF NumDelivered
  <2>4. QED BY <2>1, <2>3, QueuesAlone
<1>3. CASE Pop
  <2>1. batches' = batches /\ popped' = popped + 1 /\ rpc = "pop" /\ rpc' = "attempt"
    BY <1>3 DEF Pop, RunGoto
  <2>2. NumDelivered' = NumDelivered BY <1>1, <2>1 DEF NumDelivered
  <2>3. QED BY <2>1, <2>2, QueuesAlone
<1>4. CASE Release
  <2>1. /\ popped' = popped /\ Len(batches') = Len(batches)
        /\ \A i \in 1..Len(batches) :
              /\ batches'[i].query = batches[i].query /\ batches'[i].auth = batches[i].auth
              /\ batches'[i].bufs = batches[i].bufs
    BY <1>4, PoppedStep
  <2>2. rpc = "release" /\ rpc' = "pop" BY <1>4 DEF Release, RunGoto
  <2>3. NumDelivered' = NumDelivered BY <2>1, <2>2 DEF NumDelivered
  <2>4. QED BY <2>1, <2>3, QueuesAlone
<1>5. QED BY <1>2, <1>3, <1>4

\* A concatenation is cut where it was joined.
LEMMA CutConcat ==
    ASSUME NEW S, NEW r \in Seq(S), NEW s \in Seq(S), Len(r) # 0
    PROVE  /\ Len(r) \in 1..Len(r \o s)
           /\ SubSeq(r \o s, 1, Len(r)) = r
           /\ SubSeq(r \o s, Len(r) + 1, Len(r \o s)) = s
<1>1. Len(r) \in Nat /\ Len(s) \in Nat /\ Len(r \o s) = Len(r) + Len(s)
  BY LenProperties, ConcatProperties
<1>2. SubSeq(r \o s, 1, Len(r)) = r
  <2>1. 1 \in 1..Len(r) /\ Len(r) \in 1..Len(r) BY <1>1
  <2>2. SubSeq(r \o s, 1, Len(r)) = SubSeq(r, 1, Len(r)) BY <2>1, SubSeqOfConcat1
  <2>3. QED BY <2>2, SubSeqFull
<1>3. SubSeq(r \o s, Len(r) + 1, Len(r) + Len(s)) = s
  <2>1. CASE Len(s) = 0
    <3>1. s = <<>> BY <2>1, EmptySeq
    <3>2. r \o s = r BY <3>1, ConcatEmptySeq
    <3>3. SubSeq(r, Len(r) + 1, Len(r)) = <<>> BY <1>1, SubSeqEmpty
    <3>4. Len(r) + Len(s) = Len(r) BY <1>1, <2>1
    <3>5. QED BY <3>1, <3>2, <3>3, <3>4
  <2>2. CASE Len(s) # 0
    <3> DEFINE m == Len(r) + 1
               n == Len(r) + Len(s)
    <3>1. m \in Len(r) + 1 .. Len(r) + Len(s) /\ n \in Len(r) + 1 .. Len(r) + Len(s)
      BY <1>1, <2>2
    <3>2. m - Len(r) = 1 /\ n - Len(r) = Len(s) BY <1>1
    <3> HIDE DEF m, n
    <3>3. SubSeq(r \o s, m, n) = SubSeq(s, m - Len(r), n - Len(r)) BY <3>1, SubSeqOfConcat2
    <3>4. SubSeq(r \o s, m, n) = s BY <3>2, <3>3, SubSeqFull
    <3>5. QED BY <3>4 DEF m, n
  <2>3. QED BY <2>1, <2>2
<1>4. QED BY <1>1, <1>2, <1>3

\* The popped batch is accepted: its writes move from the queue of its key to those
\* delivered.
LEMMA DeliverStep ==
    ASSUME IInv, IInv', AttemptSucceeds
    PROVE  [Abstract!Next]_<<Queued, Posted>>
<1> DEFINE n == popped - 1
           b == batches[popped]
<1>k. PICK key : key = <<b.query, b.auth>> OBVIOUS
<1>1. /\ rpc = "attempt" /\ rpc' = "clear" /\ popped' = popped
      /\ popped \in 1..Len(batches) /\ Len(batches') = Len(batches)
      /\ batches \in Seq(Batch) /\ batches' \in Seq(Batch) /\ Len(batches) \in Nat
      /\ \A i \in 1..Len(batches) :
            /\ batches'[i].query = batches[i].query /\ batches'[i].auth = batches[i].auth
            /\ batches'[i].bufs = batches[i].bufs
  BY PoppedStep, DeliveredFacts DEF AttemptSucceeds, RunGoto
<1>2. NumDelivered = n /\ NumDelivered' = n + 1 /\ n + 1 = popped
      /\ n \in 0..Len(batches) - 1 /\ n + 1 \in 0..Len(batches)
  BY <1>1 DEF NumDelivered
<1>3. b \in Batch /\ b.bufs \in Seq(Writes) BY <1>1, BatchFields DEF IInv
<1>4. ASSUME NEW k
      PROVE  /\ BufsFor(b, k) \in Seq(Writes)
             /\ PendingOf(k)' \in Seq(Writes) /\ DeliveredOf(k) \in Seq(Writes)
             /\ PendingOf(k) = BufsFor(b, k) \o PendingOf(k)'
             /\ DeliveredOf(k)' = DeliveredOf(k) \o BufsFor(b, k)
  <2>1. \A i \in 1..Len(batches) : BufsFor(batches'[i], k) = BufsFor(batches[i], k)
    BY <1>1 DEF BufsFor
  <2> HIDE DEF n, b
  <2>2. /\ PendingOf(k) = LaterOf(batches, n, k)
        /\ DeliveredOf(k) = FirstOf(batches, n, k)
    BY <1>2, DeliveredFacts
  <2>3. /\ PendingOf(k)' = LaterOf(batches', n + 1, k)
        /\ DeliveredOf(k)' = FirstOf(batches', n + 1, k)
    <3>1. /\ PendingOf(k)' = LaterOf(batches', NumDelivered', k)
          /\ DeliveredOf(k)' = FirstOf(batches', NumDelivered', k)
      BY DEF PendingOf, DeliveredOf, PendingBatches, DeliveredBatches, LaterOf, FirstOf
    <3>2. QED BY <1>2, <3>1
  <2>4. /\ LaterOf(batches', n + 1, k) = LaterOf(batches, n + 1, k)
        /\ FirstOf(batches', n + 1, k) = FirstOf(batches, n + 1, k)
    <3>1. PICK m \in 0..Len(batches) : m = n + 1 BY <1>2
    <3>2. m <= Len(batches') BY <1>1
    <3>3. \A i \in 1..m : BufsFor(batches'[i], k) = BufsFor(batches[i], k)
      <4>1. \A i \in 1..m : i \in 1..Len(batches) BY <1>1
      <4>2. QED BY <2>1, <4>1
    <3>4. \A i \in m + 1 .. Len(batches) : BufsFor(batches'[i], k) = BufsFor(batches[i], k)
      <4>1. \A i \in m + 1 .. Len(batches) : i \in 1..Len(batches) BY <1>1
      <4>2. QED BY <2>1, <4>1
    <3>5. QED BY <1>1, <3>1, <3>2, <3>3, <3>4, SameFirst, SameLater
  <2>5. /\ BufsFor(batches[n + 1], k) \in Seq(Writes)
        /\ FirstOf(batches, n, k) \in Seq(Writes) /\ LaterOf(batches, n + 1, k) \in Seq(Writes)
        /\ FirstOf(batches, n + 1, k) = FirstOf(batches, n, k) \o BufsFor(batches[n + 1], k)
        /\ LaterOf(batches, n, k) = BufsFor(batches[n + 1], k) \o LaterOf(batches, n + 1, k)
    BY <1>1, <1>2, OneMoreDelivered
  <2>6. batches[n + 1] = b BY <1>2 DEF b
  <2>7. QED BY <2>2, <2>3, <2>4, <2>5, <2>6
<1> HIDE DEF n
<1>5. ASSUME NEW k, k # key
      PROVE  PendingOf(k)' = PendingOf(k) /\ DeliveredOf(k)' = DeliveredOf(k)
  <2>1. BufsFor(b, k) = <<>> BY <1>5, <1>k DEF BufsFor
  <2>2. <<>> \o PendingOf(k)' = PendingOf(k)' /\ DeliveredOf(k) \o <<>> = DeliveredOf(k)
    BY <1>4, ConcatEmptySeq
  <2>3. QED BY <1>4, <2>1, <2>2
<1>6. BufsFor(b, key) = b.bufs BY <1>k DEF BufsFor
<1> HIDE DEF b
<1>7. CASE Len(b.bufs) = 0
  <2>1. b.bufs = <<>> BY <1>3, <1>7, EmptySeq
  <2>2. <<>> \o PendingOf(key)' = PendingOf(key)' /\ DeliveredOf(key) \o <<>> = DeliveredOf(key)
    BY <1>4, ConcatEmptySeq
  <2>3. PendingOf(key)' = PendingOf(key) /\ DeliveredOf(key)' = DeliveredOf(key)
    BY <1>4, <1>6, <2>1, <2>2
  <2>4. \A k : PendingOf(k)' = PendingOf(k) /\ DeliveredOf(k)' = DeliveredOf(k)
    BY <1>5, <2>3
  <2>5. Queued' = Queued /\ Posted' = Posted BY <2>4 DEF Queued, Posted
  <2>6. QED BY <2>5
<1>8. CASE Len(b.bufs) # 0
  <2>1. PICK v \in Writes : key = KeyOf[v]
    <3>1. 1 \in 1..Len(b.bufs) BY <1>3, <1>8, LenProperties
    <3>2. b.bufs[1] \in Writes /\ b.bufs[1] \in Members(popped)
      BY <1>3, <3>1, ElementOfSeq DEF Members, b
    <3>3. Query[b.bufs[1]] = b.query /\ Auth[b.bufs[1]] = b.auth
      BY <1>1, <3>2 DEF IInv, OneUserPerBatch, b
    <3>4. QED BY <1>k, <3>2, <3>3 DEF KeyOf
  <2>2. key \in {KeyOf[w] : w \in Writes} BY <2>1
  <2> DEFINE m == Len(b.bufs)
             K == {KeyOf[w] : w \in Writes}
  <2>3. \A k \in K : Queued[k] = PendingOf(k) /\ Posted[k] = DeliveredOf(k)
    BY DEF Queued, Posted
  <2>4. /\ m \in 1..Len(PendingOf(key))
        /\ SubSeq(PendingOf(key), 1, m) = b.bufs
        /\ SubSeq(PendingOf(key), m + 1, Len(PendingOf(key))) = PendingOf(key)'
    <3>1. PICK r \in Seq(Writes) : r = b.bufs BY <1>3
    <3>2. PICK s \in Seq(Writes) : s = PendingOf(key)' BY <1>4
    <3>3. PendingOf(key) = r \o s BY <1>4, <1>6, <3>1, <3>2
    <3>4. /\ Len(r) \in 1..Len(r \o s) /\ SubSeq(r \o s, 1, Len(r)) = r
          /\ SubSeq(r \o s, Len(r) + 1, Len(r \o s)) = s
      <4>1. \A x, y \in Seq(Writes) : Len(x) # 0 =>
              /\ Len(x) \in 1..Len(x \o y) /\ SubSeq(x \o y, 1, Len(x)) = x
              /\ SubSeq(x \o y, Len(x) + 1, Len(x \o y)) = y
        BY CutConcat
      <4>2. QED BY <1>8, <3>1, <4>1
    <3>5. m = Len(r) BY <3>1
    <3> HIDE DEF m
    <3>6. QED BY <3>1, <3>2, <3>3, <3>4, <3>5
  <2>5. Posted' = [Posted EXCEPT ![key] = @ \o SubSeq(Queued[key], 1, m)]
    <3>1. Posted' = [k \in K |-> DeliveredOf(k)'] BY DEF Posted
    <3>2. DeliveredOf(key)' = Posted[key] \o SubSeq(Queued[key], 1, m)
      BY <1>4, <1>6, <2>2, <2>3, <2>4
    <3>3. Posted = [k \in K |-> DeliveredOf(k)] BY DEF Posted
    <3> HIDE DEF K, m
    <3>4. QED BY <1>5, <2>2, <3>1, <3>2, <3>3 DEF K
  <2>6. Queued' = [Queued EXCEPT ![key] = SubSeq(@, m + 1, Len(@))]
    <3>1. Queued' = [k \in K |-> PendingOf(k)'] BY DEF Queued
    <3>2. PendingOf(key)' = SubSeq(Queued[key], m + 1, Len(Queued[key]))
      BY <2>2, <2>3, <2>4
    <3>3. Queued = [k \in K |-> PendingOf(k)] BY DEF Queued
    <3> HIDE DEF K, m
    <3>4. QED BY <1>5, <2>2, <3>1, <3>2, <3>3 DEF K
  <2>7. m \in 1..Len(Queued[key]) BY <2>2, <2>3, <2>4
  <2>8. Abstract!Deliver(key, m) BY <2>5, <2>6 DEF Abstract!Deliver
  <2>9. Abstract!Next BY <2>2, <2>7, <2>8 DEF Abstract!Next, Abstract!Keys
  <2>10. QED BY <2>9
<1>9. QED BY <1>7, <1>8

\* A write in none of some batches is not among the writes of any key.
LEMMA NotQueued ==
    ASSUME NEW w, NEW bs \in Seq(Batch), NEW k,
           \A i \in 1..Len(bs) : \A j \in 1..Len(bs[i].bufs) : bs[i].bufs[j] # w
    PROVE  ~Abstract!Contains(WritesOf(bs, k), w)
<1> DEFINE T == Writes \ {w}
<1>1. ASSUME NEW i \in 1..Len(bs) PROVE BufsFor(bs[i], k) \in Seq(T)
  <2> DEFINE s == bs[i].bufs
  <2>1. s \in Seq(Writes)
    <3>1. bs[i] \in Batch BY ElementOfSeq
    <3>2. QED BY <3>1 DEF Batch
  <2>2. Len(s) \in Nat /\ \A j \in 1..Len(s) : s[j] \in T
    <3>1. \A j \in 1..Len(s) : s[j] # w OBVIOUS
    <3> HIDE DEF s
    <3>2. \A j \in 1..Len(s) : s[j] \in Writes BY <2>1, ElementOfSeq
    <3>3. QED BY <2>1, <3>1, <3>2, LenProperties
  <2> HIDE DEF s, T
  <2>3. [j \in 1..Len(s) |-> s[j]] \in Seq(T) BY <2>2, IsASeq
  <2>4. s = [j \in 1..Len(s) |-> s[j]] BY <2>1, LenProperties
  <2>5. s \in Seq(T) BY <2>3, <2>4
  <2>6. QED BY <2>5, EmptySeq DEF BufsFor, s
<1> HIDE DEF T
<1>2. Len(bs) \in Nat BY LenProperties
<1>3. PartsFor(bs, k) \in Seq(Seq(T)) BY <1>1, <1>2, IsASeq DEF PartsFor
<1>4. WritesOf(bs, k) \in Seq(T)
  <2>1. FlattenSeq(PartsFor(bs, k)) \in Seq(T) BY <1>3, FlattenType
  <2>2. QED BY <2>1, PartsFacts
<1>5. \A j \in 1..Len(WritesOf(bs, k)) : WritesOf(bs, k)[j] # w
  BY <1>4, ElementOfSeq DEF T
<1>6. QED BY <1>5 DEF Abstract!Contains

\* add() puts a write at the end of the queue of its key.
LEMMA AcceptStep ==
    ASSUME IInv, IInv', NEW w \in Writes, Add(w)
    PROVE  Abstract!Next
<1> DEFINE n == NumDelivered
           L == Len(batches)
           key == KeyOf[w]
           K == {KeyOf[v] : v \in Writes}
<1>1. PICK t \in popped + 1 .. L + 1 :
         /\ t \in 1..L + 1
         /\ t <= L => Matches(batches[t], w)
         /\ batches' = Linked(w, t)
         /\ pc[w] = "add" /\ UNCHANGED <<popped, rpc>>
  BY AddStep
<1>2. /\ Len(batches') = IF t > L THEN t ELSE L
      /\ t > L => batches'[t] = NewBatch(w)
      /\ \A i \in 1..L :
            /\ batches'[i].query = batches[i].query
            /\ batches'[i].auth = batches[i].auth
            /\ batches'[i].bufs = IF i = t THEN Append(batches[i].bufs, w)
                                           ELSE batches[i].bufs
  BY <1>1, LinkedList DEF IInv
<1>3. /\ n \in 0..L /\ n <= popped /\ popped \in 0..L /\ L \in Nat /\ n' = n
      /\ batches \in Seq(Batch) /\ batches' \in Seq(Batch)
  <2>1. n \in 0..L /\ n <= popped /\ popped \in 0..L /\ L \in Nat /\ batches \in Seq(Batch)
    BY DeliveredFacts
  <2>2. n' = n BY <1>1 DEF NumDelivered
  <2>3. batches' \in Seq(Batch) BY DEF IInv, TypeOK
  <2>4. QED BY <2>1, <2>2, <2>3
<1>4. key = <<Query[w], Auth[w]>> /\ key \in K BY DEF KeyOf
<1>5. ASSUME NEW k
      PROVE  /\ PendingOf(k) = LaterOf(batches, n, k) /\ PendingOf(k)' = LaterOf(batches', n, k)
             /\ DeliveredOf(k) = FirstOf(batches, n, k)
             /\ DeliveredOf(k)' = FirstOf(batches', n, k)
  <2>1. /\ PendingOf(k)' = LaterOf(batches', n', k)
        /\ DeliveredOf(k)' = FirstOf(batches', n', k)
    BY DEF PendingOf, DeliveredOf, PendingBatches, DeliveredBatches, LaterOf, FirstOf
  <2> HIDE DEF n
  <2>2. QED BY <1>3, <2>1, DeliveredFacts DEF n
<1> HIDE DEF n, L, key, K
<1>6. ASSUME NEW k, NEW i \in 1..L, i # t PROVE BufsFor(batches'[i], k) = BufsFor(batches[i], k)
  BY <1>2, <1>6 DEF BufsFor
<1>7. ASSUME NEW k PROVE DeliveredOf(k)' = DeliveredOf(k)
  <2>1. \A i \in 1..n : i \in 1..L /\ i # t BY <1>1, <1>3
  <2>2. \A i \in 1..n : BufsFor(batches'[i], k) = BufsFor(batches[i], k) BY <1>6, <2>1
  <2>3. n <= Len(batches') BY <1>1, <1>2, <1>3
  <2>4. n \in 0..Len(batches) BY <1>3 DEF L
  <2>5. FirstOf(batches', n, k) = FirstOf(batches, n, k) BY <1>3, <2>2, <2>3, <2>4, SameFirst
  <2>6. QED BY <1>5, <2>5
<1>8. ASSUME NEW k
      PROVE  PendingOf(k)' = IF k = key THEN Append(PendingOf(k), w) ELSE PendingOf(k)
  <2>1. CASE t > L
    <3>1. t = L + 1 /\ Len(batches') = L + 1 /\ batches'[L + 1] = NewBatch(w)
      BY <1>1, <1>2, <1>3, <2>1
    <3>2. \A i \in 1..Len(batches) : BufsFor(batches'[i], k) = BufsFor(batches[i], k)
      <4>1. \A i \in 1..L : i # t BY <1>3, <3>1
      <4>2. QED BY <1>6, <4>1 DEF L
    <3>3. /\ LaterOf(batches, n, k) \in Seq(Writes)
          /\ LaterOf(batches', n, k)
                = LaterOf(batches, n, k) \o BufsFor(batches'[L + 1], k)
      <4>1. Len(batches') = Len(batches) + 1 /\ n \in 0..Len(batches) BY <1>3, <3>1 DEF L
      <4>2. QED BY <1>3, <3>2, <4>1, OneIsLinked DEF L
    <3>4. BufsFor(batches'[L + 1], k) = IF k = key THEN <<w>> ELSE <<>>
      BY <1>4, <3>1 DEF BufsFor, NewBatch
    <3>5. PICK r \in Seq(Writes) : r = LaterOf(batches, n, k) BY <3>3
    <3>6. r \o <<w>> = Append(r, w) /\ r \o <<>> = r BY AppendIsConcat, ConcatEmptySeq
    <3>7. QED BY <1>5, <3>3, <3>4, <3>5, <3>6
  <2>2. CASE t <= L
    <3>1. t \in n + 1 .. L /\ t \in 1..L /\ Len(batches') = L BY <1>1, <1>2, <1>3, <2>2
    <3>2. /\ batches[t].query = Query[w] /\ batches[t].auth = Auth[w] /\ ~batches[t].full
      BY <1>1, <2>2 DEF Matches
    <3>3. batches'[t].bufs = Append(batches[t].bufs, w) BY <1>2, <3>1
    <3>4. CASE k = key
      <4>1. BufsFor(batches'[t], k) = Append(BufsFor(batches[t], k), w)
        BY <1>2, <1>4, <3>1, <3>2, <3>3, <3>4 DEF BufsFor
      <4>2. ASSUME NEW i \in t + 1 .. L PROVE BufsFor(batches[i], k) = <<>>
        <5>1. t \in Listed /\ i \in t + 1 .. Len(batches) BY <1>1, <1>3, <2>2 DEF Listed, L
        <5>2. ~(batches[i].query = batches[t].query /\ batches[i].auth = batches[t].auth)
          BY <3>2, <5>1 DEF IInv, ClosedBehind
        <5>3. QED BY <1>4, <3>2, <3>4, <5>2 DEF BufsFor
      <4>3. LaterOf(batches', n, k) = Append(LaterOf(batches, n, k), w)
        <5>1. /\ n \in 0..Len(batches) /\ t \in n + 1 .. Len(batches)
              /\ Len(batches') = Len(batches)
          BY <1>3, <3>1 DEF L
        <5>2. \A i \in 1..Len(batches) : i # t =>
                BufsFor(batches'[i], k) = BufsFor(batches[i], k)
          BY <1>6 DEF L
        <5>3. \A i \in t + 1 .. Len(batches) : BufsFor(batches[i], k) = <<>> BY <4>2 DEF L
        <5>4. QED BY <1>3, <4>1, <5>1, <5>2, <5>3, OneJoins
      <4>4. QED BY <1>5, <3>4, <4>3
    <3>5. CASE k # key
      <4>1. BufsFor(batches'[t], k) = BufsFor(batches[t], k)
        BY <1>2, <1>4, <3>1, <3>2, <3>5 DEF BufsFor
      <4>2. \A i \in n + 1 .. Len(batches) : BufsFor(batches'[i], k) = BufsFor(batches[i], k)
        <5>1. \A i \in n + 1 .. L : i \in 1..L BY <1>3
        <5>2. \A i \in n + 1 .. L : BufsFor(batches'[i], k) = BufsFor(batches[i], k)
          BY <1>6, <4>1, <5>1
        <5>3. QED BY <5>2 DEF L
      <4>3. Len(batches') = Len(batches) /\ n \in 0..Len(batches) BY <1>3, <3>1 DEF L
      <4>4. LaterOf(batches', n, k) = LaterOf(batches, n, k) BY <1>3, <4>2, <4>3, SameLater
      <4>5. QED BY <1>5, <3>5, <4>4
    <3>6. QED BY <3>4, <3>5
  <2>3. QED BY <1>1, <1>3, <2>1, <2>2
<1>9. ASSUME NEW k PROVE ~Abstract!Contains(PendingOf(k), w) /\ ~Abstract!Contains(DeliveredOf(k), w)
  <2>1. ASSUME NEW i \in 1..L, NEW j \in 1..Len(batches[i].bufs) PROVE batches[i].bufs[j] # w
    <3>1. cur[w].batch = Nil BY <1>1 DEF IInv, CallerBehind
    <3>2. cur[w].batch # i BY <1>3, <3>1 DEF Nil
    <3>3. w \notin Members(i) BY <3>2 DEF IInv, InOneBatch, L
    <3>4. QED BY <3>3 DEF Members
  <2> DEFINE r == SubSeq(batches, n + 1, Len(batches))
             q == SubSeq(batches, 1, n)
  <2>2. n \in 0..Len(batches) BY <1>3 DEF L
  <2>3. r \in Seq(Batch) /\ \A i \in 1..Len(r) : r[i] = batches[n + i] /\ n + i \in 1..L
    BY <1>3, <2>2, SliceFacts DEF L
  <2>4. q \in Seq(Batch) /\ \A i \in 1..Len(q) : q[i] = batches[i] /\ i \in 1..L
    BY <1>3, <2>2, SliceFacts DEF L
  <2>5. PendingOf(k) = WritesOf(r, k) /\ DeliveredOf(k) = WritesOf(q, k)
    BY <1>5 DEF LaterOf, FirstOf
  <2> HIDE DEF r, q
  <2>6. \A i \in 1..Len(r) : \A j \in 1..Len(r[i].bufs) : r[i].bufs[j] # w BY <2>1, <2>3
  <2>7. \A i \in 1..Len(q) : \A j \in 1..Len(q[i].bufs) : q[i].bufs[j] # w BY <2>1, <2>4
  <2>8. ~Abstract!Contains(WritesOf(r, k), w) BY <2>3, <2>6, NotQueued
  <2>9. ~Abstract!Contains(WritesOf(q, k), w) BY <2>4, <2>7, NotQueued
  <2>10. QED BY <2>5, <2>8, <2>9
<1>10. Abstract!Accept(w)
  <2>1. Queued = [k \in K |-> PendingOf(k)] /\ Posted = [k \in K |-> DeliveredOf(k)]
    BY DEF Queued, Posted, K
  <2>2. Queued' = [k \in K |-> PendingOf(k)'] /\ Posted' = [k \in K |-> DeliveredOf(k)']
    BY DEF Queued, Posted, K
  <2>3. Queued[key] = PendingOf(key) /\ Posted[key] = DeliveredOf(key) BY <1>4, <2>1
  <2>4. ~Abstract!Contains(Queued[key], w) /\ ~Abstract!Contains(Posted[key], w)
    BY <1>9, <2>3
  <2>5. Posted' = Posted BY <1>7, <2>1, <2>2
  <2>6. Queued' = [Queued EXCEPT ![key] = Append(@, w)] BY <1>4, <1>8, <2>1, <2>2
  <2>7. QED BY <2>4, <2>5, <2>6 DEF Abstract!Accept, key
<1>11. QED BY <1>10 DEF Abstract!Next

\* The retry buffer keeps, for each query and credentials, a queue: the writes that
\* add() accepts reach the backend in the order they were accepted, each once, whatever
\* batches they are merged into and however often run() has to try.
THEOREM QueuesPerKey == Spec => ImplementsKeyedQueue
<1>1. Init => Abstract!Init
  <2> SUFFICES ASSUME Init PROVE Abstract!Init OBVIOUS
  <2>1. IInv BY InitIInv
  <2>2. batches = <<>> /\ popped = 0 /\ rpc = "pop" BY DEF Init
  <2>3. Len(batches) = 0 BY <2>2, EmptySeq
  <2>4. DeliveredBatches = <<>> /\ PendingBatches = <<>>
    <3>1. NumDelivered = 0 BY <2>2 DEF NumDelivered
    <3>2. SubSeq(batches, 1, 0) = <<>> /\ SubSeq(batches, 0 + 1, 0) = <<>> BY SubSeqEmpty
    <3>3. QED BY <2>3, <3>1, <3>2 DEF DeliveredBatches, PendingBatches
  <2>5. ASSUME NEW k PROVE WritesOf(<<>>, k) = <<>>
    <3>1. Len(<<>>) = 0 BY EmptySeq
    <3>2. [i \in 1..Len(<<>>) |-> BufsFor(<<>>[i], k)] = <<>> BY <3>1
    <3>3. QED BY <3>2, FlattenOfNone DEF WritesOf
  <2>6. \A k : PendingOf(k) = <<>> /\ DeliveredOf(k) = <<>>
    BY <2>4, <2>5 DEF PendingOf, DeliveredOf
  <2>7. QED BY <2>6 DEF Abstract!Init, Abstract!Keys, Queued, Posted
<1>2. IInv /\ [Next]_vars => [Abstract!Next]_<<Queued, Posted>>
  <2> SUFFICES ASSUME IInv, [Next]_vars PROVE [Abstract!Next]_<<Queued, Posted>> OBVIOUS
  <2>1. IInv' BY StepIInv
  <2>2. CASE QuietStep \/ Pop \/ Release BY <2>1, <2>2, OtherSteps
  <2>3. CASE AttemptSucceeds BY <2>1, <2>3, DeliverStep
  <2>4. CASE \E w \in Writes : Add(w) BY <2>1, <2>4, AcceptStep
  <2>5. QED BY <2>2, <2>3, <2>4, StepCases
<1>3. QED BY <1>1, <1>2, Invariance, PTL DEF Spec, ImplementsKeyedQueue, Abstract!Spec
================================================================================
