--------------------------- MODULE RelaySystemProofs ---------------------------
(***************************************************************************)
(* Proofs about RelaySystem: the relay with its retry buffer behaves like  *)
(* HTTPRelay and like RetryBuffer at once, so that what is proved of each  *)
(* holds of the two together, and what backends store is what clients sent *)
(* and were told.                                                          *)
(***************************************************************************)
EXTENDS RelaySystem, HTTPRelayProofs

\* The retry buffer, with what is proved about it.
RBP == INSTANCE RetryBufferProofs WITH Writes <- Requests, pc <- postPc

-----------------------------------------------------------------------------
(***************************************************************************)
(* The inductive invariant.                                                *)
(***************************************************************************)

\* The locals of this module's own.
SysTypes ==
    /\ slice \in [Requests -> Buffers \cup {Unused}]
    /\ copied \subseteq [of : Requests, lines : Contents]
    /\ stored \in [Backends -> SUBSET [of : Requests, lines : Contents]]

\* Where the goroutine of the buffered backend and its call of post() are.
InStep(r) ==
    /\ poster[r][Buffered] = "off" => postPc[r] = "load"
    /\ poster[r][Buffered] \in {"send", "finish", "gone"} => postPc[r] \in {"returned", "refused"}
    /\ answer[r][Buffered] = 2 => postPc[r] = "returned" /\ result[r] = 2
    /\ closer[r] = "wait" => slice[r] = outBuf[r]

\* run() has a copy of every write of the batch that it posts.
CopyIsWhole ==
    rpc \in {"attempt", "sleep"} =>
        \A r \in RB!Members(popped) : \E p \in copied : p.of = r

CopyIsIntact == \A p \in copied : p.lines = LinesOf(p.of)

\* What has been accepted is stored: a post's own points, or all of a batch.
AcceptedIsStored ==
    /\ \A r \in Requests :
          /\ \A b \in Backends \ {Buffered} : answer[r][b] = 2 => Stored(b, r)
          /\ postPc[r] = "returned" /\ cur[r].batch = 0 /\ result[r] = 2 => Stored(Buffered, r)
    /\ \A i \in 1..Len(batches) :
          RBP!Delivered(i) /\ batches[i].resp = 2 =>
              \A r \in RB!Members(i) : Stored(Buffered, r)

SysInv ==
    /\ IInv
    /\ RBP!IInv
    /\ SysTypes
    /\ \A r \in Requests : InStep(r)
    /\ CopyIsWhole
    /\ CopyIsIntact
    /\ StoredIsIntact
    /\ AcceptedIsStored

-----------------------------------------------------------------------------
(***************************************************************************)
(* RB and RBP are the same retry buffer.                                   *)
(***************************************************************************)

\* What is assumed of the constants of the retry buffer.
LEMMA Assumed == RBP!ConstantsAssumption
BY RetryAssumption DEF RBP!ConstantsAssumption, RB!ConstantsAssumption

\* The calls of post() that leave the list alone.
LEMMA SamePosts ==
    ASSUME NEW r \in Requests
    PROVE  /\ RB!LoadFlag(r) <=> RBP!LoadFlag(r)
           /\ RB!PostDirect(r) <=> RBP!PostDirect(r)
           /\ RB!SetBuffering(r) <=> RBP!SetBuffering(r)
           /\ RB!AddRefused(r) <=> RBP!AddRefused(r)
           /\ RB!ReturnBatch(r) <=> RBP!ReturnBatch(r)
           /\ RB!Awake(r) <=> RBP!Awake(r)
<1> USE DEF RB!Goto, RBP!Goto, RB!listVars, RBP!listVars, RB!runVars, RBP!runVars
<1>1. RB!LoadFlag(r) <=> RBP!LoadFlag(r)
  BY DEF RB!LoadFlag, RBP!LoadFlag
<1>2. RB!PostDirect(r) <=> RBP!PostDirect(r)
  BY DEF RB!PostDirect, RBP!PostDirect, RB!Answers, RBP!Answers, RB!Accepted, RBP!Accepted,
         RB!NoResponse, RBP!NoResponse
<1>3. RB!SetBuffering(r) <=> RBP!SetBuffering(r)
  BY DEF RB!SetBuffering, RBP!SetBuffering
<1>4. RB!AddRefused(r) <=> RBP!AddRefused(r)
  BY DEF RB!AddRefused, RBP!AddRefused, RB!Overflows, RBP!Overflows
<1>5. RB!ReturnBatch(r) <=> RBP!ReturnBatch(r)
  BY DEF RB!ReturnBatch, RBP!ReturnBatch, RB!Deref, RBP!Deref, RB!HeadBatch, RBP!HeadBatch,
         RB!Nil, RBP!Nil
<1>6. RB!Awake(r) <=> RBP!Awake(r)
  BY DEF RB!Awake, RBP!Awake
<1> QED
  BY <1>1, <1>2, <1>3, <1>4, <1>5, <1>6

\* add().
LEMMA SameAdd ==
    ASSUME NEW r \in Requests
    PROVE  RB!Add(r) <=> RBP!Add(r)
<1>1. ASSUME NEW b PROVE /\ RB!Matches(b, r) <=> RBP!Matches(b, r)
                         /\ RB!Fits(b, r) <=> RBP!Fits(b, r)
                         /\ RB!Joined(b, r) = RBP!Joined(b, r)
  BY DEF RB!Matches, RBP!Matches, RB!Fits, RBP!Fits, RB!Joined, RBP!Joined
<1>2. ASSUME NEW t
      PROVE  RB!IsTarget(r, t) <=> RBP!IsTarget(r, t)
  BY <1>1 DEF RB!IsTarget, RBP!IsTarget
<1>3. ASSUME NEW t, NEW i
      PROVE  RB!MarkFull(i, r, t) = RBP!MarkFull(i, r, t)
  BY DEF RB!MarkFull, RBP!MarkFull, RB!Matches, RBP!Matches
<1>4. ASSUME NEW t
      PROVE  RB!Linked(r, t) = RBP!Linked(r, t)
  BY DEF RB!Linked, RBP!Linked, RB!Marked, RBP!Marked, RB!MarkFull, RBP!MarkFull,
         RB!Matches, RBP!Matches, RB!Joined, RBP!Joined, RB!NewBatch, RBP!NewBatch,
         RB!NoResponse, RBP!NoResponse
<1> QED
  BY <1>2, <1>4 DEF RB!Add, RBP!Add, RB!Overflows, RBP!Overflows, RB!Goto, RBP!Goto,
                    RB!runVars, RBP!runVars

\* run().
LEMMA SameRun ==
    /\ RB!Pop <=> RBP!Pop
    /\ RB!AttemptSucceeds <=> RBP!AttemptSucceeds
    /\ RB!AttemptFails <=> RBP!AttemptFails
    /\ RB!SleepOver <=> RBP!SleepOver
    /\ RB!ClearBuffering <=> RBP!ClearBuffering
    /\ RB!Release <=> RBP!Release
<1> USE DEF RB!RunGoto, RBP!RunGoto, RB!listVars, RBP!listVars, RB!postVars, RBP!postVars
<1>1. RB!Pop <=> RBP!Pop
  BY DEF RB!Pop, RBP!Pop
<1>2. RB!AttemptSucceeds <=> RBP!AttemptSucceeds
  BY DEF RB!AttemptSucceeds, RBP!AttemptSucceeds, RB!Answers, RBP!Answers,
         RB!Accepted, RBP!Accepted, RB!NoResponse, RBP!NoResponse
<1>3. RB!AttemptFails <=> RBP!AttemptFails
  BY DEF RB!AttemptFails, RBP!AttemptFails, RB!Answers, RBP!Answers, RB!Accepted,
         RBP!Accepted, RB!NoResponse, RBP!NoResponse, RB!NextInterval, RBP!NextInterval,
         RB!Multiplier, RBP!Multiplier
<1>4. /\ RB!SleepOver <=> RBP!SleepOver
      /\ RB!ClearBuffering <=> RBP!ClearBuffering
      /\ RB!Release <=> RBP!Release
  BY DEF RB!SleepOver, RBP!SleepOver, RB!ClearBuffering, RBP!ClearBuffering,
         RB!Release, RBP!Release
<1> QED
  BY <1>1, <1>2, <1>3, <1>4

\* A step of the system is one of the handlers and their goroutines, or leaves
\* their variables alone.
LEMMA HandlerSteps ==
    ASSUME [SysNext]_sysVars
    PROVE  [Next]_vars
<1>1. CASE \E r \in Requests : Serve(r) \/ End(r)
  BY <1>1 DEF Serve, End, Next
<1>2. CASE \E r \in Requests : BufferReturns(r) \/ \E b \in Backends : PlainPost(r, b)
  BY <1>2, BufferedAssumption DEF BufferReturns, PlainPost, Next
<1>3. CASE \/ Retry \/ Quiet \/ UNCHANGED sysVars
           \/ \E r \in Requests : DirectPost(r) \/ BufferPost(r)
  BY <1>3 DEF Retry, PopBatch, RetrySucceeds, RetryFails, RetryOther, Quiet, DirectPost,
              BufferPost, Posting, sysVars
<1> QED
  BY <1>1, <1>2, <1>3 DEF SysNext

\* And one of the retry buffer, or leaves its variables alone.
LEMMA BufferSteps ==
    ASSUME [SysNext]_sysVars
    PROVE  [RBP!Next]_(RBP!vars)
<1>1. CASE UNCHANGED retryVars
  BY <1>1 DEF retryVars, RBP!vars
<1>2. ASSUME NEW r \in Requests, DirectPost(r) \/ BufferPost(r)
      PROVE  RBP!Next
  <2>1. RBP!Post(r)
    BY <1>2, SamePosts, SameAdd DEF DirectPost, BufferPost, RBP!Post
  <2> QED
    BY <2>1 DEF RBP!Next
<1>3. CASE Retry
  <2>1. RBP!Run
    BY <1>3, SameRun DEF Retry, PopBatch, RetrySucceeds, RetryFails, RetryOther, RBP!Run
  <2> QED
    BY <2>1 DEF RBP!Next
<1> QED
  BY <1>1, <1>2, <1>3 DEF SysNext, Serve, End, BufferReturns, PlainPost, Quiet, sysVars

-----------------------------------------------------------------------------
(***************************************************************************)
(* What the invariant of the retry buffer says of the requests.            *)
(***************************************************************************)
LEMMA BufferFacts ==
    ASSUME RBP!IInv
    PROVE  /\ Len(batches) \in Nat /\ popped \in 0..Len(batches)
           /\ rpc # "pop" => popped \in 1..Len(batches)
           /\ postPc \in [Requests -> {"load", "direct", "mark", "add", "linked", "wait",
                                       "returned", "refused"}]
           /\ cur \in [Requests -> [head : BOOLEAN, batch : Nat]]
           /\ result \in [Requests -> Classes \cup {0}]
           /\ \A r \in Requests :
                 /\ postPc[r] \in {"load", "direct", "mark", "add", "refused"} => cur[r].batch = 0
                 /\ postPc[r] \in {"linked", "wait"} => cur[r].batch \in 1..Len(batches)
                 /\ postPc[r] = "returned" /\ cur[r].batch # 0 =>
                       cur[r].batch \in 1..Len(batches) /\ RBP!Released(cur[r].batch)
<1>1. /\ Len(batches) \in Nat /\ popped \in 0..Len(batches)
      /\ rpc # "pop" => popped > 0
  BY DEF RBP!IInv, RBP!TypeOK, RBP!ReleasedInOrder
<1>2. /\ postPc \in [Requests -> {"load", "direct", "mark", "add", "linked", "wait",
                                  "returned", "refused"}]
      /\ cur \in [Requests -> [head : BOOLEAN, batch : Nat]]
      /\ result \in [Requests -> Classes \cup {0}]
  BY DEF RBP!IInv, RBP!TypeOK, RBP!Answers, RBP!NoResponse
<1> QED
  BY <1>1, <1>2 DEF RBP!IInv, RBP!CallerBehind, RBP!Nil

\* The writes of a batch are those that add() put into it.
LEMMA MembersAreAdded ==
    ASSUME RBP!IInv, NEW i \in 1..Len(batches)
    PROVE  RB!Members(i) = {r \in Requests : cur[r].batch = i}
<1>1. RB!Members(i) = RBP!Members(i)
  BY DEF RB!Members, RBP!Members
<1>2. batches[i].bufs \in Seq(Requests)
  BY Assumed, RBP!BatchFields DEF RBP!IInv
<1>3. RBP!Members(i) \subseteq Requests
  BY <1>2 DEF RBP!Members
<1> QED
  BY <1>1, <1>3 DEF RBP!IInv, RBP!InOneBatch

\* A write that waits in the list is still being posted: its buffer is its own.
LEMMA ListedIsPosting ==
    ASSUME SysInv, NEW i \in popped + 1 .. Len(batches), NEW r \in RB!Members(i)
    PROVE  r \in Requests /\ poster[r][Buffered] = "post"
<1>1. i \in 1..Len(batches) /\ RBP!IInv BY BufferFacts DEF SysInv
<1>2. r \in Requests /\ cur[r].batch = i BY <1>1, MembersAreAdded
<1>3. ~RBP!Released(i) BY BufferFacts, <1>1 DEF RBP!Released
<1>4. postPc[r] \in {"linked", "wait"} BY <1>1, <1>2, <1>3, BufferFacts
<1>5. /\ poster[r][Buffered] \in {"off", "post", "send", "finish", "gone"}
      /\ poster[r][Buffered] = "off" => postPc[r] = "load"
      /\ poster[r][Buffered] \in {"send", "finish", "gone"} => postPc[r] \in {"returned", "refused"}
  BY <1>2, BufferedAssumption DEF SysInv, InStep, IInv, TypeOK
<1> QED
  BY <1>2, <1>4, <1>5

\* What a post reads is what its client sent.
LEMMA PointsAreIntact ==
    ASSUME SysInv, NEW r \in Requests, NEW b \in Backends, poster[r][b] = "post"
    PROVE  /\ Points(r) \in [of : Requests, lines : Contents]
           /\ Points(r).of = r /\ Points(r).lines = LinesOf(r)
<1>1. slice[r] = outBuf[r] /\ content[outBuf[r]] = LinesOf(r)
  BY PostsRead DEF SysInv, InStep
<1>2. LinesOf(r) \in Contents BY DEF Contents
<1> QED
  BY <1>1, <1>2 DEF Points

-----------------------------------------------------------------------------
(***************************************************************************)
(* Steps.                                                                  *)
(***************************************************************************)
\* What a call of post() changes of the retry buffer.
LEMMA PostEffect ==
    ASSUME RBP!IInv, RBP!IInv', NEW r \in Requests, DirectPost(r) \/ BufferPost(r)
    PROVE  /\ popped' = popped /\ rpc' = rpc
           /\ \A q \in Requests \ {r} :
                 postPc'[q] = postPc[q] /\ result'[q] = result[q] /\ cur'[q] = cur[q]
           /\ cur'[r] = cur[r] \/ cur'[r].batch > popped
           /\ Len(batches') >= Len(batches)
           /\ \A i \in 1..Len(batches) : batches'[i].resp = batches[i].resp
<1>f. /\ Len(batches) \in Nat /\ popped \in 0..Len(batches)
      /\ cur \in [Requests -> [head : BOOLEAN, batch : Nat]]
      /\ result \in [Requests -> Classes \cup {0}]
      /\ postPc \in [Requests -> {"load", "direct", "mark", "add", "linked", "wait",
                                  "returned", "refused"}]
  BY BufferFacts
<1>1. CASE RBP!Add(r)
  <2>1. PICK t \in popped + 1 .. Len(batches) + 1 :
           /\ t \in 1..Len(batches) + 1
           /\ batches' = RBP!Linked(r, t)
           /\ cur' = [cur EXCEPT ![r] = [head |-> t = popped + 1, batch |-> t]]
           /\ postPc' = [postPc EXCEPT ![r] = "linked"]
           /\ UNCHANGED <<popped, rpc>>
    BY <1>1, Assumed, RBP!AddStep
  <2>2. /\ Len(batches') = IF t > Len(batches) THEN t ELSE Len(batches)
        /\ \A i \in 1..Len(batches) : batches'[i].resp = batches[i].resp
    BY <2>1, Assumed, RBP!LinkedList DEF RBP!IInv
  <2>3. result' = result BY <1>1 DEF RBP!Add
  <2>4. cur'[r].batch = t /\ \A q \in Requests \ {r} : cur'[q] = cur[q] BY <2>1, <1>f
  <2> QED
    BY <2>1, <2>2, <2>3, <2>4, <1>f
<1>2. CASE \/ RBP!LoadFlag(r) \/ RBP!PostDirect(r) \/ RBP!SetBuffering(r)
           \/ RBP!AddRefused(r) \/ RBP!ReturnBatch(r) \/ RBP!Awake(r)
  <2>1. UNCHANGED <<batches, popped, rpc, cur>>
    BY <1>2 DEF RBP!LoadFlag, RBP!PostDirect, RBP!SetBuffering, RBP!AddRefused,
                RBP!ReturnBatch, RBP!Awake, RBP!listVars, RBP!runVars
  <2>2. \A q \in Requests \ {r} : postPc'[q] = postPc[q] /\ result'[q] = result[q]
    BY <1>2, <1>f DEF RBP!LoadFlag, RBP!PostDirect, RBP!SetBuffering, RBP!AddRefused,
                RBP!ReturnBatch, RBP!Awake, RBP!Goto
  <2> QED
    BY <2>1, <2>2, <1>f
<1> QED
  BY <1>1, <1>2, SamePosts, SameAdd DEF DirectPost, BufferPost

\* What a step of run() changes.
LEMMA PopEffect ==
    ASSUME RBP!IInv, RBP!IInv', PopBatch
    PROVE  /\ UNCHANGED <<vars, batches, postPc, cur, result, slice, stored>>
           /\ rpc = "pop" /\ rpc' = "attempt"
           /\ popped' = popped + 1 /\ popped' \in popped + 1 .. Len(batches)
           /\ copied' = {Points(r) : r \in RB!Members(popped')}
<1>1. /\ UNCHANGED <<batches, postPc, cur, result>>
      /\ rpc = "pop" /\ rpc' = "attempt" /\ popped' = popped + 1
  BY SameRun DEF PopBatch, RBP!Pop, RBP!RunGoto, RBP!postVars
<1>2. popped' \in 0..Len(batches') /\ popped \in Nat /\ Len(batches) \in Nat
  BY BufferFacts DEF RBP!IInv, RBP!TypeOK
<1> QED
  BY <1>1, <1>2 DEF PopBatch

\* A retry that is answered changes, of what the HTTP relay sees, the response of
\* the batch alone, and posts the copy of its buffers.
LEMMA SuccessEffect ==
    ASSUME RBP!IInv, RetrySucceeds
    PROVE  /\ UNCHANGED <<vars, postPc, cur, result, slice, popped, copied>>
           /\ rpc = "attempt" /\ rpc' = "clear"
           /\ popped \in 1..Len(batches) /\ Len(batches') = Len(batches)
           /\ \A i \in 1..Len(batches) : i # popped => batches'[i] = batches[i]
           /\ Post(Buffered, copied, batches'[popped].resp)
<1>1. RBP!AttemptSucceeds
  BY SameRun DEF RetrySucceeds
<1>2. rpc = "attempt" /\ rpc' = "clear" /\ UNCHANGED <<popped, postPc, cur, result>>
  BY <1>1 DEF RBP!AttemptSucceeds, RBP!RunGoto, RBP!postVars
<1> QED
  BY <1>1, <1>2, Assumed, RBP!PoppedStep DEF RetrySucceeds

\* The other steps of run() leave the responses alone; a failed attempt may have
\* reached the backend.
LEMMA OtherEffect ==
    ASSUME RBP!IInv, RetryFails \/ RetryOther
    PROVE  /\ UNCHANGED <<vars, postPc, cur, result, slice, popped, copied>>
           /\ Len(batches') = Len(batches)
           /\ \A i \in 1..Len(batches) : batches'[i].resp = batches[i].resp
           /\ rpc' \in {"attempt", "sleep"} => rpc \in {"attempt", "sleep"}
           /\ rpc' \in {"clear", "release", "pop"} => rpc \in {"clear", "release"}
           /\ UNCHANGED stored \/ Post(Buffered, copied, Error)
<1>1. CASE RBP!Release
  <2>1. /\ popped \in 1..Len(batches) /\ Len(batches') = Len(batches)
        /\ \A i \in 1..Len(batches) : i # popped => batches'[i] = batches[i]
        /\ UNCHANGED <<popped, postPc, cur, result>>
    BY <1>1, Assumed, RBP!PoppedStep DEF RBP!postVars
  <2>2. batches' = [batches EXCEPT ![popped].done = TRUE] /\ rpc = "release" /\ rpc' = "pop"
    BY <1>1 DEF RBP!Release, RBP!RunGoto
  <2>3. batches \in Seq(RBP!Batch) BY DEF RBP!IInv, RBP!TypeOK
  <2>4. batches[popped] \in RBP!Batch BY <2>1, Assumed, RBP!BatchFields DEF RBP!IInv
  <2>5. batches'[popped] = [batches[popped] EXCEPT !.done = TRUE] BY <2>1, <2>2, <2>3
  <2>6. batches'[popped].resp = batches[popped].resp BY <2>4, <2>5 DEF RBP!Batch
  <2> QED
    BY <1>1, <2>1, <2>2, <2>6, SameRun DEF RetryFails, RetryOther, RBP!AttemptFails,
       RBP!SleepOver, RBP!ClearBuffering, RBP!RunGoto
<1>2. CASE RBP!AttemptFails \/ RBP!SleepOver \/ RBP!ClearBuffering
  <2>1. UNCHANGED <<batches, popped, postPc, cur, result>>
    BY <1>2 DEF RBP!AttemptFails, RBP!SleepOver, RBP!ClearBuffering, RBP!listVars, RBP!postVars
  <2>2. \/ rpc \in {"attempt", "sleep"} /\ rpc' \in {"attempt", "sleep"}
        \/ rpc = "clear" /\ rpc' = "release"
    BY <1>2 DEF RBP!AttemptFails, RBP!SleepOver, RBP!ClearBuffering, RBP!RunGoto
  <2> QED
    BY <2>1, <2>2 DEF RetryFails, RetryOther
<1> QED
  BY <1>1, <1>2, SameRun DEF RetryFails, RetryOther

\* Nothing that is stored is lost, and what is posted is stored as it is.
Grows == \A b \in Backends : stored[b] \subseteq stored'[b]

StoredType == stored \in [Backends -> SUBSET [of : Requests, lines : Contents]]

\* A POST of intact points keeps what a backend stores intact; after a success
\* the backend has stored all of them.
LEMMA PostStores ==
    ASSUME StoredType, StoredIsIntact, NEW b \in Backends, NEW a,
           NEW points \in SUBSET [of : Requests, lines : Contents],
           \A p \in points : p.lines = LinesOf(p.of),
           Post(b, points, a)
    PROVE  /\ StoredType' /\ StoredIsIntact' /\ Grows
           /\ a = 2 => points \subseteq stored'[b]
<1>1. CASE UNCHANGED stored /\ a # 2
  BY <1>1 DEF StoredType, StoredIsIntact, Grows
<1>2. CASE stored' = [stored EXCEPT ![b] = @ \cup points]
  <2>1. stored'[b] = stored[b] \cup points /\ \A c \in Backends \ {b} : stored'[c] = stored[c]
    BY <1>2 DEF StoredType
  <2>2. StoredType' BY <1>2 DEF StoredType
  <2>3. StoredIsIntact' BY <2>1 DEF StoredIsIntact, LinesOf
  <2> QED
    BY <2>1, <2>2, <2>3 DEF Grows
<1> QED
  BY <1>1, <1>2 DEF Post

\* Every step stores points as clients sent them, and copies them so.
LEMMA IntactStep ==
    ASSUME SysInv, [SysNext]_sysVars, IInv', RBP!IInv'
    PROVE  SysTypes' /\ CopyIsIntact' /\ StoredIsIntact' /\ Grows
<1>t. /\ StoredType /\ StoredIsIntact /\ CopyIsIntact
      /\ slice \in [Requests -> Buffers \cup {Unused}]
      /\ copied \subseteq [of : Requests, lines : Contents]
      /\ outBuf \in [Requests -> Buffers \cup {Unused}]
      /\ Buffered \in Backends /\ RBP!IInv
  BY BufferedAssumption DEF SysInv, SysTypes, StoredType, IInv, TypeOK
<1>1. ASSUME NEW r \in Requests, Serve(r)
      PROVE  SysTypes' /\ CopyIsIntact' /\ StoredIsIntact' /\ Grows
  <2>1. slice' \in [Requests -> Buffers \cup {Unused}]
    BY <1>1, <1>t DEF Serve
  <2>2. UNCHANGED <<copied, stored>> BY <1>1 DEF Serve
  <2> QED
    BY <2>1, <2>2, <1>t DEF SysTypes, StoredType, CopyIsIntact, StoredIsIntact, Grows
<1>2. CASE UNCHANGED <<slice, copied, stored>>
  BY <1>2, <1>t DEF SysTypes, StoredType, CopyIsIntact, StoredIsIntact, Grows
<1>3. ASSUME NEW r \in Requests, NEW b \in Backends, NEW a, poster[r][b] = "post",
             Post(b, {Points(r)}, a), UNCHANGED <<slice, copied>>
      PROVE  SysTypes' /\ CopyIsIntact' /\ StoredIsIntact' /\ Grows
  <2>1. /\ {Points(r)} \in SUBSET [of : Requests, lines : Contents]
        /\ \A p \in {Points(r)} : p.lines = LinesOf(p.of)
    BY <1>3, PointsAreIntact
  <2>2. StoredType' /\ StoredIsIntact' /\ Grows
    BY <1>3, <1>t, <2>1, PostStores
  <2> QED
    BY <1>3, <2>2, <1>t DEF SysTypes, StoredType, CopyIsIntact
<1>4. CASE PopBatch
  <2>1. /\ copied' = {Points(r) : r \in RB!Members(popped')}
        /\ popped' \in popped + 1 .. Len(batches) /\ UNCHANGED <<slice, stored>>
    BY <1>4, <1>t, PopEffect
  <2>2. ASSUME NEW r \in RB!Members(popped')
        PROVE  /\ Points(r) \in [of : Requests, lines : Contents]
               /\ Points(r).lines = LinesOf(Points(r).of)
    BY <2>1, ListedIsPosting, PointsAreIntact, <1>t
  <2>3. copied' \subseteq [of : Requests, lines : Contents] /\ CopyIsIntact'
    BY <2>1, <2>2 DEF CopyIsIntact, LinesOf
  <2> QED
    BY <2>1, <2>3, <1>t DEF SysTypes, StoredType, StoredIsIntact, Grows
<1>5. ASSUME NEW a, Post(Buffered, copied, a), UNCHANGED <<slice, copied>>
      PROVE  SysTypes' /\ CopyIsIntact' /\ StoredIsIntact' /\ Grows
  <2>1. StoredType' /\ StoredIsIntact' /\ Grows
    BY <1>5, <1>t, PostStores DEF CopyIsIntact
  <2> QED
    BY <1>5, <2>1, <1>t DEF SysTypes, StoredType, CopyIsIntact
<1>6. ASSUME NEW r \in Requests, NEW b \in Backends, PlainPost(r, b)
      PROVE  SysTypes' /\ CopyIsIntact' /\ StoredIsIntact' /\ Grows
  BY <1>3, <1>6 DEF PlainPost, PostReturns, PosterGoto
<1>7. ASSUME NEW r \in Requests, DirectPost(r)
      PROVE  SysTypes' /\ CopyIsIntact' /\ StoredIsIntact' /\ Grows
  BY <1>3, <1>7, <1>t DEF DirectPost, Posting
<1>8. CASE RetrySucceeds
  BY <1>5, <1>8, <1>t, SuccessEffect
<1>9. CASE RetryFails \/ RetryOther
  BY <1>2, <1>5, <1>9, <1>t, OtherEffect
<1> QED
  BY <1>1, <1>2, <1>4, <1>6, <1>7, <1>8, <1>9
     DEF SysNext, End, BufferPost, BufferReturns, Posting, Retry, Quiet, sysVars

\* Every step keeps each call of post() in step with the goroutine that made it.
LEMMA InStepStep ==
    ASSUME SysInv, [SysNext]_sysVars, NEW r \in Requests
    PROVE  InStep(r)'
<1>t. TypeOK /\ Phases(r) /\ Channel(r) /\ InStep(r) /\ RBP!IInv /\ Buffered \in Backends
  BY BufferedAssumption DEF SysInv, IInv
<1>1. ASSUME UNCHANGED <<postPc, result>>,
             poster'[r] = poster[r], answer'[r] = answer[r], closer'[r] = closer[r],
             outBuf'[r] = outBuf[r] \/ closer[r] # "wait", slice'[r] = slice[r]
      PROVE  InStep(r)'
  BY <1>1, <1>t DEF InStep
<1>2. ASSUME NEW q \in Requests, q # r,
             Serve(q) \/ End(q) \/ BufferReturns(q) \/ \E b \in Backends : PlainPost(q, b)
      PROVE  InStep(r)'
  <2>1. Handle(q) \/ WindUp(q) \/ \E b \in Backends : PostReturns(q, b)
    BY <1>2, <1>t DEF Serve, End, BufferReturns, PlainPost
  <2>2. UNCHANGED <<postPc, result>>
    BY <1>2 DEF Serve, End, BufferReturns, PlainPost, retryVars
  <2>3. slice'[r] = slice[r]
    BY <1>2 DEF Serve, End, BufferReturns, PlainPost, SysInv, SysTypes
  <2> QED
    BY <2>1, <2>2, <2>3, <1>1, <1>2, Others DEF SysInv
<1>3. CASE Serve(r) /\ FanOut(r)
  <2>1. /\ closer[r] = "off" /\ poster[r][Buffered] = "off" /\ answer[r][Buffered] = Pending
        /\ postPc[r] = "load" /\ UNCHANGED <<postPc, result, answer, outBuf>>
    BY <1>3, <1>t DEF FanOut, Goto, Phases, Channel, InStep, Serve, retryVars
  <2>2. poster'[r][Buffered] = "post" BY <1>3, <1>t DEF FanOut, TypeOK
  <2>3. slice'[r] = outBuf[r] BY <1>3 DEF Serve, SysInv, SysTypes
  <2> QED
    BY <2>1, <2>2, <2>3 DEF InStep, Pending
<1>4. CASE Serve(r) /\ ~FanOut(r)
  <2>1. slice'[r] = slice[r] /\ UNCHANGED <<postPc, result>>
    BY <1>4 DEF Serve, SysInv, SysTypes, retryVars
  <2>2. UNCHANGED <<poster, answer, closer>>
    BY <1>4 DEF Serve, Handle, Reject, BadGzip, ReadBody, Unusable, Parse, Encode, GiveUp,
                ReceiveSuccess, ReceiveUserError, ReceiveOther, Take, fanVars
  <2>3. outBuf' = outBuf \/ pc[r] = "encode"
    BY <1>4 DEF Serve, Handle, Reject, BadGzip, ReadBody, Unusable, Parse, Encode, GiveUp,
                ReceiveSuccess, ReceiveUserError, ReceiveOther, Take, Goto
  <2> QED
    BY <2>1, <2>2, <2>3, <1>1, <1>t DEF Phases
<1>5. ASSUME NEW b \in Backends, End(r), Send(r, b) \/ Finish(r, b)
      PROVE  InStep(r)'
  <2>1. /\ poster[r][b] \in {"send", "finish"} /\ poster'[r][b] \in {"finish", "gone"}
        /\ \A c \in Backends \ {b} : poster'[r][c] = poster[r][c]
    BY <1>5, <1>t DEF Send, Finish, PosterGoto, TypeOK
  <2>2. UNCHANGED <<answer, closer, outBuf, postPc, result, slice>>
    BY <1>5 DEF Send, Finish, End, reqVars, retryVars
  <2> QED
    BY <2>1, <2>2, <1>t DEF InStep
<1>6. CASE End(r) /\ (Close(r) \/ PutOutBuf(r))
  <2>1. closer'[r] # "wait" BY <1>6, <1>t DEF Close, PutOutBuf, TypeOK
  <2>2. UNCHANGED <<poster, answer, postPc, result>>
    BY <1>6 DEF Close, PutOutBuf, End, retryVars
  <2> QED
    BY <2>1, <2>2, <1>t DEF InStep
<1>7. ASSUME NEW b \in Backends, PlainPost(r, b)
      PROVE  InStep(r)'
  <2>1. b # Buffered /\ UNCHANGED <<closer, outBuf, postPc, result, slice>>
    BY <1>7 DEF PlainPost, PostReturns, reqVars, retryVars
  <2>2. poster'[r][Buffered] = poster[r][Buffered] /\ answer'[r][Buffered] = answer[r][Buffered]
    BY <2>1, <1>7, <1>t DEF PlainPost, PostReturns, PosterGoto, TypeOK
  <2> QED
    BY <2>1, <2>2, <1>t DEF InStep
<1>8. CASE BufferReturns(r)
  <2>1. /\ postPc[r] \in {"returned", "refused"}
        /\ answer'[r][Buffered] = IF postPc[r] = "returned" THEN result[r] ELSE Error
        /\ UNCHANGED <<closer, outBuf, postPc, result, slice>>
    BY <1>8 DEF BufferReturns, PostReturns, reqVars, retryVars
  <2>2. poster'[r][Buffered] \in {"send", "finish"}
    BY <1>8, <1>t DEF BufferReturns, PostReturns, PosterGoto, TypeOK
  <2> QED
    BY <2>1, <2>2, <1>t DEF InStep, Error
<1>9. ASSUME NEW q \in Requests, DirectPost(q) \/ BufferPost(q), RBP!IInv'
      PROVE  InStep(r)'
  <2>1. poster[q][Buffered] = "post" /\ UNCHANGED <<vars, slice>>
    BY <1>9 DEF DirectPost, BufferPost, Posting
  <2>2. r # q => postPc'[r] = postPc[r] /\ result'[r] = result[r]
    BY <1>9, <1>t, PostEffect
  <2>3. CASE r # q
    BY <2>1, <2>2, <2>3, <1>t DEF InStep, vars, reqVars, fanVars
  <2>4. CASE r = q
    <3>1. answer[r][Buffered] = Pending BY <2>1, <2>4, <1>t DEF Channel
    <3> QED
      BY <2>1, <2>4, <3>1, <1>t DEF InStep, vars, reqVars, fanVars, Pending
  <2> QED
    BY <2>3, <2>4
<1>10. CASE Retry \/ Quiet \/ UNCHANGED sysVars
  <2>1. UNCHANGED <<vars, postPc, result, slice>>
    <3>1. CASE Retry
      <4>1. UNCHANGED <<vars, slice>>
        BY <3>1 DEF Retry, PopBatch, RetrySucceeds, RetryFails, RetryOther
      <4>2. UNCHANGED <<postPc, result>>
        BY <3>1, SameRun DEF Retry, PopBatch, RetrySucceeds, RetryFails, RetryOther, RBP!Pop,
           RBP!AttemptSucceeds, RBP!AttemptFails, RBP!SleepOver, RBP!ClearBuffering,
           RBP!Release, RBP!postVars
      <4> QED BY <4>1, <4>2
    <3>2. CASE Quiet \/ UNCHANGED sysVars
      BY <3>2 DEF Quiet, sysVars, retryVars
    <3> QED BY <1>10, <3>1, <3>2
  <2> QED
    BY <2>1, <1>1 DEF vars, reqVars, fanVars
<1>11. RBP!IInv'
  BY <1>t, Assumed, BufferSteps, RBP!StepIInv
<1> QED
  BY <1>2, <1>3, <1>4, <1>5, <1>6, <1>7, <1>8, <1>9, <1>10, <1>11 DEF SysNext, End, WindUp

\* The batches that are popped keep their writes, and their answers once they have
\* one.
LEMMA PoppedKept ==
    ASSUME RBP!IInv, RBP!IInv', [SysNext]_sysVars, ~Retry
    PROVE  /\ popped' = popped /\ rpc' = rpc /\ Len(batches') >= Len(batches)
           /\ \A i \in 1..popped : /\ RB!Members(i)' = RB!Members(i)
                                  /\ batches'[i].resp = batches[i].resp
<1>t. Len(batches) \in Nat /\ popped \in 0..Len(batches) /\ Len(batches') \in Nat
  BY BufferFacts DEF RBP!IInv, RBP!TypeOK
<1>1. CASE UNCHANGED retryVars
  BY <1>1, <1>t DEF retryVars, RB!Members
<1>2. ASSUME NEW r \in Requests, DirectPost(r) \/ BufferPost(r)
      PROVE  /\ popped' = popped /\ rpc' = rpc /\ Len(batches') >= Len(batches)
             /\ \A i \in 1..popped : /\ RB!Members(i)' = RB!Members(i)
                                    /\ batches'[i].resp = batches[i].resp
  <2>1. /\ popped' = popped /\ rpc' = rpc /\ Len(batches') >= Len(batches)
        /\ \A i \in 1..Len(batches) : batches'[i].resp = batches[i].resp
        /\ \A q \in Requests \ {r} : cur'[q] = cur[q]
        /\ cur'[r] = cur[r] \/ cur'[r].batch > popped
        /\ cur'[r] = cur[r] \/ postPc[r] = "add"
    <3>1. cur'[r] = cur[r] \/ postPc[r] = "add"
      BY <1>2, SamePosts, SameAdd
         DEF DirectPost, BufferPost, RBP!LoadFlag, RBP!PostDirect, RBP!SetBuffering,
             RBP!AddRefused, RBP!Add, RBP!ReturnBatch, RBP!Awake, RBP!Goto
    <3> QED
      BY <3>1, <1>2, PostEffect
  <2>2. ASSUME NEW i \in 1..popped
        PROVE  RB!Members(i)' = RB!Members(i)
    <3>1. i \in 1..Len(batches) /\ i \in 1..Len(batches')
      BY <1>t, <2>1
    <3>2. RB!Members(i) = {q \in Requests : cur[q].batch = i}
      BY <3>1, MembersAreAdded
    <3>3. RB!Members(i)' = {q \in Requests : cur'[q].batch = i}
      <4>1. RB!Members(i)' = RBP!Members(i)'
        BY DEF RB!Members, RBP!Members
      <4>2. batches' \in Seq(RBP!Batch) BY DEF RBP!IInv, RBP!TypeOK
      <4>3. batches'[i] \in RBP!Batch BY <3>1, <4>2, ElementOfSeq
      <4>4. batches'[i].bufs \in Seq(Requests) BY <4>3 DEF RBP!Batch
      <4>5. RBP!Members(i)' \subseteq Requests BY <4>4 DEF RBP!Members
      <4> QED
        BY <3>1, <4>1, <4>5 DEF RBP!IInv, RBP!InOneBatch
    <3>4. cur[r].batch = 0 \/ cur'[r] = cur[r]
      BY <2>1, BufferFacts
    <3>5. \A q \in Requests : cur'[q].batch = i <=> cur[q].batch = i
      BY <2>1, <3>4, <1>t
    <3> QED
      BY <3>2, <3>3, <3>5
  <2> QED
    BY <2>1, <2>2, <1>t
<1> QED
  BY <1>1, <1>2 DEF SysNext, Serve, End, BufferReturns, PlainPost, Quiet, sysVars

\* run() posts every write of the batch it has popped.
LEMMA WholeStep ==
    ASSUME SysInv, [SysNext]_sysVars, RBP!IInv'
    PROVE  CopyIsWhole'
<1>t. RBP!IInv /\ CopyIsWhole BY DEF SysInv
<1>1. CASE PopBatch
  <2>1. copied' = {Points(r) : r \in RB!Members(popped')} /\ batches' = batches
    BY <1>1, <1>t, PopEffect
  <2>2. RB!Members(popped)' = RB!Members(popped')
    BY <2>1 DEF RB!Members
  <2>3. \A r : Points(r).of = r BY DEF Points
  <2> QED
    BY <2>1, <2>2, <2>3 DEF CopyIsWhole
<1>2. CASE RetrySucceeds
  BY <1>2, <1>t, SuccessEffect DEF CopyIsWhole
<1>3. CASE RetryFails \/ RetryOther
  <2>1. CASE rpc' \notin {"attempt", "sleep"}
    BY <2>1 DEF CopyIsWhole
  <2>2. CASE rpc' \in {"attempt", "sleep"}
    <3>1. rpc \in {"attempt", "sleep"} /\ UNCHANGED <<popped, copied>>
      BY <1>3, <2>2, <1>t, OtherEffect
    <3>2. batches' = batches
      BY <1>3, <2>2, SameRun DEF RetryFails, RetryOther, RBP!AttemptFails, RBP!SleepOver,
         RBP!ClearBuffering, RBP!Release, RBP!RunGoto, RBP!listVars
    <3> QED
      BY <3>1, <3>2, <1>t DEF CopyIsWhole, RB!Members
  <2> QED
    BY <2>1, <2>2
<1>4. CASE ~Retry
  <2>1. copied' = copied
    BY <1>4 DEF SysNext, Serve, End, DirectPost, BufferPost, Posting, BufferReturns, PlainPost,
                Quiet, sysVars
  <2>2. CASE rpc \in {"attempt", "sleep"}
    <3>1. popped \in 1..popped BY <2>2, <1>t, BufferFacts
    <3>2. RB!Members(popped)' = RB!Members(popped)
      BY <1>4, <1>t, <3>1, PoppedKept
    <3> QED
      BY <2>1, <2>2, <3>2, <1>t, <1>4, PoppedKept DEF CopyIsWhole
  <2>3. CASE rpc \notin {"attempt", "sleep"}
    BY <2>3, <1>t, <1>4, PoppedKept DEF CopyIsWhole
  <2> QED
    BY <2>2, <2>3
<1> QED
  BY <1>1, <1>2, <1>3, <1>4 DEF Retry

\* Every step keeps what a backend has accepted in its store.
LEMMA AcceptedStep ==
    ASSUME SysInv, [SysNext]_sysVars, RBP!IInv', Grows
    PROVE  AcceptedIsStored'
<1>t. /\ RBP!IInv /\ AcceptedIsStored /\ TypeOK /\ Buffered \in Backends
      /\ \A r \in Requests : InStep(r)
      /\ StoredType /\ StoredIsIntact /\ CopyIsIntact
      /\ copied \in SUBSET [of : Requests, lines : Contents]
  BY BufferedAssumption DEF SysInv, SysTypes, StoredType, IInv
<1>g. ASSUME NEW b \in Backends, NEW r, Stored(b, r)
      PROVE  Stored(b, r)'
  BY <1>g DEF Grows, Stored
<1>1. ASSUME NEW r \in Requests, NEW b \in Backends \ {Buffered}, answer'[r][b] = 2
      PROVE  Stored(b, r)'
  <2>1. CASE answer[r][b] = 2
    BY <2>1, <1>t, <1>g DEF AcceptedIsStored
  <2>2. CASE answer[r][b] # 2
    <3>1. PlainPost(r, b)
      <4>1. ASSUME NEW q \in Requests, Serve(q) \/ End(q)
            PROVE  answer' = answer
        BY <4>1 DEF Serve, Handle, Reject, BadGzip, ReadBody, Unusable, Parse, Encode, FanOut,
           GiveUp, ReceiveSuccess, ReceiveUserError, ReceiveOther, Take, End, WindUp, Send,
           Finish, Close, PutOutBuf, fanVars
      <4>2. CASE \/ Retry \/ Quiet \/ UNCHANGED sysVars
                 \/ \E q \in Requests : DirectPost(q) \/ BufferPost(q)
        BY <1>1, <2>2, <4>2
           DEF Retry, PopBatch, RetrySucceeds, RetryFails, RetryOther, Quiet, DirectPost,
               BufferPost, Posting, sysVars, vars, fanVars
      <4>3. ASSUME NEW q \in Requests, BufferReturns(q)
            PROVE  answer'[r][b] = answer[r][b]
        BY <4>3, <1>1, <1>t DEF BufferReturns, PostReturns, TypeOK
      <4>4. ASSUME NEW q \in Requests, NEW c \in Backends, PlainPost(q, c)
            PROVE  q = r /\ c = b
        BY <4>4, <1>1, <2>2, <1>t DEF PlainPost, PostReturns, TypeOK
      <4> QED
        BY <1>1, <2>2, <4>1, <4>2, <4>3, <4>4 DEF SysNext
    <3>2. Post(b, {Points(r)}, 2) /\ poster[r][b] = "post"
      BY <1>1, <3>1 DEF PlainPost, PostReturns, PosterGoto
    <3>3. /\ {Points(r)} \in SUBSET [of : Requests, lines : Contents]
          /\ \A p \in {Points(r)} : p.lines = LinesOf(p.of)
      BY <3>2, PointsAreIntact
    <3>4. Points(r) \in stored'[b]
      BY <3>2, <3>3, <1>t, PostStores
    <3> QED
      BY <3>4 DEF Stored, Points
  <2> QED
    BY <2>1, <2>2
<1>2. ASSUME NEW r \in Requests, postPc'[r] = "returned", cur'[r].batch = 0, result'[r] = 2
      PROVE  Stored(Buffered, r)'
  <2>1. CASE postPc'[r] = postPc[r] /\ cur'[r] = cur[r] /\ result'[r] = result[r]
    BY <1>2, <2>1, <1>t, <1>g DEF AcceptedIsStored
  <2>2. CASE UNCHANGED retryVars \/ Retry
    <3>1. UNCHANGED <<postPc, cur, result>>
      BY <2>2, <1>t, PopEffect, SuccessEffect, OtherEffect DEF retryVars, Retry
    <3> QED
      BY <2>1, <3>1
  <2>3. ASSUME NEW q \in Requests, q # r, DirectPost(q) \/ BufferPost(q)
        PROVE  Stored(Buffered, r)'
    BY <2>1, <2>3, <1>t, PostEffect
  <2>4. CASE DirectPost(r)
    <3>1. Post(Buffered, {Points(r)}, 2) /\ poster[r][Buffered] = "post"
      BY <1>2, <2>4 DEF DirectPost, Posting
    <3>2. /\ {Points(r)} \in SUBSET [of : Requests, lines : Contents]
          /\ \A p \in {Points(r)} : p.lines = LinesOf(p.of)
      BY <3>1, <1>t, PointsAreIntact
    <3>3. Points(r) \in stored'[Buffered]
      BY <3>1, <3>2, <1>t, PostStores
    <3> QED
      BY <3>3 DEF Stored, Points
  <2>5. CASE BufferPost(r)
    <3>1. RBP!Awake(r)
      BY <1>2, <2>5, <1>t, SamePosts, SameAdd, BufferFacts
         DEF BufferPost, RBP!LoadFlag, RBP!SetBuffering, RBP!AddRefused, RBP!Add,
             RBP!ReturnBatch, RBP!Goto
    <3>2. postPc[r] = "wait" /\ cur' = cur
      BY <3>1 DEF RBP!Awake, RBP!Goto
    <3>3. cur[r].batch \in 1..Len(batches)
      BY <3>2, <1>t, BufferFacts
    <3> QED
      BY <1>2, <3>2, <3>3
  <2> QED
    BY <2>2, <2>3, <2>4, <2>5
       DEF SysNext, Serve, End, BufferReturns, PlainPost, Quiet, sysVars
<1>3. ASSUME NEW i \in 1..Len(batches'), RBP!Delivered(i)', batches'[i].resp = 2,
             NEW r \in RB!Members(i)'
      PROVE  Stored(Buffered, r)'
  <2>f. /\ Len(batches) \in Nat /\ popped \in 0..Len(batches)
        /\ rpc # "pop" => popped \in 1..Len(batches)
        /\ rpc \in {"pop", "attempt", "sleep", "clear", "release"}
    BY <1>t, BufferFacts DEF RBP!IInv, RBP!TypeOK
  <2>1. ASSUME i \in 1..Len(batches), RBP!Delivered(i), batches[i].resp = 2, r \in RB!Members(i)
        PROVE  Stored(Buffered, r)'
    BY <2>1, <1>t, <1>g DEF AcceptedIsStored
  <2>2. CASE ~Retry
    <3>1. popped' = popped /\ rpc' = rpc
      BY <2>2, <1>t, PoppedKept
    <3>2. i \in 1..popped /\ RBP!Delivered(i)
      BY <3>1, <1>3, <2>f DEF RBP!Delivered
    <3>3. RB!Members(i)' = RB!Members(i) /\ batches'[i].resp = batches[i].resp
      BY <2>2, <3>2, <1>t, PoppedKept
    <3> QED
      BY <2>1, <3>2, <3>3, <1>3, <2>f
  <2>3. CASE PopBatch
    <3>1. batches' = batches /\ rpc = "pop" /\ rpc' = "attempt" /\ popped' = popped + 1
      BY <2>3, <1>t, PopEffect
    <3>2. RBP!Delivered(i) BY <3>1, <1>3, <2>f DEF RBP!Delivered
    <3> QED
      BY <2>1, <3>1, <3>2, <1>3 DEF RB!Members
  <2>4. CASE RetrySucceeds
    <3>1. /\ popped' = popped /\ copied' = copied /\ rpc = "attempt" /\ rpc' = "clear"
          /\ popped \in 1..Len(batches) /\ Len(batches') = Len(batches)
          /\ \A j \in 1..Len(batches) : j # popped => batches'[j] = batches[j]
          /\ Post(Buffered, copied, batches'[popped].resp)
          /\ \A j \in 1..Len(batches) : batches'[j].bufs = batches[j].bufs
      BY <2>4, <1>t, SuccessEffect, Assumed, SameRun, RBP!PoppedStep DEF RetrySucceeds
    <3>2. RB!Members(i)' = RB!Members(i) BY <3>1, <1>3 DEF RB!Members
    <3>3. CASE i = popped
      <4>1. PICK p \in copied : p.of = r
        BY <3>1, <3>2, <3>3, <1>3 DEF SysInv, CopyIsWhole
      <4>2. p \in stored'[Buffered]
        BY <3>1, <3>3, <4>1, <1>3, <1>t, PostStores DEF CopyIsIntact
      <4> QED
        BY <4>1, <4>2 DEF Stored
    <3>4. CASE i # popped
      BY <2>1, <3>1, <3>2, <3>4, <1>3 DEF RBP!Delivered
    <3> QED
      BY <3>3, <3>4
  <2>5. CASE RetryFails \/ RetryOther
    <3>1. /\ popped' = popped /\ Len(batches') = Len(batches)
          /\ \A j \in 1..Len(batches) : batches'[j].resp = batches[j].resp
          /\ rpc' \in {"clear", "release", "pop"} => rpc \in {"clear", "release"}
      BY <2>5, <1>t, OtherEffect
    <3>2. \A j \in 1..Len(batches) : batches'[j].bufs = batches[j].bufs
      BY <2>5, <1>t, Assumed, SameRun, RBP!PoppedStep
         DEF RetryFails, RetryOther, RBP!AttemptFails, RBP!SleepOver, RBP!ClearBuffering, RBP!listVars
    <3>3. RB!Members(i)' = RB!Members(i) BY <3>1, <3>2, <1>3 DEF RB!Members
    <3> QED
      BY <2>1, <3>1, <3>3, <1>3 DEF RBP!Delivered
  <2> QED
    BY <2>2, <2>3, <2>4, <2>5 DEF Retry
<1> QED
  BY <1>1, <1>2, <1>3 DEF AcceptedIsStored

-----------------------------------------------------------------------------
(***************************************************************************)
(* The theorems.                                                           *)
(***************************************************************************)

\* RB and RBP start in the same state.
LEMMA SameInit == RB!Init <=> RBP!Init
BY DEF RB!Init, RBP!Init, RB!Nil, RBP!Nil, RB!NoResponse, RBP!NoResponse

\* A system that has been started satisfies the invariant.
LEMMA SysInitially ==
    ASSUME SysInit
    PROVE  SysInv
<1>1. IInv BY Initially DEF SysInit
<1>2. RBP!IInv BY SameInit, Assumed, RBP!InitIInv DEF SysInit
<1>3. SysTypes BY DEF SysInit, SysTypes
<1>4. /\ \A r \in Requests : InStep(r)
      /\ \A r \in Requests : \A b \in Backends : answer[r][b] = -1
      /\ \A r \in Requests : postPc[r] = "load"
      /\ rpc = "pop" /\ copied = {} /\ batches = <<>>
  BY BufferedAssumption, SameInit DEF SysInit, Init, RBP!Init, InStep, Pending
<1>5. CopyIsWhole /\ CopyIsIntact /\ StoredIsIntact
  BY <1>4 DEF SysInit, CopyIsWhole, CopyIsIntact, StoredIsIntact
<1>6. AcceptedIsStored
  BY <1>4 DEF AcceptedIsStored
<1> QED
  BY <1>1, <1>2, <1>3, <1>4, <1>5, <1>6 DEF SysInv

\* The invariant is inductive.
LEMMA SysInductive ==
    ASSUME SysInv, [SysNext]_sysVars
    PROVE  SysInv'
<1>1. IInv' BY HandlerSteps, Inductive DEF SysInv
<1>2. RBP!IInv' BY Assumed, BufferSteps, RBP!StepIInv DEF SysInv
<1>3. SysTypes' /\ CopyIsIntact' /\ StoredIsIntact' /\ Grows
  BY <1>1, <1>2, IntactStep
<1> QED
  BY <1>1, <1>2, <1>3, InStepStep, WholeStep, AcceptedStep DEF SysInv

\* It holds in every reachable state of every instance.
THEOREM SysInvariance == SysSpec => []SysInv
BY SysInitially, SysInductive, PTL DEF SysSpec

\* The system is an HTTP relay whose backends answer as the retry buffer and the
\* network let them: all that is proved of HTTPRelay holds of it.
THEOREM SystemIsHTTPRelay == SysSpec => Spec
<1>1. SysInit => Init BY DEF SysInit
<1>2. [SysNext]_sysVars => [Next]_vars BY HandlerSteps
<1> QED
  BY <1>1, <1>2, PTL DEF SysSpec, Spec

\* And a retry buffer whose callers are the relay's goroutines: all that is proved
\* of RetryBuffer holds of it.
THEOREM SystemIsRetryBuffer == SysSpec => RB!Spec
<1>1. SysInit => RB!Init BY DEF SysInit
<1>2. ASSUME [SysNext]_sysVars
      PROVE  [RB!Next]_(RB!vars)
  <2>1. CASE UNCHANGED retryVars
    BY <2>1 DEF retryVars, RB!vars
  <2>2. ASSUME NEW r \in Requests, DirectPost(r) \/ BufferPost(r)
        PROVE  RB!Next
    <3>1. RB!Post(r) BY <2>2 DEF DirectPost, BufferPost, RB!Post
    <3> QED
      BY <3>1 DEF RB!Next
  <2>3. CASE Retry
    <3>1. RB!Run
      BY <2>3 DEF Retry, PopBatch, RetrySucceeds, RetryFails, RetryOther, RB!Run
    <3> QED
      BY <3>1 DEF RB!Next
  <2> QED
    BY <1>2, <2>1, <2>2, <2>3 DEF SysNext, Serve, End, BufferReturns, PlainPost, Quiet, sysVars
<1> QED
  BY <1>1, <1>2, PTL DEF SysSpec, RB!Spec

\* Every reply is justified by what the backends, buffered or not, have answered.
THEOREM SystemRepliesAreJustified ==
    SysSpec => Abstract!Init /\ [][Abstract!Next]_<<answer, reply>>
BY SystemIsHTTPRelay, RepliesAreJustified, PTL

\* Whatever the pool does with the buffers while a write waits to be retried, a
\* backend stores the points that the client sent.
THEOREM PointsSurviveTheWait == SysSpec => []StoredIsIntact
<1>1. SysInv => StoredIsIntact BY DEF SysInv
<1> QED
  BY <1>1, SysInvariance, PTL

\* A success is the word of a backend that has the points, or what the retry buffer
\* was told of a later batch after the backend had rejected that of the write: nothing
\* else in the relay makes a client believe in points that are nowhere.
THEOREM SuccessHasStored == SysSpec => []FalseSuccessIsAnothers
<1>1. ASSUME SysInv, NEW r \in Requests, FannedOut(r), reply[r].code = 204
      PROVE  (\E b \in Backends : Stored(b, r)) \/ AnsweredForAnother(r)
  <2>1. PICK b \in Backends : answer[r][b] = 2
    BY <1>1 DEF SysInv, IInv, Honest, Answers
  <2>2. CASE b # Buffered
    BY <2>1, <2>2, <1>1 DEF SysInv, AcceptedIsStored
  <2>3. CASE b = Buffered
    <3>1. postPc[r] = "returned" /\ result[r] = 2
      BY <2>1, <2>3, <1>1 DEF SysInv, InStep
    <3>2. CASE cur[r].batch = 0
      BY <3>1, <3>2, <1>1, BufferedAssumption DEF SysInv, AcceptedIsStored
    <3>3. CASE cur[r].batch # 0
      <4> DEFINE i == cur[r].batch
      <4>1. i \in 1..Len(batches) /\ RBP!Released(i) /\ RBP!IInv
        BY <3>1, <3>3, <1>1, BufferFacts DEF SysInv
      <4>2. RBP!Delivered(i)
        BY <4>1 DEF RBP!Released, RBP!Delivered
      <4>3. RBP!Accepted(batches[i].resp) /\ batches[i].resp \in RBP!Answers
        BY <4>1, <4>2, Assumed, RBP!BatchFields DEF RBP!IInv, RBP!ReleasedInOrder
      <4>4. batches[i].resp \in 1..4
        <5>1. batches[i].resp \in Classes
          BY <4>3 DEF RBP!Accepted, RBP!Answers
        <5>2. batches[i].resp \in 1..5 BY <5>1, HTTPAssumption
        <5> QED
          BY <5>2, <4>3 DEF RBP!Accepted
      <4>5. r \in RB!Members(i)
        BY <4>1, MembersAreAdded
      <4>6. CASE batches[i].resp = 2
        BY <4>1, <4>2, <4>5, <4>6, <1>1, BufferedAssumption DEF SysInv, AcceptedIsStored
      <4>7. CASE batches[i].resp # 2
        <5>1. got[r] \in i .. Len(batches) /\ batches[got[r]].resp = 2
          BY <4>1, <3>1, <3>3 DEF RBP!IInv, RBP!AnsweredByGot, RBP!Nil
        <5>2. got[r] # i
          BY <5>1, <4>7
        <5>3. got[r] > i
          BY <5>1, <5>2, <4>1
        <5>4. batches[i].resp \in {1, 3, 4}
          BY <4>4, <4>7
        <5> QED
          BY <3>1, <4>1, <4>5, <5>1, <5>3, <5>4 DEF AnsweredForAnother, OwnBatch
      <4> QED
        BY <4>6, <4>7
    <3> QED
      BY <3>2, <3>3
  <2> QED
    BY <2>2, <2>3
<1>2. SysInv => FalseSuccessIsAnothers
  BY <1>1 DEF FalseSuccessIsAnothers
<1> QED
  BY <1>2, SysInvariance, PTL
=============================================================================
