------------------------------ MODULE RelaySystem ------------------------------
(***************************************************************************)
(* The HTTP relay with its backends: HTTPRelay, where the post of one      *)
(* backend, Buffered, goes through a retry buffer (RetryBuffer) and those  *)
(* of the others do not.  The write of a request is the output buffer its  *)
(* handler took from the pool; the retry buffer keeps a slice of it until  *)
(* run() copies the batch, while other requests use the same pool.         *)
(*                                                                         *)
(* A backend is what it has stored.  An answer of class 2 means that the   *)
(* points are stored, an error may mean that only the answer was lost.     *)
(***************************************************************************)
EXTENDS HTTPRelay

CONSTANTS
    Buffered,                                   \* the backend with buffer-size-mb
    Lossy,                                      \* those whose answers may get lost
    Query, Auth, Size,                          \* of each request, see RetryBuffer
    MaxBuffered, MaxBatch, InitialInterval, MaxInterval

ASSUME BufferedAssumption == Buffered \in Backends /\ Lossy \subseteq Backends

VARIABLES
    buffering, batches, popped, size, postPc,   \* the state of RetryBuffer
    cur, got, result, rpc, interval, crashed,
    slice,         \* outBytes, as the posts of each request see it: a buffer
    copied,        \* buf of run(): the points of the popped batch, as it found them
    stored         \* what each backend has stored

RB == INSTANCE RetryBuffer WITH Writes <- Requests, pc <- postPc

ASSUME RetryAssumption == RB!ConstantsAssumption

retryVars == <<buffering, batches, popped, size, postPc, cur, got, result, rpc,
               interval, crashed>>
sysVars == <<vars, retryVars, slice, copied, stored>>

\* What a post of request r reads.
Points(r) == [of |-> r, lines |-> content[slice[r]]]

SysInit ==
    /\ Init
    /\ RB!Init
    /\ slice = [r \in Requests |-> Unused]
    /\ copied = {}
    /\ stored = [b \in Backends |-> {}]

(***************************************************************************)
(* Backend b is posted points, and the relay gets answer a.                *)
(***************************************************************************)
Post(b, points, a) ==
    \/ /\ a = 2 \/ (a = Error /\ b \in Lossy)
       /\ stored' = [stored EXCEPT ![b] = @ \cup points]
    \/ a # 2 /\ UNCHANGED stored

\* post() of a backend without a retry buffer.
PlainPost(r, b) ==
    /\ ~crashed /\ b # Buffered
    /\ PostReturns(r, b)
    /\ Post(b, {Points(r)}, answer'[r][b])
    /\ UNCHANGED <<retryVars, slice, copied>>

(***************************************************************************)
(* post() of the retry buffer, called by the goroutine of the backend.     *)
(***************************************************************************)
Posting(r) == poster[r][Buffered] = "post" /\ UNCHANGED <<vars, slice, copied>>

DirectPost(r) ==
    /\ Posting(r)
    /\ RB!PostDirect(r)
    /\ Post(Buffered, {Points(r)}, IF postPc'[r] = "returned" THEN result'[r] ELSE Error)

BufferPost(r) ==
    /\ Posting(r) /\ UNCHANGED stored
    /\ \/ RB!LoadFlag(r) \/ RB!SetBuffering(r) \/ RB!AddRefused(r) \/ RB!Add(r)
       \/ RB!ReturnBatch(r) \/ RB!Awake(r)

\* It returns: the answer, or ErrBufferFull.
BufferReturns(r) ==
    /\ ~crashed /\ postPc[r] \in {"returned", "refused"}
    /\ PostReturns(r, Buffered)
    /\ answer'[r][Buffered] = IF postPc[r] = "returned" THEN result[r] ELSE Error
    /\ UNCHANGED <<retryVars, slice, copied, stored>>

(***************************************************************************)
(* run() of the retry buffer.                                              *)
(***************************************************************************)
\* The writes of the batch are copied as soon as it is popped.
PopBatch ==
    /\ RB!Pop
    /\ copied' = {Points(r) : r \in RB!Members(popped')}
    /\ UNCHANGED <<vars, slice, stored>>

RetrySucceeds ==
    /\ RB!AttemptSucceeds
    /\ Post(Buffered, copied, batches'[popped].resp)
    /\ UNCHANGED <<vars, slice, copied>>

RetryFails ==
    /\ RB!AttemptFails
    /\ Post(Buffered, copied, Error)
    /\ UNCHANGED <<vars, slice, copied>>

RetryOther ==
    /\ RB!SleepOver \/ RB!ClearBuffering \/ RB!Release
    /\ UNCHANGED <<vars, slice, copied, stored>>

Retry == PopBatch \/ RetrySucceeds \/ RetryFails \/ RetryOther

(***************************************************************************)
(* The handlers and their goroutines, but for the posts.                   *)
(***************************************************************************)
Serve(r) ==
    /\ ~crashed
    /\ Handle(r)
    /\ slice' = [slice EXCEPT ![r] = IF FanOut(r) THEN outBuf[r] ELSE @]
    /\ UNCHANGED <<retryVars, copied, stored>>

End(r) == ~crashed /\ WindUp(r) /\ UNCHANGED <<retryVars, slice, copied, stored>>

\* The post of request r waits for a listed batch, no batch that is listed has bytes,
\* so that pop() does not take it, and no request is left that could add some.
HeldByEmpty(r) ==
    /\ rpc = "pop" /\ RB!OnlyEmptyListed
    /\ postPc[r] = "wait" /\ got[r] \in RB!Listed
    /\ \A q \in Requests :
          IF FannedOut(q) THEN postPc[q] \in {"linked", "wait", "returned", "refused"}
                          ELSE pc[q] = "done"

\* All requests have been dealt with, also in the background, but for those that
\* are held for good, or the process is gone.
Quiet ==
    /\ \/ crashed
       \/ \A r \in Requests : \/ pc[r] = "done" /\ closer[r] \in {"off", "gone"}
                              \/ HeldByEmpty(r)
    /\ UNCHANGED sysVars

SysNext ==
    \/ \E r \in Requests :
          \/ Serve(r) \/ End(r) \/ DirectPost(r) \/ BufferPost(r) \/ BufferReturns(r)
          \/ \E b \in Backends : PlainPost(r, b)
    \/ Retry \/ Quiet

SysSpec == SysInit /\ [][SysNext]_sysVars

\* Goroutines are scheduled, a post ends after http.Client.Timeout at the latest,
\* and the buffered backend comes back: SF as in RetryBuffer.
SysFairness ==
    /\ \A r \in Requests :
          /\ WF_sysVars(Serve(r)) /\ WF_sysVars(End(r))
          /\ WF_sysVars(DirectPost(r) \/ BufferPost(r) \/ BufferReturns(r))
          /\ \A b \in Backends : WF_sysVars(PlainPost(r, b))
    /\ WF_sysVars(Retry)
    /\ SF_sysVars(RetrySucceeds)

FairSysSpec == SysSpec /\ SysFairness
-----------------------------------------------------------------------------
(***************************************************************************)
(* Properties.                                                             *)
(***************************************************************************)
\* Backends store the points of the requests they are sent in the name of, also
\* when the client was answered, and its buffer might have been used again, long
\* before the retry buffer got round to the write.
StoredIsIntact ==
    \A b \in Backends : \A p \in stored[b] : p.lines = LinesOf(p.of)

Stored(b, r) == \E p \in stored[b] : p.of = r

OwnBatch(r) == {i \in 1..Len(batches) : r \in RB!Members(i)}

\* The buffered backend has answered the write of r, and not by taking it.
RejectedByBuffered(r) ==
    \/ OwnBatch(r) = {} /\ postPc[r] = "returned" /\ result[r] \in {1, 3, 4}
    \/ \E i \in OwnBatch(r) : batches[i].resp \in {1, 3, 4}

\* Every write that is fanned out reaches the buffered backend in the end, however
\* long it waits in the list and whatever is posted before it.  It does not if the
\* backend rejects it, a full buffer refuses it, or the process is gone; nor, until
\* another write is buffered, if it has no bytes and only such are listed.
ReachesBuffered ==
    \A r \in Requests :
        FannedOut(r) ~> \/ Stored(Buffered, r) \/ RejectedByBuffered(r)
                        \/ postPc[r] = "refused" \/ crashed
                        \/ Size[r] = 0 /\ HeldByEmpty(r)

\* Every client is answered, if the buffered backend comes back.  The exception is
\* a post that waits for a batch without bytes: its own, or the one that add() has
\* handed to it in place of its own (RB!Deref).
EveryClientIsAnswered ==
    \A r \in Requests : FannedOut(r) ~> pc[r] = "done" \/ crashed \/ HeldByEmpty(r)

\* The retry buffer answers request r with what the backend said to a later batch than
\* that of r, which the backend has rejected.
AnsweredForAnother(r) ==
    /\ postPc[r] = "returned" /\ cur[r].batch \in OwnBatch(r)
    /\ batches[cur[r].batch].resp \in {1, 3, 4}
    /\ got[r] > cur[r].batch /\ batches[got[r]].resp = 2

\* A client is told of a success only if some backend has its points.  The one way in
\* which the relay can be wrong about it is the answer to another batch: not the loss
\* of an answer, a retry, the fan-out or the copies of a batch.
FalseSuccessIsAnothers ==
    \A r \in Requests : FannedOut(r) /\ reply[r].code = 204 =>
        (\E b \in Backends : Stored(b, r)) \/ AnsweredForAnother(r)

(***************************************************************************)
(* What the documentation says, and the code does not do.                  *)
(***************************************************************************)
\* README: the relay returns a success as soon as one of the servers returns a
\* success.  A client is told of a success only if some backend has its points.
SuccessIsStored ==
    \A r \in Requests : FannedOut(r) /\ reply[r].code = 204 =>
        \E b \in Backends : Stored(b, r)
=============================================================================
