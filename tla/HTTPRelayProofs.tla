---------------------------- MODULE HTTPRelayProofs ----------------------------
(***************************************************************************)
(* Proofs about HTTPRelay, for every set of requests, backends and answers *)
(* and every size of the pool.                                             *)
(***************************************************************************)
EXTENDS HTTPRelay, FiniteSetTheorems, SequenceTheorems, TLAPS

-----------------------------------------------------------------------------
(***************************************************************************)
(* The inductive invariant.                                                *)
(***************************************************************************)

\* The goroutines the WaitGroup counts.
Busy(r) == {b \in Backends : poster[r][b] \in {"post", "send", "finish"}}

\* The goroutines that have put an answer into the channel.
HasSent(r, b) == poster[r][b] \in {"finish", "gone"} /\ answer[r][b] # Error

\* How far the goroutines of a request are, as its handler and its closer see it.
Phases(r) ==
    /\ \A b \in Backends : poster[r][b] = "off" <=> closer[r] = "off"
    /\ pc[r] \in {"new", "parse", "encode", "fanout"} => closer[r] = "off"
    /\ pc[r] = "receive" => closer[r] # "off"
    /\ closed[r] <=> closer[r] \in {"put", "gone"}
    /\ wg[r] = Cardinality(Busy(r))
    /\ closed[r] => Busy(r) = {}

\* Nothing is said to a client before it is answered, and nothing by the relay
\* itself while a backend may still be asked.
Silence(r) ==
    /\ pc[r] # "done" => reply[r] = NoReply
    /\ reply[r].from \in {"relay", "panic"} => Busy(r) = {}

\* What is in the channel, and in errResponse, has been said by a backend, and
\* what a backend has said is in one of them until the client is answered.
Channel(r) ==
    /\ \A b \in Backends :
          /\ poster[r][b] \in {"off", "post"} <=> answer[r][b] = Pending
          /\ poster[r][b] = "send" => answer[r][b] # Error
    /\ closer[r] = "off" => responses[r] = <<>> /\ errResponse[r] = Error
    /\ \A i \in 1..Len(responses[r]) : responses[r][i] \in Answers(r)
    /\ errResponse[r] # Error => errResponse[r] \in Answers(r) \cap {1, 3, 5}
    /\ pc[r] = "receive" =>
          \A b \in Backends : HasSent(r, b) =>
              \/ \E i \in 1..Len(responses[r]) : responses[r][i] = answer[r][b]
              \/ (answer[r][b] \in {1, 3, 5} /\ errResponse[r] # Error)

\* The channel holds at most one answer of each backend that has sent one.
Sent(r) == {b \in Backends : HasSent(r, b)}

Room(r) == Len(responses[r]) <= Cardinality(Sent(r))

\* A client that was told of a success, and not by the relay itself, owes it to a
\* backend.
Honest(r) == FannedOut(r) /\ reply[r].code = 204 => 2 \in Answers(r)

\* A buffer in a handler's hands is not in the pool, and holds what was put into it.
Owns(r) ==
    /\ bodyBuf[r] # Unused => pc[r] \in {"parse", "encode"}
    /\ pc[r] \in {"parse", "encode"} =>
          bodyBuf[r] \in Buffers /\ content[bodyBuf[r]] = BodyOf(r)
    /\ outBuf[r] # Unused => pc[r] = "fanout" \/ closer[r] \in {"wait", "put"}
    /\ pc[r] = "fanout" \/ closer[r] \in {"wait", "put"} =>
          outBuf[r] \in Buffers /\ content[outBuf[r]] = LinesOf(r)
    /\ bodyBuf[r] \notin pool /\ outBuf[r] \notin pool

\* Nor is it in those of another, or in use twice.
Apart(q, r) ==
    /\ bodyBuf[q] # Unused => bodyBuf[q] # outBuf[r]
    /\ q # r /\ bodyBuf[q] # Unused => bodyBuf[q] # bodyBuf[r]
    /\ q # r /\ outBuf[q] # Unused => outBuf[q] # outBuf[r]

Owned ==
    /\ \A r \in Requests : Owns(r)
    /\ \A q, r \in Requests : Apart(q, r)

IInv ==
    /\ TypeOK
    /\ \A r \in Requests : Phases(r) /\ Silence(r) /\ Channel(r) /\ Room(r) /\ Honest(r)
    /\ Owned

-----------------------------------------------------------------------------
(***************************************************************************)
(* Steps.                                                                  *)
(***************************************************************************)
\* The requests are independent but for the pool.
LEMMA Others ==
    ASSUME IInv, NEW r \in Requests, NEW q \in Requests, q # r,
           Handle(r) \/ WindUp(r) \/ \E b \in Backends : PostReturns(r, b)
    PROVE  /\ pc'[q] = pc[q] /\ kind'[q] = kind[q] /\ reply'[q] = reply[q]
           /\ bodyBuf'[q] = bodyBuf[q] /\ outBuf'[q] = outBuf[q]
           /\ poster'[q] = poster[q] /\ answer'[q] = answer[q] /\ wg'[q] = wg[q]
           /\ responses'[q] = responses[q] /\ closed'[q] = closed[q]
           /\ closer'[q] = closer[q] /\ errResponse'[q] = errResponse[q]
<1> USE DEF IInv, TypeOK, reqVars, fanVars, poolVars, Goto, Reply
<1>1. CASE Reject(r) \/ BadGzip(r) \/ ReadBody(r) \/ Unusable(r) \/ Parse(r)
  BY <1>1 DEF Reject, BadGzip, ReadBody, Unusable, Parse, JsonError
<1>2. CASE Encode(r) \/ FanOut(r)
  BY <1>2 DEF Encode, FanOut
<1>3. CASE ReceiveSuccess(r) \/ ReceiveUserError(r) \/ ReceiveOther(r) \/ GiveUp(r)
  BY <1>3 DEF ReceiveSuccess, ReceiveUserError, ReceiveOther, GiveUp, Take, Forward, JsonError
<1>4. CASE WindUp(r) \/ \E b \in Backends : PostReturns(r, b)
  BY <1>4 DEF WindUp, Send, Finish, Close, PutOutBuf, PostReturns, PosterGoto
<1>5. QED BY <1>1, <1>2, <1>3, <1>4 DEF Handle

\* A buffer that bufPool.Get() may hand out is used by no request.
LEMMA Pool ==
    ASSUME IInv
    PROVE  /\ Gettable \subseteq Buffers
           /\ \A i \in Gettable : \A r \in Requests : i # bodyBuf[r] /\ i # outBuf[r]
           /\ Unused \notin Buffers
<1>1. Fresh \subseteq Buffers /\ \A i \in Fresh : i \notin InUse
  BY DEF Fresh
<1>2. pool \subseteq Buffers /\ \A r \in Requests : bodyBuf[r] \notin pool /\ outBuf[r] \notin pool
  BY DEF IInv, TypeOK, Owned, Owns
<1>3. Unused \notin Buffers
  BY HTTPAssumption DEF Buffers, Unused
<1>4. QED
  BY <1>1, <1>2, <1>3 DEF Gettable, InUse

\* The WaitGroup of a request counts a finite number of goroutines.
LEMMA BusyIsFinite ==
    ASSUME NEW r \in Requests
    PROVE  IsFiniteSet(Busy(r)) /\ Cardinality(Busy(r)) \in Nat
<1>1. Busy(r) \in SUBSET Backends BY DEF Busy
<1>2. IsFiniteSet(Busy(r)) BY <1>1, HTTPAssumption, FS_Subset
<1>3. QED BY <1>2, FS_CardinalityType

\* Every step keeps the types.
LEMMA TypeStep ==
    ASSUME IInv, [Next]_vars
    PROVE  TypeOK'
<1> USE DEF TypeOK, reqVars, fanVars, poolVars, Goto, Reply, Put
<1>t. TypeOK BY DEF IInv
<1>g. Gettable \subseteq Buffers BY Pool
<1>c. Classes \subseteq 1..5 /\ Cardinality(Backends) \in Nat
  BY HTTPAssumption, FS_CardinalityType
<1>b. \A r \in Requests : Empty \in Contents /\ BodyOf(r) \in Contents /\ LinesOf(r) \in Contents
  BY DEF Contents
<1>r. ASSUME NEW r \in Requests, NEW code \in Nat,
             NEW from \in {"nobody", "relay", "panic", "backend"}, Reply(r, code, from)
      PROVE  reply' \in [Requests -> [code : Nat, from : {"nobody", "relay", "panic", "backend"}]]
  BY <1>r, <1>t
<1>o. ASSUME NEW r \in Requests, pc[r] \in {"parse", "encode"}
      PROVE  bodyBuf[r] \in Buffers /\ content[bodyBuf[r]] = BodyOf(r)
  BY <1>o DEF IInv, Owned, Owns
<1>1. ASSUME NEW r \in Requests, Reject(r) PROVE TypeOK'
  <2>1. PICK code \in Nat : Reply(r, code, "relay")
    BY <1>1 DEF Reject, JsonError
  <2>2. reply' \in [Requests -> [code : Nat, from : {"nobody", "relay", "panic", "backend"}]]
    BY <1>r, <2>1
  <2>3. QED BY <1>1, <1>t, <2>2 DEF Reject
<1>2. ASSUME NEW r \in Requests, BadGzip(r) PROVE TypeOK'
  BY <1>2, <1>t DEF BadGzip
<1>3. ASSUME NEW r \in Requests, ReadBody(r) PROVE TypeOK'
  BY <1>3, <1>t, <1>g, <1>b DEF ReadBody
<1>4. ASSUME NEW r \in Requests, Unusable(r) PROVE TypeOK'
  <2>1. bodyBuf[r] \in Buffers BY <1>4, <1>o DEF Unusable
  <2>2. pool' \subseteq Buffers /\ content' \in [Buffers -> Contents]
    BY <1>4, <1>t, <1>b, <2>1 DEF Unusable
  <2>3. QED BY <1>4, <1>t, <2>2 DEF Unusable, JsonError
<1>5. ASSUME NEW r \in Requests, Parse(r) PROVE TypeOK'
  BY <1>5, <1>t DEF Parse
<1>6. ASSUME NEW r \in Requests, Encode(r) PROVE TypeOK'
  <2>1. bodyBuf[r] \in Buffers /\ content[bodyBuf[r]] = BodyOf(r)
    BY <1>6, <1>o DEF Encode
  <2>2. Lines(content[bodyBuf[r]]) = LinesOf(r)
    BY <2>1 DEF Lines, BodyOf
  <2>3. PICK i \in Gettable :
           /\ outBuf' = [outBuf EXCEPT ![r] = i]
           /\ pool' = (pool \ {i}) \cup {bodyBuf[r]}
           /\ content' = [content EXCEPT ![i] = LinesOf(r), ![bodyBuf[r]] = Empty]
    BY <1>6, <2>2 DEF Encode
  <2>4. pool' \subseteq Buffers /\ content' \in [Buffers -> Contents]
    BY <1>t, <1>g, <1>b, <2>1, <2>3
  <2>5. outBuf' \in [Requests -> Buffers \cup {Unused}]
    BY <1>t, <1>g, <2>3
  <2>6. QED BY <1>6, <1>t, <2>4, <2>5 DEF Encode
<1>7. ASSUME NEW r \in Requests, FanOut(r) PROVE TypeOK'
  <2>1. wg' \in [Requests -> Nat]
    BY <1>7, <1>t, <1>c DEF FanOut
  <2>2. poster' \in [Requests -> [Backends -> {"off", "post", "send", "finish", "gone"}]]
    BY <1>7, <1>t DEF FanOut
  <2>3. QED BY <1>7, <1>t, <2>1, <2>2 DEF FanOut
<1>8. ASSUME NEW r \in Requests,
             ReceiveSuccess(r) \/ ReceiveUserError(r) \/ ReceiveOther(r)
      PROVE TypeOK'
  <2>1. responses[r] # <<>> /\ Head(responses[r]) \in Classes
           /\ responses' = [responses EXCEPT ![r] = Tail(@)]
    BY <1>8, <1>t, HeadTailProperties
       DEF ReceiveSuccess, ReceiveUserError, ReceiveOther, Take
  <2>2. Tail(responses[r]) \in Seq(Classes)
    BY <2>1, <1>t, HeadTailProperties
  <2>3. CASE ReceiveSuccess(r) \/ ReceiveUserError(r)
    <3>1. PICK code \in Nat : Reply(r, code, "backend")
      BY <2>3 DEF ReceiveSuccess, ReceiveUserError, Forward
    <3>2. reply' \in [Requests -> [code : Nat, from : {"nobody", "relay", "panic", "backend"}]]
      BY <1>r, <3>1
    <3>3. QED
      BY <2>3, <1>t, <2>1, <2>2, <3>2 DEF ReceiveSuccess, ReceiveUserError, Take
  <2>4. CASE ReceiveOther(r)
    BY <2>4, <1>t, <2>1, <2>2 DEF ReceiveOther, Take
  <2>5. QED BY <1>8, <2>3, <2>4
<1>9. ASSUME NEW r \in Requests, GiveUp(r) PROVE TypeOK'
  <2>1. CASE errResponse[r] = Error
    <3>1. PICK code \in Nat : Reply(r, code, "relay")
      BY <1>9, <2>1 DEF GiveUp, JsonError
    <3>2. reply' \in [Requests -> [code : Nat, from : {"nobody", "relay", "panic", "backend"}]]
      BY <1>r, <3>1
    <3>3. QED BY <1>9, <1>t, <3>2 DEF GiveUp
  <2>2. CASE errResponse[r] # Error
    <3>1. errResponse[r] \in Classes BY <2>2, <1>t
    <3>2. errResponse[r] \in 1..5 BY <3>1, <1>c
    <3>3. 100 * errResponse[r] \in Nat BY <3>2
    <3>4. Reply(r, 100 * errResponse[r], "backend") BY <1>9, <2>2 DEF GiveUp, Forward
    <3>5. reply' \in [Requests -> [code : Nat, from : {"nobody", "relay", "panic", "backend"}]]
      BY <1>r, <3>3, <3>4
    <3>6. QED BY <1>9, <1>t, <3>5 DEF GiveUp
  <2>3. QED BY <2>1, <2>2
<1>10. ASSUME NEW r \in Requests, NEW b \in Backends, Send(r, b) PROVE TypeOK'
  <2>1. poster[r][b] = "send" BY <1>10 DEF Send, PosterGoto
  <2>2. answer[r][b] # Error /\ answer[r][b] # Pending
    BY <2>1 DEF IInv, Channel
  <2>3. answer[r][b] \in Classes BY <2>2, <1>t
  <2>4. responses[r] \in Seq(Classes) BY <1>t
  <2>5. Append(responses[r], answer[r][b]) \in Seq(Classes)
    BY <2>3, <2>4, AppendProperties
  <2>6. QED BY <1>10, <1>t, <2>5 DEF Send, PosterGoto
<1>11. ASSUME NEW r \in Requests, NEW b \in Backends, Finish(r, b) PROVE TypeOK'
  <2>1. wg[r] = Cardinality(Busy(r)) /\ b \in Busy(r)
    BY <1>11 DEF IInv, Phases, Busy, Finish, PosterGoto
  <2>2. wg[r] - 1 \in Nat
    BY <2>1, BusyIsFinite, FS_EmptySet, <1>t
  <2>3. QED BY <1>11, <1>t, <2>2 DEF Finish, PosterGoto
<1>12. ASSUME NEW r \in Requests, Close(r) PROVE TypeOK'
  BY <1>12, <1>t DEF Close
<1>13. ASSUME NEW r \in Requests, PutOutBuf(r) PROVE TypeOK'
  BY <1>13, <1>t DEF PutOutBuf, IInv, Owned, Owns, Contents
<1>14. ASSUME NEW r \in Requests, NEW b \in Backends, PostReturns(r, b) PROVE TypeOK'
  BY <1>14, <1>t DEF PostReturns, PosterGoto
<1>15. CASE UNCHANGED vars
  BY <1>15, <1>t DEF vars
<1>16. QED
  BY <1>1, <1>2, <1>3, <1>4, <1>5, <1>6, <1>7, <1>8, <1>9, <1>10, <1>11, <1>12,
     <1>13, <1>14, <1>15 DEF Next, Handle, WindUp, Stop

Active(r) == Handle(r) \/ WindUp(r) \/ \E b \in Backends : PostReturns(r, b)

\* The goroutines of a request keep in phase.
LEMMA PhaseStep ==
    ASSUME IInv, TypeOK', NEW r \in Requests, Active(r)
    PROVE  Phases(r)'
<1> USE DEF reqVars, fanVars, Goto
<1>t. TypeOK /\ Phases(r) BY DEF IInv
<1>1. CASE Handle(r) /\ ~FanOut(r)
  <2>1. UNCHANGED fanVars \/ UNCHANGED <<poster, wg, closed, closer>>
    BY <1>1 DEF Handle, Reject, BadGzip, ReadBody, Unusable, Parse, Encode, GiveUp,
                ReceiveSuccess, ReceiveUserError, ReceiveOther, Take
  <2>2. /\ pc'[r] = "receive" => pc[r] = "receive"
        /\ pc'[r] \in {"parse", "encode", "fanout"} => pc[r] \in {"new", "parse", "encode"}
        /\ pc'[r] # "new"
    BY <1>1, <1>t DEF TypeOK, Handle, Reject, BadGzip, ReadBody, Unusable, Parse, Encode,
                GiveUp, ReceiveSuccess, ReceiveUserError, ReceiveOther
  <2>3. Busy(r)' = Busy(r) BY <2>1 DEF Busy
  <2>4. QED BY <2>1, <2>2, <2>3, <1>t DEF Phases
<1>2. CASE FanOut(r)
  <2>1. /\ pc[r] = "fanout" /\ pc'[r] = "receive" /\ closer'[r] = "wait" /\ closed' = closed
        /\ wg'[r] = Cardinality(Backends) /\ \A b \in Backends : poster'[r][b] = "post"
    BY <1>2, <1>t DEF FanOut, TypeOK
  <2>2. Busy(r)' = Backends BY <2>1 DEF Busy
  <2>3. ~closed'[r] BY <2>1, <1>t DEF Phases
  <2>4. QED BY <2>1, <2>2, <2>3 DEF Phases
<1>3. ASSUME NEW b \in Backends, Send(r, b) \/ PostReturns(r, b) PROVE Phases(r)'
  <2>1. /\ poster[r][b] \in {"post", "send"} /\ poster'[r][b] \in {"send", "finish"}
        /\ \A c \in Backends \ {b} : poster'[r][c] = poster[r][c]
        /\ UNCHANGED <<pc, wg, closed, closer>>
    BY <1>3, <1>t DEF Send, PostReturns, PosterGoto, TypeOK
  <2>2. Busy(r)' = Busy(r) BY <2>1 DEF Busy
  <2>3. QED BY <2>1, <2>2, <1>t DEF Phases
<1>4. ASSUME NEW b \in Backends, Finish(r, b) PROVE Phases(r)'
  <2>1. /\ poster[r][b] = "finish" /\ poster'[r][b] = "gone"
        /\ \A c \in Backends \ {b} : poster'[r][c] = poster[r][c]
        /\ wg'[r] = wg[r] - 1 /\ UNCHANGED <<pc, closed, closer>>
    BY <1>4, <1>t DEF Finish, PosterGoto, TypeOK
  <2>2. Busy(r)' = Busy(r) \ {b} /\ b \in Busy(r) BY <2>1 DEF Busy
  <2>3. Cardinality(Busy(r)') = Cardinality(Busy(r)) - 1
    BY <2>2, BusyIsFinite, FS_RemoveElement
  <2>4. QED BY <2>1, <2>2, <2>3, <1>t DEF Phases
<1>5. CASE Close(r)
  <2>1. /\ closer[r] = "wait" /\ wg[r] = 0 /\ closer'[r] = "put" /\ closed'[r]
        /\ UNCHANGED <<pc, poster, wg>>
    BY <1>5, <1>t DEF Close, TypeOK
  <2>2. Busy(r) = {} BY <2>1, <1>t, BusyIsFinite, FS_EmptySet DEF Phases
  <2>3. Busy(r)' = Busy(r) BY <2>1 DEF Busy
  <2>4. QED BY <2>1, <2>2, <2>3, <1>t DEF Phases
<1>6. CASE PutOutBuf(r)
  <2>1. closer[r] = "put" /\ closer'[r] = "gone" /\ UNCHANGED <<pc, poster, wg, closed>>
    BY <1>6, <1>t DEF PutOutBuf, TypeOK
  <2>2. Busy(r)' = Busy(r) BY <2>1 DEF Busy
  <2>3. QED BY <2>1, <2>2, <1>t DEF Phases
<1>7. QED BY <1>1, <1>2, <1>3, <1>4, <1>5, <1>6 DEF Active, WindUp

\* A client is answered once, and by the relay only when no post is under way.
LEMMA SilenceStep ==
    ASSUME IInv, TypeOK', NEW r \in Requests, Active(r)
    PROVE  Silence(r)'
<1> USE DEF reqVars, fanVars, Goto
<1>t. TypeOK /\ Phases(r) /\ Silence(r) BY DEF IInv
<1>1. CASE Reject(r) \/ BadGzip(r) \/ Unusable(r) \/ GiveUp(r)
  <2>1. closer[r] = "off" \/ closed[r]
    BY <1>1, <1>t DEF Reject, BadGzip, Unusable, GiveUp, Phases, TypeOK
  <2>2. pc'[r] = "done" /\ UNCHANGED poster
    BY <1>1, <1>t DEF Reject, BadGzip, Unusable, GiveUp, TypeOK
  <2>3. Busy(r)' = {} BY <2>1, <2>2, <1>t DEF Phases, Busy
  <2>4. QED BY <2>2, <2>3 DEF Silence
<1>2. CASE ReceiveSuccess(r) \/ ReceiveUserError(r)
  <2>1. pc'[r] = "done" /\ reply'[r].from = "backend"
    BY <1>2, <1>t DEF ReceiveSuccess, ReceiveUserError, Reply, Forward, TypeOK
  <2>2. QED BY <2>1 DEF Silence
<1>3. CASE ReadBody(r) \/ Parse(r) \/ Encode(r) \/ FanOut(r) \/ ReceiveOther(r)
  <2>1. reply' = reply /\ pc[r] # "done"
    BY <1>3 DEF ReadBody, Parse, Encode, FanOut, ReceiveOther
  <2>2. QED BY <2>1, <1>t DEF Silence, NoReply
<1>4. CASE WindUp(r) \/ \E b \in Backends : PostReturns(r, b)
  <2>1. UNCHANGED <<pc, reply>>
    BY <1>4 DEF WindUp, Send, Finish, Close, PutOutBuf, PostReturns
  <2>2. Busy(r)' \subseteq Busy(r)
    BY <1>4, <1>t DEF Busy, WindUp, Send, Finish, Close, PutOutBuf, PostReturns, PosterGoto, TypeOK
  <2>3. QED BY <2>1, <2>2, <1>t DEF Silence
<1>5. QED BY <1>1, <1>2, <1>3, <1>4 DEF Active, Handle

\* A class that is taken from the channel was in it.
LEMMA TakeFirst ==
    ASSUME TypeOK, NEW r \in Requests, NEW classes, Take(r, classes)
    PROVE  /\ Len(responses[r]) \in Nat \ {0}
           /\ responses[r][1] \in classes \cap Classes
           /\ Head(responses[r]) = responses[r][1]
           /\ responses'[r] = Tail(responses[r])
           /\ Len(responses'[r]) = Len(responses[r]) - 1
           /\ \A i \in 1..Len(responses'[r]) : responses'[r][i] = responses[r][i + 1]
<1>1. responses[r] \in Seq(Classes) /\ responses[r] # <<>> BY DEF TypeOK, Take
<1>2. responses'[r] = Tail(responses[r]) /\ Head(responses[r]) \in classes
  BY DEF TypeOK, Take
<1>3. QED BY <1>1, <1>2, HeadTailProperties, LenProperties

\* What a backend says reaches the channel or errResponse, and nothing else does.
LEMMA ChannelStep ==
    ASSUME IInv, TypeOK', NEW r \in Requests, Active(r)
    PROVE  Channel(r)'
<1> USE DEF reqVars, fanVars, Goto
<1>t. TypeOK /\ Phases(r) /\ Channel(r) BY DEF IInv
<1>c. Classes \subseteq 1..5 /\ Error \notin Classes /\ Pending \notin Classes /\ Error # Pending
  BY HTTPAssumption DEF Error, Pending
<1>1. CASE \/ Reject(r) \/ BadGzip(r) \/ ReadBody(r) \/ Unusable(r) \/ Parse(r) \/ Encode(r)
           \/ GiveUp(r) \/ Close(r) \/ PutOutBuf(r)
  <2>1. UNCHANGED <<poster, answer, responses, errResponse>>
    BY <1>1 DEF Reject, BadGzip, ReadBody, Unusable, Parse, Encode, GiveUp, Close, PutOutBuf
  <2>2. pc'[r] = "receive" => pc[r] = "receive"
    BY <1>1, <1>t DEF Reject, BadGzip, ReadBody, Unusable, Parse, Encode, GiveUp, Close,
                      PutOutBuf, TypeOK
  <2>3. closer'[r] = "off" => closer[r] = "off"
    BY <1>1, <1>t DEF Reject, BadGzip, ReadBody, Unusable, Parse, Encode, GiveUp, Close,
                      PutOutBuf, TypeOK
  <2>4. Answers(r)' = Answers(r) /\ \A b \in Backends : HasSent(r, b)' <=> HasSent(r, b)
    BY <2>1 DEF Answers, HasSent
  <2>5. QED BY <2>1, <2>2, <2>3, <2>4, <1>t DEF Channel
<1>2. CASE FanOut(r)
  <2>1. /\ \A b \in Backends : poster[r][b] = "off" /\ poster'[r][b] = "post"
        /\ closer'[r] = "wait" /\ UNCHANGED <<answer, responses, errResponse>>
    BY <1>2, <1>t DEF FanOut, Phases, TypeOK
  <2>2. Answers(r)' = Answers(r) /\ \A b \in Backends : ~HasSent(r, b)'
    BY <2>1 DEF Answers, HasSent
  <2>3. QED BY <2>1, <2>2, <1>t DEF Channel
<1>3. ASSUME NEW b \in Backends, PostReturns(r, b) PROVE Channel(r)'
  <2>1. PICK a \in Classes \cup {Error} :
           /\ PosterGoto(r, b, "post", IF a = Error THEN "finish" ELSE "send")
           /\ answer' = [answer EXCEPT ![r][b] = a]
           /\ UNCHANGED <<pc, responses, closer, errResponse>>
    BY <1>3 DEF PostReturns
  <2>2. /\ poster[r][b] = "post" /\ answer[r][b] = Pending /\ closer[r] # "off"
        /\ poster'[r][b] = (IF a = Error THEN "finish" ELSE "send")
        /\ answer'[r][b] = a
        /\ \A c \in Backends \ {b} : poster'[r][c] = poster[r][c] /\ answer'[r][c] = answer[r][c]
    BY <2>1, <1>t DEF PosterGoto, TypeOK, Channel, Phases
  <2>3. Answers(r) \ {Pending} \subseteq Answers(r)'
    BY <2>2 DEF Answers
  <2>4. \A i \in 1..Len(responses[r]) : responses[r][i] \in Classes
    BY <1>t DEF TypeOK
  <2>5. ~HasSent(r, b)' /\ \A c \in Backends \ {b} : HasSent(r, c)' <=> HasSent(r, c)
    BY <2>2 DEF HasSent
  <2>6. errResponse[r] # Pending BY <1>t, <1>c DEF TypeOK
  <2>a. a # Pending BY <1>c
  <2>7. \A c \in Backends :
          /\ poster'[r][c] \in {"off", "post"} <=> answer'[r][c] = Pending
          /\ poster'[r][c] = "send" => answer'[r][c] # Error
    BY <2>2, <2>a, <1>t DEF Channel
  <2>8. \A i \in 1..Len(responses[r]) : responses[r][i] \in Answers(r)'
    BY <2>3, <2>4, <1>c, <1>t DEF Channel
  <2>9. errResponse[r] # Error => errResponse[r] \in Answers(r)' \cap {1, 3, 5}
    BY <2>3, <2>6, <1>t DEF Channel
  <2>10. QED BY <2>1, <2>2, <2>5, <2>7, <2>8, <2>9, <1>t DEF Channel
<1>4. ASSUME NEW b \in Backends, Send(r, b) PROVE Channel(r)'
  <2>1. /\ poster[r][b] = "send" /\ poster'[r][b] = "finish"
        /\ \A c \in Backends \ {b} : poster'[r][c] = poster[r][c]
        /\ responses'[r] = Append(responses[r], answer[r][b])
        /\ UNCHANGED <<pc, answer, closer, errResponse>> /\ closer[r] # "off"
    BY <1>4, <1>t DEF Send, PosterGoto, TypeOK, Phases
  <2>2. answer[r][b] \in Classes
    BY <2>1, <1>t DEF Channel, TypeOK
  <2>3. responses[r] \in Seq(Classes) BY <1>t DEF TypeOK
  <2>4. /\ Len(responses'[r]) = Len(responses[r]) + 1
        /\ responses'[r][Len(responses[r]) + 1] = answer[r][b]
        /\ \A i \in 1..Len(responses[r]) : responses'[r][i] = responses[r][i]
        /\ Len(responses[r]) \in Nat
    BY <2>1, <2>2, <2>3, AppendProperties, LenProperties
  <2>5. Answers(r)' = Answers(r) /\ answer[r][b] \in Answers(r)
    BY <2>1 DEF Answers
  <2>6. \A c \in Backends \ {b} : HasSent(r, c)' <=> HasSent(r, c)
    BY <2>1 DEF HasSent
  <2>7. ASSUME NEW i \in 1..Len(responses'[r]) PROVE responses'[r][i] \in Answers(r)'
    <3>1. CASE i = Len(responses[r]) + 1
      <4>1. responses'[r][i] = answer[r][b] BY <3>1, <2>4
      <4>2. QED BY <4>1, <2>5
    <3>2. CASE i \in 1..Len(responses[r])
      <4>1. responses'[r][i] = responses[r][i] BY <3>2, <2>4
      <4>2. responses[r][i] \in Answers(r) BY <3>2, <1>t DEF Channel
      <4>3. QED BY <4>1, <4>2, <2>5
    <3>3. QED BY <3>1, <3>2, <2>4
  <2>8. \E i \in 1..Len(responses'[r]) : responses'[r][i] = answer'[r][b]
    BY <2>1, <2>4
  <2>9. \A c \in Backends \ {b} :
          (\E i \in 1..Len(responses[r]) : responses[r][i] = answer[r][c])
             => \E i \in 1..Len(responses'[r]) : responses'[r][i] = answer'[r][c]
    BY <2>1, <2>4
  <2>10. pc'[r] = "receive" => \A c \in Backends : HasSent(r, c)' =>
            \/ \E i \in 1..Len(responses'[r]) : responses'[r][i] = answer'[r][c]
            \/ (answer'[r][c] \in {1, 3, 5} /\ errResponse'[r] # Error)
    BY <2>1, <2>6, <2>8, <2>9, <1>t DEF Channel
  <2>11. QED BY <2>1, <2>5, <2>7, <2>10, <1>t DEF Channel
<1>5. ASSUME NEW b \in Backends, Finish(r, b) PROVE Channel(r)'
  <2>1. /\ poster[r][b] = "finish" /\ poster'[r][b] = "gone"
        /\ \A c \in Backends \ {b} : poster'[r][c] = poster[r][c]
        /\ UNCHANGED <<pc, answer, responses, closer, errResponse>>
    BY <1>5, <1>t DEF Finish, PosterGoto, TypeOK
  <2>2. Answers(r)' = Answers(r) /\ \A c \in Backends : HasSent(r, c)' <=> HasSent(r, c)
    BY <2>1 DEF Answers, HasSent
  <2>3. QED BY <2>1, <2>2, <1>t DEF Channel
<1>6. CASE ReceiveSuccess(r) \/ ReceiveUserError(r) \/ ReceiveOther(r)
  <2>1. PICK classes : Take(r, classes) BY <1>6 DEF ReceiveSuccess, ReceiveUserError, ReceiveOther
  <2>2. /\ Len(responses[r]) \in Nat \ {0}
        /\ Len(responses'[r]) = Len(responses[r]) - 1
        /\ \A i \in 1..Len(responses'[r]) : responses'[r][i] = responses[r][i + 1]
    BY <2>1, <1>t, TakeFirst
  <2>3. UNCHANGED <<poster, answer, closer>> /\ pc[r] = "receive"
    BY <1>6 DEF ReceiveSuccess, ReceiveUserError, ReceiveOther, Take
  <2>4. Answers(r)' = Answers(r) /\ \A c \in Backends : HasSent(r, c)' <=> HasSent(r, c)
    BY <2>3 DEF Answers, HasSent
  <2>5. ASSUME NEW i \in 1..Len(responses'[r]) PROVE responses'[r][i] \in Answers(r)'
    <3>1. i + 1 \in 1..Len(responses[r]) /\ responses'[r][i] = responses[r][i + 1] BY <2>2
    <3>2. responses[r][i + 1] \in Answers(r) BY <3>1, <1>t DEF Channel
    <3>3. QED BY <3>1, <3>2, <2>4
  <2>6. closer[r] # "off" BY <2>3, <1>t DEF Phases
  <2>7. CASE ReceiveSuccess(r) \/ ReceiveUserError(r)
    <3>1. pc'[r] = "done" /\ errResponse' = errResponse
      BY <2>7, <1>t DEF ReceiveSuccess, ReceiveUserError, TypeOK
    <3>2. QED BY <2>3, <2>4, <2>5, <2>6, <3>1, <1>t DEF Channel
  <2>8. CASE ReceiveOther(r)
    <3>1. /\ responses[r][1] \in {1, 3, 5} \cap Classes
          /\ errResponse'[r] = responses[r][1]
      <4>1. Take(r, {1, 3, 5}) BY <2>8 DEF ReceiveOther
      <4>2. errResponse'[r] = Head(responses[r]) BY <2>8, <1>t DEF ReceiveOther, TypeOK
      <4>3. QED BY <4>1, <4>2, <1>t, TakeFirst
    <3>2. responses[r][1] \in Answers(r) BY <2>2, <1>t DEF Channel
    <3>3. errResponse'[r] # Error BY <3>1, <1>c
    <3>4. ASSUME NEW c \in Backends, HasSent(r, c)
          PROVE  \/ \E i \in 1..Len(responses'[r]) : responses'[r][i] = answer'[r][c]
                 \/ (answer'[r][c] \in {1, 3, 5} /\ errResponse'[r] # Error)
      <4>1. CASE \E i \in 1..Len(responses[r]) : responses[r][i] = answer[r][c]
        <5>1. PICK i \in 1..Len(responses[r]) : responses[r][i] = answer[r][c] BY <4>1
        <5>2. CASE i = 1 BY <5>1, <5>2, <3>1, <3>3, <2>3
        <5>3. CASE i # 1
          <6>1. i - 1 \in 1..Len(responses'[r]) BY <5>3, <2>2
          <6>2. responses'[r][i - 1] = responses[r][i] BY <6>1, <2>2
          <6>3. QED BY <6>1, <6>2, <5>1, <2>3
        <5>4. QED BY <5>2, <5>3
      <4>2. CASE answer[r][c] \in {1, 3, 5} /\ errResponse[r] # Error
        BY <4>2, <3>3, <2>3
      <4>3. QED BY <4>1, <4>2, <3>4, <2>3, <1>t DEF Channel
    <3>5. QED BY <2>3, <2>4, <2>5, <2>6, <3>1, <3>2, <3>4, <1>t DEF Channel
  <2>9. QED BY <1>6, <2>7, <2>8
<1>7. QED BY <1>1, <1>2, <1>3, <1>4, <1>5, <1>6 DEF Active, Handle, WindUp

HoldsBody(r) == pc[r] \in {"parse", "encode"}
HoldsLines(r) == pc[r] = "fanout" \/ closer[r] \in {"wait", "put"}

\* What the steps that touch no buffer leave as it is.
LEMMA OwnedKept ==
    ASSUME Owned, UNCHANGED <<bodyBuf, outBuf, content>>, pool' \subseteq pool,
           \A r \in Requests :
              (HoldsBody(r)' <=> HoldsBody(r)) /\ (HoldsLines(r)' <=> HoldsLines(r))
    PROVE  Owned'
<1>1. ASSUME NEW r \in Requests PROVE Owns(r)'
  <2>1. Owns(r) /\ (HoldsBody(r)' <=> HoldsBody(r)) /\ (HoldsLines(r)' <=> HoldsLines(r))
    BY DEF Owned
  <2>2. bodyBuf[r] \notin pool' /\ outBuf[r] \notin pool' BY <2>1 DEF Owns
  <2>3. QED BY <2>1, <2>2 DEF Owns, HoldsBody, HoldsLines
<1>2. \A q, r \in Requests : Apart(q, r)' BY DEF Owned, Apart
<1>3. QED BY <1>1, <1>2 DEF Owned

\* A buffer has one owner at a time.
LEMMA OwnedStep ==
    ASSUME IInv, TypeOK', NEW r \in Requests, Active(r)
    PROVE  Owned'
<1> USE DEF reqVars, fanVars, poolVars, Goto
<1>t. TypeOK /\ Owned /\ Phases(r) BY DEF IInv
<1>u. Unused \notin Buffers BY Pool
<1>o. \A q \in Requests \ {r} :
         /\ bodyBuf'[q] = bodyBuf[q] /\ outBuf'[q] = outBuf[q]
         /\ pc'[q] = pc[q] /\ closer'[q] = closer[q]
  BY Others DEF Active
<1>h. \A q \in Requests \ {r} :
         (HoldsBody(q)' <=> HoldsBody(q)) /\ (HoldsLines(q)' <=> HoldsLines(q))
  BY <1>o DEF HoldsBody, HoldsLines
<1>1. CASE Reject(r) \/ BadGzip(r) \/ Parse(r) \/ GiveUp(r)
  <2>1. UNCHANGED <<bodyBuf, outBuf, content, closer>> /\ pool' \subseteq pool
    BY <1>1 DEF Reject, BadGzip, Parse, GiveUp
  <2>2. (HoldsBody(r)' <=> HoldsBody(r)) /\ (HoldsLines(r)' <=> HoldsLines(r))
    BY <1>1, <2>1, <1>t DEF Reject, BadGzip, Parse, GiveUp, HoldsBody, HoldsLines, TypeOK
  <2>3. QED BY <2>1, <2>2, <1>h, <1>t, OwnedKept
<1>2. CASE FanOut(r) \/ ReceiveSuccess(r) \/ ReceiveUserError(r) \/ ReceiveOther(r)
  <2>1. UNCHANGED <<bodyBuf, outBuf, content, pool>>
    BY <1>2 DEF FanOut, ReceiveSuccess, ReceiveUserError, ReceiveOther, Take
  <2>2. (HoldsBody(r)' <=> HoldsBody(r)) /\ (HoldsLines(r)' <=> HoldsLines(r))
    BY <1>2, <1>t DEF FanOut, ReceiveSuccess, ReceiveUserError, ReceiveOther, Take,
                      HoldsBody, HoldsLines, TypeOK
  <2>3. QED BY <2>1, <2>2, <1>h, <1>t, OwnedKept
<1>3. CASE \/ \E b \in Backends : Send(r, b) \/ Finish(r, b) \/ PostReturns(r, b)
           \/ Close(r)
  <2>1. UNCHANGED <<bodyBuf, outBuf, content, pool, pc>>
    BY <1>3 DEF Send, Finish, PostReturns, Close
  <2>2. closer'[r] = closer[r] \/ (closer[r] = "wait" /\ closer'[r] = "put")
    <3>1. CASE Close(r) BY <3>1, <1>t DEF Close, TypeOK
    <3>2. CASE \E b \in Backends : Send(r, b) \/ Finish(r, b) \/ PostReturns(r, b)
      BY <3>2 DEF Send, Finish, PostReturns
    <3>3. QED BY <1>3, <3>1, <3>2
  <2>3. (HoldsBody(r)' <=> HoldsBody(r)) /\ (HoldsLines(r)' <=> HoldsLines(r))
    BY <2>1, <2>2 DEF HoldsBody, HoldsLines
  <2>4. QED BY <2>1, <2>3, <1>h, <1>t, OwnedKept
<1>4. CASE ReadBody(r)
  <2>1. PICK i \in Gettable :
           /\ bodyBuf' = [bodyBuf EXCEPT ![r] = i]
           /\ pool' = pool \ {i}
           /\ content' = [content EXCEPT ![i] = BodyOf(r)]
    BY <1>4 DEF ReadBody
  <2>2. /\ i \in Buffers /\ i # Unused
        /\ \A q \in Requests : i # bodyBuf[q] /\ i # outBuf[q]
    BY <1>u, Pool
  <2>3. bodyBuf'[r] = i /\ outBuf' = outBuf /\ content'[i] = BodyOf(r) /\ i \notin pool'
    BY <2>1, <2>2, <1>4, <1>t DEF ReadBody, TypeOK
  <2>4. \A j \in Buffers : j # i => content'[j] = content[j]
    BY <2>1, <1>t DEF TypeOK
  <2>5. pc[r] = "new" /\ pc'[r] = "parse" /\ closer' = closer /\ closer[r] = "off"
    BY <1>4, <1>t DEF ReadBody, TypeOK, Phases
  <2>6. \A q \in Requests : Owns(q)'
    <3>1. ASSUME NEW q \in Requests \ {r}
          PROVE  content'[bodyBuf[q]] = content[bodyBuf[q]] \/ bodyBuf[q] \notin Buffers
      BY <2>2, <2>4
    <3>2. ASSUME NEW q \in Requests
          PROVE  content'[outBuf[q]] = content[outBuf[q]] \/ outBuf[q] \notin Buffers
      BY <2>2, <2>4
    <3>3. pool' \subseteq pool BY <2>1
    <3>4. QED BY <3>1, <3>2, <3>3, <2>2, <2>3, <2>5, <1>o, <1>t DEF Owned, Owns
  <2>7. \A p, q \in Requests : Apart(p, q)'
    BY <2>2, <2>3, <1>o, <1>t DEF Owned, Apart
  <2>8. QED BY <2>6, <2>7 DEF Owned
<1>5. CASE Unusable(r)
  <2>1. bodyBuf[r] \in Buffers BY <1>5, <1>t DEF Unusable, Owned, Owns
  <2>2. /\ bodyBuf' = [bodyBuf EXCEPT ![r] = Unused] /\ outBuf' = outBuf /\ closer' = closer
        /\ pool' = pool \cup {bodyBuf[r]}
        /\ content' = [content EXCEPT ![bodyBuf[r]] = Empty]
        /\ pc[r] = "parse" /\ pc'[r] = "done" /\ bodyBuf'[r] = Unused
    BY <1>5, <1>t DEF Unusable, Put, TypeOK
  <2>3. closer[r] = "off" BY <2>2, <1>t DEF Phases
  <2>4. \A j \in Buffers : j # bodyBuf[r] => content'[j] = content[j]
    BY <2>2, <1>t DEF TypeOK
  <2>5. \A q \in Requests : Owns(q)'
    <3>1. \A q \in Requests \ {r} : bodyBuf[q] # bodyBuf[r]
      BY <2>1, <1>u, <1>t DEF Owned, Owns, Apart
    <3>2. \A q \in Requests : outBuf[q] # bodyBuf[r]
      BY <2>1, <1>u, <1>t DEF Owned, Owns, Apart
    <3>3. Unused \notin pool' BY <2>1, <2>2, <1>u, <1>t DEF TypeOK
    <3>4. QED BY <3>1, <3>2, <3>3, <2>2, <2>3, <2>4, <1>o, <1>t DEF Owned, Owns
  <2>6. \A p, q \in Requests : Apart(p, q)'
    BY <2>2, <1>o, <1>t DEF Owned, Apart
  <2>7. QED BY <2>5, <2>6 DEF Owned
<1>6. CASE Encode(r)
  <2>a. bodyBuf[r] \in Buffers /\ content[bodyBuf[r]] = BodyOf(r)
    BY <1>6, <1>t DEF Encode, Owned, Owns
  <2>1. bodyBuf[r] \in Buffers /\ Lines(content[bodyBuf[r]]) = LinesOf(r)
    BY <2>a DEF Lines, BodyOf
  <2>2. PICK i \in Gettable :
           /\ outBuf' = [outBuf EXCEPT ![r] = i]
           /\ pool' = (pool \ {i}) \cup {bodyBuf[r]}
           /\ content' = [content EXCEPT ![i] = LinesOf(r), ![bodyBuf[r]] = Empty]
    BY <1>6, <2>1 DEF Encode
  <2>3. /\ i \in Buffers /\ i # Unused
        /\ \A q \in Requests : i # bodyBuf[q] /\ i # outBuf[q]
    BY <1>u, Pool
  <2>4. /\ bodyBuf'[r] = Unused /\ outBuf'[r] = i /\ content'[i] = LinesOf(r)
        /\ i \notin pool' /\ closer' = closer /\ pc[r] = "encode" /\ pc'[r] = "fanout"
        /\ \A j \in Buffers : j \notin {i, bodyBuf[r]} => content'[j] = content[j]
    BY <2>1, <2>2, <2>3, <1>6, <1>t DEF Encode, TypeOK
  <2>5. \A q \in Requests \ {r} : bodyBuf[q] # bodyBuf[r] /\ outBuf[q] # bodyBuf[r]
    BY <2>1, <1>u, <1>t DEF Owned, Owns, Apart
  <2>6. \A q \in Requests : Owns(q)'
    <3>1. Unused \notin pool' BY <2>1, <2>2, <1>u, <1>t DEF TypeOK
    <3>2. \A q \in Requests \ {r} : bodyBuf[q] \notin pool' /\ outBuf[q] \notin pool'
      BY <2>2, <2>5, <1>t DEF Owned, Owns
    <3>3. \A q \in Requests \ {r} :
             /\ bodyBuf[q] \in Buffers => content'[bodyBuf[q]] = content[bodyBuf[q]]
             /\ outBuf[q] \in Buffers => content'[outBuf[q]] = content[outBuf[q]]
      BY <2>3, <2>4, <2>5
    <3>4. QED BY <3>1, <3>2, <3>3, <2>3, <2>4, <1>o, <1>t DEF Owned, Owns
  <2>7. \A p, q \in Requests : Apart(p, q)'
    BY <2>3, <2>4, <1>o, <1>t DEF Owned, Apart
  <2>8. QED BY <2>6, <2>7 DEF Owned
<1>7. CASE PutOutBuf(r)
  <2>1. outBuf[r] \in Buffers BY <1>7, <1>t DEF PutOutBuf, Owned, Owns
  <2>2. /\ outBuf' = [outBuf EXCEPT ![r] = Unused] /\ bodyBuf' = bodyBuf /\ pc' = pc
        /\ pool' = pool \cup {outBuf[r]}
        /\ content' = [content EXCEPT ![outBuf[r]] = Empty]
        /\ closer[r] = "put" /\ closer'[r] = "gone" /\ outBuf'[r] = Unused
    BY <1>7, <1>t DEF PutOutBuf, Put, TypeOK
  <2>3. pc[r] \notin {"parse", "encode", "fanout"} BY <2>2, <1>t DEF Phases
  <2>4. \A j \in Buffers : j # outBuf[r] => content'[j] = content[j]
    BY <2>2, <1>t DEF TypeOK
  <2>5. \A q \in Requests : Owns(q)'
    <3>1. \A q \in Requests \ {r} : outBuf[q] # outBuf[r]
      BY <2>1, <1>u, <1>t DEF Owned, Owns, Apart
    <3>2. \A q \in Requests : bodyBuf[q] # outBuf[r]
      BY <2>1, <1>u, <1>t DEF Owned, Owns, Apart
    <3>3. Unused \notin pool' BY <2>1, <2>2, <1>u, <1>t DEF TypeOK
    <3>4. QED BY <3>1, <3>2, <3>3, <2>2, <2>3, <2>4, <1>o, <1>t DEF Owned, Owns
  <2>6. \A p, q \in Requests : Apart(p, q)'
    BY <2>2, <1>o, <1>t DEF Owned, Apart
  <2>7. QED BY <2>5, <2>6 DEF Owned
<1>8. QED BY <1>1, <1>2, <1>3, <1>4, <1>5, <1>6, <1>7 DEF Active, Handle, WindUp

\* The goroutines of a request that have sent their reply are no more than the
\* backends, and fewer while one of them has not.
LEMMA SentIsFinite ==
    ASSUME NEW r \in Requests
    PROVE  /\ IsFiniteSet(Sent(r)) /\ Cardinality(Sent(r)) \in Nat
           /\ Cardinality(Sent(r)) <= Cardinality(Backends)
           /\ \A b \in Backends \ Sent(r) : Cardinality(Sent(r)) < Cardinality(Backends)
<1>1. Sent(r) \in SUBSET Backends BY DEF Sent
<1>2. IsFiniteSet(Sent(r)) /\ Cardinality(Sent(r)) <= Cardinality(Backends)
  BY <1>1, HTTPAssumption, FS_Subset
<1>3. Cardinality(Sent(r)) \in Nat /\ Cardinality(Backends) \in Nat
  BY <1>2, HTTPAssumption, FS_CardinalityType
<1>4. ASSUME NEW b \in Backends \ Sent(r)
      PROVE  Cardinality(Sent(r)) < Cardinality(Backends)
  <2>1. Sent(r) # Backends BY <1>4
  <2>2. Cardinality(Sent(r)) # Cardinality(Backends)
    BY <1>1, <2>1, HTTPAssumption, FS_Subset
  <2>3. QED BY <1>2, <1>3, <2>2
<1>5. QED BY <1>2, <1>3, <1>4

\* The channel gets no answer twice.
LEMMA RoomStep ==
    ASSUME IInv, TypeOK', NEW r \in Requests, Active(r)
    PROVE  Room(r)'
<1> USE DEF reqVars, fanVars, Goto
<1>t. TypeOK /\ Phases(r) /\ Channel(r) /\ Room(r) BY DEF IInv
<1>l. Len(responses[r]) \in Nat BY <1>t, LenProperties DEF TypeOK
<1>1. CASE \/ Reject(r) \/ BadGzip(r) \/ ReadBody(r) \/ Unusable(r) \/ Parse(r) \/ Encode(r)
           \/ GiveUp(r) \/ Close(r) \/ PutOutBuf(r)
  <2>1. UNCHANGED <<poster, answer, responses>>
    BY <1>1 DEF Reject, BadGzip, ReadBody, Unusable, Parse, Encode, GiveUp, Close, PutOutBuf
  <2>2. QED BY <2>1, <1>t DEF Room, Sent, HasSent
<1>2. CASE FanOut(r)
  <2>1. responses'[r] = <<>>
    BY <1>2, <1>t DEF FanOut, Phases, Channel
  <2>2. \A b \in Backends : poster'[r][b] = "post"
    BY <1>2, <1>t DEF FanOut, TypeOK
  <2>3. Sent(r)' = {} BY <2>2 DEF Sent, HasSent
  <2>4. Cardinality(Sent(r)') = 0 BY <2>3, FS_EmptySet
  <2>5. QED BY <2>1, <2>4 DEF Room
<1>3. ASSUME NEW b \in Backends, PostReturns(r, b) \/ Finish(r, b) PROVE Room(r)'
  <2>1. Sent(r)' = Sent(r)
    <3>1. HasSent(r, b)' <=> HasSent(r, b)
      <4>1. CASE PostReturns(r, b)
        BY <4>1, <1>t DEF PostReturns, PosterGoto, HasSent, TypeOK
      <4>2. CASE Finish(r, b)
        BY <4>2, <1>t DEF Finish, PosterGoto, HasSent, TypeOK
      <4>3. QED BY <1>3, <4>1, <4>2
    <3>2. \A c \in Backends \ {b} : HasSent(r, c)' <=> HasSent(r, c)
      BY <1>3, <1>t DEF PostReturns, Finish, PosterGoto, HasSent, TypeOK
    <3>3. QED BY <3>1, <3>2 DEF Sent
  <2>2. responses' = responses BY <1>3 DEF PostReturns, Finish
  <2>3. QED BY <2>1, <2>2, <1>t DEF Room
<1>4. ASSUME NEW b \in Backends, Send(r, b) PROVE Room(r)'
  <2>1. /\ poster[r][b] = "send" /\ poster'[r][b] = "finish" /\ answer' = answer
        /\ \A c \in Backends \ {b} : poster'[r][c] = poster[r][c]
        /\ responses'[r] = Append(responses[r], answer[r][b])
    BY <1>4, <1>t DEF Send, PosterGoto, TypeOK
  <2>2. answer[r][b] # Error /\ answer[r][b] # Pending BY <2>1, <1>t DEF Channel
  <2>3. answer[r][b] \in Classes BY <2>2, <1>t DEF TypeOK
  <2>4. responses[r] \in Seq(Classes) BY <1>t DEF TypeOK
  <2>5. Len(responses'[r]) = Len(responses[r]) + 1
    BY <2>1, <2>3, <2>4, AppendProperties
  <2>6. Sent(r)' = Sent(r) \cup {b} /\ b \notin Sent(r)
    BY <2>1, <2>2 DEF Sent, HasSent
  <2>7. Cardinality(Sent(r)') = Cardinality(Sent(r)) + 1
    BY <2>6, SentIsFinite, FS_AddElement
  <2>8. QED BY <2>5, <2>7, <1>l, <1>t, SentIsFinite DEF Room
<1>5. CASE ReceiveSuccess(r) \/ ReceiveUserError(r) \/ ReceiveOther(r)
  <2>1. PICK classes : Take(r, classes) BY <1>5 DEF ReceiveSuccess, ReceiveUserError, ReceiveOther
  <2>2. Len(responses'[r]) = Len(responses[r]) - 1 BY <2>1, <1>t, TakeFirst
  <2>3. Sent(r)' = Sent(r) BY <2>1 DEF Take, Sent, HasSent
  <2>4. QED BY <2>2, <2>3, <1>l, <1>t, SentIsFinite DEF Room
<1>6. QED BY <1>1, <1>2, <1>3, <1>4, <1>5 DEF Active, Handle, WindUp

\* A success is passed on, never made up.
LEMMA HonestStep ==
    ASSUME IInv, TypeOK', NEW r \in Requests, Active(r)
    PROVE  Honest(r)'
<1> USE DEF reqVars, fanVars, Goto, FannedOut
<1>t. TypeOK /\ Phases(r) /\ Silence(r) /\ Channel(r) /\ Honest(r) BY DEF IInv
<1>c. Classes \subseteq 1..5 BY HTTPAssumption
<1>1. CASE \/ Reject(r) \/ BadGzip(r) \/ ReadBody(r) \/ Unusable(r) \/ Parse(r) \/ Encode(r)
  <2>1. pc[r] \in {"new", "parse", "encode"} /\ closer' = closer
    BY <1>1 DEF Reject, BadGzip, ReadBody, Unusable, Parse, Encode
  <2>2. QED BY <2>1, <1>t DEF Phases, Honest
<1>2. CASE FanOut(r)
  <2>1. reply'[r].code = 0 BY <1>2, <1>t DEF FanOut, Silence, NoReply
  <2>2. QED BY <2>1 DEF Honest
<1>3. CASE ReceiveSuccess(r)
  <2>1. Take(r, {2}) BY <1>3 DEF ReceiveSuccess
  <2>2. 2 \in Answers(r) BY <2>1, <1>t, TakeFirst DEF Channel
  <2>3. Answers(r)' = Answers(r) BY <2>1 DEF Take, Answers
  <2>4. QED BY <2>2, <2>3 DEF Honest
<1>4. CASE ReceiveUserError(r)
  <2>1. reply'[r].code = 100 * 4
    BY <1>4, <1>t DEF ReceiveUserError, Forward, Reply, TypeOK
  <2>2. QED BY <2>1 DEF Honest
<1>5. CASE GiveUp(r)
  <2>1. CASE errResponse[r] = Error
    <3>1. reply'[r].code = 503
      BY <1>5, <2>1, <1>t DEF GiveUp, JsonError, Reply, TypeOK
    <3>2. QED BY <3>1 DEF Honest
  <2>2. CASE errResponse[r] # Error
    <3>1. errResponse[r] \in {1, 3, 5} BY <2>2, <1>t DEF Channel
    <3>2. reply'[r].code = 100 * errResponse[r]
      BY <1>5, <2>2, <1>t DEF GiveUp, Forward, Reply, TypeOK
    <3>3. 100 * errResponse[r] # 204 BY <3>1
    <3>4. QED BY <3>2, <3>3 DEF Honest
  <2>3. QED BY <2>1, <2>2
<1>6. ASSUME NEW b \in Backends, PostReturns(r, b) PROVE Honest(r)'
  <2>1. poster[r][b] = "post" /\ UNCHANGED <<reply, closer>>
    BY <1>6 DEF PostReturns, PosterGoto
  <2>2. answer[r][b] = Pending BY <2>1, <1>t DEF Channel
  <2>3. \A c \in Backends \ {b} : answer'[r][c] = answer[r][c]
    BY <1>6, <1>t DEF PostReturns, TypeOK
  <2>4. 2 \in Answers(r) => 2 \in Answers(r)' BY <2>2, <2>3 DEF Answers, Pending
  <2>5. QED BY <2>1, <2>4, <1>t DEF Honest
<1>7. CASE ReceiveOther(r) \/ \E b \in Backends : Send(r, b) \/ Finish(r, b)
  <2>1. UNCHANGED <<reply, closer, answer>>
    BY <1>7 DEF ReceiveOther, Take, Send, Finish
  <2>2. QED BY <2>1, <1>t DEF Honest, Answers
<1>8. CASE Close(r) \/ PutOutBuf(r)
  <2>1. UNCHANGED <<reply, answer>> /\ closer[r] # "off"
    BY <1>8 DEF Close, PutOutBuf
  <2>2. QED BY <2>1, <1>t DEF Honest, Answers
<1>9. QED BY <1>1, <1>2, <1>3, <1>4, <1>5, <1>6, <1>7, <1>8 DEF Active, Handle, WindUp

-----------------------------------------------------------------------------
(***************************************************************************)
(* The invariant holds, and what follows from it.                          *)
(***************************************************************************)
LEMMA Initially == Init => IInv
<1> SUFFICES ASSUME Init PROVE IInv OBVIOUS
<1> USE DEF Init
<1>1. TypeOK
  <2>1. content \in [Buffers -> Contents] BY DEF Contents
  <2>2. reply \in [Requests -> [code : Nat, from : {"nobody", "relay", "panic", "backend"}]]
    BY DEF NoReply
  <2>3. responses \in [Requests -> Seq(Classes)] OBVIOUS
  <2>4. QED BY <2>1, <2>2, <2>3 DEF TypeOK
<1>2. ASSUME NEW r \in Requests
      PROVE  Phases(r) /\ Silence(r) /\ Channel(r) /\ Room(r) /\ Honest(r) /\ Owns(r)
  <2>1. Busy(r) = {} /\ Sent(r) = {} BY DEF Busy, Sent, HasSent
  <2>2. Cardinality(Busy(r)) = 0 /\ Cardinality(Sent(r)) = 0 BY <2>1, FS_EmptySet
  <2>3. Phases(r) BY <2>1, <2>2 DEF Phases
  <2>4. Silence(r) BY DEF Silence, NoReply
  <2>5. Channel(r) BY DEF Channel, Error, Pending, HasSent
  <2>6. Room(r) BY <2>2 DEF Room
  <2>7. Owns(r) BY DEF Owns
  <2>8. Honest(r) BY DEF Honest, FannedOut
  <2>9. QED BY <2>3, <2>4, <2>5, <2>6, <2>7, <2>8
<1>3. \A q, r \in Requests : Apart(q, r) BY DEF Apart
<1>4. QED BY <1>1, <1>2, <1>3 DEF IInv, Owned

\* Every step keeps the invariant: of the request that takes it by the lemmas
\* above, of the others because they share nothing with it but the pool.
LEMMA Inductive == IInv /\ [Next]_vars => IInv'
<1> SUFFICES ASSUME IInv, [Next]_vars PROVE IInv' OBVIOUS
<1>1. TypeOK' BY TypeStep
<1>2. ASSUME NEW r \in Requests, Active(r) PROVE IInv'
  <2>1. Owned' BY <1>1, <1>2, OwnedStep
  <2>2. Phases(r)' /\ Silence(r)' /\ Channel(r)' /\ Room(r)' /\ Honest(r)'
    BY <1>1, <1>2, PhaseStep, SilenceStep, ChannelStep, RoomStep, HonestStep
  <2>3. ASSUME NEW q \in Requests, q # r
        PROVE  Phases(q)' /\ Silence(q)' /\ Channel(q)' /\ Room(q)' /\ Honest(q)'
    <3>1. /\ pc'[q] = pc[q] /\ reply'[q] = reply[q] /\ poster'[q] = poster[q]
          /\ answer'[q] = answer[q] /\ wg'[q] = wg[q] /\ responses'[q] = responses[q]
          /\ closed'[q] = closed[q] /\ closer'[q] = closer[q]
          /\ errResponse'[q] = errResponse[q]
      BY <1>2, <2>3, Others DEF Active
    <3>2. /\ Busy(q)' = Busy(q) /\ Sent(q)' = Sent(q) /\ Answers(q)' = Answers(q)
          /\ \A b \in Backends : HasSent(q, b)' <=> HasSent(q, b)
      BY <3>1 DEF Busy, Sent, HasSent, Answers
    <3>3. Phases(q) /\ Silence(q) /\ Channel(q) /\ Room(q) /\ Honest(q) BY DEF IInv
    <3>4. Phases(q)' /\ Silence(q)' /\ Honest(q)'
      BY <3>1, <3>2, <3>3 DEF Phases, Silence, Honest, FannedOut
    <3>5. Channel(q)' /\ Room(q)' BY <3>1, <3>2, <3>3 DEF Channel, Room
    <3>6. QED BY <3>4, <3>5
  <2>4. QED BY <1>1, <2>1, <2>2, <2>3 DEF IInv
<1>3. CASE UNCHANGED vars
  <2> USE <1>3 DEF vars, reqVars, fanVars, poolVars
  <2>a. ASSUME NEW r \in Requests
        PROVE  /\ Busy(r)' = Busy(r) /\ Sent(r)' = Sent(r) /\ Answers(r)' = Answers(r)
               /\ \A b \in Backends : HasSent(r, b)' <=> HasSent(r, b)
    BY DEF Busy, Sent, HasSent, Answers
  <2>1. \A r \in Requests : Phases(r)' /\ Silence(r)' /\ Honest(r)'
    BY <2>a DEF IInv, Phases, Silence, Honest, FannedOut
  <2>2. \A r \in Requests : Channel(r)' /\ Room(r)'
    BY <2>a DEF IInv, Channel, Room
  <2>3. Owned' BY DEF IInv, Owned, Owns, Apart
  <2>4. QED BY <1>1, <2>1, <2>2, <2>3 DEF IInv
<1>4. QED BY <1>2, <1>3 DEF Next, Active, Stop

\* Every reachable state of the HTTP relay satisfies the invariant.
THEOREM Invariance == Spec => []IInv
<1>1. QED BY Initially, Inductive, PTL DEF Spec

\* The variables of the HTTP relay have their types.
THEOREM TypesHold == Spec => []TypeOK
<1>1. IInv => TypeOK BY DEF IInv
<1>2. QED BY <1>1, Invariance, PTL

\* No goroutine sends on a closed channel: wg.Wait() comes before close().
THEOREM ChannelIsOpen == Spec => []NoSendAfterClose
<1>1. IInv => NoSendAfterClose BY DEF IInv, NoSendAfterClose, Phases, Busy
<1>2. QED BY <1>1, Invariance, PTL

\* make(chan *responseData, len(h.backends)) is large enough: no goroutine ever
\* waits to send, also when the handler has stopped receiving.
SendNeverBlocks ==
    \A r \in Requests : \A b \in Backends :
        poster[r][b] = "send" => Len(responses[r]) < Cardinality(Backends)

\* A send on `responses' finds room: its capacity is the number of backends.
THEOREM ChannelIsLargeEnough == Spec => []SendNeverBlocks
<1>1. ASSUME IInv, NEW r \in Requests, NEW b \in Backends, poster[r][b] = "send"
      PROVE  Len(responses[r]) < Cardinality(Backends)
  <2>1. b \in Backends \ Sent(r) BY <1>1 DEF Sent, HasSent
  <2>2. Cardinality(Sent(r)) < Cardinality(Backends) /\ Cardinality(Sent(r)) \in Nat
    BY <2>1, SentIsFinite
  <2>3. Len(responses[r]) \in Nat BY <1>1, LenProperties DEF IInv, TypeOK
  <2>4. Cardinality(Backends) \in Nat BY HTTPAssumption, FS_CardinalityType
  <2>5. QED BY <1>1, <2>2, <2>3, <2>4 DEF IInv, Room
<1>2. IInv => SendNeverBlocks BY <1>1 DEF SendNeverBlocks
<1>3. QED BY <1>2, Invariance, PTL

\* The points that a post reads are those of its own request, whenever it reads
\* them: outBuf does not go back to the pool before the last post has returned.
PostsReadTheirPoints ==
    \A r \in Requests : \A b \in Backends :
        poster[r][b] = "post" =>
            /\ outBuf[r] \in Buffers \ pool /\ content[outBuf[r]] = LinesOf(r)
            /\ \A q \in Requests \ {r} : outBuf[r] \notin {bodyBuf[q], outBuf[q]}

\* While a goroutine posts for a request, the closer waits for it and the points
\* of the request are in a buffer that is in the pool no more and of no other.
LEMMA PostsRead ==
    ASSUME IInv, NEW r \in Requests, NEW b \in Backends, poster[r][b] = "post"
    PROVE  /\ closer[r] = "wait"
           /\ outBuf[r] \in Buffers \ pool /\ content[outBuf[r]] = LinesOf(r)
           /\ \A q \in Requests \ {r} : outBuf[r] \notin {bodyBuf[q], outBuf[q]}
<1>1. closer[r] = "wait"
  BY DEF IInv, TypeOK, Phases, Busy
<1>2. outBuf[r] \in Buffers \ pool /\ content[outBuf[r]] = LinesOf(r)
  BY <1>1 DEF IInv, Owned, Owns
<1>3. outBuf[r] # Unused BY <1>2, Pool
<1>4. QED BY <1>1, <1>2, <1>3 DEF IInv, Owned, Apart

\* What a goroutine posts are the points of its request: outBuf is given back to
\* the pool only after wg.Wait().
THEOREM BuffersAreNotShared == Spec => []PostsReadTheirPoints
<1>1. IInv => PostsReadTheirPoints BY PostsRead DEF PostsReadTheirPoints
<1>2. QED BY <1>1, Invariance, PTL

-----------------------------------------------------------------------------
(***************************************************************************)
(* HTTPRelay implements Replication, but for its fairness.                 *)
(***************************************************************************)
\* A request that is refused has been offered to no backend.
LEMMA RefuseStep ==
    ASSUME IInv, NEW r \in Requests, Reject(r) \/ BadGzip(r) \/ Unusable(r)
    PROVE  Abstract!Refuse(r)
<1> USE DEF fanVars, poolVars, Goto
<1>1. closer[r] = "off" /\ reply[r] = NoReply
  BY DEF Reject, BadGzip, Unusable, IInv, Phases, Silence
<1>2. Abstract!Unanswered(r)
  BY <1>1 DEF Abstract!Unanswered, Abstract!NoReply, NoReply, Reject, BadGzip, Unusable
<1>3. Abstract!Outcomes(r) \subseteq {Abstract!Pending}
  BY <1>1 DEF Abstract!Outcomes, Abstract!Pending, Pending, IInv, Phases, Channel
<1>4. \E refusal \in Abstract!Refusals : reply' = [reply EXCEPT ![r] = refusal]
  <2>1. CASE Reply(r, 204, "relay")
    <3>1. [code |-> 204, from |-> "relay"] \in Abstract!Refusals BY DEF Abstract!Refusals
    <3>2. QED BY <2>1, <3>1 DEF Reply
  <2>2. CASE Reply(r, 400, "relay")
    <3>1. [code |-> 400, from |-> "relay"] \in Abstract!Refusals BY DEF Abstract!Refusals
    <3>2. QED BY <2>2, <3>1 DEF Reply
  <2>3. CASE Reply(r, 404, "relay")
    <3>1. [code |-> 404, from |-> "relay"] \in Abstract!Refusals BY DEF Abstract!Refusals
    <3>2. QED BY <2>3, <3>1 DEF Reply
  <2>4. CASE Reply(r, 405, "relay")
    <3>1. [code |-> 405, from |-> "relay"] \in Abstract!Refusals BY DEF Abstract!Refusals
    <3>2. QED BY <2>4, <3>1 DEF Reply
  <2>5. CASE Reply(r, 500, "relay")
    <3>1. [code |-> 500, from |-> "relay"] \in Abstract!Refusals BY DEF Abstract!Refusals
    <3>2. QED BY <2>5, <3>1 DEF Reply
  <2>6. CASE Reply(r, 0, "panic")
    <3>1. [code |-> 0, from |-> "panic"] \in Abstract!Refusals BY DEF Abstract!Refusals
    <3>2. QED BY <2>6, <3>1 DEF Reply
  <2>7. QED
    BY <2>1, <2>2, <2>3, <2>4, <2>5, <2>6 DEF Reject, BadGzip, Unusable, JsonError
<1>5. QED BY <1>2, <1>3, <1>4 DEF Abstract!Refuse

\* A class in the channel comes from a backend, and decides alone if it is 2 or 4.
LEMMA ReceiveStep ==
    ASSUME IInv, NEW r \in Requests, ReceiveSuccess(r) \/ ReceiveUserError(r)
    PROVE  Abstract!Decide(r)
<1> USE DEF Goto
<1>t. TypeOK /\ Silence(r) /\ Channel(r) BY DEF IInv
<1>1. Abstract!Unanswered(r)
  BY <1>t DEF ReceiveSuccess, ReceiveUserError, Take, Silence, Abstract!Unanswered,
              Abstract!NoReply, NoReply
<1>2. CASE ReceiveSuccess(r)
  <2>1. Take(r, {2}) BY <1>2 DEF ReceiveSuccess
  <2>2. 2 \in Answers(r) BY <2>1, <1>t, TakeFirst DEF Channel
  <2>3. reply' = [reply EXCEPT ![r] = [code |-> 204, from |-> "backend"]]
    BY <1>2 DEF ReceiveSuccess, Reply
  <2>4. [code |-> 204, from |-> "backend"] \in Abstract!Verdicts
    BY DEF Abstract!Verdicts
  <2>5. QED
    BY <1>1, <2>2, <2>3, <2>4
       DEF Abstract!Decide, Abstract!Justified, Abstract!Outcomes, Answers
<1>3. CASE ReceiveUserError(r)
  <2>1. Take(r, {4}) BY <1>3 DEF ReceiveUserError
  <2>2. 4 \in Answers(r) /\ 4 \in Classes BY <2>1, <1>t, TakeFirst DEF Channel
  <2>3. reply' = [reply EXCEPT ![r] = [code |-> 100 * 4, from |-> "backend"]]
    BY <1>3 DEF ReceiveUserError, Forward, Reply
  <2>4. [code |-> 100 * 4, from |-> "backend"] \in Abstract!Verdicts
    BY <2>2 DEF Abstract!Verdicts
  <2>5. Abstract!Justified(r, [code |-> 100 * 4, from |-> "backend"])
    BY <2>2 DEF Abstract!Justified, Abstract!Outcomes, Answers
  <2>6. QED BY <1>1, <2>3, <2>4, <2>5 DEF Abstract!Decide
<1>4. QED BY <1>2, <1>3

\* When the channel is closed and drained, every backend has failed.
LEMMA GiveUpStep ==
    ASSUME IInv, NEW r \in Requests, GiveUp(r)
    PROVE  Abstract!Decide(r)
<1> USE DEF Goto
<1>t. TypeOK /\ Phases(r) /\ Silence(r) /\ Channel(r) BY DEF IInv
<1>1. Abstract!Unanswered(r)
  BY <1>t DEF GiveUp, Silence, fanVars, Abstract!Unanswered, Abstract!NoReply, NoReply
<1>2. pc[r] = "receive" /\ closed[r] /\ Len(responses[r]) = 0
  BY DEF GiveUp
<1>3. ASSUME NEW b \in Backends
      PROVE  \/ answer[r][b] = Error
             \/ answer[r][b] \in {1, 3, 5} /\ errResponse[r] # Error
  <2>1. poster[r][b] = "gone"
    BY <1>2, <1>t DEF Phases, Busy, TypeOK
  <2>2. CASE answer[r][b] # Error
    BY <1>2, <2>1, <2>2, <1>t DEF HasSent, Channel
  <2>3. QED BY <2>2
<1>4. CASE errResponse[r] = Error
  <2>1. Abstract!Outcomes(r) \subseteq {Abstract!Error}
    BY <1>3, <1>4 DEF Abstract!Outcomes, Abstract!Error, Error
  <2>2. reply' = [reply EXCEPT ![r] = [code |-> 503, from |-> "relay"]]
    BY <1>4 DEF GiveUp, JsonError, Reply
  <2>3. QED
    BY <1>1, <2>1, <2>2 DEF Abstract!Decide, Abstract!Justified, Abstract!Verdicts
<1>5. CASE errResponse[r] # Error
  <2>1. Abstract!Outcomes(r) \cap {Abstract!Pending, 2, 4} = {}
    BY <1>3 DEF Abstract!Outcomes, Abstract!Pending, Error
  <2>2. errResponse[r] \in Abstract!Outcomes(r) \ {Abstract!Error} /\ errResponse[r] \in Classes
    BY <1>5, <1>t DEF Channel, TypeOK, Answers, Abstract!Outcomes, Abstract!Error, Error
  <2>3. reply' = [reply EXCEPT ![r] = [code |-> 100 * errResponse[r], from |-> "backend"]]
    BY <1>5 DEF GiveUp, Forward, Reply
  <2>4. [code |-> 100 * errResponse[r], from |-> "backend"] \in Abstract!Verdicts
    BY <2>2 DEF Abstract!Verdicts
  <2>5. Abstract!Justified(r, [code |-> 100 * errResponse[r], from |-> "backend"])
    BY <2>1, <2>2 DEF Abstract!Justified
  <2>6. QED BY <1>1, <2>3, <2>4, <2>5 DEF Abstract!Decide
<1>6. QED BY <1>4, <1>5

\* Every reply is one that Replication allows for what the backends have said by
\* then, there is no second one, and a refused request is offered to no backend.
THEOREM RepliesAreJustified ==
    Spec => Abstract!Init /\ [][Abstract!Next]_<<answer, reply>>
<1>1. Init => Abstract!Init
  BY DEF Init, Abstract!Init, Abstract!Pending, Abstract!NoReply, Pending, NoReply
<1>2. ASSUME IInv, [Next]_vars
      PROVE  [Abstract!Next]_<<answer, reply>>
  <2> USE DEF vars, reqVars, fanVars, poolVars
  <2>1. ASSUME NEW r \in Requests, Reject(r) \/ BadGzip(r) \/ Unusable(r)
        PROVE  Abstract!Next
    BY <1>2, <2>1, RefuseStep DEF Abstract!Next
  <2>2. ASSUME NEW r \in Requests, ReceiveSuccess(r) \/ ReceiveUserError(r) \/ GiveUp(r)
        PROVE  Abstract!Next
    BY <1>2, <2>2, ReceiveStep, GiveUpStep DEF Abstract!Next
  <2>3. ASSUME NEW r \in Requests, NEW b \in Backends, PostReturns(r, b)
        PROVE  Abstract!Next
    <3>1. poster[r][b] = "post" BY <2>3 DEF PostReturns, PosterGoto
    <3>2. answer[r][b] = Pending /\ b \in Busy(r) BY <3>1, <1>2 DEF IInv, Channel, Busy
    <3>3. reply[r].from \in {"nobody", "backend"}
      BY <3>2, <1>2 DEF IInv, Silence, TypeOK
    <3>4. Abstract!Settle(r, b)
      BY <2>3, <3>2, <3>3
         DEF PostReturns, Abstract!Settle, Abstract!Pending, Abstract!Error, Pending, Error
    <3>5. QED BY <3>4 DEF Abstract!Next
  <2>4. ASSUME NEW r \in Requests,
               ReadBody(r) \/ Parse(r) \/ Encode(r) \/ FanOut(r) \/ ReceiveOther(r) \/ WindUp(r)
        PROVE  UNCHANGED <<answer, reply>>
    BY <2>4 DEF ReadBody, Parse, Encode, FanOut, ReceiveOther, Take, WindUp, Send, Finish,
                Close, PutOutBuf
  <2>5. CASE Stop \/ UNCHANGED vars
    BY <2>5 DEF Stop
  <2>6. QED BY <1>2, <2>1, <2>2, <2>3, <2>4, <2>5 DEF Next, Handle
<1>3. QED BY <1>1, <1>2, Invariance, PTL DEF Spec
=============================================================================
