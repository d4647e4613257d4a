------------------------------- MODULE HTTPRelay -------------------------------
(***************************************************************************)
(* The HTTP relay (relay/http.go).  For every request net/http runs        *)
(* ServeHTTP in a goroutine of its own; a write starts one goroutine per   *)
(* backend, which posts the points and sends the answer over the channel   *)
(* `responses', and one that closes the channel when all of them are done  *)
(* and gives the output buffer back to the pool.                           *)
(*                                                                         *)
(* What a backend answers is a status class, 1 to 5, or an error.  A post  *)
(* may take as long as it likes: with a retry buffer in front of the       *)
(* backend it lasts until the backend is back (module RetryBuffer).        *)
(***************************************************************************)
EXTENDS Integers, Sequences, FiniteSets

CONSTANTS
    Requests,      \* the requests, one handler goroutine each
    Kinds,         \* what a request may look like, see Kind
    Backends,
    Classes,       \* StatusCode/100 of the answers backends may give
    MaxBuffers     \* bound: how many buffers bufPool.New makes

ASSUME HTTPAssumption ==
    /\ IsFiniteSet(Backends)
    /\ Classes \subseteq 1..5
    /\ MaxBuffers \in Nat

Kind == [path : {"/ping", "/write", "other"},
         method : {"GET", "HEAD", "POST", "OPTIONS", "other"},
         db : BOOLEAN,                               \* a db parameter
         gzip : {"no", "good", "bad"},               \* Content-Encoding: gzip
         body : {"points", "malformed", "unreadable"}]

ASSUME KindsAssumption == Kinds \subseteq Kind

Error == 0         \* post() returned an error
Pending == -1      \* post() has not returned

Unused == 0        \* no buffer
Buffers == 1..MaxBuffers

Empty == [form |-> "empty"]
BodyOf(r) == [form |-> "body", of |-> r]
LinesOf(r) == [form |-> "lines", of |-> r]
Contents == {Empty} \cup {BodyOf(r) : r \in Requests} \cup {LinesOf(r) : r \in Requests}

\* What the client gets: the status and who decided it.
NoReply == [code |-> 0, from |-> "nobody"]

VARIABLES
    pc,            \* where ServeHTTP is, for each request
    kind,          \* the request, once it has arrived
    reply,         \* what has been written to the ResponseWriter
    bodyBuf, outBuf,  \* the locals of ServeHTTP: buffers
    poster,        \* where the goroutine of each backend is
    answer,        \* what its post() returned
    wg,            \* the WaitGroup
    responses,     \* the channel, the classes sent and not yet received
    closed,        \* whether it is closed
    closer,        \* where the goroutine that closes it is
    errResponse,   \* the class held back, or Error for nil
    pool,          \* the buffers in bufPool
    content        \* what each buffer holds

reqVars == <<pc, kind, reply, bodyBuf, outBuf, errResponse>>
fanVars == <<poster, answer, wg, responses, closed, closer>>
poolVars == <<pool, content>>
vars == <<reqVars, fanVars, poolVars>>

-----------------------------------------------------------------------------
Init ==
    /\ pc = [r \in Requests |-> "new"]
    /\ kind \in [Requests -> Kinds]
    /\ reply = [r \in Requests |-> NoReply]
    /\ bodyBuf = [r \in Requests |-> Unused]
    /\ outBuf = [r \in Requests |-> Unused]
    /\ poster = [r \in Requests |-> [b \in Backends |-> "off"]]
    /\ answer = [r \in Requests |-> [b \in Backends |-> Pending]]
    /\ wg = [r \in Requests |-> 0]
    /\ responses = [r \in Requests |-> <<>>]
    /\ closed = [r \in Requests |-> FALSE]
    /\ closer = [r \in Requests |-> "off"]
    /\ errResponse = [r \in Requests |-> Error]
    /\ pool = {}
    /\ content = [i \in Buffers |-> Empty]

Goto(r, from, to) ==
    /\ pc[r] = from
    /\ pc' = [pc EXCEPT ![r] = to]

(***************************************************************************)
(* Replies.                                                                *)
(***************************************************************************)
Reply(r, code, from) ==
    reply' = [reply EXCEPT ![r] = [code |-> code, from |-> from]]

JsonError(r, code) == Reply(r, code, "relay")

\* responseData.Write
Forward(r, class) == Reply(r, 100 * class, "backend")

(***************************************************************************)
(* The pool.  sync.Pool may hand out any buffer it holds, or none of them. *)
(***************************************************************************)
InUse == {bodyBuf[r] : r \in Requests} \cup {outBuf[r] : r \in Requests}

Fresh == {i \in Buffers : /\ i \notin pool \cup InUse
                          /\ \A j \in 1..i - 1 : j \in pool \cup InUse}

\* getBuf
Gettable == pool \cup Fresh

\* putBuf: bb.Reset() and bufPool.Put
Put(i) ==
    /\ pool' = pool \cup {i}
    /\ content' = [content EXCEPT ![i] = Empty]

(***************************************************************************)
(* ServeHTTP, up to the fan-out.                                           *)
(***************************************************************************)
IsPing(k) == k.path = "/ping" /\ k.method \in {"GET", "HEAD"}
IsWrite(k) == k.path = "/write" /\ k.method = "POST"

\* Every request that is not a write to a database is answered at once.
Reject(r) ==
    LET k == kind[r]
    IN /\ Goto(r, "new", "done")
       /\ \/ /\ IsPing(k)
             /\ Reply(r, 204, "relay")
          \/ /\ ~IsPing(k) /\ k.path # "/write"
             /\ JsonError(r, 404)
          \/ /\ k.path = "/write" /\ k.method = "OPTIONS"
             /\ Reply(r, 204, "relay")
          \/ /\ k.path = "/write" /\ k.method \notin {"POST", "OPTIONS"}
             /\ JsonError(r, 405)
          \/ /\ IsWrite(k) /\ ~k.db
             /\ JsonError(r, 400)
       /\ UNCHANGED <<kind, bodyBuf, outBuf, errResponse, fanVars, poolVars>>

\* A body announced as gzip that does not begin as such: the 400 is written,
\* but the handler goes on with a nil reader and panics, with a buffer in its
\* hands.  net/http recovers and drops the connection, the 400 unsent.
BadGzip(r) ==
    /\ IsWrite(kind[r]) /\ kind[r].db /\ kind[r].gzip = "bad"
    /\ Goto(r, "new", "done")
    /\ \E i \in Gettable : pool' = pool \ {i}
    /\ Reply(r, 0, "panic")
    /\ UNCHANGED <<kind, bodyBuf, outBuf, errResponse, fanVars, content>>

\* bodyBuf.ReadFrom(body)
ReadBody(r) ==
    /\ IsWrite(kind[r]) /\ kind[r].db /\ kind[r].gzip # "bad"
    /\ Goto(r, "new", "parse")
    /\ \E i \in Gettable :
          /\ bodyBuf' = [bodyBuf EXCEPT ![r] = i]
          /\ pool' = pool \ {i}
          /\ content' = [content EXCEPT ![i] = BodyOf(r)]
    /\ UNCHANGED <<kind, reply, outBuf, errResponse, fanVars>>

\* The body cannot be read, or is not line protocol.
Unusable(r) ==
    /\ kind[r].body # "points"
    /\ Goto(r, "parse", "done")
    /\ JsonError(r, IF kind[r].body = "unreadable" THEN 500 ELSE 400)
    /\ Put(bodyBuf[r])
    /\ bodyBuf' = [bodyBuf EXCEPT ![r] = Unused]
    /\ UNCHANGED <<kind, outBuf, errResponse, fanVars>>

\* Mutant of Parse: the body's buffer is given back once it is parsed.
ParseRecyclesBody(r) ==
    /\ kind[r].body = "points"
    /\ Goto(r, "parse", "encode")
    /\ Put(bodyBuf[r])
    /\ UNCHANGED <<kind, reply, bodyBuf, outBuf, errResponse, fanVars>>

\* models.ParsePointsWithPrecision: the points are slices of bodyBuf.
Parse(r) ==
    /\ kind[r].body = "points"
    /\ Goto(r, "parse", "encode")
    /\ UNCHANGED <<kind, reply, bodyBuf, outBuf, errResponse, fanVars, poolVars>>

\* What PrecisionString makes of the points in a buffer.
Lines(c) == IF c.form = "body" THEN LinesOf(c.of) ELSE c

\* The points are printed into outBuf, and bodyBuf is given back.
Encode(r) ==
    /\ Goto(r, "encode", "fanout")
    /\ \E i \in Gettable :
          /\ outBuf' = [outBuf EXCEPT ![r] = i]
          /\ pool' = (pool \ {i}) \cup {bodyBuf[r]}
          /\ content' = [content EXCEPT ![i] = Lines(content[bodyBuf[r]]),
                                        ![bodyBuf[r]] = Empty]
    /\ bodyBuf' = [bodyBuf EXCEPT ![r] = Unused]
    /\ UNCHANGED <<kind, reply, errResponse, fanVars>>

\* Mutant of FanOut: the WaitGroup is one short.
FanOutCountsLess(r) ==
    /\ Goto(r, "fanout", "receive")
    /\ wg' = [wg EXCEPT ![r] = Cardinality(Backends) - 1]
    /\ poster' = [poster EXCEPT ![r] = [b \in Backends |-> "post"]]
    /\ closer' = [closer EXCEPT ![r] = "wait"]
    /\ UNCHANGED <<kind, reply, bodyBuf, outBuf, errResponse, answer, responses,
                   closed, poolVars>>

\* wg.Add and the go statements.
FanOut(r) ==
    /\ Goto(r, "fanout", "receive")
    /\ wg' = [wg EXCEPT ![r] = Cardinality(Backends)]
    /\ poster' = [poster EXCEPT ![r] = [b \in Backends |-> "post"]]
    /\ closer' = [closer EXCEPT ![r] = "wait"]
    /\ UNCHANGED <<kind, reply, bodyBuf, outBuf, errResponse, answer, responses,
                   closed, poolVars>>

(***************************************************************************)
(* The goroutine of backend b.                                             *)
(***************************************************************************)
PosterGoto(r, b, from, to) ==
    /\ poster[r][b] = from
    /\ poster' = [poster EXCEPT ![r][b] = to]

\* b.post(outBytes, query, authHeader) returns.
PostReturns(r, b) ==
    \E a \in Classes \cup {Error} :
        /\ PosterGoto(r, b, "post", IF a = Error THEN "finish" ELSE "send")
        /\ answer' = [answer EXCEPT ![r][b] = a]
        /\ UNCHANGED <<reqVars, wg, responses, closed, closer, poolVars>>

\* Mutant of Send: the channel has no capacity, the handler must be receiving.
SendUnbuffered(r, b) ==
    /\ PosterGoto(r, b, "send", "finish")
    /\ pc[r] = "receive" /\ responses[r] = <<>>
    /\ responses' = [responses EXCEPT ![r] = Append(@, answer[r][b])]
    /\ UNCHANGED <<reqVars, answer, wg, closed, closer, poolVars>>

\* responses <- resp
Send(r, b) ==
    /\ PosterGoto(r, b, "send", "finish")
    /\ Len(responses[r]) < Cardinality(Backends)
    /\ responses' = [responses EXCEPT ![r] = Append(@, answer[r][b])]
    /\ UNCHANGED <<reqVars, answer, wg, closed, closer, poolVars>>

\* defer wg.Done()
Finish(r, b) ==
    /\ PosterGoto(r, b, "finish", "gone")
    /\ wg' = [wg EXCEPT ![r] = @ - 1]
    /\ UNCHANGED <<reqVars, answer, responses, closed, closer, poolVars>>

(***************************************************************************)
(* The goroutine that waits for them.                                      *)
(***************************************************************************)
\* Mutant of Close: once the client has its answer nothing is waited for.
CloseWhenAnswered(r) ==
    /\ closer[r] = "wait" /\ (wg[r] = 0 \/ pc[r] = "done")
    /\ closer' = [closer EXCEPT ![r] = "put"]
    /\ closed' = [closed EXCEPT ![r] = TRUE]
    /\ UNCHANGED <<reqVars, poster, answer, wg, responses, poolVars>>

\* wg.Wait(); close(responses)
Close(r) ==
    /\ closer[r] = "wait" /\ wg[r] = 0
    /\ closer' = [closer EXCEPT ![r] = "put"]
    /\ closed' = [closed EXCEPT ![r] = TRUE]
    /\ UNCHANGED <<reqVars, poster, answer, wg, responses, poolVars>>

\* putBuf(outBuf)
PutOutBuf(r) ==
    /\ closer[r] = "put"
    /\ closer' = [closer EXCEPT ![r] = "gone"]
    /\ Put(outBuf[r])
    /\ outBuf' = [outBuf EXCEPT ![r] = Unused]
    /\ UNCHANGED <<pc, kind, reply, bodyBuf, errResponse, poster, answer, wg,
                   responses, closed>>

(***************************************************************************)
(* ServeHTTP, after the fan-out.                                           *)
(***************************************************************************)
\* Mutant of Take: the loop starts when every backend has answered.
TakeWhenClosed(r, classes) ==
    /\ closed[r]
    /\ responses[r] # <<>> /\ Head(responses[r]) \in classes
    /\ responses' = [responses EXCEPT ![r] = Tail(@)]
    /\ UNCHANGED <<kind, bodyBuf, outBuf, poster, answer, wg, closed, closer, poolVars>>

\* for resp := range responses { switch resp.StatusCode / 100
Take(r, classes) ==
    /\ responses[r] # <<>> /\ Head(responses[r]) \in classes
    /\ responses' = [responses EXCEPT ![r] = Tail(@)]
    /\ UNCHANGED <<kind, bodyBuf, outBuf, poster, answer, wg, closed, closer, poolVars>>

\* case 2: success, whatever the other backends say.
ReceiveSuccess(r) ==
    /\ Take(r, {2})
    /\ Goto(r, "receive", "done")
    /\ Reply(r, 204, "backend")
    /\ UNCHANGED errResponse

\* case 4: "user error".
ReceiveUserError(r) ==
    /\ Take(r, {4})
    /\ Goto(r, "receive", "done")
    /\ Forward(r, 4)
    /\ UNCHANGED errResponse

\* default: "hold on to one of the responses".
ReceiveOther(r) ==
    /\ Take(r, {1, 3, 5})
    /\ Goto(r, "receive", "receive")
    /\ errResponse' = [errResponse EXCEPT ![r] = Head(responses[r])]
    /\ UNCHANGED reply

\* Mutant of GiveUp: the loop ends when no answer is there yet.
GiveUpOnEmpty(r) ==
    /\ responses[r] = <<>>
    /\ Goto(r, "receive", "done")
    /\ IF errResponse[r] = Error THEN JsonError(r, 503) ELSE Forward(r, errResponse[r])
    /\ UNCHANGED <<kind, bodyBuf, outBuf, errResponse, fanVars, poolVars>>

\* The channel is closed and drained: "no successful writes".
GiveUp(r) ==
    /\ closed[r] /\ responses[r] = <<>>
    /\ Goto(r, "receive", "done")
    /\ IF errResponse[r] = Error THEN JsonError(r, 503) ELSE Forward(r, errResponse[r])
    /\ UNCHANGED <<kind, bodyBuf, outBuf, errResponse, fanVars, poolVars>>

\* Every request has been handled: the server waits for more of them.
Idle == \A r \in Requests : pc[r] = "done"

Stop == Idle /\ UNCHANGED vars

-----------------------------------------------------------------------------
Handle(r) ==
    \/ Reject(r) \/ BadGzip(r) \/ ReadBody(r) \/ Unusable(r) \/ Parse(r)
    \/ Encode(r) \/ FanOut(r) \/ ReceiveSuccess(r) \/ ReceiveUserError(r)
    \/ ReceiveOther(r) \/ GiveUp(r)

\* What the goroutines of request r do once their posts have returned.
WindUp(r) ==
    \/ \E b \in Backends : Send(r, b) \/ Finish(r, b)
    \/ Close(r) \/ PutOutBuf(r)

Next ==
    \/ \E r \in Requests :
          \/ Handle(r) \/ WindUp(r)
          \/ \E b \in Backends : PostReturns(r, b)
    \/ Stop

Spec == Init /\ [][Next]_vars

\* Goroutines are scheduled, but nothing is assumed of the backends: a post
\* may never return.
Fairness ==
    \A r \in Requests :
        /\ WF_vars(Handle(r))
        /\ \A b \in Backends : WF_vars(Send(r, b) \/ Finish(r, b))
        /\ WF_vars(Close(r) \/ PutOutBuf(r))

FairSpec == Spec /\ Fairness
-----------------------------------------------------------------------------
(***************************************************************************)
(* Properties.                                                             *)
(***************************************************************************)
\* The types of the variables.
TypeOK ==
    /\ pc \in [Requests -> {"new", "parse", "encode", "fanout", "receive", "done"}]
    /\ kind \in [Requests -> Kinds]
    /\ reply \in [Requests -> [code : Nat, from : {"nobody", "relay", "panic", "backend"}]]
    /\ bodyBuf \in [Requests -> Buffers \cup {Unused}]
    /\ outBuf \in [Requests -> Buffers \cup {Unused}]
    /\ poster \in [Requests -> [Backends -> {"off", "post", "send", "finish", "gone"}]]
    /\ answer \in [Requests -> [Backends -> Classes \cup {Error, Pending}]]
    /\ wg \in [Requests -> Nat]
    /\ responses \in [Requests -> Seq(Classes)]
    /\ closed \in [Requests -> BOOLEAN]
    /\ closer \in [Requests -> {"off", "wait", "put", "gone"}]
    /\ errResponse \in [Requests -> Classes \cup {Error}]
    /\ pool \subseteq Buffers
    /\ content \in [Buffers -> Contents]

FannedOut(r) == closer[r] # "off"

Answers(r) == {answer[r][b] : b \in Backends}

Abstract == INSTANCE Replication WITH outcome <- answer

\* Every reply is one that Replication allows: a success only if a backend has
\* accepted the points, a 4xx only if one has rejected them, a failure only when
\* all have answered and none of them so, and never a second one, or a post,
\* for a request that the relay has refused itself.  It is given although other
\* backends may never answer.
ImplementsReplication == Abstract!Spec

\* No goroutine sends on a closed channel, which would end the process.
NoSendAfterClose ==
    \A r \in Requests : closed[r] => \A b \in Backends : poster[r][b] \notin {"post", "send"}

\* When all backends have answered, the client is answered, no goroutine is
\* left behind and the buffer is given back, although the handler may have
\* stopped receiving long before.
EveryGoroutineEnds ==
    \A r \in Requests :
        FannedOut(r) /\ Pending \notin Answers(r) ~> pc[r] = "done" /\ closer[r] = "gone"
=============================================================================
