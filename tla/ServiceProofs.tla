---------------------------- MODULE ServiceProofs ----------------------------
(***************************************************************************)
(* Proofs about the life cycle of the process, for every configuration:    *)
(* its safety properties hold of every number of relays, whatever is       *)
(* configured, and whenever the interrupts come.                           *)
(***************************************************************************)
EXTENDS Service, FiniteSetTheorems, SequenceTheorems, TLAPS

(***************************************************************************)
(* The inductive invariant.                                                *)
(***************************************************************************)
\* New makes the relays in the order of the configuration, under different names.
Making ==
    /\ 1..Len(config) \subseteq Ids
    /\ relays = 1..made
    /\ \A i, j \in relays : Name(config[i]) = Name(config[j]) => i = j
    /\ main = "load" => made = 0
    /\ main \in {"start", "wait", "returned"} => made = Len(config)

\* Service.Run has begun.
Begun == main \in {"wait", "returned"}

\* The relays whose Run() has not got to wg.Done().
Working == {r \in relays : run[r] \notin {"off", "gone"}}

\* The WaitGroup counts the relays at work.
Counting ==
    /\ \A r \in Ids : run[r] # "off" <=> Begun /\ r \in relays
    /\ wg = Cardinality(Working)
    /\ main = "returned" => wg = 0

\* The goroutine that stops the relays exists from signal.Notify on.  It closes
\* a socket after it has stored `closing'.
Stopping ==
    /\ stopper = "off" <=> main \in {"load", "new"}
    /\ stopper = "close" => target \in relays /\ closing[target] = 1

Exiting == status = Success <=> main = "returned"

\* h.l is set when http.Serve is called, and not before.
Listening ==
    /\ \A r \in Ids : listener[r] = "set" => run[r] \in {"serve", "check", "done", "gone"}
    /\ \A r \in relays :
          IF IsHTTP(r)
          THEN /\ run[r] \in {"serve", "check"} => listener[r] = "set"
               /\ run[r] \in {"done", "gone"} => listener[r] = "set" \/ fault[r]
          ELSE run[r] \in {"off", "serve", "check", "done", "gone"}

\* The socket of a relay that has one is closed by Stop() only, after it has stored
\* `closing'; Run() goes on to its end only then, or after a failure, and does not open
\* it again.
Sockets ==
    \A r \in relays :
        /\ IF IsHTTP(r)
           THEN run[r] \in {"cert", "assign", "assigning", "serve", "check"} =>
                   open[r] \/ closing[r] = 1
           ELSE open[r] \/ closing[r] = 1
        /\ run[r] \in {"check", "done", "gone"} =>
              fault[r] \/ (closing[r] = 1 /\ ~open[r])

IInv ==
    /\ TypeOK /\ Making /\ Counting /\ Stopping /\ Exiting /\ Listening /\ Sockets
    /\ CrashOnlyWithoutListener /\ StopIsNoError

-----------------------------------------------------------------------------
(***************************************************************************)
(* Configurations.                                                         *)
(***************************************************************************)
\* A relay of the configuration is of one of the two kinds.
LEMMA ConfigFacts ==
    ASSUME NEW c \in Config
    PROVE  /\ Len(c) \in Nat
           /\ \A i \in 1..Len(c) : c[i] \in HTTPConfig \cup UDPConfig
           /\ c \in Seq(HTTPConfig \cup UDPConfig)
<1>1. c \in Seq(HTTPConfig \cup UDPConfig) BY DEF Config
<1>2. QED BY <1>1, LenProperties, ElementOfSeq

\* A part of a configuration is a configuration: what LoadConfigFile leaves when it
\* fails.
LEMMA PartOfConfig ==
    ASSUME NEW c \in Config, NEW i \in 0..Len(c), NEW j \in 0..Len(c)
    PROVE  SubSeq(c, i + 1, j) \in Config /\ Len(SubSeq(c, i + 1, j)) <= Len(c)
<1> DEFINE K == HTTPConfig \cup UDPConfig
           d == SubSeq(c, i + 1, j)
<1>1. Len(c) \in Nat /\ (\A n \in 1..Len(c) : c[n] \in K) BY ConfigFacts
<1>2. i \in Nat /\ j \in Nat /\ i + 1 \in Int /\ i <= Len(c) /\ j <= Len(c)  BY <1>1
<1>3. \A n \in (i + 1)..j : c[n] \in K BY <1>1, <1>2
<1> HIDE DEF K
<1>4. /\ d \in Seq(K)
      /\ Len(d) = IF i + 1 <= j THEN j - (i + 1) + 1 ELSE 0
      /\ \A n \in 1..(j - (i + 1) + 1) : d[n] = c[i + 1 + n - 1]
  BY <1>2, <1>3, SubSeqProperties
<1> HIDE DEF d
<1>5. Len(d) \in Nat /\ Len(d) <= Len(c) BY <1>1, <1>2, <1>4
<1>6. \A n \in 1..Len(d) : n + i \in 1..Len(c) /\ d[n] = c[n + i]
  <2> TAKE n \in 1..Len(d)
  <2>1. i + 1 <= j BY <1>2, <1>4
  <2>2. n \in 1..(j - (i + 1) + 1) BY <2>1, <1>2, <1>4
  <2>3. i + 1 + n - 1 = n + i BY <2>2, <1>2
  <2>4. QED BY <1>1, <1>2, <1>4, <2>1, <2>2, <2>3
<1>7. ASSUME NEW m \in 1..Len(d), NEW n \in 1..Len(d), d[m].kind = "udp", m < n
      PROVE  d[n].kind = "udp"
  <2>1. m + i \in 1..Len(c) /\ n + i \in 1..Len(c) /\ d[m] = c[m + i] /\ d[n] = c[n + i]
    BY <1>6
  <2>2. m + i < n + i BY <1>7, <1>2, <1>5
  <2>3. QED BY <1>7, <2>1, <2>2 DEF Config
<1>8. d \in Config BY <1>4, <1>7 DEF Config, K
<1>9. QED BY <1>5, <1>8 DEF d

\* Whatever a configuration leaves out, the limits of its backends and outputs can
\* be used, but for a negative MTU.
LEMMA LimitsOfConfig ==
    ASSUME NEW c \in Config, NEW r \in 1..Len(c), NEW i \in 1..Len(c[r].outputs)
    PROVE  LET o == c[r].outputs[i]
           IN IF c[r].kind = "http"
              THEN BackendOf(o).buffered =>
                      BackendOf(o).maxBuffered > 0 /\ BackendOf(o).maxBatch > 0
              ELSE o.mtu >= 0 => MTUOf(o) > 0
<1> DEFINE o == c[r].outputs[i]
<1>1. c[r] \in HTTPConfig \cup UDPConfig BY ConfigFacts
<1>2. CASE c[r].kind = "http"
  <2>1. c[r].outputs \in Seq(HTTPOutput) BY <1>1, <1>2 DEF HTTPConfig, UDPConfig
  <2>2. o \in HTTPOutput BY <2>1, ElementOfSeq
  <2>3. o.bufferMB \in Int /\ o.batchKB \in Int BY <2>2 DEF HTTPOutput
  <2> HIDE DEF o
  <2>4. BackendOf(o).buffered = (o.bufferMB > 0) BY DEF BackendOf
  <2>5. BackendOf(o).maxBuffered = o.bufferMB * MB BY DEF BackendOf
  <2>6. BackendOf(o).maxBatch > 0 BY <2>3 DEF BackendOf, DefaultBatchSizeKB, KB
  <2>7. o.bufferMB > 0 => o.bufferMB * MB > 0 BY <2>3 DEF MB, KB
  <2>8. BackendOf(o).buffered =>
           BackendOf(o).maxBuffered > 0 /\ BackendOf(o).maxBatch > 0
    BY <2>4, <2>5, <2>6, <2>7
  <2>9. QED BY <1>2, <2>8 DEF o
<1>3. CASE c[r].kind # "http"
  <2>1. c[r].outputs \in Seq(UDPOutput) BY <1>1, <1>3 DEF HTTPConfig, UDPConfig
  <2>2. o \in UDPOutput BY <2>1, ElementOfSeq
  <2>3. o.mtu \in Int BY <2>2 DEF UDPOutput
  <2> HIDE DEF o
  <2>4. o.mtu >= 0 => MTUOf(o) > 0 BY <2>3 DEF MTUOf, defaultMTU
  <2>5. QED BY <1>3, <2>4 DEF o
<1>4. QED BY <1>2, <1>3

\* The relays in the map have a place in the configuration.
LEMMA RelayFacts ==
    ASSUME TypeOK, Making
    PROVE  /\ Len(config) \in Nat /\ made \in Nat /\ made <= Len(config)
           /\ relays \subseteq 1..Len(config) /\ relays \subseteq Ids
           /\ \A r \in 1..Len(config) : config[r].kind \in {"http", "udp"}
           /\ IsFiniteSet(relays) /\ Cardinality(relays) \in Nat
           /\ Working \subseteq relays /\ IsFiniteSet(Working)
           /\ Cardinality(Working) \in 0..Cardinality(relays)
<1>1. Len(config) \in Nat /\ made \in Nat /\ made <= Len(config)
  BY ConfigFacts DEF TypeOK
<1>2. relays \subseteq 1..Len(config) /\ relays \subseteq Ids BY <1>1 DEF Making
<1>3. \A r \in 1..Len(config) : config[r].kind \in {"http", "udp"}
  BY ConfigFacts DEF TypeOK, HTTPConfig, UDPConfig
<1>4. IsFiniteSet(relays) BY <1>1, FS_Interval DEF Making
<1>5. Cardinality(relays) \in Nat BY <1>4, FS_CardinalityType
<1>6. Working \in SUBSET relays BY DEF Working
<1>7. IsFiniteSet(Working) /\ Cardinality(Working) <= Cardinality(relays)
  BY <1>4, <1>6, FS_Subset
<1>8. Cardinality(Working) \in Nat BY <1>7, FS_CardinalityType
<1>9. QED BY <1>1, <1>2, <1>3, <1>4, <1>5, <1>6, <1>7, <1>8

-----------------------------------------------------------------------------
(***************************************************************************)
(* The initial states.                                                     *)
(***************************************************************************)
\* The invariant holds when the process begins.
LEMMA Initially == Init => IInv
<1> SUFFICES ASSUME Init PROVE IInv OBVIOUS
<1>1. config \in Configs /\ config \in Config BY ServiceAssumption DEF Init
<1>2. Len(config) \in Nat BY <1>1, ConfigFacts
<1>3. relays = {} /\ made = 0 /\ 1..0 = {} BY DEF Init
<1>4. wg = 0 /\ Cardinality({}) = 0 BY FS_EmptySet DEF Init
<1>5. TypeOK
  <2>1. LimitsAreUsable BY <1>3 DEF LimitsAreUsable
  <2>2. wg \in 0..Cardinality(relays) BY <1>3, <1>4
  <2>3. status \in {Running, Success, Fatal, Panic, Killed} /\ made \in 0..Len(config)
    BY <1>2, <1>3 DEF Init
  <2>4. run \in [Ids -> {"off", "listen", "cert", "assign", "assigning", "serve", "check",
                         "done", "gone"}]
    BY DEF Init
  <2>5. /\ listener \in [Ids -> {"nil", "torn", "set"}] /\ open \in [Ids -> BOOLEAN]
        /\ closing \in [Ids -> 0..1] /\ runErr \in [Ids -> BOOLEAN]
        /\ fault \in [Ids -> BOOLEAN]
    BY DEF Init
  <2>6. /\ main \in {"load", "new", "start", "wait", "returned"} /\ sigChan \in BOOLEAN
        /\ stopper \in {"off", "receive", "store", "close", "ended"}
        /\ relays \subseteq 1..made /\ toStop \subseteq relays
        /\ target \in relays \cup {NoRelay}
    BY DEF Init
  <2>7. QED BY <1>1, <2>1, <2>2, <2>3, <2>4, <2>5, <2>6 DEF TypeOK
<1>6. Making
  <2>1. 1..Len(config) \subseteq Ids BY <1>1 DEF Ids
  <2>2. QED BY <1>3, <2>1 DEF Making, Init
<1>7. Counting
  <2>1. Working = {} BY <1>3 DEF Working
  <2>2. QED BY <1>3, <1>4, <2>1 DEF Counting, Begun, Init
<1>8. Stopping /\ Exiting BY DEF Stopping, Exiting, Init, Running, Success
<1>9. Listening /\ Sockets BY <1>3 DEF Listening, Sockets, Init
<1>10. CrashOnlyWithoutListener /\ StopIsNoError
  BY DEF CrashOnlyWithoutListener, StopIsNoError, Init, Running, Panic
<1>11. QED BY <1>5, <1>6, <1>7, <1>8, <1>9, <1>10 DEF IInv

-----------------------------------------------------------------------------
(***************************************************************************)
(* The steps.                                                              *)
(***************************************************************************)
\* Nothing changes in a process that has ended.
LEMMA Stutter == ASSUME IInv, UNCHANGED vars PROVE IInv'
<1>1. TypeOK'
  BY DEF IInv, TypeOK, LimitsAreUsable, IsHTTP, vars, mainVars, relayVars, stopVars
<1>2. Making' BY DEF IInv, Making, vars, mainVars, relayVars, stopVars
<1>3. Counting' BY DEF IInv, Counting, Begun, Working, vars, mainVars, relayVars, stopVars
<1>4. Stopping' /\ Exiting'
  BY DEF IInv, Stopping, Exiting, vars, mainVars, relayVars, stopVars
<1>5. Listening' BY DEF IInv, Listening, IsHTTP, vars, mainVars, relayVars, stopVars
<1>6. Sockets' BY DEF IInv, Sockets, IsHTTP, vars, mainVars, relayVars, stopVars
<1>7. CrashOnlyWithoutListener' /\ StopIsNoError'
  BY DEF IInv, CrashOnlyWithoutListener, StopIsNoError, IsHTTP, HasNegativeMTU, vars,
         mainVars, relayVars, stopVars
<1>8. QED BY <1>1, <1>2, <1>3, <1>4, <1>5, <1>6, <1>7 DEF IInv

\* The configuration is loaded, whole or in part.
LEMMA LoadStep == ASSUME IInv, Load PROVE IInv'
<1>1. config' \in Config /\ Len(config') <= Len(config)
  <2>1. config \in Config /\ Len(config) \in Nat BY ConfigFacts DEF IInv, TypeOK
  <2>2. CASE UNCHANGED config BY <2>1, <2>2
  <2>3. CASE \E i, j \in 0..Len(config) : config' = SubSeq(config, i + 1, j)
    <3>1. PICK i \in 0..Len(config), j \in 0..Len(config) : config' = SubSeq(config, i + 1, j)
      BY <2>3
    <3>2. QED BY <2>1, <3>1, PartOfConfig
  <2>4. QED BY <2>2, <2>3 DEF Load
<1>2. Len(config) \in Nat /\ Len(config') \in Nat BY <1>1, ConfigFacts DEF IInv, TypeOK
<1>3. made = 0 /\ relays = {} BY <1>2 DEF IInv, Making, Load, MainGoto
<1>4. TypeOK'
  <2>1. LimitsAreUsable' BY <1>3 DEF LimitsAreUsable, Load
  <2>2. made' \in 0..Len(config') BY <1>2, <1>3 DEF Load
  <2>3. QED BY <1>1, <2>1, <2>2 DEF IInv, TypeOK, Load, MainGoto, relayVars, stopVars
<1>5. Making' BY <1>1, <1>2, <1>3 DEF IInv, Making, Load, MainGoto
<1>6. Counting'
  BY DEF IInv, Counting, Begun, Working, Load, MainGoto, relayVars
<1>7. Stopping' /\ Exiting'
  BY DEF IInv, Stopping, Exiting, Load, MainGoto, relayVars, stopVars, Running, Success
<1>8. Listening' /\ Sockets' BY <1>3 DEF IInv, Listening, Sockets, Load, relayVars
<1>9. CrashOnlyWithoutListener' /\ StopIsNoError'
  BY DEF IInv, CrashOnlyWithoutListener, StopIsNoError, Load, MainGoto, relayVars, Running, Panic
<1>10. QED BY <1>4, <1>5, <1>6, <1>7, <1>8, <1>9 DEF IInv

\* New makes a relay: it gets the next number, and its name is a new one.
LEMMA MakeStep == ASSUME IInv, MakeRelay PROVE IInv'
<1> DEFINE r == made + 1
<1>1. /\ status = Running /\ main = "new" /\ r <= Len(config) /\ ~Taken(r)
      /\ made' = r /\ relays' = relays \cup {r}
      /\ UNCHANGED <<status, main, config, wg, run, listener, closing, runErr, fault,
                     sigChan, stopper, toStop, target>>
      /\ IF IsHTTP(r) THEN UNCHANGED open ELSE open' = [open EXCEPT ![r] = TRUE]
  BY DEF MakeRelay, stopVars
<1>2. /\ Len(config) \in Nat /\ made \in Nat /\ r \in 1..Len(config) /\ r \in Ids
      /\ relays = 1..made /\ relays' = 1..made' /\ relays' \subseteq Ids
      /\ relays' \subseteq 1..Len(config)
  BY <1>1, RelayFacts DEF IInv, Making
<1>3. \A q \in relays' : run[q] = "off" BY <1>1, <1>2 DEF IInv, Counting, Begun
<1>t. TypeOK BY DEF IInv
<1>w. Working = {} /\ Working' = {}
  BY <1>1, <1>2, <1>3 DEF Working
<1>4. TypeOK'
  <2>1. wg' \in 0..Cardinality(relays')
    <3>1. wg' = 0 BY <1>1, <1>w, FS_EmptySet DEF IInv, Counting
    <3>2. IsFiniteSet(relays') BY <1>1, RelayFacts, FS_AddElement DEF IInv
    <3>3. Cardinality(relays') \in Nat BY <3>2, FS_CardinalityType
    <3>4. QED BY <3>1, <3>3
  <2>2. open' \in [Ids -> BOOLEAN] BY <1>1, <1>t DEF TypeOK
  <2>3. config' \in Config /\ relays' \subseteq 1..Len(config')
    BY <1>1, <1>2, <1>t DEF TypeOK
  <2>4. LimitsAreUsable'
    BY <1>1, <1>2, <2>3, LimitsOfConfig DEF LimitsAreUsable, IsHTTP
  <2>5. made' \in 0..Len(config') /\ relays' \subseteq 1..made' BY <1>1, <1>2
  <2>6. toStop' \subseteq relays' /\ target' \in relays' \cup {NoRelay}
    BY <1>1, <1>t DEF TypeOK
  <2>7. QED BY <1>1, <1>t, <2>1, <2>2, <2>3, <2>4, <2>5, <2>6 DEF TypeOK
<1>5. Making'
  <2>1. ASSUME NEW i \in relays', NEW j \in relays', Name(config[i]) = Name(config[j])
        PROVE  i = j
    BY <1>1, <2>1 DEF IInv, Making, Taken
  <2>2. QED BY <1>1, <1>2, <2>1 DEF IInv, Making
<1>6. Counting'
  <2>1. \A q \in Ids : run'[q] # "off" <=> Begun' /\ q \in relays'
    BY <1>1 DEF IInv, Counting, Begun
  <2>2. QED BY <1>1, <1>w, <2>1 DEF IInv, Counting
<1>7. Stopping' /\ Exiting'
  BY <1>1 DEF IInv, Stopping, Exiting
<1>8. Listening' BY <1>1, <1>2, <1>3 DEF IInv, Listening, IsHTTP
<1>9. Sockets'
  <2> SUFFICES ASSUME NEW q \in relays'
               PROVE  /\ IsHTTP(q)' \/ open'[q] \/ closing'[q] = 1
                      /\ run'[q] = "off"
    BY DEF Sockets
  <2>1. CASE q = r BY <1>1, <1>2, <1>3, <2>1, <1>t DEF IsHTTP, TypeOK
  <2>2. CASE q \in relays /\ q # r
    <3>1. open'[q] = open[q] BY <1>1, <1>2, <2>2, <1>t DEF TypeOK
    <3>2. QED BY <1>1, <1>3, <2>2, <3>1 DEF IInv, Sockets, IsHTTP
  <2>3. QED BY <1>1, <2>1, <2>2
<1>10. CrashOnlyWithoutListener' /\ StopIsNoError'
  BY <1>1 DEF IInv, CrashOnlyWithoutListener, StopIsNoError, Running, Panic
<1>11. QED BY <1>4, <1>5, <1>6, <1>7, <1>8, <1>9, <1>10 DEF IInv

\* The other steps of main() and New, but for Service.Run: a relay cannot be made,
\* the interrupts are asked for, main() returns.
LEMMA MainStep == ASSUME IInv, NewFails \/ Notify \/ MainReturns PROVE IInv'
<1>1. /\ status = Running
      /\ UNCHANGED <<config, made, relays, wg, run, listener, open, closing, runErr, fault,
                     sigChan, toStop, target>>
  BY DEF NewFails, Notify, MainReturns, MainGoto, relayVars, stopVars
<1>2. \/ main = "new" /\ main' = "new" /\ status' = Fatal /\ stopper' = stopper
      \/ main = "new" /\ main' = "start" /\ status' = Running /\ stopper' = "receive"
         /\ made = Len(config)
      \/ main = "wait" /\ main' = "returned" /\ status' = Success /\ stopper' = stopper
         /\ wg = 0
  BY <1>1 DEF NewFails, Notify, MainReturns, MainGoto, stopVars
<1>3. TypeOK'
  <2>1. /\ status' \in {Running, Success, Fatal, Panic, Killed}
        /\ main' \in {"load", "new", "start", "wait", "returned"}
        /\ stopper' \in {"off", "receive", "store", "close", "ended"}
    BY <1>2 DEF IInv, TypeOK
  <2>2. LimitsAreUsable' BY <1>1 DEF IInv, TypeOK, LimitsAreUsable, IsHTTP
  <2>3. QED BY <1>1, <2>1, <2>2 DEF IInv, TypeOK
<1>4. Making' BY <1>1, <1>2 DEF IInv, Making
<1>5. Counting' BY <1>1, <1>2 DEF IInv, Counting, Begun, Working
<1>6. Stopping' BY <1>1, <1>2 DEF IInv, Stopping
<1>7. Exiting' BY <1>1, <1>2 DEF IInv, Exiting, Running, Fatal, Success
<1>8. Listening' /\ Sockets' BY <1>1 DEF IInv, Listening, Sockets, IsHTTP
<1>9. CrashOnlyWithoutListener' /\ StopIsNoError'
  BY <1>1, <1>2 DEF IInv, CrashOnlyWithoutListener, StopIsNoError, Running, Fatal, Success, Panic
<1>10. QED BY <1>3, <1>4, <1>5, <1>6, <1>7, <1>8, <1>9 DEF IInv

\* Service.Run starts every relay, and counts them.
LEMMA StartStep == ASSUME IInv, Start PROVE IInv'
<1>1. /\ status = Running /\ main = "start" /\ main' = "wait" /\ wg' = Cardinality(relays)
      /\ run' = [r \in Ids |-> IF r \notin relays THEN run[r]
                               ELSE IF IsHTTP(r) THEN "listen" ELSE "serve"]
      /\ UNCHANGED <<status, config, made, relays, listener, open, closing, runErr, fault,
                     sigChan, stopper, toStop, target>>
  BY DEF Start, MainGoto, stopVars
<1>2. relays \subseteq Ids /\ Cardinality(relays) \in Nat BY RelayFacts DEF IInv
<1>3. \A r \in Ids : run[r] = "off" BY <1>1 DEF IInv, Counting, Begun
<1>4. \A r \in relays : run'[r] = IF IsHTTP(r) THEN "listen" ELSE "serve" BY <1>1, <1>2
<1>5. \A r \in Ids \ relays : run'[r] = "off" BY <1>1, <1>3
<1>6. TypeOK'
  <2>1. run' \in [Ids -> {"off", "listen", "cert", "assign", "assigning", "serve", "check",
                          "done", "gone"}]
    BY <1>1, <1>3
  <2>2. wg' \in 0..Cardinality(relays') BY <1>1, <1>2
  <2>3. LimitsAreUsable' BY <1>1 DEF IInv, TypeOK, LimitsAreUsable, IsHTTP
  <2>4. QED BY <1>1, <2>1, <2>2, <2>3 DEF IInv, TypeOK
<1>7. Making' BY <1>1 DEF IInv, Making
<1>8. Counting'
  <2>1. Working' = relays' BY <1>1, <1>4 DEF Working
  <2>2. \A r \in Ids : run'[r] # "off" <=> r \in relays BY <1>4, <1>5
  <2>3. QED BY <1>1, <2>1, <2>2 DEF Counting, Begun
<1>9. Stopping' /\ Exiting' BY <1>1 DEF IInv, Stopping, Exiting, Running, Success
<1>10. Listening'
  <2>1. \A r \in Ids : listener[r] # "set" BY <1>3 DEF IInv, Listening
  <2>2. QED BY <1>1, <1>4, <2>1 DEF Listening, IsHTTP
<1>11. Sockets' BY <1>1, <1>4 DEF IInv, Sockets, IsHTTP
<1>12. CrashOnlyWithoutListener' /\ StopIsNoError'
  BY <1>1 DEF IInv, CrashOnlyWithoutListener, StopIsNoError, Running, Panic
<1>13. QED BY <1>6, <1>7, <1>8, <1>9, <1>10, <1>11, <1>12 DEF IInv

\* A step of Run() of relay r changes nothing of the other relays.
LEMMA RunFacts ==
    ASSUME IInv, NEW r \in Ids, Relay(r) \/ ServeFails(r)
    PROVE  /\ status = Running /\ run[r] \notin {"off", "gone"} /\ run'[r] # "off"
           /\ r \in relays /\ Begun
           /\ UNCHANGED <<status, main, config, made, relays, closing, stopVars>>
           /\ run' \in [Ids -> {"off", "listen", "cert", "assign", "assigning", "serve", "check",
                                "done", "gone"}]
           /\ listener' \in [Ids -> {"nil", "torn", "set"}] /\ open' \in [Ids -> BOOLEAN]
           /\ runErr' \in [Ids -> BOOLEAN] /\ fault' \in [Ids -> BOOLEAN]
           /\ \A q \in Ids \ {r} :
                 /\ run'[q] = run[q] /\ listener'[q] = listener[q] /\ open'[q] = open[q]
                 /\ runErr'[q] = runErr[q] /\ fault'[q] = fault[q]
           /\ run'[r] = "gone" => wg' = wg - 1
           /\ run'[r] # "gone" => wg' = wg
           /\ fault[r] => fault'[r]
           /\ open[r] => open'[r]
<1>t. TypeOK BY DEF IInv
<1> USE DEF RunGoto, mainVars, stopVars
<1>1. CASE Listen(r) BY <1>1, <1>t DEF Listen, TypeOK, IInv, Counting
<1>2. CASE ListenFails(r) BY <1>2, <1>t DEF ListenFails, Fails, TypeOK, IInv, Counting
<1>3. CASE LoadCert(r) BY <1>3, <1>t DEF LoadCert, TypeOK, IInv, Counting
<1>4. CASE CertFails(r) BY <1>4, <1>t DEF CertFails, Fails, TypeOK, IInv, Counting
<1>5. CASE BeginAssign(r) BY <1>5, <1>t DEF BeginAssign, TypeOK, IInv, Counting
<1>6. CASE EndAssign(r) BY <1>6, <1>t DEF EndAssign, TypeOK, IInv, Counting
<1>7. CASE ServeEnds(r) BY <1>7, <1>t DEF ServeEnds, TypeOK, IInv, Counting
<1>8. CASE ServeFails(r) BY <1>8, <1>t DEF ServeFails, TypeOK, IInv, Counting
<1>9. CASE CheckClosing(r) BY <1>9, <1>t DEF CheckClosing, TypeOK, IInv, Counting
<1>10. CASE Done(r) BY <1>10, <1>t DEF Done, TypeOK, IInv, Counting
<1>11. QED
  BY <1>1, <1>2, <1>3, <1>4, <1>5, <1>6, <1>7, <1>8, <1>9, <1>10 DEF Relay

\* A step of Run() keeps what is said of its relay.
LEMMA RunSafe ==
    ASSUME IInv, NEW r \in Ids, Relay(r) \/ ServeFails(r)
    PROVE  /\ listener'[r] = "set" => run'[r] \in {"serve", "check", "done", "gone"}
           /\ IF IsHTTP(r)
              THEN /\ run'[r] \in {"serve", "check"} => listener'[r] = "set"
                   /\ run'[r] \in {"done", "gone"} => listener'[r] = "set" \/ fault'[r]
                   /\ run'[r] \in {"cert", "assign", "assigning", "serve", "check"} =>
                         open'[r] \/ closing[r] = 1
              ELSE /\ run'[r] \in {"off", "serve", "check", "done", "gone"}
                   /\ open'[r] \/ closing[r] = 1
           /\ run'[r] \in {"check", "done", "gone"} =>
                 fault'[r] \/ (closing[r] = 1 /\ ~open'[r])
           /\ runErr'[r] => fault'[r]
<1>t. TypeOK BY DEF IInv
<1>r. r \in relays BY RunFacts
<1>l. /\ listener[r] = "set" => run[r] \in {"serve", "check", "done", "gone"}
      /\ IF IsHTTP(r)
         THEN /\ run[r] \in {"serve", "check"} => listener[r] = "set"
              /\ run[r] \in {"done", "gone"} => listener[r] = "set" \/ fault[r]
         ELSE run[r] \in {"off", "serve", "check", "done", "gone"}
  BY <1>r DEF IInv, Listening
<1>s. /\ IF IsHTTP(r)
         THEN run[r] \in {"cert", "assign", "assigning", "serve", "check"} =>
                 open[r] \/ closing[r] = 1
         ELSE open[r] \/ closing[r] = 1
      /\ run[r] \in {"check", "done", "gone"} =>
            fault[r] \/ (closing[r] = 1 /\ ~open[r])
  BY <1>r DEF IInv, Sockets
<1>e. runErr[r] => fault[r] BY DEF IInv, StopIsNoError
<1> USE DEF RunGoto, mainVars, stopVars
<1>1. CASE Listen(r) BY <1>1, <1>t, <1>l, <1>s, <1>e DEF Listen, TypeOK
<1>2. CASE ListenFails(r)
  BY <1>2, <1>t, <1>l, <1>s, <1>e DEF ListenFails, Fails, TypeOK
<1>3. CASE LoadCert(r) BY <1>3, <1>t, <1>l, <1>s, <1>e DEF LoadCert, TypeOK
<1>4. CASE CertFails(r)
  BY <1>4, <1>t, <1>l, <1>s, <1>e DEF CertFails, Fails, TypeOK
<1>5. CASE BeginAssign(r) BY <1>5, <1>t, <1>l, <1>s, <1>e DEF BeginAssign, TypeOK
<1>6. CASE EndAssign(r) BY <1>6, <1>t, <1>l, <1>s, <1>e DEF EndAssign, TypeOK
<1>7. CASE ServeEnds(r) BY <1>7, <1>t, <1>l, <1>s, <1>e DEF ServeEnds, TypeOK
<1>8. CASE ServeFails(r) BY <1>8, <1>t, <1>l, <1>s, <1>e DEF ServeFails, TypeOK
<1>9. CASE CheckClosing(r)
  <2>1. runErr'[r] = (closing[r] = 0) BY <1>9, <1>t DEF CheckClosing, TypeOK
  <2>2. run[r] = "check" /\ run'[r] = "done" BY <1>9, <1>t DEF CheckClosing, TypeOK
  <2>3. UNCHANGED <<listener, open, fault>> BY <1>9 DEF CheckClosing
  <2>4. closing[r] = 0 => fault[r] BY <2>2, <1>s
  <2>5. runErr'[r] => fault[r] BY <2>1, <2>4
  <2>6. QED BY <2>2, <2>3, <2>5, <1>l, <1>s
<1>10. CASE Done(r) BY <1>10, <1>t, <1>l, <1>s, <1>e DEF Done, TypeOK
<1>11. QED
  BY <1>1, <1>2, <1>3, <1>4, <1>5, <1>6, <1>7, <1>8, <1>9, <1>10 DEF Relay

\* Run() of a relay.
LEMMA RunStep == ASSUME IInv, NEW r \in Ids, Relay(r) \/ ServeFails(r) PROVE IInv'
<1>t. TypeOK BY DEF IInv
<1>1. /\ status = Running /\ run[r] \notin {"off", "gone"} /\ run'[r] # "off"
      /\ r \in relays /\ Begun
      /\ UNCHANGED <<status, main, config, made, relays, closing, sigChan, stopper, toStop,
                     target>>
  BY RunFacts DEF stopVars
<1>2. \A q \in Ids \ {r} :
         /\ run'[q] = run[q] /\ listener'[q] = listener[q] /\ open'[q] = open[q]
         /\ runErr'[q] = runErr[q] /\ fault'[q] = fault[q]
  BY RunFacts
<1>3. relays \subseteq Ids /\ IsFiniteSet(Working) /\ Cardinality(Working) \in Nat
      /\ Cardinality(relays) \in Nat /\ Cardinality(Working) <= Cardinality(relays)
  BY RelayFacts DEF IInv
<1>4. Counting'
  <2>1. r \in Working BY <1>1 DEF Working
  <2>2. wg = Cardinality(Working) BY DEF IInv, Counting
  <2>3. ASSUME run'[r] = "gone" PROVE wg' = Cardinality(Working')
    <3>1. wg' = wg - 1 BY <2>3, RunFacts
    <3>2. Working' = Working \ {r} BY <1>1, <1>2, <1>3, <2>3 DEF Working
    <3>3. Cardinality(Working') = Cardinality(Working) - 1
      BY <1>3, <2>1, <3>2, FS_RemoveElement
    <3>4. QED BY <2>2, <3>1, <3>3
  <2>4. ASSUME run'[r] # "gone" PROVE wg' = Cardinality(Working')
    <3>1. wg' = wg BY <2>4, RunFacts
    <3>2. Working' = Working BY <1>1, <1>2, <1>3, <2>4 DEF Working
    <3>3. QED BY <2>2, <3>1, <3>2
  <2>5. wg' = Cardinality(Working') BY <2>3, <2>4
  <2>6. \A q \in Ids : run'[q] # "off" <=> Begun' /\ q \in relays'
    BY <1>1, <1>2 DEF IInv, Counting, Begun
  <2>7. main' # "returned" BY <1>1 DEF IInv, Exiting, Running, Success
  <2>8. QED BY <2>5, <2>6, <2>7 DEF Counting
<1>5. TypeOK'
  <2>1. wg' \in 0..Cardinality(relays')
    <3>1. Working' \in SUBSET relays BY <1>1 DEF Working
    <3>2. IsFiniteSet(relays) BY RelayFacts DEF IInv
    <3>3. Cardinality(Working') <= Cardinality(relays) /\ IsFiniteSet(Working')
      BY <3>1, <3>2, FS_Subset
    <3>4. Cardinality(Working') \in Nat BY <3>3, FS_CardinalityType
    <3>5. QED BY <1>1, <1>3, <1>4, <3>3, <3>4 DEF Counting
  <2>2. LimitsAreUsable' BY <1>1, <1>t DEF TypeOK, LimitsAreUsable, IsHTTP
  <2>3. run' \in [Ids -> {"off", "listen", "cert", "assign", "assigning", "serve", "check",
                          "done", "gone"}]
    BY RunFacts
  <2>4. /\ listener' \in [Ids -> {"nil", "torn", "set"}] /\ open' \in [Ids -> BOOLEAN]
        /\ runErr' \in [Ids -> BOOLEAN] /\ fault' \in [Ids -> BOOLEAN]
    BY RunFacts
  <2>5. QED BY <1>1, <1>t, <2>1, <2>2, <2>3, <2>4 DEF TypeOK
<1>6. Making' BY <1>1 DEF IInv, Making
<1>7. Stopping' /\ Exiting' BY <1>1 DEF IInv, Stopping, Exiting
<1>8. Listening'
  <2>1. \A q \in Ids : listener'[q] = "set" => run'[q] \in {"serve", "check", "done", "gone"}
    BY <1>2, RunSafe DEF IInv, Listening
  <2>2. ASSUME NEW q \in relays
        PROVE  IF IsHTTP(q)
               THEN /\ run'[q] \in {"serve", "check"} => listener'[q] = "set"
                    /\ run'[q] \in {"done", "gone"} => listener'[q] = "set" \/ fault'[q]
               ELSE run'[q] \in {"off", "serve", "check", "done", "gone"}
    <3>1. CASE q = r BY <3>1, RunSafe
    <3>2. CASE q # r
      <4>1. /\ run'[q] = run[q] /\ listener'[q] = listener[q] /\ fault'[q] = fault[q]
        BY <1>2, <1>3, <3>2
      <4>2. QED BY <4>1 DEF IInv, Listening
    <3>3. QED BY <3>1, <3>2
  <2>3. QED BY <1>1, <2>1, <2>2 DEF Listening, IsHTTP
<1>9. Sockets'
  <2>1. ASSUME NEW q \in relays
        PROVE  /\ IF IsHTTP(q)
                  THEN run'[q] \in {"cert", "assign", "assigning", "serve", "check"} =>
                          open'[q] \/ closing[q] = 1
                  ELSE open'[q] \/ closing[q] = 1
               /\ run'[q] \in {"check", "done", "gone"} =>
                     fault'[q] \/ (closing[q] = 1 /\ ~open'[q])
    <3>1. CASE q = r BY <3>1, RunSafe
    <3>2. CASE q # r
      <4>1. run'[q] = run[q] /\ open'[q] = open[q] /\ fault'[q] = fault[q]
        BY <1>2, <1>3, <3>2
      <4>2. QED BY <4>1 DEF IInv, Sockets
    <3>3. QED BY <3>1, <3>2
  <2>2. QED BY <1>1, <2>1 DEF Sockets, IsHTTP
<1>10. CrashOnlyWithoutListener' BY <1>1 DEF CrashOnlyWithoutListener, Running, Panic
<1>11. StopIsNoError' BY <1>2, RunSafe DEF IInv, StopIsNoError
<1>12. QED BY <1>4, <1>5, <1>6, <1>7, <1>8, <1>9, <1>10, <1>11 DEF IInv

\* An interrupt, the goroutine that stops the relays, and a packet that crashes the
\* process.
LEMMA StopStep ==
    ASSUME IInv, Stopper \/ Interrupt \/ \E r \in Ids : PostPanics(r)
    PROVE  IInv'
<1>t. TypeOK BY DEF IInv
<1>r. relays \subseteq Ids BY RelayFacts DEF IInv
<1>1. /\ status = Running /\ status' \in {Running, Panic, Killed}
      /\ UNCHANGED <<main, config, made, relays, wg, run, listener, runErr, fault>>
  BY DEF Stopper, Interrupt, ReceiveSignal, StoreClosing, CloseSocket, CloseCrashes,
         CloseIsLost, StopperEnds, StopperGoto, PostPanics, mainVars, relayVars
<1>2. /\ sigChan' \in BOOLEAN /\ stopper' \in {"off", "receive", "store", "close", "ended"}
      /\ stopper' = "off" <=> stopper = "off"
      /\ toStop' \subseteq relays /\ target' \in relays \cup {NoRelay}
      /\ closing' \in [Ids -> 0..1] /\ open' \in [Ids -> BOOLEAN]
      /\ \A q \in Ids : closing[q] = 1 => closing'[q] = 1
      /\ stopper' = "close" => target' \in relays /\ closing'[target'] = 1
      /\ \A q \in Ids : open'[q] # open[q] => closing[q] = 1 /\ ~open'[q]
  <2> USE <1>t, <1>r DEF StopperGoto, mainVars, relayVars, TypeOK, IInv, Stopping
  <2>1. CASE Interrupt BY <2>1 DEF Interrupt
  <2>2. CASE ReceiveSignal BY <2>2 DEF ReceiveSignal
  <2>3. CASE \E r \in Ids : StoreClosing(r) BY <2>3 DEF StoreClosing
  <2>4. CASE CloseSocket BY <2>4 DEF CloseSocket
  <2>5. CASE CloseCrashes BY <2>5 DEF CloseCrashes, stopVars
  <2>6. CASE CloseIsLost BY <2>6 DEF CloseIsLost
  <2>7. CASE StopperEnds BY <2>7 DEF StopperEnds
  <2>8. CASE \E r \in Ids : PostPanics(r) BY <2>8 DEF PostPanics, relayVars, stopVars
  <2>9. QED BY <2>1, <2>2, <2>3, <2>4, <2>5, <2>6, <2>7, <2>8 DEF Stopper
<1>3. TypeOK'
  <2>1. LimitsAreUsable' BY <1>1, <1>t DEF TypeOK, LimitsAreUsable, IsHTTP
  <2>2. status' \in {Running, Success, Fatal, Panic, Killed} BY <1>1
  <2>3. QED BY <1>1, <1>2, <1>t, <2>1, <2>2 DEF TypeOK
<1>4. Making' /\ Counting' BY <1>1 DEF IInv, Making, Counting, Begun, Working
<1>5. Stopping' BY <1>1, <1>2 DEF IInv, Stopping
<1>6. Exiting' BY <1>1 DEF IInv, Exiting, Running, Success, Panic, Killed
<1>7. Listening' BY <1>1 DEF IInv, Listening, IsHTTP
<1>8. Sockets'
  <2>1. ASSUME NEW q \in relays
        PROVE  /\ open[q] \/ closing[q] = 1 => open'[q] \/ closing'[q] = 1
               /\ closing[q] = 1 => closing'[q] = 1
               /\ ~open[q] => ~open'[q]
    BY <1>2, <1>r, <1>t DEF TypeOK
  <2>2. QED BY <1>1, <2>1 DEF IInv, Sockets, IsHTTP
<1>9. CrashOnlyWithoutListener'
  <2> SUFFICES ASSUME status' = Panic PROVE CrashOnlyWithoutListener' BY DEF CrashOnlyWithoutListener
  <2>1. CASE CloseCrashes
    <3>1. target \in relays /\ IsHTTP(target) /\ listener[target] # "set"
      BY <2>1 DEF CloseCrashes, IInv, Stopping
    <3>2. fault[target] \/ run[target] \in {"off", "listen", "cert", "assign", "assigning"}
      BY <3>1, <1>r, <1>t DEF IInv, Listening, TypeOK
    <3>3. QED BY <1>1, <3>1, <3>2 DEF CrashOnlyWithoutListener, IsHTTP
  <2>2. CASE \E r \in Ids : PostPanics(r)
    <3>1. PICK r \in relays : HasNegativeMTU(r) BY <2>2 DEF PostPanics
    <3>2. HasNegativeMTU(r)' BY <1>1, <3>1 DEF HasNegativeMTU
    <3>3. QED BY <1>1, <3>2 DEF CrashOnlyWithoutListener
  <2>3. QED
    BY <2>1, <2>2, <1>1 DEF Stopper, Interrupt, ReceiveSignal, StoreClosing, CloseSocket,
       CloseIsLost, StopperEnds, StopperGoto, mainVars, Running, Panic, Killed
<1>10. StopIsNoError' BY <1>1 DEF IInv, StopIsNoError
<1>11. QED BY <1>3, <1>4, <1>5, <1>6, <1>7, <1>8, <1>9, <1>10 DEF IInv

-----------------------------------------------------------------------------
(***************************************************************************)
(* The theorems.                                                           *)
(***************************************************************************)
\* Every step keeps the invariant.
LEMMA Inductive == IInv /\ [Next]_vars => IInv'
<1> SUFFICES ASSUME IInv, [Next]_vars PROVE IInv' OBVIOUS
<1>1. CASE Main BY <1>1, LoadStep, MakeStep, MainStep, StartStep DEF Main
<1>2. CASE Stopper \/ Interrupt \/ \E r \in Ids : PostPanics(r) BY <1>2, StopStep
<1>3. CASE Ended \/ UNCHANGED vars BY <1>3, Stutter DEF Ended
<1>4. ASSUME NEW r \in Ids, Relay(r) \/ ServeFails(r) PROVE IInv' BY <1>4, RunStep
<1>5. QED BY <1>1, <1>2, <1>3, <1>4 DEF Next

\* Every reachable state of the process satisfies the invariant.
THEOREM Invariance == Spec => []IInv
<1>1. QED BY Initially, Inductive, PTL DEF Spec

\* The variables have their types, and the limits of what is configured can be used,
\* but for a negative MTU.
THEOREM TypesHold == Spec => []TypeOK
<1>1. IInv => TypeOK BY DEF IInv
<1>2. QED BY <1>1, Invariance, PTL

\* However many relays there are, those that run are all of the configuration.
THEOREM AllRelaysRun == Spec => []NoRelayIsLost
<1>1. IInv => NoRelayIsLost BY DEF IInv, Making, NoRelayIsLost
<1>2. QED BY <1>1, Invariance, PTL

\* Stop() panics only when it comes to an HTTP relay that has not assigned h.l, and
\* nothing else does, but for a packet that meets a negative MTU.
THEOREM StopNeedsAListener == Spec => []CrashOnlyWithoutListener
<1>1. IInv => CrashOnlyWithoutListener BY DEF IInv
<1>2. QED BY <1>1, Invariance, PTL

\* Run() sees `closing' when the socket was closed by Stop(): it returns no error.
THEOREM StoppingIsSilent == Spec => []StopIsNoError
<1>1. IInv => StopIsNoError BY DEF IInv
<1>2. QED BY <1>1, Invariance, PTL

\* main() returns when the WaitGroup is down to 0: every relay is gone, and it was
\* told to stop and has its socket closed, or it has failed by itself.
THEOREM ExitIsComplete == Spec => []ExitLeavesNothingRunning
<1>1. ASSUME IInv, status = Success, NEW r \in relays
      PROVE  run[r] = "gone" /\ (fault[r] \/ (closing[r] = 1 /\ ~open[r]))
  <2>1. relays \subseteq Ids /\ IsFiniteSet(Working) BY <1>1, RelayFacts DEF IInv
  <2>2. main = "returned" /\ wg = 0 BY <1>1 DEF IInv, Exiting, Counting
  <2>3. Working = {} BY <1>1, <2>1, <2>2, FS_EmptySet DEF IInv, Counting
  <2>4. run[r] # "off" BY <1>1, <2>1, <2>2 DEF IInv, Counting, Begun
  <2>5. run[r] = "gone" BY <2>3, <2>4 DEF Working
  <2>6. QED BY <1>1, <2>5 DEF IInv, Sockets
<1>2. IInv => ExitLeavesNothingRunning BY <1>1 DEF ExitLeavesNothingRunning
<1>3. QED BY <1>2, Invariance, PTL
=============================================================================
