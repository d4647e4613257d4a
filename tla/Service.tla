-------------------------------- MODULE Service --------------------------------
(***************************************************************************)
(* The life cycle of the process (main.go, relay/relay.go): the relays are *)
(* made from the configuration, run in a goroutine each, and stopped by an *)
(* interrupt.  Of a relay there is what NewHTTP, NewUDP, HTTP.Run and      *)
(* HTTP.Stop do, and of UDP.Run that it ends after Stop (UDPRelay).        *)
(***************************************************************************)
EXTENDS Integers, Sequences, FiniteSetsExt

CONSTANT Configs     \* the configurations there may be, see Config

DefaultBatchSizeKB == 512
KB == 1024
MB == 1024 * KB
defaultMTU == 1024

\* A duration is absent, well formed or not.
Duration == {"none", "good", "bad"}

HTTPOutput == [timeout : Duration, bufferMB : Int, batchKB : Int, delay : Duration]
UDPOutput == [resolves : BOOLEAN, mtu : Int]

\* `cert' is the file of ssl-combined-pem.
HTTPConfig == [kind : {"http"}, name : STRING, addr : STRING, cert : Duration,
               outputs : Seq(HTTPOutput)]
UDPConfig == [kind : {"udp"}, name : STRING, addr : STRING, outputs : Seq(UDPOutput)]

\* config.HTTPRelays, followed by config.UDPRelays.
Config == {c \in Seq(HTTPConfig \cup UDPConfig) :
             \A i, j \in 1..Len(c) : c[i].kind = "udp" /\ i < j => c[j].kind = "udp"}

ASSUME ServiceAssumption == Configs \subseteq Config

\* The numbers relays may have.
Ids == UNION {1..Len(c) : c \in Configs}

\* Exit statuses.
Running == -1
Success == 0
Fatal == 1
Panic == 2
Killed == 3

NoRelay == 0

VARIABLES
    status,      \* how the process has ended, or Running
    main,        \* where main() is
    config,      \* the configuration
    made,        \* how many of its relays New has made
    relays,      \* Service.relays: the numbers of the relays in the map
    wg,          \* the WaitGroup of Service.Run
    run,         \* where Run() of each relay is
    listener,    \* HTTP.l
    open,        \* the relay has a socket that listens, and nobody has closed it
    closing,     \* HTTP.closing, UDP.closing
    runErr,      \* Run() has returned an error
    fault,       \* history: it failed by itself, not because of Stop()
    sigChan,     \* the channel holds an interrupt
    stopper,     \* where the goroutine that waits for it is
    toStop,      \* the relays Service.Stop has still to come to
    target       \* the one it is stopping

mainVars == <<status, main, config, made, relays, wg>>
relayVars == <<run, listener, open, closing, runErr, fault>>
stopVars == <<sigChan, stopper, toStop, target>>
vars == <<mainVars, relayVars, stopVars>>

-----------------------------------------------------------------------------
Init ==
    /\ status = Running
    /\ main = "load"
    /\ config \in Configs
    /\ made = 0
    /\ relays = {}
    /\ wg = 0
    /\ run = [r \in Ids |-> "off"]
    /\ listener = [r \in Ids |-> "nil"]
    /\ open = [r \in Ids |-> FALSE]
    /\ closing = [r \in Ids |-> 0]
    /\ runErr = [r \in Ids |-> FALSE]
    /\ fault = [r \in Ids |-> FALSE]
    /\ sigChan = FALSE
    /\ stopper = "off"
    /\ toStop = {}
    /\ target = NoRelay

IsHTTP(r) == config[r].kind = "http"

\* Only an MTU of 0 is replaced by the default.
HasNegativeMTU(r) ==
    /\ config[r].kind = "udp"
    /\ \E i \in 1..Len(config[r].outputs) : config[r].outputs[i].mtu < 0

(***************************************************************************)
(* main() and New().                                                       *)
(***************************************************************************)
MainGoto(from, to) ==
    /\ status = Running
    /\ main = from
    /\ main' = to

\* LoadConfigFile.  If it fails, main() goes on with what has been decoded.
Load ==
    /\ MainGoto("load", "new")
    /\ \/ UNCHANGED config
       \/ \E i, j \in 0..Len(config) : config' = SubSeq(config, i + 1, j)
    /\ UNCHANGED <<status, made, relays, wg, relayVars, stopVars>>

\* The key in the map of relays: Name().
Name(c) ==
    IF c.name # "" THEN c.name
    ELSE IF c.kind = "udp" THEN c.addr
    ELSE (IF c.cert = "none" THEN "http" ELSE "https") \o "://" \o c.addr

\* Mutant of BackendOf: only an absent max-batch-kb gets the default.
BackendOfZeroOnly(o) ==
    [buffered |-> o.bufferMB > 0,
     maxBuffered |-> o.bufferMB * MB,
     maxBatch |-> (IF o.batchKB # 0 THEN o.batchKB ELSE DefaultBatchSizeKB) * KB]

\* newHTTPBackend: whether there is a retry buffer, and with which limits.
BackendOf(o) ==
    [buffered |-> o.bufferMB > 0,
     maxBuffered |-> o.bufferMB * MB,
     maxBatch |-> (IF o.batchKB > 0 THEN o.batchKB ELSE DefaultBatchSizeKB) * KB]

\* NewUDP: the MTU of an output.
MTUOf(o) == IF o.mtu = 0 THEN defaultMTU ELSE o.mtu

\* newHTTPBackend returns an error.
BadOutput(o) == o.timeout = "bad" \/ (BackendOf(o).buffered /\ o.delay = "bad")

\* NewHTTP does not touch the network.
NewHTTPFails(c) == \E i \in 1..Len(c.outputs) : BadOutput(c.outputs[i])

\* NewUDP, which also listens (see NewFails), resolves the outputs.
NewUDPFails(c) == \E i \in 1..Len(c.outputs) : ~c.outputs[i].resolves

Makeable(c) == IF c.kind = "http" THEN ~NewHTTPFails(c) ELSE ~NewUDPFails(c)

\* Two sockets of one kind cannot be bound to the same address.
Bound(r) ==
    \E q \in Ids \ {r} :
        /\ q <= Len(config) /\ open[q]
        /\ config[q].kind = config[r].kind /\ config[q].addr = config[r].addr

Taken(r) == \E q \in relays : Name(config[q]) = Name(config[r])

\* Mutant of MakeRelay: names are not compared, the map keeps the last relay.
MakeRelayOverwrites ==
    LET r == made + 1
    IN /\ main = "new" /\ status = Running /\ r <= Len(config)
       /\ Makeable(config[r])
       /\ made' = r
       /\ relays' = {q \in relays : Name(config[q]) # Name(config[r])} \cup {r}
       /\ IF IsHTTP(r) THEN UNCHANGED open
          ELSE ~Bound(r) /\ open' = [open EXCEPT ![r] = TRUE]
       /\ UNCHANGED <<status, main, config, wg, run, listener, closing, runErr, fault, stopVars>>

\* The next relay is made and put into the map.
MakeRelay ==
    LET r == made + 1
    IN /\ main = "new" /\ status = Running /\ r <= Len(config)
       /\ Makeable(config[r]) /\ ~Taken(r)
       /\ made' = r
       /\ relays' = relays \cup {r}
       /\ IF IsHTTP(r) THEN UNCHANGED open
          ELSE ~Bound(r) /\ open' = [open EXCEPT ![r] = TRUE]
       /\ UNCHANGED <<status, main, config, wg, run, listener, closing, runErr, fault, stopVars>>

\* The next relay cannot be made (a UDP socket may fail at any time), or has a
\* name that is taken: log.Fatal.
NewFails ==
    LET r == made + 1
    IN /\ main = "new" /\ status = Running /\ r <= Len(config)
       /\ ~Makeable(config[r]) \/ Taken(r) \/ ~IsHTTP(r)
       /\ status' = Fatal
       /\ UNCHANGED <<main, config, made, relays, wg, relayVars, stopVars>>

\* signal.Notify, and the goroutine that waits for an interrupt.
Notify ==
    /\ made = Len(config)
    /\ MainGoto("new", "start")
    /\ stopper' = "receive"
    /\ UNCHANGED <<status, config, made, relays, wg, relayVars, sigChan, toStop, target>>

\* Mutant of Start: the WaitGroup counts one relay.
StartCountsOne ==
    /\ MainGoto("start", "wait")
    /\ wg' = Min({1, Cardinality(relays)})
    /\ run' = [r \in Ids |-> IF r \notin relays THEN run[r]
                             ELSE IF IsHTTP(r) THEN "listen" ELSE "serve"]
    /\ UNCHANGED <<status, config, made, relays, listener, open, closing, runErr, fault,
                   stopVars>>

\* Service.Run: wg.Add and the go statements.  NewUDP has the socket already.
Start ==
    /\ MainGoto("start", "wait")
    /\ wg' = Cardinality(relays)
    /\ run' = [r \in Ids |-> IF r \notin relays THEN run[r]
                             ELSE IF IsHTTP(r) THEN "listen" ELSE "serve"]
    /\ UNCHANGED <<status, config, made, relays, listener, open, closing, runErr, fault,
                   stopVars>>

\* wg.Wait(), and main() returns.
MainReturns ==
    /\ wg = 0
    /\ MainGoto("wait", "returned")
    /\ status' = Success
    /\ UNCHANGED <<config, made, relays, wg, relayVars, stopVars>>

(***************************************************************************)
(* Run() of a relay.                                                       *)
(***************************************************************************)
RunGoto(r, from, to) ==
    /\ status = Running
    /\ run[r] = from
    /\ run' = [run EXCEPT ![r] = to]

\* Run() returns an error without looking at `closing'.
Fails(r, from) ==
    /\ RunGoto(r, from, "done")
    /\ runErr' = [runErr EXCEPT ![r] = TRUE]
    /\ fault' = [fault EXCEPT ![r] = TRUE]
    /\ UNCHANGED <<mainVars, listener, open, closing, stopVars>>

\* net.Listen
Listen(r) ==
    /\ RunGoto(r, "listen", "cert")
    /\ ~Bound(r)
    /\ open' = [open EXCEPT ![r] = TRUE]
    /\ UNCHANGED <<mainVars, listener, closing, runErr, fault, stopVars>>

ListenFails(r) == Fails(r, "listen")

\* tls.LoadX509KeyPair, if there is a certificate to load.
LoadCert(r) ==
    /\ RunGoto(r, "cert", "assign")
    /\ config[r].cert # "bad"
    /\ UNCHANGED <<mainVars, listener, open, closing, runErr, fault, stopVars>>

CertFails(r) == run[r] = "cert" /\ config[r].cert = "bad" /\ Fails(r, "cert")

\* h.l = l, unsynchronised: the two words of the interface are stored one
\* after the other, and Stop() may read in between.
BeginAssign(r) ==
    /\ RunGoto(r, "assign", "assigning")
    /\ listener' = [listener EXCEPT ![r] = "torn"]
    /\ UNCHANGED <<mainVars, open, closing, runErr, fault, stopVars>>

\* Mutant of EndAssign: h.l is not set, only the local `l'.
EndAssignLocal(r) ==
    /\ RunGoto(r, "assigning", "serve")
    /\ listener' = [listener EXCEPT ![r] = "nil"]
    /\ UNCHANGED <<mainVars, open, closing, runErr, fault, stopVars>>

EndAssign(r) ==
    /\ RunGoto(r, "assigning", "serve")
    /\ listener' = [listener EXCEPT ![r] = "set"]
    /\ UNCHANGED <<mainVars, open, closing, runErr, fault, stopVars>>

\* http.Serve or ReadFromUDP fails because the socket is closed ...
ServeEnds(r) ==
    /\ ~open[r]
    /\ RunGoto(r, "serve", "check")
    /\ UNCHANGED <<mainVars, listener, open, closing, runErr, fault, stopVars>>

\* ... or by itself.
ServeFails(r) ==
    /\ open[r]
    /\ RunGoto(r, "serve", "check")
    /\ fault' = [fault EXCEPT ![r] = TRUE]
    /\ UNCHANGED <<mainVars, listener, open, closing, runErr, stopVars>>

\* The error counts unless Stop() was called.
CheckClosing(r) ==
    /\ RunGoto(r, "check", "done")
    /\ runErr' = [runErr EXCEPT ![r] = (closing[r] = 0)]
    /\ UNCHANGED <<mainVars, listener, open, closing, fault, stopVars>>

\* defer wg.Done(); an error has been logged.
Done(r) ==
    /\ RunGoto(r, "done", "gone")
    /\ wg' = wg - 1
    /\ UNCHANGED <<status, main, config, made, relays, listener, open, closing, runErr,
                   fault, stopVars>>

\* The goroutine of UDP.Run that posts the packets slices data[:b.mtu], of a
\* negative length: the process panics.
PostPanics(r) ==
    /\ status = Running /\ r \in relays
    /\ run[r] \in {"serve", "check"} /\ HasNegativeMTU(r)
    /\ status' = Panic
    /\ UNCHANGED <<main, config, made, relays, wg, relayVars, stopVars>>

(***************************************************************************)
(* Signals and Stop().                                                     *)
(***************************************************************************)
\* Before signal.Notify an interrupt kills the process; afterwards it goes to
\* the channel of capacity 1, or is dropped.
Interrupt ==
    /\ status = Running
    /\ IF stopper = "off"
       THEN status' = Killed /\ UNCHANGED sigChan
       ELSE ~sigChan /\ sigChan' = TRUE /\ UNCHANGED status
    /\ UNCHANGED <<main, config, made, relays, wg, relayVars, stopper, toStop, target>>

StopperGoto(from, to) ==
    /\ status = Running
    /\ stopper = from
    /\ stopper' = to

\* <-sigChan
ReceiveSignal ==
    /\ sigChan
    /\ StopperGoto("receive", "store")
    /\ sigChan' = FALSE
    /\ toStop' = relays
    /\ UNCHANGED <<mainVars, relayVars, target>>

\* Mutant of StoreClosing: the flag is not set.
StoreClosingForgotten(r) ==
    /\ r \in toStop
    /\ StopperGoto("store", "close")
    /\ toStop' = toStop \ {r}
    /\ target' = r
    /\ UNCHANGED <<mainVars, relayVars, sigChan>>

\* v.Stop() of a relay, in the order of the map: `closing' is set first.
StoreClosing(r) ==
    /\ r \in toStop
    /\ StopperGoto("store", "close")
    /\ closing' = [closing EXCEPT ![r] = 1]
    /\ toStop' = toStop \ {r}
    /\ target' = r
    /\ UNCHANGED <<mainVars, run, listener, open, runErr, fault, sigChan>>

\* Mutant of CloseSocket: only one relay is stopped.
CloseSocketOnce ==
    /\ StopperGoto("close", "store")
    /\ ~IsHTTP(target) \/ listener[target] = "set"
    /\ open' = [open EXCEPT ![target] = FALSE]
    /\ toStop' = {}
    /\ UNCHANGED <<mainVars, run, listener, closing, runErr, fault, sigChan, target>>

\* h.l.Close(), u.l.Close()
CloseSocket ==
    /\ StopperGoto("close", "store")
    /\ ~IsHTTP(target) \/ listener[target] = "set"
    /\ open' = [open EXCEPT ![target] = FALSE]
    /\ UNCHANGED <<mainVars, run, listener, closing, runErr, fault, sigChan, toStop, target>>

\* h.l is nil, or half of it has been read: the call panics.
CloseCrashes ==
    /\ status = Running /\ stopper = "close"
    /\ IsHTTP(target) /\ listener[target] # "set"
    /\ status' = Panic
    /\ UNCHANGED <<main, config, made, relays, wg, relayVars, stopVars>>

\* Half of it has been read: Close() of a nil *net.TCPListener is an error,
\* which nobody looks at.
CloseIsLost ==
    /\ StopperGoto("close", "store")
    /\ IsHTTP(target) /\ listener[target] = "torn" /\ config[target].cert = "none"
    /\ UNCHANGED <<mainVars, relayVars, sigChan, toStop, target>>

\* Every relay has been stopped: the goroutine ends.
StopperEnds ==
    /\ StopperGoto("store", "ended")
    /\ toStop = {}
    /\ UNCHANGED <<mainVars, relayVars, sigChan, toStop, target>>

Ended == status # Running /\ UNCHANGED vars

-----------------------------------------------------------------------------
Main == Load \/ MakeRelay \/ NewFails \/ Notify \/ Start \/ MainReturns

\* Run() of relay r, as far as it goes on by itself.
Relay(r) ==
    \/ Listen(r) \/ ListenFails(r) \/ LoadCert(r) \/ CertFails(r) \/ BeginAssign(r)
    \/ EndAssign(r) \/ ServeEnds(r) \/ CheckClosing(r) \/ Done(r)

Stopper ==
    \/ ReceiveSignal \/ \E r \in Ids : StoreClosing(r)
    \/ CloseSocket \/ CloseCrashes \/ CloseIsLost \/ StopperEnds

Next ==
    \/ Main \/ Stopper \/ Interrupt \/ Ended
    \/ \E r \in Ids : Relay(r) \/ ServeFails(r) \/ PostPanics(r)

Spec == Init /\ [][Next]_vars

\* Goroutines are scheduled.  Nobody has to interrupt the process, and no
\* relay has to fail, or to get a packet.
Fairness == WF_vars(Main) /\ WF_vars(Stopper) /\ \A r \in Ids : WF_vars(Relay(r))

FairSpec == Spec /\ Fairness
-----------------------------------------------------------------------------
(***************************************************************************)
(* Properties.                                                             *)
(***************************************************************************)
\* What is configured can be run: a retry buffer has room and a batch size (run()
\* allocates a buffer of it), and no datagram is limited to nothing.  A negative MTU
\* is taken as it is, and is of no use (PostPanics).
LimitsAreUsable ==
    \A r \in relays : \A i \in 1..Len(config[r].outputs) :
        LET o == config[r].outputs[i]
        IN IF IsHTTP(r)
           THEN BackendOf(o).buffered =>
                   BackendOf(o).maxBuffered > 0 /\ BackendOf(o).maxBatch > 0
           ELSE o.mtu >= 0 => MTUOf(o) > 0

\* The types of the variables, and of what is made of the configuration.
TypeOK ==
    /\ status \in {Running, Success, Fatal, Panic, Killed}
    /\ main \in {"load", "new", "start", "wait", "returned"}
    /\ config \in Config
    /\ made \in 0..Len(config)
    /\ relays \subseteq 1..made
    /\ wg \in 0..Cardinality(relays)
    /\ run \in [Ids -> {"off", "listen", "cert", "assign", "assigning", "serve", "check",
                        "done", "gone"}]
    /\ listener \in [Ids -> {"nil", "torn", "set"}]
    /\ open \in [Ids -> BOOLEAN]
    /\ closing \in [Ids -> 0..1]
    /\ runErr \in [Ids -> BOOLEAN]
    /\ fault \in [Ids -> BOOLEAN]
    /\ sigChan \in BOOLEAN
    /\ stopper \in {"off", "receive", "store", "close", "ended"}
    /\ toStop \subseteq relays
    /\ target \in relays \cup {NoRelay}
    /\ LimitsAreUsable

\* No relay of the configuration is lost: those that run are all of them, under
\* different names, whatever names and defaults the configuration relies on.
NoRelayIsLost ==
    main \in {"start", "wait", "returned"} =>
        /\ relays = 1..Len(config)
        /\ \A i, j \in relays : Name(config[i]) = Name(config[j]) => i = j

\* An interrupt crashes the process only while an HTTP relay has no listener, because
\* Run() has not set it yet or has failed before.  Nothing else crashes it, but a
\* packet for a UDP relay with a negative MTU.
CrashOnlyWithoutListener ==
    status = Panic =>
        \E r \in relays :
            \/ /\ IsHTTP(r) /\ listener[r] # "set"
               /\ fault[r] \/ run[r] \in {"off", "listen", "cert", "assign", "assigning"}
            \/ HasNegativeMTU(r)

\* A relay that Stop() ends reports no error.
StopIsNoError == \A r \in Ids : runErr[r] => fault[r]

\* The process exits with status 0 only when no relay is still at work, and each has
\* been told to stop and its socket closed, but for those that failed by themselves:
\* nobody closes the socket of such a relay.
ExitLeavesNothingRunning ==
    status = Success =>
        \A r \in relays : run[r] = "gone" /\ (fault[r] \/ (closing[r] = 1 /\ ~open[r]))

\* Every HTTP relay has a listener, and no packet can crash the process.
Ready ==
    /\ main = "wait"
    /\ \A r \in relays : (IsHTTP(r) => listener[r] = "set") /\ ~HasNegativeMTU(r)

\* The first interrupt after all relays have begun to listen ends the process
\* in the proper way, also when some of them fail meanwhile.
InterruptEnds == Ready /\ sigChan /\ stopper = "receive" ~> status = Success
=============================================================================
