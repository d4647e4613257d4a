# A TLA+ model of influxdb-relay

influxdb-relay receives writes for InfluxDB over HTTP and UDP and sends each to
every configured backend.  In front of an HTTP backend there may be a retry
buffer, which holds writes while the backend is down.  The repository also has the
script that builds and packages the relay, `build.py`, and an init script.  This
directory models all of these in TLA+, checks the models with TLC on small
instances, and proves the safety properties of every component with TLAPS for
every instance.

File and line numbers below are those of the repository; `PROJECT.json` maps every
definition to the lines it stands for.

## 1. Inventory

| component | state | operations | module |
|---|---|---|---|
| retry buffer (`relay/retry.go`) | the flag `buffering`, the linked list of batches with its byte count, mutex and condition; per batch its buffers, size, `full`, response and WaitGroup | `post` (handlers), `add`, `pop`, `run` (one goroutine) | `RetryBuffer` |
| HTTP relay: requests and fan-out (`relay/http.go:113-418`) | per request the locals of `ServeHTTP`, the channel `responses`, a WaitGroup; the buffer pool `bufPool` | `ServeHTTP`, one goroutine per backend, the goroutine that closes the channel, `simplePoster.post`, `getBuf`, `putBuf` | `HTTPRelay` |
| UDP relay (`relay/udp.go`) | the packet array, the channel `queue`, a WaitGroup, the pool, `closing`, the socket | `Run`, the worker, `post`, `udpBackend.post`, `Stop` | `UDPRelay` |
| life cycle (`relay/relay.go`, `main.go`, `HTTP.Run/Stop`, `NewHTTP`, `NewUDP`) | the relays by name, the listeners, `closing`, the signal channel | `New`, `Run`, `Stop`, the interrupt | `Service` |
| HTTP relay with buffered backends | all of the first two; what each backend has stored | the posts of the fan-out, direct and buffered | `RelaySystem` |
| configuration (`relay/config.go`, the sample files) | none | decoding | its values in `Service`; the decoder not modelled |
| build and packaging script (`build.py`) | the working tree (branch, commit, local changes), output directories, temporary directories | one invocation: `main`, `build`, `package` | `BuildNames`, `BuildScript` |
| init script (`scripts/init.sh`) | the pid file, the processes it names | start, stop, restart, status | `InitScript` |
| units, container start, package hooks, image | none of the relay's | declarations, and one call each of system tools | not modelled |

How they interact: `ServeHTTP` starts one goroutine per backend; each calls the
backend's `poster`, which is either a `simplePoster` or a `retryBuffer` wrapped
around one.  All of them read the same `outBuf`, which goes back to a pool shared
by all requests when the last `post` has returned.  A retry buffer is shared by all
handler goroutines and by its own goroutine `run`.  The UDP relay uses neither.
`main` calls `Service.Run`, which runs every relay in a goroutine, and
`Service.Stop` on an interrupt.  `build.py` and `init.sh` share nothing with the relay
but the files they install and the process they start; each invocation of theirs
starts from what the one before has left behind, in the working tree and in
`/var/run`.

What is hard in this code, and what makes each component correct:

* **Retry buffer.**  The flag is an atomic that is read and written outside the
  mutex; the mutex is released before the last read of `add`; `run` reads a popped
  batch without it; callers wait without a timeout for a batch to be delivered.
  Correct means: users are not mixed, writes of one database and user are delivered
  in order and once, a caller returns only after delivery, the byte count agrees
  with the list, and neither a write nor the flag gets stuck.
* **HTTP fan-out.**  The handler stops receiving after the first decisive answer
  while the other goroutines go on, with the buffer.  Correct means: the client is
  told what the backends said, as soon as it is known; nobody sends on the closed
  channel; no goroutine is left behind; a pooled buffer is not reused while it is
  being posted.
* **UDP.**  Reading, queueing, splitting and stopping overlap.  Correct means: packets are
  queued in order and intact, datagrams are within the MTU and hold whole lines,
  one backend's trouble does not affect another, and a stop drains the queue.

* **Life cycle.**  Relays fail on their own, at once or later, and an interrupt can
  come before they listen.  Correct means: every configured relay runs; an interrupt
  ends the process with every relay stopped and without a crash once all listen; a
  stopped relay reports no error; nothing else crashes the process, but for a negative MTU.

* **Composition.**  A batch keeps slices of pooled buffers of goroutines whose client
  was answered long ago, answers get lost, and a client may have nothing but
  buffered backends.  Correct means: what a backend stores are the points of the
  request, every write with points reaches the buffered backend in the end, every client
  is answered, and a success is one.  The last two do not hold as they stand (section 6).
* **`build.py`.**  Every command may fail, the script may be killed, all targets are
  built before any is packaged, and directories keep what earlier invocations made.
  Correct means: a package holds the binary that was built for it now, from the commit
  and for the architecture asked for; exit status 0 means complete; the branch comes back.
* **`init.sh`.**  The daemon ends by itself, process numbers are used again, the script is
  interrupted, the machine restarts.  Correct means: the pid file finds the daemon
  that runs, a restart replaces it in order, and every call ends.

The hazards this leads to, each at its line, are the `hazards` of `PROJECT.json`.

## 2. The modules

**`RetryBuffer`** has one action per atomic step of the two sides.

| action | code |
|---|---|
| `LoadFlag`, `PostDirect`, `SetBuffering` | `post`, retry.go:51-57: the load of the flag, the direct post, the store |
| `AddRefused`, `Add` | `add` under its mutex, retry.go:158-198 |
| `ReturnBatch` | `return *cur` after the unlock, retry.go:199, and `batch.wg.Wait()` on a nil batch |
| `Awake` | `wg.Wait()` returns, retry.go:66-67 |
| `Pop` | `pop`, retry.go:142-156, and the buffer and interval set up by `run` |
| `AttemptSucceeds`, `AttemptFails`, `SleepOver` | one turn of the inner loop of `run`, retry.go:81-98 |
| `ClearBuffering`, `Release` | retry.go:85 and 86, two steps since handlers run in between |

The linked list is the sequence `batches` of all batches ever linked together with
`popped`, the number already unlinked.  This is the same information, because `add`
links only at the tail and `pop` unlinks only the head, and it keeps the batches
goroutines still point at.  `cur` records what the local `cur` of `add` points to: `&l.head`
follows the list, whereas the `next` field of an older batch is never written again.
The condition variable needs no state: `pop` waits for `l.size # 0` in a loop.
The wrapped poster is a choice among status classes and the error.

**`KeyedQueue`** is what the retry buffer promises, without batches, sizes,
retries or locks: for each key (query and credentials) a queue of accepted writes,
delivered in groups from its front.  `RetryBuffer` ends with the refinement mapping.

**`HTTPRelay`** follows `ServeHTTP` through its early returns (`Reject`, `BadGzip`,
`ReadBody`, `Unusable`, `Parse`, `Encode`), the fan-out (`FanOut`, and per backend
`PostReturns`, `Send`, `Finish`), the closing goroutine (`Close`, `PutOutBuf`) and
the loop over the answers (`ReceiveSuccess`, `ReceiveUserError`, `ReceiveOther`,
`GiveUp`).  Buffers of the pool are numbered; `getBuf` takes any pooled one or a
new one, because `sync.Pool` promises nothing.  `content` is whose bytes a buffer
holds.

**`UDPRelay`** has the reader (`Read`, `Copy`, `Enqueue`, `ReadClosed`,
`ReadFails`, `Return`), the worker (`Receive`, `Drop`, `Encode`, `GiveUpLines`,
`WriteDatagram`, `WriteFails`, `PutOut`, `Done`, `WorkerEnds`) and `Stop` in its two
steps (`StoreClosing`, `CloseSocket`).  The splitting of `udpBackend.post` is one
`WriteDatagram` per datagram, over lines with sizes.  `arrived`, `lost` and `fault`
are history variables that only properties read.

**`Service`** is `main` (`Load`, `MakeRelay` or `NewFails` for each relay, `Notify`,
`Start`, `MainReturns`), `Run` of each relay (`Listen`, `LoadCert`, `BeginAssign`,
`EndAssign`, `ServeEnds`, `ServeFails`, `CheckClosing`, `Done`) and the goroutine that
waits for the interrupt (`ReceiveSignal`, then `StoreClosing` and `CloseSocket` for each
relay in the order of a Go map, that is any).  `HTTP.l` is written by `Run` and read by
`Stop` without synchronisation, and an interface value is two words: it is "nil",
then "torn", then "set", and what `Close` does with half of it is
`CloseCrashes` or `CloseIsLost`.  UDP relays run and stop here as `UDPRelay` shows
they do, and the process panics when a packet is posted to an output with a negative MTU
(`PostPanics`).  `Name` builds the same string as the code, so that a name in the
configuration may be the default name of another relay.

**`Replication`** is what the HTTP relay promises its clients, without goroutines,
channel or buffers: every backend settles a write or stays silent, the client gets
one reply, which the outcomes so far justify, and a request that the relay refuses
is offered to no backend.  `HTTPRelay` implements it (`ImplementsReplication`) with
`answer` for `outcome`.

**`RelaySystem`** extends `HTTPRelay` and instantiates `RetryBuffer` in front of one
backend, `Buffered`; a write is the request it comes from.  Where `HTTPRelay` lets
a post return anything, here `PlainPost` is one of a backend without a buffer, and
`DirectPost`, `BufferPost` and `BufferReturns` are `retryBuffer.post` called by the
fan-out; `PopBatch`, `RetrySucceeds`, `RetryFails` and `RetryOther` are `run`.  What is posted
is what the pool buffer holds at that moment: `slice` is the buffer the posts of a
request read, `copied` what `run` found there when it concatenated the batch.
Backends have `stored` what they answered with a 2xx, and, if they are `Lossy`,
perhaps also what they answered with nothing.

**`BuildNames`** is the part of `build.py` that computes: the parameters of `go build`,
nightly versions, the names and the files of packages.  **`BuildScript`** is `main`,
`build` and `package` around it, one action per command or loop turn:

| actions | code |
|---|---|
| `Invoke`, `Reject`, `Check` | the command line and the checks, build.py:662-733 and 559-589 |
| `Move`, `MoveBack` | `git checkout`, 587-595 and 648-652 |
| `GoGet`, `GoGetFails` | 597-599, with `local_changes` |
| `StartBuild`, `Compile` | `build` for each target, 309-401; `CleanDir` is `--clean` |
| `StartPackaging`, `Assemble`, `MakeTar`, `SkipType`, `FinishPackaging` | `package`, 412-554 |
| `RunFpm`, then `RenamePackage` or `KeepPackage` | fpm, 517-529, then `os.rename`, 530-549, or a package that keeps its name and is not returned, 534-535 |
| `Abort`, `Kill` | a command that fails, an exception or an interrupt; a signal that Python does not see |

`disk` holds the files in output directories, each with the invocation that wrote it
and the binary in it; a binary is the target, commit and local changes it was made
of.  Between invocations a developer uses the tree (`Develop`).  `--arch` takes any string; the
model has a finite set of them (`Architectures`): those the help offers, those that are
supported, those the code mentions and what `uname` may say.  A commit on the command line is
its short hash, or the full one (`fullHash`), which the code takes for another commit.

**`InitScript`** has one action per command of `init.sh` that reads or changes the pid
file or a process: `Prepare`, `Truncate`, `Launch`, `WritePid`, `Verify` of `start`;
`FindProcess`, `Terminate`, `RemovePidFile`, `StillUp`, `Sleep`, `HasEnded` of `stop`,
after which `restart` goes on with `start` (`Stopped`); `Status`.  The machine's actions are
`End`, `Begin` (another process gets a free number), `Interrupt` and `Reboot`.  `told`, `old`
and `lost` are history variables.  With `su` the pid file is emptied before the daemon is
launched, with `start-stop-daemon` it is written after; `tool` says which is installed.

`MCRetryBuffer`, `MCHTTPRelay`, `MCRelaySystem`, `MCUDPRelay`, `MCService`, `MCBuildScript`
and `MCInitScript` are the instances.  The theorems about a module `M` are in
`MProofs`; `RelaySystemProofs` builds on those of its two
parts.  **`Accumulation`** holds what they need of sums over finite sets and of concatenations.

Definitions whose comment begins with "Mutant of" are not part of any
specification.  Each is a plausible mistake in the definition it is named for, and
`PROJECT.json` names the property that TLC finds violated when it takes that
definition's place: a test of the properties.

## 3. The runs

Runs that pass:

| run | what it shows | instance |
|---|---|---|
| `retry_safety` | users kept apart, counters agree with the list, order per key, sealed popped batches, release only after delivery, and the refinement of `KeyedQueue` | four writes, two users; about 700 000 states up to symmetry of two equal writes |
| `retry_liveness` | the direct path is closed only while something will open it again, and that happens, with the two exceptions of section 6; while writes are listed it is open only after a buffered one has succeeded | four writes, one larger than the buffer and one without bytes; the backend rejects (4xx) or fails; about 170 000 states |
| `http_fanout` | the refinement of `Replication`, in which a decisive answer of one backend is passed on although others stay silent; no send after close; the goroutines end | one request of any of nine kinds, three backends, classes 2 to 5 and errors |
| `relay_system` | backends are posted, and store, the points of the request, across the pool, the retry buffer and its copies | two writes, a buffered and a plain backend, lost answers, four buffers; about 860 000 states up to symmetry |
| `relay_liveness` | every write with points reaches the buffered backend; every client is answered, except those held by a batch without bytes; a success that is not stored is the answer to another batch | two requests, well formed or not, of two bytes and of none, one buffered backend that accepts, rejects, fails or loses answers; about 79 000 states |
| `udp_relay` | queue order, datagram sizes, complete lines, drained on return, no spurious error, Stop ends Run | three packets, two backends of different MTU, a queue of one |
| `service` | no relay is lost; a crash only on an interrupt while a listener is missing, or on a negative MTU; otherwise an interrupt ends the process properly; limits derived from the configuration are usable, but for that MTU | ten configurations of up to three relays: names, addresses and certificates that clash or fail, a name that is the default one of another relay, zero and negative limits |
| `build_script` | packages hold their build, for the architecture in their name (section 6 has the exception), success is complete, the branch comes back, `--clean` cleans, package-manager packages have the files their hooks need | two invocations, each of ten command lines, two of them for ARM and one with a full hash, three commits on two branches, a failure or kill at every step; about 2.2 million states |
| `init_script` | the pid file finds the daemon, restart is in order and brings one up, every call ends | four calls, five process numbers, SIGKILL after one turn and giving up after three, one other process |

Runs that show a disagreement between the code and what is said of it (section 6):
`nil_batch`, `success_not_stored`, `build_uncommitted`.

Why the bounds are enough for what is asked:

* *Writes.*  A batch needs two writes to be merged, a second batch needs a write
  that does not fit, overtaking needs a third, smaller write, and mixing users a
  fourth, of another user.  With `MaxBatch = 3` and sizes 2, 2, 1, 1 all of these
  occur; with `MaxBuffered = 5` the buffer overflows too.  Sizes stand for any unit.
  `retry_liveness` has sizes 6, 2, 2 and 0: a write that never fits, two that do not fit into
  one batch, and one without points, which is listed alone, merged, or left behind.
* *Intervals.*  In the safety run `MaxInterval = InitialInterval`, since no property
  there depends on the delay; the liveness run lets it grow to its cap.  No counter
  is unbounded: every call of `post` and every packet occurs once.
* *Kinds of requests.*  `AllKinds` holds one request for each early return and
  one good write.
* *Classes.*  The code tells 2, 4 and the rest apart in the handler and 5 and the
  rest in the retry buffer; 3 and 5 are the two that only one of them treats alike.
* *Buffers.*  `MaxBuffers` is as large as the number of buffers in use at any one
  time can get (two per request; for the UDP relay the reader's, one queued, and
  the worker's two), so no `getBuf` is ever blocked by the bound.
* *Backends.*  Three are needed for a decisive answer between two others; two
  suffice for the buffer of an answered request to be still in use.
* *The composition.*  In `relay_system` two requests of unit size over a buffer of one make a
  full buffer, a batch in flight with another behind it, and two handlers over one pool; its
  backends accept or fail, since what is posted does not depend on the class of the answer.
  In `relay_liveness` the requests have sizes 2 and 0 over a buffer of two and a batch of one,
  so that they are never merged, and either may be before the other; there is one backend,
  because a second could only answer the client earlier.
* *`build.py`.*  Two invocations are needed for one to find what another has left; a
  failed, killed or complete one leaves everything a third could find.  The command
  lines go through every branch of `main`, `build` and `package` that can be reached.
* *`init.sh`.*  One call leaves a file that is stale, empty or missing, the second
  starts from it, and two more follow.  30 and 40 seconds are parameters; the code
  depends on their order only.
* *The UDP queue.*  The capacity of 1024 is a parameter; one makes the reader block.

`udp_relay` runs without deadlock checking: a relay to which nobody sends and which
nobody stops is idle.  Elsewhere the terminated state is the explicit action `Stop`,
(`Quiet`, `Ended`), whose guard says what a proper end is, so TLC finds any other
one; in `init_script` the machine never stops.

## 4. Fairness

* `RetryBuffer`: weak fairness of each caller and of `run`, because goroutines are
  scheduled and every attempt is bounded by `http.Client.Timeout` (http.go:315).
  (A `timeout` of 0 in the configuration would switch that off.)  A mutex is not
  held across anything that blocks.  Strong fairness of `AttemptSucceeds` is the
  premise of the buffering documentation, that the backend comes back: if a batch is
  attempted again and again, an attempt is answered.
* `HTTPRelay`: weak fairness of the goroutines only.  Nothing is assumed of
  `PostReturns`: a backend may never answer.  So the fairness of `Replication` is that of
  `Decide` only, and `EveryGoroutineEnds` has the answers it needs as its premise.
* `Service`: weak fairness of `main`, of each `Run` and of the stopping goroutine.
  Interrupts and the failure of a serving relay are not fair.
* `RelaySystem`: weak fairness of every handler, of the goroutine of every backend, of
  `run`, and of every post, since `http.Client.Timeout` ends it; strong fairness of
  `RetrySucceeds`, as in `RetryBuffer`.  Without that premise a client whose backends
  are all buffered is never answered.
* `InitScript`: weak fairness of the script.  Processes need not end, not even after SIGKILL.
* `BuildScript` has no liveness property: a command may take for ever.
* `UDPRelay`: weak fairness of reader and worker, and of the second half of
  `Stop`.  Nobody has to send a packet, or to call `Stop`, and no read has to fail.

## 5. Proofs

Every theorem holds for all values of the constants that satisfy the assumptions
declared with them: `ConstantsAssumption` (sizes and limits are natural numbers),
`HTTPAssumption`, `KindsAssumption`, `BufferedAssumption`, `RetryAssumption` (the
first, for the buffer of the composition), `UDPAssumption`, `ServiceAssumption`,
`InitScriptAssumption` and `BuildAssumption`.  They give constants their types, and
three say a little more: there are finitely many backends; a branch is not called
`HEAD`, which git refuses; the machine has more process numbers than the calls and other processes of
a behaviour can use.

In each module the proof of a property that is not inductive rests on a theorem
`Invariance`, `Spec => []IInv`.  Each `IInv` was checked by TLC on the instances of
section 3 before it was proved.

**`RetryBufferProofs`**

| theorem | property |
|---|---|
| `TypeCorrect` | `[]TypeOK` |
| `CallersAreReleasedAfterDelivery` | `[]ReleasedOnlyAfterDelivered` |
| `UsersAreKeptApart` | `[]OneUserPerBatch` |
| `WritesKeepTheirOrder` | `NoOvertaking` |
| `PoppedBatchesAreSealed` | `SealedOncePopped` |
| `SizesAreAccounted` | `[]SizeAccounting` |
| `FlagIsNeverStuck` | `[]FlagHasCause` |
| `QueuesPerKey` | `ImplementsKeyedQueue` |

The parts of `IInv`:

* `TypeOK`.  Its conjunct `popped \in 0..Len(batches)` is not a mere type: `pop`
  tests the byte count and then takes the head of the list, so it holds only
  because the two agree, which is
* `SizeIsSum`: there is a function giving, for each position of the list, the total size of the
  batches behind it, whose value at `popped` is `l.size`.  A witness for the next
  state is easy to give in each action; that it is the sum `SizeAccounting` speaks of
  follows by `Accumulation`.
* `BatchSizes` and `InOneBatch`: a batch's size is the sum of those of its writes, and
  a write is in one batch, once.  The first needs the second, because the sum is over a set.
* `ReleasedInOrder`: exactly the batches before the popped one (and the popped one
  between `Release` and the next `Pop`) are done, and they were accepted.
* `CallerBehind`: the batch `add` hands to a caller is never *before* the one that
  holds its write.  This is the heart of `CallersAreReleasedAfterDelivery`: the
  stale read at retry.go:199 may yield a later batch (or nil), never an earlier
  one, so the caller may get someone else's answer, but not before its own write is
  delivered.
* `AnsweredByGot`: what a released caller returns is the answer to the batch it was handed.
* `OneUserPerBatch`, and `ClosedBehind`: a listed batch with another of the same key
  behind it is `full`.  `NoOvertaking` follows, because `add` passes over a
  matching batch only when it closes it.

`FlagIsNeverStuck` has its own inductive steps on top of `IInv`, one for each half of
`FlagHasCause`.  `ClosedForCause`: a refused write that is not larger than the buffer proves that
`l.size # 0`, hence that there is a batch to retry; and what is listed while `l.size` is 0 has no bytes.
`OpenForCause`: a write is listed only by a caller that has read or set the flag, and the first
to clear it is a `run` that has delivered a batch.

`QueuesPerKey` is the refinement of `KeyedQueue`.  The mapping joins the writes of one
key over the batches delivered so far, and over those that are not (`FirstOf`, `LaterOf`),
so each step of `RetryBuffer` is a statement about two concatenations:

* `AttemptSucceeds` moves the boundary by one batch (`DeliverStep`): its writes leave the
  front of the queue of their key for the end of what is delivered, and of every other
  key nothing moves.  A batch has one key (`OneUserPerBatch`).
* `Add` makes one of the parts longer, or adds a part at the end (`OneJoins`,
  `OneIsLinked`).  That the *whole* is longer at its end is so because no later batch has
  the key of the write (`ClosedBehind`: such a batch would have closed the one that `add` chose).
* An accepted write was not queued before: it is in one batch only (`InOneBatch`).
* Every other step leaves both concatenations alone.

**`HTTPRelayProofs`**

| theorem | what it says |
|---|---|
| `TypesHold` | `[]TypeOK` |
| `ChannelIsOpen` | `[]NoSendAfterClose` |
| `ChannelIsLargeEnough` | `[]SendNeverBlocks`: a goroutine with an answer finds room, so none is left behind by a handler that has stopped receiving |
| `BuffersAreNotShared` | `[]PostsReadTheirPoints`: while a request is posted its buffer holds its points and is no one else's |
| `RepliesAreJustified` | the safety part of `ImplementsReplication`: `Init` implies that of `Replication`, every step is one of its or a stutter |

The invariant has, per request, `Phases` (the WaitGroup is the number of goroutines not
yet gone, and the channel is closed only at zero), `Silence`, `Channel` (what is in the channel has been said by
a backend, and what a backend has said is there or in `errResponse` until the client is
answered: without the second half `GiveUp` would not refine), `Room` (at most one
answer in the channel per backend that has sent one) and `Honest`; and, about two
requests at a time, `Owned`: a buffer in use is in one hand and not in the pool.

**`RelaySystemProofs`**

| theorem | what it says |
|---|---|
| `SystemIsHTTPRelay` | `SysSpec => Spec` of `HTTPRelay` |
| `SystemIsRetryBuffer` | `SysSpec =>` that of `RetryBuffer` |
| `SystemRepliesAreJustified` | the safety part of `Replication`, from the first |
| `PointsSurviveTheWait` | `[]StoredIsIntact` |
| `SuccessHasStored` | `[]FalseSuccessIsAnothers` |

By the first two everything proved of the parts holds of the composition, and both invariants
are conjuncts of `SysInv`.  What `SysInv` adds relates the two: `InStep` (where the goroutine of the
buffered backend and its call of `post` are), `CopyIsWhole` and `CopyIsIntact` (the copy
made by `run` has every write of the popped batch, unaltered: a writer that waits in the list keeps
its goroutine, hence its buffer, by `Owned` and `ReleasedInOrder`), and
`AcceptedIsStored`.  The step where a released caller reports a success needs
`CallerBehind`: it may have been handed a later batch, but its own has been
delivered, so either its points are stored or they were rejected, and then the success is
that of the later batch (`AnsweredForAnother`).  `SuccessIsStored`, without that exception,
is false (section 6).

**`UDPRelayProofs`**

| theorem | property |
|---|---|
| `TypesHold` | `[]TypeOK` |
| `QueueKeepsOrder` | `[]QueuedInArrivalOrder` |
| `ReturnIsDrained` | `[]DrainedOnReturn` |
| `StoppingIsSilent` | `[]StopIsNoError` |
| `DatagramsAreWithinMTU` | `[]DatagramsFit` |
| `LinesArrive` | `[]LinesAreComplete` |

`Counting` says that the WaitGroup is the number of packets queued or in hand, `Apart` that
no buffer is in two places of pool, queue, reader and worker, `Stopping` that the
socket is closed after `closing` is set, `Reading` and `Posting` what is in the buffer at each step.
That what `WriteDatagram` takes fits is a fact about sums of prefixes: the largest number of
lines that fit exists because there are only so many (`MaxOfNats`).

`LinesArrive` needs a second invariant, `LInv`, on top of `IInv`.  `Once`: a packet arrives once.  `AtWork`: the
packet in the worker's hand is the one after those it is done with, counted from what has
arrived, is queued and is still with the reader.  `Progress` says for each backend and
packet what it has got: nothing before it is the packet's turn; while the packet is being posted, all
or what was possible for the backends before `to`, the lines up to `rest` for backend
`to`, nothing for those after it; and afterwards what `Served` says, for ever.

**`ServiceProofs`**

| theorem | property |
|---|---|
| `TypesHold` | `[]TypeOK` |
| `AllRelaysRun` | `[]NoRelayIsLost` |
| `StopNeedsAListener` | `[]CrashOnlyWithoutListener` |
| `StoppingIsSilent` | `[]StopIsNoError` |
| `ExitIsComplete` | `[]ExitLeavesNothingRunning` |

`Making` follows `New` through the configuration, `Counting` is the WaitGroup of
`Service.Run`, `Listening` ties the half-written listener to where `Run` is, and
`Sockets` says that `Run` leaves `Serve` only after `Stop` has stored `closing`, or after
a failure; `ExitLeavesNothingRunning` needs all of them.

**`BuildScriptProofs`**

| theorem | property |
|---|---|
| `TypesHold` | `[]TypeOK` |
| `PackagesAreOfThisBuild` | `[]PackagesHoldTheirBuild` |
| `SuccessLeavesNothingOut` | `[]SuccessIsComplete` |
| `CleaningIsComplete` | `[]CleanBuildIsClean` |
| `TheWayBack` | `HeadComesBack` |

Packaging begins when all targets are built, so what is needed is that building
or packaging one target leaves the binary of every other alone: targets have different
directories, none below another (`DirsApart`), and `--clean` of one deletes nothing of
another.  `Options` says that the tree stands at what was asked for from the checkout to the
way back; `Binaries` and `Rooted` follow the binary from `go build` into the package;
`Complete` counts off the package types of the target in hand; `Clean` is the invariant of the loop.
The binary is for the architecture in the name by `ArchFacts`, a case distinction over
`Architectures`.  That renaming a package takes no other away rests on `FpmDone` (the file to rename is one
of this invocation), `Returned` (what was returned has no iteration in its name; what fpm makes has, or
else the two names are the same) and
`Unpackaged` (before packaging begins, this invocation has made binaries only).

**`InitScriptProofs`**

| theorem | property |
|---|---|
| `TypeCorrect` | `[]TypeOK` |
| `DaemonCanBeFound` | `[]DaemonIsNamed` |
| `RestartReplacesInOrder` | `RestartIsInOrder` |
| `RestartIsTruthful` | `RestartBringsUp` |

`DaemonIsNamed` speaks of the moments between two calls, so its invariant
`UntoldIsNamed` has to say what holds at each command: at the launch there is no
daemon that was not told to end (the pid file named no process, and such a daemon would
be named), at the `echo` there is at most the one just launched, at the `rm` the one the
file names was told.  `OldIsReplaced` follows the daemon that `restart` found: until it is
gone, `stop` works on it and on no other, and `start` is not reached; a reused number
cannot stand for it, because only this call launches daemons.  `Position` says what the script
may rely on at each command.

**`Accumulation`** is what the other proofs need of sums over finite sets and of concatenations.
`SumOfNone`, `SumWithout` and `SumAgrees`: a sum is zero, or any element plus the sum of
the others, and depends on the elements alone.  It is a fold that takes the elements in the
order `CHOOSE` fixes, so this is a theorem and not a definition.  `FlattenOfAppend`,
`FlattenOfConcat`, `FlattenOfFirst` and `FlattenOfLonger` say the same of `FlattenSeq`: what it gives for
one sequence more, for two lists of sequences, and when the last non-empty sequence gets
one element more.  Both operators are recursive functions, and the provers cannot instantiate the library's
induction theorems; the proofs take a smallest counterexample instead (`LeastNat`, `SmallestSet`).

Only model-checked:

* everything under fairness (`BufferingEnds`, `EveryGoroutineEnds`, the liveness part of
  `ImplementsReplication`, `StopEndsRun`, `InterruptEnds`, `ReachesBuffered`,
  `EveryClientIsAnswered`, `EveryCallEnds`): liveness under fairness is out of the prover's reach;
* the three counterexamples of section 6, which are about one behaviour each.

Every invariant and every action property that a passing run checks is a theorem.

## 6. What the checks found

Disagreements, each a run that ends in a counterexample:

* **`nil_batch`**: `add` ends with `return *cur, nil` after `Unlock` (retry.go:198-199).
  When the write went into the head of the list, `cur` is `&l.head`; if `run` pops
  the only batch in between, `*cur` is nil and `post` calls `Wait` on it: the
  process crashes, with everything buffered.
* **`success_not_stored`**: the same read of `*cur` (retry.go:199), with another batch behind the
  popped one, hands the caller that later batch, which may be another user's, and the
  response to it.  A client whose points the only backend has rejected with a 4xx is told 204, where
  README.md:107 says that a success is one of the servers' and a 4xx is returned at once.
  `FalseSuccessIsAnothers` (in `relay_liveness`, and proved) says that this is the only way.
* **`build_uncommitted`**: `--no-uncommitted` asks `git diff-files`, which compares the
  working tree with the index only: what is staged and not committed is built
  (build.py:214).  With `--no-get` nothing is asked at all (build.py:597); that is seen in the
  code and in `GoGet`, and not exercised by the run.

Seen while modelling, and in the models, but not the subject of a run:

* `pop` takes `l.size == 0` for "the list is empty" (retry.go:145).  A write without points
  has no bytes; buffered alone, it is not taken, its caller waits, and the direct path stays
  closed, until some other write with points is buffered.  A caller whose own write was delivered can be
  held the same way, if the stale read of retry.go:199 hands it such a batch.  The
  liveness properties name this exception (`HeldByEmpty`, `OnlyEmptyListed`) and their
  instances have a write of size 0.
* `run` clears the flag after every batch it has delivered (retry.go:85), also while more are
  listed, so that later writes go straight to the backend and overtake those that wait.
  README.md:162 documents this: the first buffered write that succeeds lets new
  ones pass.  `FlagHasCause` says that none passes before, and among buffered writes of one key the
  order is kept (`NoOvertaking`, `ImplementsKeyedQueue`).
* The batch being retried no longer counts towards `buffer-size-mb` (retry.go:151).
* A write joins the first batch of its key with room, ahead of batches of other users
  or databases received before it (retry.go:174).
* After the 400 for a body that is not gzip the handler does not return but reads
  from a nil reader and panics (http.go:153-161); the client gets no answer.
* `run` doubles the delay before the first sleep, so the first one is not the
  documented 500ms (retry.go:90-97).
* `main` goes on when the configuration cannot be loaded: with no relays in it the
  process exits with status 0.  An interrupt before an HTTP relay listens, or after its
  listen has failed, crashes it (`CloseCrashes`); a second interrupt is never looked
  at; SIGTERM, which systemd and `init.sh` send, is not handled.
* A build that began on a detached head ends where it has moved to: `git checkout HEAD`
  goes nowhere (build.py:648-650).  `HeadComesBack` is about branches only.
* The architecture is reduced to `arm` before GOARM is chosen by it (build.py:353-368), so
  armel and arm64 packages hold the binary for armhf, and the refusal of lines 365-368 is out
  of reach.  `PackagesHoldTheirBuild` names the two labels as its exception (`TakenForArm`).
* When fpm's output does not say what it has made, the package stays under fpm's name and is not
  among those that `package` returns (build.py:534-535, `KeepPackage`).
* `--clean` removes the directories of the targets; with `--arch all` or `--platform all`
  these are below the output directory, and what an earlier build of one target has left in
  the output directory itself stays, although build.py:716 speaks of the output directory.
  `CleanBuildIsClean` is about the directories of the targets.
* `"1.4" in get_go_version()` is also true of 1.11.4 (build.py:374), which then gets linker
  flags it rejects (`OldLinkerFlags`, `Links`).
* `--outdir` is made absolute, so the comparison with `"."` never holds: `--clean` with the
  working tree as output directory deletes the sources (build.py:331, `CleanDir`).
* The default of `--version` is the commit checked out when the command line is parsed,
  also if `--branch` or `--commit` then builds another one (build.py:698).
* `build` makes a temporary directory that it neither uses nor removes (build.py:338, `leaked`);
  an invalid `--platform` ends in a NameError (build.py:582).
* A build that fails or is killed after the checkout leaves the tree where it has
  moved it, and the next invocation takes that for its default (build.py:592).
* The number in the pid file may belong to another process by now, which `start` then
  takes for the relay and `stop` kills (init.sh:99, 157-176).  A call killed between
  the launch and the `echo` leaves a daemon that no later call finds (`lost`).

* A negative `mtu` passes udp.go:70, which replaces only 0, and makes the slice expression of
  line 210 panic at the first packet (`PostPanics`).  `LimitsAreUsable` and
  `CrashOnlyWithoutListener` name it as their exception, and one configuration has it.
* When every relay has failed the process exits with status 0 (relay.go:51), and systemd's
  `Restart=on-failure` does not restart it.

Read, and not modelled: `simplePoster.post` asks for the headers `Conent-Type` and
`Conent-Encoding` (http.go:350-351), so a forwarded answer loses both.

The rest of what one might suspect holds.  In particular the buffer of a request
is never recycled under a backend still posting it, the retrying goroutine never
shares a batch with a handler, and the race between a failed direct post and the
end of buffering leaves the flag set only while it will be cleared.  The exceptions are a
write that exceeds the whole buffer (`StuckByTooLarge`), after which the direct path stays
closed until some smaller write has been buffered and delivered, and a list of writes
without points (above).

## 7. Abstractions, and what is left out

* An answer is its status class; bodies and headers are left out.  A forwarded
  answer has the code `100 * class`.
* `PostReturns` is the end of `client.Do`.  Whether net/http still reads the request
  body after that is not visible in this repository.
* The query string (with the default retention policy added and its parameters
  normalised) is part of a write's key in `RetryBuffer` and absent from `HTTPRelay`.
* The write errors of `bytes.Buffer` (http.go:178-193) cannot occur and are left
  out, as is running out of memory.  A pooled buffer that the garbage collector
  drops is the same as one never pooled, since a new one can be taken at any time.
* Clients do not disconnect; `ServeHTTP` does not watch for it.
* `UDPRelay`: each printed point is one line; the socket's own buffer and packets
  lost in the network are packets that never arrive.  MTUs are positive, as they are after
  `NewUDP` unless the configuration has a negative one; that case is in `Service`.  A string
  field with a newline in it would make two lines of a point, where `LastIndexByte` may split.
* `Service` starts with a configuration file named; without one `main` exits with
  status 1.  If the file cannot be read or decoded, the configuration is any part
  of it, or empty.  Requests in progress when the process exits are dropped: that is
  outside `HTTPRelay`, whose handlers always go on.
* A process crash is the end of a behaviour, because nothing is persisted.
* `RelaySystem`: one backend is buffered, the others are not; a retry buffer touches
  nothing of another, so more of them add only their product.  A write's size and
  key are parameters.  `run` copies the batch in the step that pops it: its writers
  are all waiting (`ReleasedOnlyAfterDelivered`), and nobody else can reach the batch.
* `BuildScript`: `--arch` is one of `Architectures`.  Any other string is a name that Go does not
  know, as `aarch64` is, or has an "arm" or a "static_" in it, as names that are there have.
  The working tree is the script's own while it runs; one version of Go; versions
  are numbers, without suffixes; file contents are what they were made of.  The
  `windows` branches are left out, since no supported platform leads there, as are logging,
  MD5 sums and the functions nothing calls (`go_list`, `get_current_version_tag`).
* `InitScript`: one call at a time, as the init system makes them; two at once
  can launch two daemons, since the script takes no lock.  `n` is unset when a call begins.

Not modelled: the configuration decoder, a library; the systemd unit, the logrotate file
and `start.sh`, which are declarations and a command line; the package hooks and the
Dockerfile, which call tools of the system once each.  What the hooks need of a package
is in `NeededByHooks`.

## 8. Plan

Done: all modules of section 2, their runs, and the proofs of section 5.

Next:

* that `HTTPRelay` lets a handler wait only for a backend that is still silent, the safety
  side of `EveryGoroutineEnds`, as an invariant: when all goroutines of a request are gone, its channel is
  closed or about to be, so the receive cannot block;
* the same for `Service`: when the last relay has ended, nothing but `main`'s own return is left;
* of `RetryBuffer`, that a caller waiting for a batch is waiting for one that `run` will reach: the batch is
  listed, or popped and not yet released;
* of `RelaySystem`, that each copy of a write's points at the backend stems from an attempt of
  its batch or from its own direct post;
* lemmas about `BuildNames` for all inputs: package names tell versions, iterations and architectures apart.
