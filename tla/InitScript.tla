------------------------------- MODULE InitScript -------------------------------
(***************************************************************************)
(* scripts/init.sh: start, stop, restart and status of the relay, around   *)
(* the pid file.  One call runs at a time.  The daemon may end at any      *)
(* moment, its number may then be given to another process, the script may *)
(* be interrupted, and the machine may restart, between any two commands.  *)
(*                                                                         *)
(* The calls that change nothing (version, usage, not root, no executable) *)
(* are left out.                                                           *)
(***************************************************************************)
EXTENDS Integers, FiniteSets

CONSTANTS
    Pids,            \* process numbers
    Tools,           \* what launches the daemon: "start-stop-daemon", "su"
    KillAfter,       \* seconds until SIGKILL, 30
    GiveUpAfter,     \* seconds until stop() gives up, 40
    MaxOthers,       \* bound: other processes at a time
    MaxCalls         \* bound: calls of the script

None == 0            \* no process number

ASSUME InitScriptAssumption ==
    /\ None \notin Pids
    /\ Tools \subseteq {"start-stop-daemon", "su"}
    /\ KillAfter \in Nat /\ GiveUpAfter \in Nat /\ KillAfter < GiveUpAfter
    /\ MaxOthers \in Nat /\ MaxCalls \in Nat
    /\ Cardinality(Pids) >= MaxCalls + MaxOthers

VARIABLES
    procs,           \* which numbers are free, the relay's, or another's
    told,            \* the processes that were sent SIGTERM or SIGKILL
    tool,            \* what is installed
    exists, pidfile, \* the pid file, and the number in it: None if it is empty
    calls,           \* how many calls there have been
    op,              \* the operation called
    pc,              \* where the script is
    PID, n,          \* of stop()
    code,            \* exit status of the last call
    old,             \* the daemon that the pid file named when it began
    launched,        \* the daemon it has launched
    lost             \* daemons whose launch was interrupted before the pid file was written

machine == <<procs, told, lost>>
file == <<exists, pidfile>>
call == <<tool, calls, op, old>>
stopVars == <<PID, n>>
vars == <<machine, file, call, stopVars, pc, code, launched>>

\* kill -0
Alive(p) == p # None /\ procs[p] # "free"
Named == exists /\ Alive(pidfile)

Init ==
    /\ procs = [p \in Pids |-> "free"] /\ told = {} /\ lost = {}
    /\ tool \in Tools
    /\ exists = FALSE /\ pidfile = None
    /\ calls = 0 /\ op = "none" /\ old = None
    /\ PID = None /\ n = 0
    /\ pc = "idle" /\ code = "none" /\ launched = None

Goto(from, to) == pc = from /\ pc' = to

Exit(status) == pc' = "idle" /\ code' = status

Call(o) ==
    /\ calls < MaxCalls
    /\ Goto("idle", IF o = "restart" THEN "stop" ELSE o)
    /\ calls' = calls + 1
    /\ op' = o
    /\ old' = IF Named /\ procs[pidfile] = "daemon" THEN pidfile ELSE None
    /\ PID' = None /\ n' = 0
    /\ code' = "none" /\ launched' = None
    /\ UNCHANGED <<machine, file, tool>>

(***************************************************************************)
(* start()                                                                 *)
(***************************************************************************)
\* No configuration file; the pid file cannot be made.
StartRefused ==
    /\ pc = "start"
    /\ Exit("4") \/ (~exists /\ Exit("5"))
    /\ UNCHANGED <<machine, file, call, stopVars, launched>>

AlreadyRunning ==
    /\ pc = "start" /\ Named
    /\ Exit("0")
    /\ UNCHANGED <<machine, file, call, stopVars, launched>>

\* Mutant of Prepare: that the process is up is not a reason not to launch it.
PrepareAnyway ==
    /\ Goto("start", "launch")
    /\ exists' = TRUE
    /\ UNCHANGED <<machine, pidfile, call, stopVars, code, launched>>

\* The pid file names no process, or is created empty.
Prepare ==
    /\ ~Named
    /\ Goto("start", "launch")
    /\ exists' = TRUE
    /\ UNCHANGED <<machine, pidfile, call, stopVars, code, launched>>

\* ulimit
LimitFails ==
    /\ pc = "launch"
    /\ Exit("1")
    /\ UNCHANGED <<machine, file, call, stopVars, launched>>

\* su ... > "$PIDFILE": the file is emptied before the daemon is launched.
Truncate ==
    /\ tool = "su"
    /\ Goto("launch", "su")
    /\ pidfile' = None
    /\ UNCHANGED <<machine, exists, call, stopVars, code, launched>>

\* The shell, or that of su, has forked; start-stop-daemon becomes the daemon.
Launch(p) ==
    /\ procs[p] = "free"
    /\ Goto(IF tool = "su" THEN "su" ELSE "launch", "echo")
    /\ procs' = [procs EXCEPT ![p] = "daemon"]
    /\ launched' = p
    /\ UNCHANGED <<told, lost, file, call, stopVars, code>>

\* echo $! > "$PIDFILE"
WritePid ==
    /\ Goto("echo", "verify")
    /\ pidfile' = launched
    /\ UNCHANGED <<machine, exists, call, stopVars, code, launched>>

\* One second later.
Verify ==
    /\ pc = "verify"
    /\ Exit(IF Named THEN "0" ELSE "1")
    /\ UNCHANGED <<machine, file, call, stopVars, launched>>

(***************************************************************************)
(* stop(), after which restart goes on with start().                       *)
(***************************************************************************)
Stopped == IF op = "restart" THEN pc' = "start" /\ UNCHANGED code ELSE Exit("0")

AlreadyStopped ==
    /\ pc = "stop" /\ ~Named
    /\ Stopped
    /\ UNCHANGED <<machine, file, call, stopVars, launched>>

FindProcess ==
    /\ Named
    /\ Goto("stop", "terminate")
    /\ PID' = pidfile
    /\ UNCHANGED <<machine, file, call, n, code, launched>>

\* Mutant of Terminate: the end of the process is not waited for.
TerminateAndReturn ==
    /\ pc = "terminate"
    /\ Stopped
    /\ told' = IF Alive(PID) THEN told \cup {PID} ELSE told
    /\ UNCHANGED <<procs, lost, file, call, stopVars, launched>>

\* kill -s SIGTERM $PID && ...
Terminate ==
    /\ Goto("terminate", IF Alive(PID) THEN "rm" ELSE "wait")
    /\ told' = IF Alive(PID) THEN told \cup {PID} ELSE told
    /\ UNCHANGED <<procs, lost, file, call, stopVars, code, launched>>

\* ... && rm -f "$PIDFILE"
RemovePidFile ==
    /\ Goto("rm", "wait")
    /\ exists' = FALSE /\ pidfile' = None
    /\ UNCHANGED <<machine, call, stopVars, code, launched>>

HasEnded ==
    /\ pc = "wait" /\ ~Alive(PID)
    /\ Stopped
    /\ UNCHANGED <<machine, file, call, stopVars, launched>>

StillUp ==
    /\ Alive(PID)
    /\ Goto("wait", "sleep")
    /\ UNCHANGED <<machine, file, call, stopVars, code, launched>>

\* Mutant of Sleep: after SIGKILL the seconds are counted anew.
SleepAnew ==
    /\ pc = "sleep"
    /\ n' = IF n + 1 = KillAfter THEN 0 ELSE n + 1
    /\ told' = IF n + 1 = KillAfter /\ Alive(PID) THEN told \cup {PID} ELSE told
    /\ pc' = "wait" /\ UNCHANGED code
    /\ UNCHANGED <<procs, lost, file, call, PID, launched>>

\* Mutant of Sleep: stop() returns when it has given up.
SleepReturns ==
    /\ pc = "sleep"
    /\ n' = n + 1
    /\ told' = IF n' = KillAfter /\ Alive(PID) THEN told \cup {PID} ELSE told
    /\ IF n' = GiveUpAfter THEN Stopped ELSE pc' = "wait" /\ UNCHANGED code
    /\ UNCHANGED <<procs, lost, file, call, PID, launched>>

\* Mutant of Sleep: one second more than meant.
SleepOneMore ==
    /\ pc = "sleep"
    /\ n' = n + 1
    /\ told' = IF n' = KillAfter /\ Alive(PID) THEN told \cup {PID} ELSE told
    /\ IF n = GiveUpAfter THEN Exit("1") ELSE pc' = "wait" /\ UNCHANGED code
    /\ UNCHANGED <<procs, lost, file, call, PID, launched>>

\* One second later.
Sleep ==
    /\ pc = "sleep"
    /\ n' = n + 1
    /\ told' = IF n' = KillAfter /\ Alive(PID) THEN told \cup {PID} ELSE told
    /\ IF n' = GiveUpAfter THEN Exit("1") ELSE pc' = "wait" /\ UNCHANGED code
    /\ UNCHANGED <<procs, lost, file, call, PID, launched>>

(***************************************************************************)
(* status()                                                                *)
(***************************************************************************)
Status ==
    /\ pc = "status"
    /\ Exit(IF Named THEN "0" ELSE "1")
    /\ UNCHANGED <<machine, file, call, stopVars, launched>>

(***************************************************************************)
(* The machine.                                                            *)
(***************************************************************************)
\* A process ends: by itself, or because it was told to, whenever that works.
End(p) ==
    /\ procs[p] # "free"
    /\ procs' = [procs EXCEPT ![p] = "free"]
    /\ told' = told \ {p} /\ lost' = lost \ {p}
    /\ UNCHANGED <<file, call, stopVars, pc, code, launched>>

\* Another process begins, and gets a free number.
Begin(p) ==
    /\ procs[p] = "free"
    /\ Cardinality({q \in Pids : procs[q] = "other"}) < MaxOthers
    /\ procs' = [procs EXCEPT ![p] = "other"]
    /\ UNCHANGED <<told, lost, file, call, stopVars, pc, code, launched>>

\* The script is killed.
Interrupt ==
    /\ pc # "idle"
    /\ Exit("interrupted")
    /\ lost' = IF pc = "echo" /\ procs[launched] = "daemon"
               THEN lost \cup {launched} ELSE lost
    /\ UNCHANGED <<procs, told, file, call, stopVars, launched>>

\* /var/run may or may not outlive it.
Reboot ==
    /\ Exit("interrupted")
    /\ procs' = [p \in Pids |-> "free"] /\ told' = {} /\ lost' = {}
    /\ \/ UNCHANGED file
       \/ exists' = FALSE /\ pidfile' = None
    /\ UNCHANGED <<call, stopVars, launched>>

-----------------------------------------------------------------------------
Script ==
    \/ StartRefused \/ AlreadyRunning \/ Prepare \/ LimitFails \/ Truncate
    \/ (\E p \in Pids : Launch(p)) \/ WritePid \/ Verify
    \/ AlreadyStopped \/ FindProcess \/ Terminate \/ RemovePidFile
    \/ HasEnded \/ StillUp \/ Sleep \/ Status

Next ==
    \/ \E o \in {"start", "stop", "restart", "status"} : Call(o)
    \/ Script \/ Interrupt \/ Reboot
    \/ \E p \in Pids : End(p) \/ Begin(p)

Spec == Init /\ [][Next]_vars

\* The script runs; nothing is assumed of the processes, not even that they end
\* when they are told to.
FairSpec == Spec /\ WF_vars(Script)
-----------------------------------------------------------------------------
(***************************************************************************)
(* Properties.                                                             *)
(***************************************************************************)
\* The types of the variables.
TypeOK ==
    /\ procs \in [Pids -> {"free", "daemon", "other"}]
    /\ told \subseteq {p \in Pids : procs[p] # "free"}
    /\ lost \subseteq {p \in Pids : procs[p] = "daemon"}
    /\ tool \in Tools
    /\ exists \in BOOLEAN
    /\ pidfile \in Pids \cup {None} /\ (~exists => pidfile = None)
    /\ calls \in 0..MaxCalls
    /\ op \in {"none", "start", "stop", "restart", "status"}
    /\ pc \in {"idle", "start", "launch", "su", "echo", "verify", "stop",
               "terminate", "rm", "wait", "sleep", "status"}
    /\ {PID, old, launched} \subseteq Pids \cup {None}
    /\ n \in 0..GiveUpAfter
    /\ code \in {"none", "0", "1", "4", "5", "interrupted"}

\* A daemon that nobody has told to end can be found: between calls the pid file
\* names it, whatever was interrupted, whichever number was reused, and although
\* stop() removes the file while the process is still up.  So there is at most one.
\* The exception is a call that was killed between the launch and the echo.
DaemonIsNamed ==
    pc = "idle" =>
        \A p \in Pids : procs[p] = "daemon" /\ p \notin told \cup lost => pidfile = p

Launches == launched' # launched /\ launched' # None

\* restart does not launch the relay while the one it is to replace still holds
\* its addresses, also if that survives SIGKILL.
RestartIsInOrder ==
    [][op = "restart" /\ Launches /\ old # None => procs[old] # "daemon"]_vars

\* When restart reports success, the relay that runs is the one it has launched,
\* not the one it has told to end, unless a number was taken by another process.
RestartBringsUp ==
    [][op = "restart" /\ pc # "idle" /\ code' = "0" =>
          \/ launched # None /\ procs[launched] = "daemon"
          \/ procs[pidfile] = "other"]_vars

\* Every call ends, also stop() of a process that cannot be killed.
EveryCallEnds == pc # "idle" ~> pc = "idle"
=============================================================================
