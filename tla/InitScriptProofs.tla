---------------------------- MODULE InitScriptProofs ---------------------------
(***************************************************************************)
(* Theorems about InitScript, for every set of process numbers and every   *)
(* number of seconds stop() waits.                                         *)
(***************************************************************************)
EXTENDS InitScript, TLAPS

Stopping == {"stop", "terminate", "rm", "wait", "sleep"}

\* The daemons that somebody should be able to find.
Untold == {p \in Pids : procs[p] = "daemon" /\ p \notin told \cup lost}

\* What the script may rely on at each of its commands.
Position ==
    /\ pc \in {"launch", "su", "echo", "verify"} => exists
    /\ pc \in {"terminate", "rm"} => exists /\ pidfile = PID
    /\ pc \in {"terminate", "rm", "wait", "sleep"} => PID \in Pids
    /\ pc \in {"echo", "verify"} => launched \in Pids
    /\ pc = "verify" => pidfile = launched
    /\ pc \in Stopping => n < GiveUpAfter
    /\ pc # "idle" => code = "none"
    /\ pc = "status" => op = "status"

\* DaemonIsNamed, while the script is at work: start() gets to the launch only
\* if there is no such daemon, and stop() to the rm when it has told its own.
UntoldIsNamed ==
    /\ pc \notin {"launch", "su", "echo"} => Untold \subseteq {pidfile}
    /\ pc \in {"launch", "su"} => Untold = {}
    /\ pc = "echo" => Untold \subseteq {launched}
    /\ pc = "rm" => PID \notin Untold

\* How restart gets rid of the daemon it found: the pid file names no other, and
\* start() is not reached while it is there.
OldIsReplaced ==
    op = "restart" =>
        /\ pc \in Stopping \cup {"start"} /\ pidfile # None /\ procs[pidfile] = "daemon"
              => pidfile = old
        /\ old # None /\ procs[old] = "daemon" =>
              /\ pc = "stop" => pidfile = old
              /\ pc \in {"terminate", "rm", "wait", "sleep"} => PID = old
              /\ pc \notin {"start", "launch", "su"}

IInv == TypeOK /\ Position /\ UntoldIsNamed /\ OldIsReplaced

-----------------------------------------------------------------------------
\* No process has the number the script takes for none, and the times are numbers.
LEMMA PidNumbers ==
    /\ None \notin Pids
    /\ None = 0
    /\ KillAfter \in Nat /\ GiveUpAfter \in Nat /\ KillAfter < GiveUpAfter
    /\ MaxCalls \in Nat
BY InitScriptAssumption DEF None

\* The script and the machine begin within the invariant.
LEMMA Begins == Init => IInv
<1> SUFFICES ASSUME Init PROVE IInv OBVIOUS
<1> USE PidNumbers DEF Init
<1>1. TypeOK
  <2>1. {PID, old, launched} \subseteq Pids \cup {None} OBVIOUS
  <2>2. procs \in [Pids -> {"free", "daemon", "other"}] OBVIOUS
  <2>3. calls \in 0..MaxCalls /\ n \in 0..GiveUpAfter OBVIOUS
  <2>4. QED BY <2>1, <2>2, <2>3 DEF TypeOK
<1>2. Position BY DEF Position, Stopping
<1>3. Untold = {} BY DEF Untold
<1>4. UntoldIsNamed BY <1>3 DEF UntoldIsNamed
<1>5. OldIsReplaced BY DEF OldIsReplaced
<1>6. QED BY <1>1, <1>2, <1>4, <1>5 DEF IInv

\* Every step keeps the types.
LEMMA TypesAreKept ==
    ASSUME TypeOK, Position, [Next]_vars
    PROVE  TypeOK'
<1> USE PidNumbers
<1> USE DEF TypeOK, Position, Stopping
<1> USE DEF machine, file, call, stopVars
<1>1. ASSUME NEW o \in {"start", "stop", "restart", "status"}, Call(o) PROVE TypeOK'
  BY <1>1 DEF Call, Goto, Named, Alive
<1>2. CASE StartRefused
  BY <1>2 DEF StartRefused, Exit
<1>3. CASE AlreadyRunning
  BY <1>3 DEF AlreadyRunning, Named, Alive, Exit
<1>4. CASE Prepare
  BY <1>4 DEF Prepare, Named, Alive, Goto
<1>5. CASE LimitFails
  BY <1>5 DEF LimitFails, Exit
<1>6. CASE Truncate
  BY <1>6 DEF Truncate, Goto
<1>7. ASSUME NEW p \in Pids, Launch(p) PROVE TypeOK'
  BY <1>7 DEF Launch, Goto
<1>8. CASE WritePid
  BY <1>8 DEF WritePid, Goto
<1>9. CASE Verify
  BY <1>9 DEF Verify, Named, Alive, Exit
<1>10. CASE AlreadyStopped
  BY <1>10 DEF AlreadyStopped, Named, Alive, Stopped, Exit
<1>11. CASE FindProcess
  BY <1>11 DEF FindProcess, Named, Alive, Goto
<1>12. CASE Terminate
  BY <1>12 DEF Terminate, Alive, Goto
<1>13. CASE RemovePidFile
  BY <1>13 DEF RemovePidFile, Goto
<1>14. CASE HasEnded
  BY <1>14 DEF HasEnded, Alive, Stopped, Exit
<1>15. CASE StillUp
  BY <1>15 DEF StillUp, Alive, Goto
<1>16. CASE Sleep
  BY <1>16 DEF Sleep, Alive, Exit
<1>17. CASE Status
  BY <1>17 DEF Status, Named, Alive, Exit
<1>18. CASE Interrupt
  BY <1>18 DEF Interrupt, Exit
<1>19. CASE Reboot
  BY <1>19 DEF Reboot, Exit
<1>20. ASSUME NEW p \in Pids, End(p) PROVE TypeOK'
  BY <1>20 DEF End
<1>21. ASSUME NEW p \in Pids, Begin(p) PROVE TypeOK'
  BY <1>21 DEF Begin
<1>22. CASE UNCHANGED vars
  BY <1>22 DEF vars
<1>23. QED
  BY <1>1, <1>2, <1>3, <1>4, <1>5, <1>6, <1>7, <1>8, <1>9, <1>10, <1>11,
     <1>12, <1>13, <1>14, <1>15, <1>16, <1>17, <1>18, <1>19, <1>20, <1>21, <1>22
     DEF Next, Script

\* Every step keeps what is known of where the script is.
LEMMA PositionIsKept ==
    ASSUME TypeOK, Position, [Next]_vars
    PROVE  Position'
<1> USE PidNumbers
<1> USE DEF TypeOK, Position, Stopping
<1> USE DEF machine, file, call, stopVars
<1>1. ASSUME NEW o \in {"start", "stop", "restart", "status"}, Call(o) PROVE Position'
  BY <1>1 DEF Call, Goto, Named, Alive
<1>2. CASE StartRefused
  BY <1>2 DEF StartRefused, Exit
<1>3. CASE AlreadyRunning
  BY <1>3 DEF AlreadyRunning, Named, Alive, Exit
<1>4. CASE Prepare
  BY <1>4 DEF Prepare, Named, Alive, Goto
<1>5. CASE LimitFails
  BY <1>5 DEF LimitFails, Exit
<1>6. CASE Truncate
  BY <1>6 DEF Truncate, Goto
<1>7. ASSUME NEW p \in Pids, Launch(p) PROVE Position'
  BY <1>7 DEF Launch, Goto
<1>8. CASE WritePid
  BY <1>8 DEF WritePid, Goto
<1>9. CASE Verify
  BY <1>9 DEF Verify, Named, Alive, Exit
<1>10. CASE AlreadyStopped
  BY <1>10 DEF AlreadyStopped, Named, Alive, Stopped, Exit
<1>11. CASE FindProcess
  BY <1>11 DEF FindProcess, Named, Alive, Goto
<1>12. CASE Terminate
  BY <1>12 DEF Terminate, Alive, Goto
<1>13. CASE RemovePidFile
  BY <1>13 DEF RemovePidFile, Goto
<1>14. CASE HasEnded
  BY <1>14 DEF HasEnded, Alive, Stopped, Exit
<1>15. CASE StillUp
  BY <1>15 DEF StillUp, Alive, Goto
<1>16. CASE Sleep
  BY <1>16 DEF Sleep, Alive, Exit
<1>17. CASE Status
  BY <1>17 DEF Status, Named, Alive, Exit
<1>18. CASE Interrupt
  BY <1>18 DEF Interrupt, Exit
<1>19. CASE Reboot
  BY <1>19 DEF Reboot, Exit
<1>20. ASSUME NEW p \in Pids, End(p) PROVE Position'
  BY <1>20 DEF End
<1>21. ASSUME NEW p \in Pids, Begin(p) PROVE Position'
  BY <1>21 DEF Begin
<1>22. CASE UNCHANGED vars
  BY <1>22 DEF vars
<1>23. QED
  BY <1>1, <1>2, <1>3, <1>4, <1>5, <1>6, <1>7, <1>8, <1>9, <1>10, <1>11,
     <1>12, <1>13, <1>14, <1>15, <1>16, <1>17, <1>18, <1>19, <1>20, <1>21, <1>22
     DEF Next, Script

\* No step loses a daemon that was not told to end.
LEMMA NamesAreKept ==
    ASSUME TypeOK, Position, UntoldIsNamed, [Next]_vars
    PROVE  UntoldIsNamed'
<1> USE PidNumbers
<1> USE DEF TypeOK, Position, UntoldIsNamed, Untold, Stopping
<1> USE DEF machine, file, call, stopVars
<1>1. ASSUME NEW o \in {"start", "stop", "restart", "status"}, Call(o) PROVE UntoldIsNamed'
  BY <1>1 DEF Call, Goto, Named, Alive
<1>2. CASE StartRefused
  BY <1>2 DEF StartRefused, Exit
<1>3. CASE AlreadyRunning
  BY <1>3 DEF AlreadyRunning, Named, Alive, Exit
<1>4. CASE Prepare
  BY <1>4 DEF Prepare, Named, Alive, Goto
<1>5. CASE LimitFails
  BY <1>5 DEF LimitFails, Exit
<1>6. CASE Truncate
  BY <1>6 DEF Truncate, Goto
<1>7. ASSUME NEW p \in Pids, Launch(p) PROVE UntoldIsNamed'
  BY <1>7 DEF Launch, Goto
<1>8. CASE WritePid
  BY <1>8 DEF WritePid, Goto
<1>9. CASE Verify
  BY <1>9 DEF Verify, Named, Alive, Exit
<1>10. CASE AlreadyStopped
  BY <1>10 DEF AlreadyStopped, Named, Alive, Stopped, Exit
<1>11. CASE FindProcess
  BY <1>11 DEF FindProcess, Named, Alive, Goto
<1>12. CASE Terminate
  BY <1>12 DEF Terminate, Alive, Goto
<1>13. CASE RemovePidFile
  BY <1>13 DEF RemovePidFile, Goto
<1>14. CASE HasEnded
  BY <1>14 DEF HasEnded, Alive, Stopped, Exit
<1>15. CASE StillUp
  BY <1>15 DEF StillUp, Alive, Goto
<1>16. CASE Sleep
  BY <1>16 DEF Sleep, Alive, Exit
<1>17. CASE Status
  BY <1>17 DEF Status, Named, Alive, Exit
<1>18. CASE Interrupt
  BY <1>18 DEF Interrupt, Exit
<1>19. CASE Reboot
  BY <1>19 DEF Reboot, Exit
<1>20. ASSUME NEW p \in Pids, End(p) PROVE UntoldIsNamed'
  BY <1>20 DEF End
<1>21. ASSUME NEW p \in Pids, Begin(p) PROVE UntoldIsNamed'
  BY <1>21 DEF Begin
<1>22. CASE UNCHANGED vars
  BY <1>22 DEF vars
<1>23. QED
  BY <1>1, <1>2, <1>3, <1>4, <1>5, <1>6, <1>7, <1>8, <1>9, <1>10, <1>11,
     <1>12, <1>13, <1>14, <1>15, <1>16, <1>17, <1>18, <1>19, <1>20, <1>21, <1>22
     DEF Next, Script

\* No step of restart takes the old daemon for another.
LEMMA ReplacingIsKept ==
    ASSUME TypeOK, Position, OldIsReplaced, [Next]_vars
    PROVE  OldIsReplaced'
<1> USE PidNumbers
<1> USE DEF TypeOK, Position, OldIsReplaced, Stopping
<1> USE DEF machine, file, call, stopVars
<1>1. ASSUME NEW o \in {"start", "stop", "restart", "status"}, Call(o) PROVE OldIsReplaced'
  BY <1>1 DEF Call, Goto, Named, Alive
<1>2. CASE StartRefused
  BY <1>2 DEF StartRefused, Exit
<1>3. CASE AlreadyRunning
  BY <1>3 DEF AlreadyRunning, Named, Alive, Exit
<1>4. CASE Prepare
  BY <1>4 DEF Prepare, Named, Alive, Goto
<1>5. CASE LimitFails
  BY <1>5 DEF LimitFails, Exit
<1>6. CASE Truncate
  BY <1>6 DEF Truncate, Goto
<1>7. ASSUME NEW p \in Pids, Launch(p) PROVE OldIsReplaced'
  BY <1>7 DEF Launch, Goto
<1>8. CASE WritePid
  BY <1>8 DEF WritePid, Goto
<1>9. CASE Verify
  BY <1>9 DEF Verify, Named, Alive, Exit
<1>10. CASE AlreadyStopped
  BY <1>10 DEF AlreadyStopped, Named, Alive, Stopped, Exit
<1>11. CASE FindProcess
  BY <1>11 DEF FindProcess, Named, Alive, Goto
<1>12. CASE Terminate
  BY <1>12 DEF Terminate, Alive, Goto
<1>13. CASE RemovePidFile
  BY <1>13 DEF RemovePidFile, Goto
<1>14. CASE HasEnded
  BY <1>14 DEF HasEnded, Alive, Stopped, Exit
<1>15. CASE StillUp
  BY <1>15 DEF StillUp, Alive, Goto
<1>16. CASE Sleep
  BY <1>16 DEF Sleep, Alive, Exit
<1>17. CASE Status
  BY <1>17 DEF Status, Named, Alive, Exit
<1>18. CASE Interrupt
  BY <1>18 DEF Interrupt, Exit
<1>19. CASE Reboot
  BY <1>19 DEF Reboot, Exit
<1>20. ASSUME NEW p \in Pids, End(p) PROVE OldIsReplaced'
  BY <1>20 DEF End
<1>21. ASSUME NEW p \in Pids, Begin(p) PROVE OldIsReplaced'
  BY <1>21 DEF Begin
<1>22. CASE UNCHANGED vars
  BY <1>22 DEF vars
<1>23. QED
  BY <1>1, <1>2, <1>3, <1>4, <1>5, <1>6, <1>7, <1>8, <1>9, <1>10, <1>11,
     <1>12, <1>13, <1>14, <1>15, <1>16, <1>17, <1>18, <1>19, <1>20, <1>21, <1>22
     DEF Next, Script

\* The inductive invariant holds in every reachable state.
THEOREM Invariance == Spec => []IInv
<1>1. IInv /\ [Next]_vars => IInv'
  BY TypesAreKept, PositionIsKept, NamesAreKept, ReplacingIsKept DEF IInv
<1>2. QED
  BY <1>1, Begins, PTL DEF Spec

\* The variables keep their types.
THEOREM TypeCorrect == Spec => []TypeOK
<1>1. IInv => TypeOK BY DEF IInv
<1>2. QED BY <1>1, Invariance, PTL

\* A daemon nobody has told to end is named by the pid file, whatever was
\* interrupted and whichever number was used again: the file is the only one there
\* is to find it by.
THEOREM DaemonCanBeFound == Spec => []DaemonIsNamed
<1>1. IInv => DaemonIsNamed
  <2> SUFFICES ASSUME IInv, pc = "idle", NEW p \in Pids,
                      procs[p] = "daemon", p \notin told \cup lost
               PROVE  pidfile = p
    BY DEF DaemonIsNamed
  <2>1. p \in Untold BY DEF Untold
  <2>2. Untold \subseteq {pidfile} BY DEF IInv, UntoldIsNamed
  <2>3. QED BY <2>1, <2>2
<1>2. QED BY <1>1, Invariance, PTL

\* A daemon is launched by the step that creates the process.
LEMMA OnlyLaunchLaunches ==
    ASSUME [Next]_vars, Launches
    PROVE  pc \in {"launch", "su"}
<1> USE DEF Launches, machine, file, call, stopVars
<1>1. ASSUME NEW p \in Pids, Launch(p) PROVE pc \in {"launch", "su"}
  BY <1>1 DEF Launch, Goto
<1>2. ASSUME NEW o \in {"start", "stop", "restart", "status"}, Call(o) PROVE FALSE
  BY <1>2 DEF Call
<1>3. CASE UNCHANGED launched
  BY <1>3
<1>4. QED
  BY <1>1, <1>2, <1>3 DEF Next, Script, vars,
     StartRefused, AlreadyRunning, Prepare, LimitFails, Truncate, WritePid, Verify,
     AlreadyStopped, FindProcess, Terminate, RemovePidFile, HasEnded, StillUp, Sleep,
     Status, Interrupt, Reboot, End, Begin

\* restart launches no second relay beside the one it replaces, also if that
\* survives SIGKILL.
THEOREM RestartReplacesInOrder == Spec => RestartIsInOrder
<1>1. ASSUME IInv, [Next]_vars, op = "restart", Launches, old # None
      PROVE  procs[old] # "daemon"
  <2>1. pc \in {"launch", "su"} BY <1>1, OnlyLaunchLaunches
  <2>2. QED BY <1>1, <2>1 DEF IInv, OldIsReplaced, Stopping
<1>2. IInv /\ [Next]_vars =>
        [op = "restart" /\ Launches /\ old # None => procs[old] # "daemon"]_vars
  BY <1>1
<1>3. QED BY <1>2, Invariance, PTL DEF Spec, RestartIsInOrder

\* restart says 0 at two places: where start() finds a process under the number in
\* the pid file, and where it has looked at the one it launched.
LEMMA RestartSaysZero ==
    ASSUME IInv, [Next]_vars, op = "restart", pc # "idle", code' = "0"
    PROVE  Named /\ pc \in {"start", "verify"}
<1> USE DEF IInv, Position, machine, file, call, stopVars
<1>1. CASE AlreadyRunning BY <1>1 DEF AlreadyRunning
<1>2. CASE Verify BY <1>2 DEF Verify, Exit
<1>3. CASE Status BY <1>3 DEF Status
<1>4. CASE AlreadyStopped \/ HasEnded BY <1>4 DEF AlreadyStopped, HasEnded, Stopped
<1>5. CASE StartRefused \/ LimitFails \/ Interrupt \/ Reboot
  BY <1>5 DEF StartRefused, LimitFails, Interrupt, Reboot, Exit
<1>6. CASE Sleep BY <1>6 DEF Sleep, Exit
<1>7. CASE UNCHANGED code BY <1>7
<1>8. ASSUME NEW o \in {"start", "stop", "restart", "status"}, Call(o) PROVE FALSE
  BY <1>8 DEF Call, Goto
<1>9. QED
  BY <1>1, <1>2, <1>3, <1>4, <1>5, <1>6, <1>7, <1>8 DEF Next, Script, vars,
     Prepare, Truncate, Launch, WritePid, FindProcess, Terminate, RemovePidFile,
     StillUp, End, Begin

\* When restart reports success the relay it launched runs, unless another process
\* has the number.
THEOREM RestartIsTruthful == Spec => RestartBringsUp
<1> DEFINE Up == \/ launched # None /\ procs[launched] = "daemon"
                 \/ procs[pidfile] = "other"
<1>1. ASSUME IInv, [Next]_vars, op = "restart", pc # "idle", code' = "0" PROVE Up
  <2>1. Named /\ pc \in {"start", "verify"} BY <1>1, RestartSaysZero
  <2>2. pidfile # None /\ procs[pidfile] \in {"daemon", "other"}
    BY <1>1, <2>1 DEF Named, Alive, IInv, TypeOK
  <2>3. CASE pc = "start"
    BY <1>1, <2>2, <2>3 DEF IInv, OldIsReplaced
  <2>4. CASE pc = "verify"
    BY <1>1, <2>2, <2>4 DEF IInv, Position
  <2>5. QED BY <2>1, <2>3, <2>4
<1>2. IInv /\ [Next]_vars =>
        [op = "restart" /\ pc # "idle" /\ code' = "0" => Up]_vars
  BY <1>1
<1>3. QED BY <1>2, Invariance, PTL DEF Spec, RestartBringsUp
=============================================================================
