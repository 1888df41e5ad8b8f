---------------------------- MODULE PartsProofs ----------------------------
(***************************************************************************)
(* What is proved of the parts holds of MCParts, where TLC checks it: the  *)
(* choice of one part among the others.  Each part's inductive invariant   *)
(* is kept by the steps of the part, by the lemmas about it, and the steps *)
(* of the others leave it alone.  The lemmas about the children, the keys, *)
(* ubar's threads and readings, the focus, the bar's protocol and the      *)
(* lists of the set-up are here, those about the other parts in modules of *)
(* their own.                                                              *)
(***************************************************************************)
EXTENDS MCParts, Lemmas, TLAPS

\* A step of MCParts is a step of the part or none of it.
LEMMA StepOfPart ==
  ASSUME [Next]_vars
  PROVE  /\ part' = part
         /\ part = "supervisor" => [S!Next]_S!vars
         /\ part = "keyboard" => [K!Next]_K!vars
         /\ part = "launcher" => [L!Next]_L!vars
         /\ part = "ubar" => [U!Next]_U!vars
         /\ part = "focus" => [F!Next]_F!vars
         /\ part = "bar" => [B!Next]_B!vars
         /\ part = "sizes" => [D!Next]_ws
         /\ part = "xwindows" => [X!Next]_xdesk
         /\ part = "readings" => [R!Next]_meter
         /\ part = "screen" => [P!Next]_bar
         /\ part = "startup" => [C!Next]_C!vars
<1> USE DEF OnlySupervisor, OnlyKeyboard, OnlyLauncher, OnlyUbar, OnlyFocus, OnlyBar,
            OnlyStartup, OnlyRecord
<1>1. part' = part
  BY DEF Next, vars
<1>2. part = "supervisor" => [S!Next]_S!vars
  BY DEF Next, vars, supervisorVars, S!vars, S!childVars, S!superVars
<1>3. part = "keyboard" => [K!Next]_K!vars
  BY DEF Next, vars, keyboardVars, K!vars
<1>4. part = "ubar" => [U!Next]_U!vars
  BY DEF Next, vars, ubarVars, U!vars, U!mainVars, U!threadVars, U!sinkVars, U!audioVars
<1>5. part = "focus" => [F!Next]_F!vars
  BY DEF Next, vars, focusVars, F!vars
<1>6. part = "bar" => [B!Next]_B!vars
  BY DEF Next, vars, barVars, B!vars
<1>7. part = "xwindows" => [X!Next]_xdesk
  BY DEF Next, vars, recordVars
<1>8. part = "readings" => [R!Next]_meter
  BY DEF Next, vars, recordVars
<1>9. part = "screen" => [P!Next]_bar
  BY DEF Next, vars, recordVars
<1>10. part = "launcher" => [L!Next]_L!vars
  BY DEF Next, vars, launcherVars, L!vars, L!loaded, L!choice
<1>11. part = "sizes" => [D!Next]_ws
  BY DEF Next, vars, recordVars
<1>12. part = "startup" => [C!Next]_C!vars
  BY DEF Next, vars, startupVars, C!vars
<1> QED
  BY <1>1, <1>2, <1>3, <1>4, <1>5, <1>6, <1>7, <1>8, <1>9, <1>10, <1>11, <1>12

----------------------------------------------------------------------------
(***************************************************************************)
(* The compositor and its children.                                        *)
(*                                                                         *)
(* Two invariants.  The point of TableInv is that a pid in the table that  *)
(* is neither a child nor a zombie still to be announced was reaped        *)
(* between its fork and its store (SlotsKnown), for which it has to say    *)
(* what is known of the pid on its way into the table (NewKnown) and where *)
(* the walk of children_terminate has been (ThreadPlaces); and that a      *)
(* child with a slot leads its group or is about to (RegisteredAreOurs),   *)
(* so that the walk fails to see only one that is about to.  InstanceInv   *)
(* is about pid files.                                                     *)
(***************************************************************************)

\* 0 in a slot is no pid; NoExe is no executable.
SupervisorConstants ==
  /\ NoPid \notin Pid /\ NoExe \notin Exe
  /\ MaxChildren \in Nat
  /\ Commands \in Seq(Exe)

(* The table of children. *)

ChildTypes ==
  /\ process \in [Pid -> S!State] /\ group \in [Pid -> S!GroupState]
  /\ child_pids \in [S!Slot -> Pid \cup {NoPid}]
  /\ main \in S!Places /\ caller \in {"autostart", "run"}
  /\ new \in Pid \cup {NoPid} /\ slot \in 1 .. MaxChildren + 1
  /\ live \subseteq Pid /\ registered \subseteq Pid /\ missed \subseteq Pid
  /\ sigchld \in BOOLEAN

\* What is known from where the thread is: the handler may have cleared a slot
\* that was just filled or read; the walk leaves empty slots behind.
ThreadPlaces ==
  /\ main \in {"forked", "stored", "taken"} => new \in Pid
  /\ main \in {"stored", "taken"} =>
       slot \in S!Slot /\ child_pids[slot] \in {new, NoPid}
  /\ main \notin S!Terminating \cup S!Gone => live = {}
  /\ main \in {"exec", "init"} => registered = {}
  /\ main \in {"exec", "grace", "asleep", "kill"} =>
       \A s \in S!Slot : child_pids[s] = NoPid
  /\ main \in {"walk", "taken"} =>
       \A s \in S!Slot : s < slot => child_pids[s] = NoPid

RegisteredAreOurs ==
  \A p \in registered : process[p] \in {"child", "zombie"} /\ group[p] # "none"

Known(p) ==
  process[p] = "child" \/ (process[p] = "zombie" /\ sigchld) \/ p \in missed

SlotsKnown == \A s \in S!Slot : child_pids[s] # NoPid => Known(child_pids[s])

\* The pid on its way into the table may be there already, dead, from an
\* earlier life of the pid.
NewKnown ==
  /\ main = "forked" =>
       /\ Known(new) /\ (process[new] = "child" => group[new] # "none")
       /\ \A s \in S!Slot : child_pids[s] = new => new \in missed
  /\ main = "stored" =>
       \A s \in S!Slot \ {slot} : child_pids[s] = new => new \in missed

\* The inductive invariant.
TableInv ==
  /\ ChildTypes /\ ThreadPlaces /\ RegisteredAreOurs /\ SlotsKnown /\ NewKnown
  /\ S!RegisteredIsTracked /\ S!NothingOutlives

\* The table is empty at the start.
LEMMA TableInit == ASSUME SupervisorConstants, S!Init PROVE TableInv
<1> USE DEF S!Init, S!ChildInit
<1>1. ChildTypes
  <2>1. child_pids \in [S!Slot -> Pid \cup {NoPid}]
    OBVIOUS
  <2>2. process \in [Pid -> S!State] /\ group \in [Pid -> S!GroupState]
    BY DEF S!State, S!GroupState
  <2>3. main \in S!Places
    BY DEF S!Places, S!Startup
  <2>4. slot \in 1 .. MaxChildren + 1
    BY DEF SupervisorConstants
  <2> QED
    BY <2>1, <2>2, <2>3, <2>4 DEF ChildTypes
<1>2. ThreadPlaces
  BY DEF ThreadPlaces, S!Slot, S!Terminating, S!Gone
<1>3. RegisteredAreOurs /\ NewKnown /\ S!RegisteredIsTracked /\ S!NothingOutlives
  BY DEF RegisteredAreOurs, NewKnown, S!RegisteredIsTracked, S!NothingOutlives
<1>4. SlotsKnown
  BY DEF SlotsKnown
<1> QED
  BY <1>1, <1>2, <1>3, <1>4 DEF TableInv

\* Every step of the compositor, of the SIGCHLD handler, of the children and
\* of the kernel keeps it (child.c:41-113, main.c:191-309).
LEMMA TableNext == ASSUME SupervisorConstants, TableInv, [S!Next]_S!vars PROVE TableInv'
<1> USE DEF SupervisorConstants, TableInv, ChildTypes, ThreadPlaces, RegisteredAreOurs,
            SlotsKnown, NewKnown, S!RegisteredIsTracked, S!NothingOutlives, Known,
            S!State, S!GroupState, S!Places, S!Startup, S!Slot, S!Terminating, S!Gone, S!Registering,
            S!Tracked, S!Free, S!Zombies, S!Go
<1>1. CASE S!InstallHandlers
  BY <1>1 DEF S!InstallHandlers
<1>2. CASE S!ServerInit
  BY <1>2 DEF S!ServerInit, S!ForkHelper
<1>3. CASE S!BackendStart
  BY <1>3 DEF S!BackendStart, S!Terminate
<1>4. CASE S!CleanPidDir
  BY <1>4 DEF S!CleanPidDir
<1>5. CASE S!CheckPidFile
  BY <1>5 DEF S!CheckPidFile
<1>6. CASE S!Spawn
  <2> USE <1>6 DEF S!Spawn, S!Fork
  <2>1. ChildTypes'
    OBVIOUS
  <2>2. ThreadPlaces'
    OBVIOUS
  <2>3. RegisteredAreOurs' /\ NewKnown'
    OBVIOUS
  <2>4. SlotsKnown'
    OBVIOUS
  <2>5. S!RegisteredIsTracked' /\ S!NothingOutlives'
    OBVIOUS
  <2> QED
    BY <2>1, <2>2, <2>3, <2>4, <2>5
<1>7. CASE S!EnterLoop
  BY <1>7 DEF S!EnterLoop
<1>8. CASE S!Recover
  BY <1>8 DEF S!Recover
<1>9. CASE S!Rerun
  BY <1>9 DEF S!Rerun
<1>10. CASE S!ReExec
  <2> USE <1>10 DEF S!ReExec, S!Terminate
  <2>1. ChildTypes'
    <3>1. child_pids' \in [S!Slot -> Pid \cup {NoPid}]
      OBVIOUS
    <3>2. main' \in S!Places /\ caller' \in {"autostart", "run"}
      OBVIOUS
    <3>3. new' \in Pid \cup {NoPid} /\ slot' \in 1 .. MaxChildren + 1
      OBVIOUS
    <3>4. /\ live' \subseteq Pid /\ registered' \subseteq Pid
          /\ missed' \subseteq Pid /\ sigchld' \in BOOLEAN
      OBVIOUS
    <3>5. process' \in [Pid -> S!State] /\ group' \in [Pid -> S!GroupState]
      OBVIOUS
    <3> QED
      BY <3>1, <3>2, <3>3, <3>4, <3>5
  <2>2. ThreadPlaces'
    OBVIOUS
  <2>3. RegisteredAreOurs' /\ NewKnown'
    OBVIOUS
  <2>4. SlotsKnown'
    OBVIOUS
  <2>5. S!RegisteredIsTracked' /\ S!NothingOutlives'
    OBVIOUS
  <2> QED
    BY <2>1, <2>2, <2>3, <2>4, <2>5
<1>11. CASE S!Store
  <2> USE <1>11 DEF S!Store, S!FreeSlots
  <2>1. ChildTypes'
    OBVIOUS
  <2>2. ThreadPlaces'
    OBVIOUS
  <2>3. RegisteredAreOurs' /\ S!NothingOutlives'
    OBVIOUS
  <2>4. SlotsKnown'
    OBVIOUS
  <2>5. NewKnown'
    OBVIOUS
  <2>6. S!RegisteredIsTracked'
    <3>1. \A s \in S!Slot : child_pids[s] # NoPid => child_pids'[s] = child_pids[s]
      OBVIOUS
    <3>2. \A p \in registered' \ registered : \E s \in S!Slot : child_pids'[s] = p
      OBVIOUS
    <3>3. \A p \in registered' : p # NoPid /\ p \in Pid
      BY <2>1
    <3>4. \A p \in registered' \cap S!Tracked : p \in S!Tracked'
      BY <3>1
    <3>5. \A p \in registered' \ registered : p \in S!Tracked'
      BY <3>2, <3>3
    <3>6. process' = process /\ live' = live /\ main = "forked" /\ main' # "taken"
      OBVIOUS
    <3> HIDE <1>11 DEF S!Store, S!FreeSlots, S!Tracked, ThreadPlaces, SlotsKnown, NewKnown, ChildTypes,
                 RegisteredAreOurs
    <3> QED
      BY <3>4, <3>5, <3>6
  <2> QED
    BY <2>1, <2>2, <2>3, <2>4, <2>5, <2>6
<1>12. CASE S!WaitOnce
  <2> USE <1>12 DEF S!WaitOnce
  <2>1. ChildTypes'
    BY SMTT(60)
  <2>2. ThreadPlaces'
    OBVIOUS
  <2>3. RegisteredAreOurs' /\ NewKnown' /\ S!NothingOutlives'
    OBVIOUS
  <2>4. SlotsKnown'
    OBVIOUS
  <2>5. S!RegisteredIsTracked'
    OBVIOUS
  <2> QED
    BY <2>1, <2>2, <2>3, <2>4, <2>5
<1>13. CASE S!TakeSlot
  BY <1>13 DEF S!TakeSlot
<1>14. CASE S!ReadSlot("gone")
  BY <1>14 DEF S!ReadSlot, S!WalkIsOver
<1>15. CASE S!Grace("gone")
  BY <1>15 DEF S!Grace, S!HasGroup
<1>16. CASE S!Wake
  BY <1>16 DEF S!Wake
<1>17. CASE S!Kill("gone")
  <2> USE <1>17 DEF S!Kill, S!Killed, S!HasGroup
  <2>1. ChildTypes'
    OBVIOUS
  <2>2. ThreadPlaces'
    OBVIOUS
  <2>3. RegisteredAreOurs' /\ NewKnown'
    OBVIOUS
  <2>4. SlotsKnown'
    OBVIOUS
  <2>5. S!RegisteredIsTracked' /\ S!NothingOutlives'
    OBVIOUS
  <2> QED
    BY <2>1, <2>2, <2>3, <2>4, <2>5
<1>18. CASE S!KeySpawn
  BY <1>18 DEF S!KeySpawn, S!Fork
<1>19. CASE S!XWaylandReady
  BY <1>19 DEF S!XWaylandReady, S!ForkHelper
<1>20. CASE S!Quit
  BY <1>20 DEF S!Quit, S!Terminate
<1>21. CASE S!Crash
  BY <1>21 DEF S!Crash
<1>22. ASSUME NEW p \in Pid, S!WritePidFile(p)
       PROVE  TableInv'
  BY <1>22 DEF S!WritePidFile, S!childVars
<1>23. CASE S!Running /\ S!Reap
  <2> USE <1>23 DEF S!Reap, S!Cleared, S!Running
  <2>1. ChildTypes'
    OBVIOUS
  <2>2. ThreadPlaces'
    OBVIOUS
  <2>3. RegisteredAreOurs' /\ S!NothingOutlives'
    OBVIOUS
  <2>4. SlotsKnown'
    OBVIOUS
  <2>5. NewKnown'
    OBVIOUS
  <2>6. S!RegisteredIsTracked'
    OBVIOUS
  <2> QED
    BY <2>1, <2>2, <2>3, <2>4, <2>5, <2>6
<1>24. ASSUME NEW p \in Pid, S!Running, S!Exit(p, main # "exec")
       PROVE  TableInv'
  <2> USE <1>24 DEF S!Exit, S!Running
  <2>1. ChildTypes'
    OBVIOUS
  <2>2. ThreadPlaces'
    OBVIOUS
  <2>3. RegisteredAreOurs' /\ S!NothingOutlives'
    OBVIOUS
  <2>4. SlotsKnown'
    OBVIOUS
  <2>5. NewKnown'
    OBVIOUS
  <2>6. S!RegisteredIsTracked'
    OBVIOUS
  <2> QED
    BY <2>1, <2>2, <2>3, <2>4, <2>5, <2>6
<1>25. ASSUME NEW p \in Pid, S!Running, S!Recycle(p)
       PROVE  TableInv'
  <2> USE <1>25 DEF S!Recycle, S!Running
  <2>1. ChildTypes'
    OBVIOUS
  <2>2. ThreadPlaces'
    OBVIOUS
  <2>3. RegisteredAreOurs' /\ NewKnown'
    OBVIOUS
  <2>4. SlotsKnown'
    OBVIOUS
  <2>5. S!RegisteredIsTracked' /\ S!NothingOutlives'
    OBVIOUS
  <2> QED
    BY <2>1, <2>2, <2>3, <2>4, <2>5
<1>26. CASE UNCHANGED S!vars
  BY <1>26 DEF S!vars, S!childVars
<1>27. ASSUME NEW p \in Pid, S!Running, S!Setsid(p)
       PROVE  TableInv'
  BY <1>27 DEF S!Setsid, S!Running
<1> QED
  BY <1>1, <1>2, <1>3, <1>4, <1>5, <1>6, <1>7, <1>8, <1>9, <1>10, <1>11, <1>12,
     <1>13, <1>14, <1>15, <1>16, <1>17, <1>18, <1>19, <1>20, <1>21, <1>22, <1>23,
     <1>24, <1>25, <1>26, <1>27
  DEF S!Next, S!Main, S!Environment, S!Over

----------------------------------------------------------------------------
(* Pid files. *)

ExeTypes ==
  /\ exe \in [Pid -> Exe \cup {NoExe}] /\ unwritten \subseteq Pid
  /\ pidfile \in [Exe -> Pid \cup {NoPid}]
  /\ next \in Nat \ {0}

\* Only a child runs a command, unless it was killed at the very end.
OnlyChildrenRun ==
  main \notin S!Gone => \A p \in Pid : exe[p] # NoExe => process[p] = "child"

\* The pid file of a program names its instance, once that has written it.
FilesNameInstances ==
  \A p \in Pid \ unwritten :
    exe[p] \notin raced \cup {NoExe} => pidfile[exe[p]] = p

\* After the check of a pid file no instance of the program is running.
CheckedIsFree ==
  main = "checked" =>
    /\ next <= Len(Commands)
    /\ Commands[next] \notin raced => \A p \in Pid : exe[p] # Commands[next]

\* The inductive invariant.
InstanceInv ==
  /\ ExeTypes /\ OnlyChildrenRun /\ FilesNameInstances /\ CheckedIsFree
  /\ S!OneInstance

\* At the start no instance runs and no pid file exists (main.c:68).
LEMMA InstanceInit == ASSUME SupervisorConstants, S!Init PROVE InstanceInv
  BY DEF SupervisorConstants, S!Init, S!ChildInit, InstanceInv, ExeTypes, OnlyChildrenRun,
         FilesNameInstances, CheckedIsFree, S!OneInstance

\* Every step keeps it: a command is spawned only after its check, and a file
\* is removed only when its process is gone or before the spawn (main.c:116-189).
LEMMA InstanceNext ==
  ASSUME SupervisorConstants, TableInv, InstanceInv, [S!Next]_S!vars
  PROVE  InstanceInv'
<1> USE DEF SupervisorConstants, InstanceInv, ExeTypes, OnlyChildrenRun,
            FilesNameInstances, CheckedIsFree, S!OneInstance, S!Gone, S!Go
<1>1. ChildTypes /\ (main \in {"forked", "stored", "taken"} => new \in Pid)
  BY DEF TableInv, ThreadPlaces
<1>2. CASE S!CleanPidDir
  BY <1>2 DEF S!CleanPidDir, S!LivePidFiles, S!Alive
<1>3. CASE S!CheckPidFile
  BY <1>3 DEF S!CheckPidFile, S!Alive
<1>4. CASE S!Spawn
  BY <1>1, <1>4 DEF S!Spawn, S!Fork, ChildTypes
<1>5. ASSUME NEW p \in Pid, S!WritePidFile(p)
      PROVE  InstanceInv'
  BY <1>5 DEF S!WritePidFile, S!childVars
<1>6. CASE S!ReExec
  BY <1>6 DEF S!ReExec, S!Terminate
<1>7. CASE S!InstallHandlers \/ S!ServerInit \/ S!BackendStart \/ S!EnterLoop
  BY <1>1, <1>7
  DEF S!InstallHandlers, S!ServerInit, S!BackendStart, S!EnterLoop, S!ForkHelper, S!Terminate,
      S!superVars, ChildTypes
<1>8. CASE S!Recover \/ S!Rerun \/ S!Crash \/ S!Quit
  BY <1>8 DEF S!Recover, S!Rerun, S!Crash, S!Quit, S!Terminate, S!superVars
<1>9. CASE S!KeySpawn \/ S!XWaylandReady
  BY <1>1, <1>9 DEF S!KeySpawn, S!XWaylandReady, S!Fork, S!ForkHelper, S!superVars, ChildTypes
<1>10. CASE (S!Store \/ S!WaitOnce) /\ UNCHANGED S!superVars
  BY <1>1, <1>10 DEF S!Store, S!WaitOnce, S!superVars, ChildTypes
<1>11. CASE /\ S!TakeSlot \/ S!ReadSlot("gone") \/ S!Grace("gone") \/ S!Wake \/ S!Kill("gone")
            /\ UNCHANGED S!superVars
  BY <1>11 DEF S!TakeSlot, S!ReadSlot, S!Grace, S!Wake, S!Kill, S!superVars
<1>12. ASSUME S!Reap \/ \E p \in Pid : S!Exit(p, main # "exec") \/ S!Recycle(p),
              UNCHANGED <<pidfile, next, old, crash_restarts, raced>>,
              exe' = [p \in Pid |-> IF process'[p] = "child" THEN exe[p] ELSE NoExe],
              unwritten' = {p \in unwritten : process'[p] = "child"},
              S!Running
       PROVE  InstanceInv'
  BY <1>1, <1>12 DEF S!Reap, S!Exit, S!Recycle, S!Running, ChildTypes
<1>13. CASE UNCHANGED S!vars
  BY <1>13 DEF S!vars, S!childVars, S!superVars
<1>14. ASSUME NEW p \in Pid, S!Setsid(p), UNCHANGED S!superVars
       PROVE  InstanceInv'
  BY <1>14 DEF S!Setsid, S!superVars
<1> QED
  BY <1>14, <1>2, <1>3, <1>4, <1>5, <1>6, <1>7, <1>8, <1>9, <1>10, <1>11, <1>12, <1>13
  DEF S!Next, S!Main, S!Environment, S!Over

----------------------------------------------------------------------------
\* What the invariant says of the table.
LEMMA TableInvTracks == TableInv => S!TableTracksChildren
  BY DEF TableInv, S!TableTracksChildren, S!DeadPidOnlyIfMissed, SlotsKnown, Known,
         S!Tracked

SupervisorInv == part = "supervisor" => TableInv /\ InstanceInv

\* The invariants of the table and of the pid files.
LEMMA SupervisorStays == ASSUME SupervisorConstants PROVE Spec => []SupervisorInv
<1>1. Init => SupervisorInv
  BY TableInit, InstanceInit DEF Init, SupervisorInv
<1>2. SupervisorInv /\ [Next]_vars => SupervisorInv'
  BY StepOfPart, TableNext, InstanceNext DEF SupervisorInv
<1> QED
  BY <1>1, <1>2, PTL DEF Spec

\* The table and the children agree, however children exit, the SIGCHLD handler
\* comes in between and pids are used again (child.c:41-82).
THEOREM ChildrenTracked == ASSUME SupervisorConstants PROVE Spec => []TableTracksChildren
<1>1. SupervisorInv => TableTracksChildren
  BY TableInvTracks DEF SupervisorInv, TableTracksChildren
<1> QED
  BY SupervisorStays, <1>1, PTL

\* After an orderly end none of the registered children runs, but for one that had
\* not come to its setsid when the compositor looked last (child.c:72-113).
THEOREM NoneOutlives == ASSUME SupervisorConstants PROVE Spec => []NothingOutlives
<1>1. SupervisorInv => NothingOutlives
  BY DEF SupervisorInv, TableInv, NothingOutlives
<1> QED
  BY SupervisorStays, <1>1, PTL

\* Autostart starts a program once, also across an execv (main.c:116-189).
THEOREM StartedOnce == ASSUME SupervisorConstants PROVE Spec => []OneInstance
<1>1. SupervisorInv => OneInstance
  BY DEF SupervisorInv, InstanceInv, OneInstance
<1> QED
  BY SupervisorStays, <1>1, PTL

----------------------------------------------------------------------------
(* The keyboard. *)

(* Three facts make an invariant; what it adds to the properties is that a  *)
(* timer is armed only while the logo key is down, and, unless the session *)
(* is locked, only for a key that is down.                                 *)

\* The logo key is none of the others, and NoKey is no key.
KeysDiffer == Logo \notin Key /\ NoKey \notin Key \cup {Logo}

ArmedWithLogo == armed => Logo \in held
ArmedForHeld == armed /\ ~locked => repeat_keycode \in held

\* The inductive invariant.
KeysInv == K!TypeOK /\ K!NoStuckKey /\ ArmedWithLogo /\ ArmedForHeld

\* At the start nothing is down and nothing armed.
LEMMA KeysInit == K!Init => KeysInv
  BY DEF K!Init, KeysInv, K!TypeOK, K!NoStuckKey, ArmedWithLogo, ArmedForHeld

\* A step keeps the invariant, whatever the order of presses, releases, locks
\* and expiries of the timer (input.c:125-269).
LEMMA KeysNext ==
  ASSUME KeysDiffer, KeysInv, [K!Next]_K!vars
  PROVE  KeysInv'
<1> USE DEF KeysInv, K!TypeOK, K!NoStuckKey, ArmedWithLogo, ArmedForHeld
<1>1. CASE K!Plug \/ K!Unplug
  BY <1>1 DEF K!Plug, K!Unplug
<1>2. ASSUME NEW k \in Key, K!Press(k) PROVE KeysInv'
  BY <1>2 DEF K!Press, K!MayMoveFocus
<1>3. ASSUME NEW k \in Key, K!Release(k) PROVE KeysInv'
  BY <1>3, KeysDiffer DEF K!Release, KeysDiffer
<1>4. CASE K!PressLogo
  BY <1>4, KeysDiffer DEF K!PressLogo, KeysDiffer
<1>5. CASE K!ReleaseLogo
  BY <1>5 DEF K!ReleaseLogo
<1>6. CASE K!TimerFires
  BY <1>6 DEF K!TimerFires, K!RunsBinding, K!MayMoveFocus
<1>7. CASE K!FocusMoves
  BY <1>7 DEF K!FocusMoves, K!MayMoveFocus
<1>8. CASE K!Lock
  BY <1>8 DEF K!Lock
<1>9. CASE K!Unlock
  BY <1>9 DEF K!Unlock
<1>10. CASE UNCHANGED K!vars
  BY <1>10 DEF K!vars
<1> QED
  BY <1>1, <1>2, <1>3, <1>4, <1>5, <1>6, <1>7, <1>8, <1>9, <1>10 DEF K!Next

\* What the invariant says of the timer.
LEMMA KeysInvRepeats == KeysInv => K!RepeatsWhatIsHeld
  BY DEF KeysInv, ArmedForHeld, K!RepeatsWhatIsHeld, K!RunsBinding

KeyboardInv == part = "keyboard" => KeysInv

\* Every behaviour of MCParts keeps it.
LEMMA KeyboardStays == ASSUME KeysDiffer PROVE Spec => []KeyboardInv
<1>1. Init => KeyboardInv
  BY KeysInit DEF Init, KeyboardInv
<1>2. KeyboardInv /\ [Next]_vars => KeyboardInv'
  BY StepOfPart, KeysNext DEF KeyboardInv
<1> QED
  BY <1>1, <1>2, PTL DEF Spec

\* The repeat timer runs a binding only for a key that is down, although a lock
\* keeps its release from stopping the timer (input.c:125-269).
THEOREM RepeatedKeysAreHeld ==
  ASSUME KeysDiffer PROVE Spec => []RepeatsWhatIsHeld
<1>1. KeyboardInv => RepeatsWhatIsHeld
  BY KeysInvRepeats DEF KeyboardInv, RepeatsWhatIsHeld
<1> QED
  BY KeyboardStays, <1>1, PTL

\* No client is left with a key it believes to be down (input.c:125-269).
THEOREM NoKeyEverStuck == ASSUME KeysDiffer PROVE Spec => []NoStuckKey
<1>1. KeyboardInv => NoStuckKey
  BY DEF KeyboardInv, KeysInv, NoStuckKey
<1> QED
  BY KeyboardStays, <1>1, PTL

----------------------------------------------------------------------------
(* ubar. *)
(* For a watched source NoChangeIsLost is inductive.  For the volume, which *)
(* passes through a copy, it has to be split: the copy agrees with the     *)
(* sound server's sink or an exchange is due, unless nothing was heard of  *)
(* that sink (CopyFollows), and the bar agrees with the copy or a byte is  *)
(* due (BarFollows).                                                       *)

\* The volume has no thread of ubar's own.
UbarConstants == "audio" \notin Watched /\ MaxRetries \in Nat

\* g_vol_pct is the volume, or the reply on its way is, or there will be one.
CopyFollows ==
  sink /\ ~unheard /\ sink_event # "sink" =>
    /\ audio \in {"note", "eol", "idle", "stale"} => g_vol_pct = real["audio"]
    /\ audio = "told" => reply = real["audio"]

\* The bar shows g_vol_pct or the loop will be told of it.
BarFollows ==
  /\ loop = "start" => audio = "none"
  /\ monitors \/ loop = "start" =>
       \/ shown["audio"] = g_vol_pct
       \/ pipe["audio"] \/ audio = "note"
       \/ loop = "sync" /\ served = "audio"

WatchedFollows ==
  \A m \in Watched : U!Watching(m) => (shown[m] = real[m] \/ U!OnItsWay(m))

\* The inductive invariant.
UbarInv == U!TypeOK /\ CopyFollows /\ BarFollows /\ WatchedFollows

\* At the start every queue is empty and every widget shows its value.
LEMMA UbarInit == ASSUME UbarConstants, U!Init PROVE UbarInv
<1> USE DEF U!Init
<1>1. U!TypeOK
  <2>1. /\ thread \in [Watched -> {"none", "new", "note", "poll"}]
        /\ sock \in [Watched -> BOOLEAN] /\ pipe \in [U!Source -> BOOLEAN]
    OBVIOUS
  <2>2. real \in [U!Source -> U!Value] /\ shown \in [U!Source -> U!Value]
    BY DEF U!Value
  <2>3. reply \in U!Value /\ g_vol_pct \in U!Value /\ retries \in 0 .. MaxRetries
    BY DEF U!Value, UbarConstants
  <2> QED
    BY <2>1, <2>2, <2>3 DEF U!TypeOK, U!Source
<1>2. CopyFollows /\ BarFollows
  BY DEF CopyFollows, BarFollows, U!Source
<1>3. WatchedFollows
  BY DEF WatchedFollows, U!Watching
<1> QED
  BY <1>1, <1>2, <1>3 DEF UbarInv

\* The end of the threads keeps the types (data.c:1039-1073).
LEMMA JoinTypes == ASSUME U!TypeOK, U!Join \/ U!Exec PROVE U!TypeOK'
<1>1. /\ loop' \in {"top", "gone", "leave", "exec"} /\ wake' \in {wake, FALSE}
      /\ UNCHANGED <<served, resume, term, monitors, thread, sock, pipe, real, shown, sink,
                     unheard, audio, sink_event, reply, g_vol_pct, retries>>
  BY DEF U!Join, U!Exec, U!Main, U!threadVars, U!sinkVars, U!audioVars
<1>2. wake' \in BOOLEAN
  BY <1>1 DEF U!TypeOK
<1> QED
  BY <1>1, <1>2 DEF U!TypeOK

\* So does a request to the sound server (data.c:462-556).
LEMMA ConnectTypes == ASSUME U!TypeOK, U!Connect \/ U!Ask PROVE U!TypeOK'
<1>1. /\ audio' \in U!Asked /\ sink_event' \in {sink_event, "none"}
      /\ UNCHANGED <<loop, served, resume, term, monitors, wake, thread, sock, pipe, real,
                     shown, sink, unheard, reply, g_vol_pct, retries>>
  BY DEF U!Connect, U!Ask, U!Asked, U!Exchange, U!mainVars, U!threadVars, U!sinkVars
<1> QED
  BY <1>1 DEF U!TypeOK

\* And their start (data.c:963-1037).
LEMMA StartTypes == ASSUME U!TypeOK, U!StartMonitors PROVE U!TypeOK'
<1>1. UNCHANGED <<served, resume, term, wake, sock, pipe, real, shown, sink, unheard,
                  sink_event, reply, g_vol_pct, retries>>
  BY DEF U!StartMonitors, U!sinkVars
<1>2. /\ loop' \in {"top", "stop"} /\ monitors' \in BOOLEAN
      /\ thread' \in [Watched -> {"none", "new", "note", "poll"}]
      /\ audio' \in {"none", "new", audio}
  BY DEF U!StartMonitors, U!TypeOK
<1> QED
  BY <1>1, <1>2 DEF U!TypeOK

\* And a reading that the loop takes (ubar.c:426-446).
LEMMA SyncTypes == ASSUME U!TypeOK, U!Sync PROVE U!TypeOK'
<1>1. /\ loop' = "top" /\ served' = "audio"
      /\ UNCHANGED <<resume, term, monitors, wake, thread, sock, pipe, real, sink, unheard,
                     audio, sink_event, reply, g_vol_pct, retries>>
  BY DEF U!Sync, U!Main, U!threadVars, U!sinkVars, U!audioVars
<1>2. U!Current(served) \in U!Value
  BY DEF U!TypeOK, U!Current
<1>3. shown' \in [U!Source -> U!Value]
  BY <1>2 DEF U!TypeOK, U!Sync
<1> QED
  BY <1>1, <1>3 DEF U!TypeOK, U!Source

\* And the end of the monitors (data.c:1075-1099).
LEMMA StopTypes == ASSUME U!TypeOK, U!Stop PROVE U!TypeOK'
<1>1. /\ loop' = "join" /\ monitors' = FALSE /\ wake' = TRUE
      /\ UNCHANGED <<served, resume, term, thread, sock, pipe, real, shown, sink, unheard,
                     audio, sink_event, reply, g_vol_pct, retries>>
  BY DEF U!Stop, U!Main, U!threadVars, U!sinkVars, U!audioVars
<1> QED
  BY <1>1 DEF U!TypeOK

\* And an answer of the sound server, and the end of its sink.
LEMMA SinkTypes == ASSUME U!TypeOK, U!Answer \/ U!SinkGoes PROVE U!TypeOK'
<1>1. /\ sink' \in {sink, FALSE} /\ unheard' \in {unheard, FALSE}
      /\ audio' \in {"told", "eol", "stale", audio} /\ reply' \in {reply, real["audio"]}
      /\ sink_event' \in {sink_event, "gone"}
      /\ UNCHANGED <<loop, served, resume, term, monitors, wake, thread, sock, pipe, real,
                     shown, g_vol_pct, retries>>
  BY DEF U!Answer, U!SinkGoes, U!Exchange, U!mainVars, U!threadVars
<1>2. sink' \in BOOLEAN /\ unheard' \in BOOLEAN
  BY <1>1 DEF U!TypeOK
<1>3. real["audio"] \in U!Value
  BY DEF U!TypeOK, U!Source
<1>4. reply' \in U!Value
  BY <1>1, <1>3 DEF U!TypeOK
<1>5. audio' \in {"none", "new", "idle", "told", "note", "eol", "lost"} \cup U!Asked
  BY <1>1 DEF U!TypeOK, U!Asked
<1>6. sink_event' \in {"none", "sink", "gone"}
  BY <1>1 DEF U!TypeOK
<1> QED
  BY <1>1, <1>2, <1>4, <1>5, <1>6 DEF U!TypeOK

\* The loop's own steps (ubar.c:365-446, data.c:1075-1150).
LEMMA LoopKeeps == ASSUME UbarConstants, UbarInv, U!Loop PROVE UbarInv'
<1> USE DEF UbarConstants, UbarInv, U!TypeOK, CopyFollows, BarFollows, WatchedFollows,
            U!Watching, U!Subscribed, U!OnItsWay, U!Source, U!Value, U!Asked, U!sinkVars,
            U!threadVars, U!audioVars, U!Main
<1>1. CASE U!StartMonitors
  <2>1. U!TypeOK'
    BY <1>1, StartTypes
  <2> USE <1>1 DEF U!StartMonitors
  <2>2. CopyFollows'
    OBVIOUS
  <2>3. BarFollows'
    OBVIOUS
  <2>4. WatchedFollows'
    OBVIOUS
  <2> QED
    BY <2>1, <2>2, <2>3, <2>4
<1>2. CASE U!Top
  BY <1>2 DEF U!Top
<1>3. CASE U!EnterPoll \/ U!Tick
  BY <1>3 DEF U!EnterPoll, U!Tick
<1>4. CASE U!Drain
  BY <1>4 DEF U!Drain
<1>5. CASE U!Sync
  <2>1. U!TypeOK'
    BY <1>5, SyncTypes
  <2> USE <1>5 DEF U!Sync, U!Current
  <2>2. CopyFollows'
    OBVIOUS
  <2>3. BarFollows'
    OBVIOUS
  <2>4. WatchedFollows'
    OBVIOUS
  <2> QED
    BY <2>1, <2>2, <2>3, <2>4
<1>6. CASE U!Stop
  <2>1. U!TypeOK'
    BY <1>6, StopTypes
  <2> USE <1>6 DEF U!Stop
  <2>2. CopyFollows'
    OBVIOUS
  <2>3. BarFollows'
    OBVIOUS
  <2>4. WatchedFollows'
    OBVIOUS
  <2> QED
    BY <2>1, <2>2, <2>3, <2>4
<1>7. CASE U!Join \/ U!Exec
  <2>1. U!TypeOK'
    BY JoinTypes, <1>7
  <2>2. /\ loop \in {"join", "leave"} /\ loop' \in {"top", "gone", "leave", "exec"}
        /\ UNCHANGED <<monitors, thread, sock, pipe, real, shown, sink, unheard, audio,
                       sink_event, reply, g_vol_pct>>
    BY <1>7 DEF U!Join, U!Exec
  <2> QED
    BY <2>1, <2>2
<1> QED
  BY <1>1, <1>2, <1>3, <1>4, <1>5, <1>6, <1>7 DEF U!Loop

\* The steps of a thread of ubar's (data.c:757-926).
LEMMA WatchKeeps ==
  ASSUME UbarConstants, UbarInv, NEW m \in Watched, U!Watch(m)
  PROVE  UbarInv'
<1> USE DEF UbarConstants, UbarInv, U!TypeOK, CopyFollows, BarFollows, WatchedFollows,
            U!Watching, U!Subscribed, U!OnItsWay, U!Source, U!Value, U!Asked, U!sinkVars,
            U!mainVars, U!audioVars, U!Step
<1>1. CASE U!Subscribe(m)
  BY <1>1 DEF U!Subscribe
<1>2. CASE U!Notify(m)
  BY <1>2 DEF U!Notify
<1>3. CASE U!Receive(m)
  BY <1>3 DEF U!Receive
<1>4. CASE U!Leave(m)
  BY <1>4 DEF U!Leave
<1> QED
  BY <1>1, <1>2, <1>3, <1>4 DEF U!Watch

\* The steps of PulseAudio's thread and of its end (data.c:462-640).
LEMMA AudioKeeps == ASSUME UbarConstants, UbarInv, U!Audio PROVE UbarInv'
<1> USE DEF UbarConstants, UbarInv, U!TypeOK, CopyFollows, BarFollows, WatchedFollows,
            U!Watching, U!Subscribed, U!OnItsWay, U!Source, U!Value, U!Asked, U!sinkVars,
            U!mainVars, U!threadVars, U!Exchange
<1>1. CASE U!Connect \/ U!Ask
  <2> USE <1>1 DEF U!Connect, U!Ask
  <2>1. U!TypeOK'
    BY ConnectTypes
  <2>2. CopyFollows'
    OBVIOUS
  <2>3. BarFollows'
    OBVIOUS
  <2>4. WatchedFollows'
    OBVIOUS
  <2> QED
    BY <2>1, <2>2, <2>3, <2>4
<1>2. CASE U!Answer
  <2>1. U!TypeOK'
    BY <1>2, SinkTypes
  <2> USE <1>2 DEF U!Answer
  <2>2. CopyFollows'
    OBVIOUS
  <2>3. BarFollows'
    OBVIOUS
  <2>4. WatchedFollows'
    OBVIOUS
  <2> QED
    BY <2>1, <2>2, <2>3, <2>4
<1>3. CASE U!Info
  BY <1>3 DEF U!Info
<1>4. CASE U!NotifyAudio
  <2> USE <1>4 DEF U!NotifyAudio
  <2>1. U!TypeOK'
    OBVIOUS
  <2>2. CopyFollows'
    OBVIOUS
  <2>3. BarFollows'
    OBVIOUS
  <2>4. WatchedFollows'
    OBVIOUS
  <2> QED
    BY <2>1, <2>2, <2>3, <2>4
<1>5. CASE U!EndOfList
  BY <1>5 DEF U!EndOfList
<1>6. CASE U!StopAudio
  BY <1>6 DEF U!StopAudio
<1> QED
  BY <1>1, <1>2, <1>3, <1>4, <1>5, <1>6 DEF U!Audio

\* What comes from outside: a change, a sink that appears or goes, the end of the
\* connection to the sound server, a signal, the end of the compositor.
LEMMA WorldKeeps ==
  ASSUME UbarConstants, UbarInv,
         \/ \E s \in U!Source : U!Change(s)
         \/ U!Lose \/ U!SinkAppears \/ U!SinkGoes \/ U!Signal \/ U!HangUp \/ U!Close
  PROVE  UbarInv'
<1> USE DEF UbarConstants, UbarInv, U!TypeOK, CopyFollows, BarFollows, WatchedFollows,
            U!Watching, U!Subscribed, U!OnItsWay, U!Source, U!Value, U!Asked, U!sinkVars,
            U!mainVars, U!threadVars, U!audioVars,
            U!Main
<1>1. ASSUME NEW s \in U!Source, U!Change(s)
      PROVE  UbarInv'
  <2> USE <1>1 DEF U!Change
  <2>1. U!TypeOK'
    <3>1. \A v \in U!Value : 1 - v \in U!Value
      OBVIOUS
    <3>2. real' \in [U!Source -> U!Value]
      BY <3>1
    <3>3. sock' \in [Watched -> BOOLEAN]
      OBVIOUS
    <3>4. sink_event' \in {"none", "sink", "gone"} /\ unheard' \in BOOLEAN
      OBVIOUS
    <3> QED
      BY <3>2, <3>3, <3>4
  <2>2. CopyFollows'
    OBVIOUS
  <2>3. BarFollows'
    OBVIOUS
  <2>4. WatchedFollows'
    OBVIOUS
  <2> QED
    BY <2>1, <2>2, <2>3, <2>4
<1>2. CASE U!Signal
  BY <1>2 DEF U!Signal
<1>3. CASE U!HangUp \/ U!Close
  BY <1>3 DEF U!HangUp, U!Close
<1>4. CASE U!Lose
  BY <1>4 DEF U!Lose
<1>5. CASE U!SinkAppears
  BY <1>5 DEF U!SinkAppears
<1>6. CASE U!SinkGoes
  <2>1. U!TypeOK'
    BY <1>6, SinkTypes
  <2> USE <1>6 DEF U!SinkGoes
  <2>2. CopyFollows'
    OBVIOUS
  <2>3. BarFollows'
    OBVIOUS
  <2>4. WatchedFollows'
    OBVIOUS
  <2> QED
    BY <2>1, <2>2, <2>3, <2>4
<1> QED
  BY <1>1, <1>2, <1>3, <1>4, <1>5, <1>6

\* Every step of a thread or of the world keeps the invariant.
LEMMA UbarNext == ASSUME UbarConstants, UbarInv, [U!Next]_U!vars PROVE UbarInv'
<1>1. CASE UNCHANGED U!vars
  BY <1>1 DEF UbarInv, U!TypeOK, CopyFollows, BarFollows, WatchedFollows, U!Watching, U!Subscribed,
         U!OnItsWay, U!vars, U!mainVars, U!threadVars, U!sinkVars, U!audioVars
<1> QED
  BY <1>1, LoopKeeps, WatchKeeps, AudioKeeps, WorldKeeps DEF U!Next, U!Over

\* What the invariant says of the sources.
LEMMA UbarInvLosesNothing == ASSUME UbarConstants, UbarInv PROVE U!NoChangeIsLost
  BY DEF UbarInv, U!TypeOK, CopyFollows, BarFollows, WatchedFollows, U!NoChangeIsLost,
         U!Watching, U!Subscribed, U!OnItsWay, U!Source, U!Asked, UbarConstants

UbarStaysInv == part = "ubar" => UbarInv

\* Every behaviour of MCParts keeps it.
LEMMA UbarStays == ASSUME UbarConstants PROVE Spec => []UbarStaysInv
<1>1. Init => UbarStaysInv
  BY UbarInit DEF Init, UbarStaysInv
<1>2. UbarStaysInv /\ [Next]_vars => UbarStaysInv'
  BY StepOfPart, UbarNext DEF UbarStaysInv
<1> QED
  BY <1>1, <1>2, PTL DEF Spec

\* While a source is watched the bar shows its value or a step is still to come
\* that reads it again (data.c:462-556, 757-926, ubar.c:424-443).  Of the volume a
\* sink is watched that ubar has heard of, while the connection stands.
THEOREM NothingIsLost == ASSUME UbarConstants PROVE Spec => []NoChangeIsLost
<1>1. UbarStaysInv => NoChangeIsLost
  BY UbarInvLosesNothing DEF UbarStaysInv, NoChangeIsLost
<1> QED
  BY UbarStays, <1>1, PTL

----------------------------------------------------------------------------
(* The keyboard among windows, layer surfaces and lock surfaces.  The two  *)
(* properties need each other, and two facts more: what a workspace calls  *)
(* focused is one of its windows (FocusedIsHere), and without a lock no    *)
(* lock surface has the keyboard (LockedOnly).                             *)

\* Surfaces are told apart, and None is none of them.
FocusConstants ==
    /\ None \notin Window \cup Layer \cup Output \cup Workspace
    /\ Window \cap (Layer \cup Output) = {} /\ Layer \cap Output = {}
    /\ Primary \in Output
    /\ Wishes \in [Layer -> SUBSET F!Wish]

FocusedIsHere ==
    \A s \in Workspace : focused[s] # None => home[focused[s]] = s

LockedOnly ==
    /\ lock => locked
    /\ ~locked => keyboard \notin Output /\ lock_surface = {}

\* The inductive invariant.
ShellInv ==
    /\ F!TypeOK /\ FocusedIsHere /\ LockedOnly
    /\ F!TypingGoesToFocused /\ F!KeyboardComesBack

\* Arranging gives the keyboard to a layer surface or to whom it was given.
LEMMA ArrangeGives ==
    ASSUME NEW o, NEW k, NEW ls
    PROVE  F!layer_surface_arrange(o, k, ls) \in Layer \cup {k}
<1>1. \A some \in SUBSET Layer : some # {} => (CHOOSE l \in some : TRUE) \in Layer
    OBVIOUS
<1>2. F!Exclusive(o, "overlay", ls) \in SUBSET Layer /\ F!Exclusive(o, "top", ls) \in SUBSET Layer
    BY DEF F!Exclusive
<1> QED
    BY <1>1, <1>2 DEF F!layer_surface_arrange

\* At the start no client is there and nothing has the keyboard.
LEMMA ShellInit == ASSUME FocusConstants, F!Init PROVE ShellInv
    BY DEF FocusConstants, F!Init, ShellInv, F!TypeOK, FocusedIsHere, LockedOnly,
           F!TypingGoesToFocused, F!KeyboardComesBack, F!Absent, F!Wish

\* Windows that map, unmap and are focused, and switches of the workspace.
LEMMA WindowKeeps ==
    ASSUME FocusConstants, ShellInv,
           \/ \E w \in Window :
                F!MapWindow(w) \/ F!UnmapWindow(w) \/ F!FocusWindow(w) \/ F!Activate(w)
           \/ \E s \in Workspace : F!SwitchWorkspace(s)
    PROVE  ShellInv'
<1> USE DEF FocusConstants, ShellInv, FocusedIsHere, LockedOnly, F!TypingGoesToFocused,
            F!KeyboardComesBack, F!TypeOK, F!GiveTo, F!locking, F!windows
<1>1. ASSUME NEW w \in Window, F!MapWindow(w)
      PROVE  ShellInv'
    BY <1>1 DEF F!MapWindow
<1>2. ASSUME NEW w \in Window, F!UnmapWindow(w), F!UnmapFocused(w, home[w])
      PROVE  ShellInv'
  <2>1. CASE F!On(home[w]) = {w}
    <3>1. F!TypeOK'
      BY <1>2, <2>1 DEF F!UnmapWindow, F!UnmapFocused, F!Drop
    <3>2. FocusedIsHere' /\ LockedOnly' /\ F!TypingGoesToFocused'
      BY <1>2, <2>1 DEF F!UnmapWindow, F!UnmapFocused, F!Drop
    <3>3. F!KeyboardComesBack'
      BY <1>2, <2>1 DEF F!UnmapWindow, F!UnmapFocused, F!Drop
    <3> QED
      BY <3>1, <3>2, <3>3
  <2>2. ASSUME NEW heir \in F!On(home[w]) \ {w},
               focused' = [focused EXCEPT ![home[w]] = heir], F!GiveTo(heir)
        PROVE  ShellInv'
    <3>1. heir \in Window /\ home[heir] = home[w] /\ heir # w
      BY <2>2 DEF F!On
    <3> QED
      BY <1>2, <2>2, <3>1 DEF F!UnmapWindow
  <2> QED
    BY <1>2, <2>1, <2>2 DEF F!UnmapFocused
<1>3. ASSUME NEW w \in Window, F!UnmapWindow(w), F!UnmapOther(w, home[w])
      PROVE  ShellInv'
    BY <1>3 DEF F!UnmapWindow, F!UnmapOther
<1>4. ASSUME NEW w \in Window, F!FocusWindow(w)
      PROVE  ShellInv'
    BY <1>4 DEF F!FocusWindow, F!focus_toplevel
<1>5. ASSUME NEW s \in Workspace, F!SwitchWorkspace(s)
      PROVE  ShellInv'
    BY <1>5, ArrangeGives
    DEF F!SwitchWorkspace, F!output_set_workspace, F!KeyboardOn, F!FocusShown, F!focus_toplevel
<1>6. ASSUME NEW w \in Window, F!Activate(w)
      PROVE  ShellInv'
  <2>1. home[w] \in Workspace /\ w # None
    BY <1>6 DEF F!Activate
  <2>2. focused' \in {focused, [focused EXCEPT ![home[w]] = w]} /\ focused'[home[w]] = w
    <3>1. F!KeyboardOn(home[w]) = w => focused[home[w]] = w
      BY <2>1, ArrangeGives DEF F!KeyboardOn
    <3> QED
      BY <1>6, <2>1, <3>1 DEF F!Activate, F!focus_toplevel
  <2>3. F!TypeOK'
    <3>1. focused' \in [Workspace -> Window \cup {None}]
      BY <2>1, <2>2
    <3>2. current' \in Workspace /\ keyboard' = w /\ dropped' \in BOOLEAN
      BY <1>6, <2>1 DEF F!Activate
    <3> QED
      BY <1>6, <3>1, <3>2 DEF F!Activate
  <2>4. keyboard' = w /\ home' = home /\ focused'[home[w]] = w
    BY <1>6, <2>2 DEF F!Activate
  <2>5. FocusedIsHere'
    BY <2>1, <2>2, <2>4
  <2>6. F!TypingGoesToFocused' /\ F!KeyboardComesBack'
    BY <2>1, <2>4
  <2>7. LockedOnly'
    BY <1>6, <2>4 DEF F!Activate
  <2> QED
    BY <2>3, <2>5, <2>6, <2>7
<1> QED
    BY <1>1, <1>2, <1>3, <1>4, <1>5, <1>6 DEF F!UnmapWindow

LayerType ==
    [Layer -> [is : {"absent", "created", "mapped"},
               output : Output \cup {None}, wish : F!Wish]]

\* Layer surfaces change the keyboard in three ways: it goes to one of them, to
\* the focused window, or stays; and whoever clears it says so.
LEMMA LayerStep ==
    ASSUME FocusConstants, ShellInv, layer' \in LayerType,
           UNCHANGED <<F!windows, plugged, F!locking>>,
           keyboard' \in Layer \cup {keyboard, focused[current]} \/ keyboard' = None,
           dropped' \in BOOLEAN,
           keyboard' = None =>
             dropped' \/ focused[current] = None \/ (keyboard = None /\ ~dropped)
    PROVE  ShellInv'
<1> USE DEF FocusConstants, ShellInv, FocusedIsHere, LockedOnly, F!TypingGoesToFocused,
            F!KeyboardComesBack, F!locking, F!windows
<1>1. F!TypeOK'
    BY DEF F!TypeOK, LayerType
<1> QED
    BY <1>1 DEF F!TypeOK

\* A layer surface that comes, commits or goes keeps the invariant.
LEMMA LayerKeeps ==
    ASSUME FocusConstants, ShellInv, NEW l \in Layer,
           \/ \E o \in plugged : \E wish \in Wishes[l] : F!layer_surface_create(l, o, wish)
           \/ F!MapLayer(l) \/ F!UnmapLayer(l) \/ F!DestroyLayer(l)
           \/ \E wish \in Wishes[l] : F!CommitLayer(l, wish)
    PROVE  ShellInv'
<1>1. /\ layer \in LayerType /\ dropped \in BOOLEAN
      /\ \A o \in plugged : o \in Output
      /\ \A wish \in Wishes[l] : wish \in F!Wish
      /\ l # None
    BY DEF ShellInv, F!TypeOK, LayerType, FocusConstants
<1>2. ASSUME NEW o \in plugged, NEW wish \in Wishes[l], F!layer_surface_create(l, o, wish)
      PROVE  ShellInv'
  <2>1. layer' \in LayerType
    BY <1>1, <1>2 DEF F!layer_surface_create, LayerType
  <2> QED
    BY <1>1, <1>2, <2>1, LayerStep DEF F!layer_surface_create
<1>3. CASE F!MapLayer(l)
  <2>1. layer' \in LayerType
    BY <1>1, <1>3 DEF F!MapLayer, LayerType
  <2>2. CASE layer[l].output = None
    BY <1>1, <1>3, <2>1, <2>2, LayerStep DEF F!MapLayer
  <2>3. CASE layer[l].output # None
    <3>1. keyboard' \in Layer \cup {keyboard}
      BY <1>3, <2>3, ArrangeGives DEF F!MapLayer, F!GiveTo
    <3> QED
      BY <1>1, <1>3, <2>1, <2>3, <3>1, LayerStep DEF F!MapLayer, F!GiveTo, FocusConstants
  <2> QED
    BY <2>2, <2>3
<1>4. ASSUME NEW is \in {"absent", "created"}, F!Leave(l, is)
      PROVE  ShellInv'
  <2>1. layer' \in LayerType
    BY <1>1, <1>4 DEF F!Leave, LayerType, F!Absent, F!Wish
  <2>2. CASE layer[l].output # None
    <3>1. keyboard' \in Layer \cup {F!handle_unmap(l)}
      BY <1>4, <2>2, ArrangeGives DEF F!Leave, F!GiveTo
    <3> QED
      BY <1>1, <1>4, <2>1, <2>2, <3>1, LayerStep DEF F!Leave, F!GiveTo, F!handle_unmap, FocusConstants
  <2>3. CASE layer[l].output = None
    BY <1>1, <1>4, <2>1, <2>3, LayerStep DEF F!Leave, F!Drop
  <2> QED
    BY <2>2, <2>3
<1>5. ASSUME NEW wish \in Wishes[l], F!CommitLayer(l, wish)
      PROVE  ShellInv'
  <2>1. layer' \in LayerType
    BY <1>1, <1>5 DEF F!CommitLayer, LayerType
  <2>2. CASE layer[l].output = None
    BY <1>1, <1>5, <2>1, <2>2, LayerStep DEF F!CommitLayer
  <2>3. CASE layer[l].output # None
    <3>1. keyboard' \in Layer \cup {keyboard}
      BY <1>5, <2>3, ArrangeGives DEF F!CommitLayer, F!GiveTo
    <3> QED
      BY <1>1, <1>5, <2>1, <2>3, <3>1, LayerStep DEF F!CommitLayer, F!GiveTo, FocusConstants
  <2> QED
    BY <2>2, <2>3
<1> QED
    BY <1>2, <1>3, <1>4, <1>5 DEF F!UnmapLayer, F!DestroyLayer

\* The end of the session lock gives the keyboard to the window that its workspace
\* calls focused already.
LEMMA UnlockKeeps ==
    ASSUME FocusConstants, ShellInv, F!handle_lock_unlock
    PROVE  ShellInv'
<1>1. /\ lock' = FALSE /\ locked' = FALSE /\ lock_surface' = {}
      /\ keyboard' = focused[current]
      /\ dropped' = (focused[current] = None /\ keyboard = None /\ dropped)
      /\ UNCHANGED <<home, current, layer, plugged>>
  BY DEF F!handle_lock_unlock, F!GiveTo
<1>2. /\ focused \in [Workspace -> Window \cup {None}] /\ current \in Workspace
      /\ dropped \in BOOLEAN
  BY DEF ShellInv, F!TypeOK
<1>3. UNCHANGED focused
  <2>1. CASE focused[current] = None
    BY <2>1 DEF F!handle_lock_unlock, F!FocusShown
  <2>2. CASE focused[current] # None
    <3>1. home[focused[current]] = current
      BY <1>2, <2>2 DEF ShellInv, FocusedIsHere
    <3>2. focused' = focused \/ focused' = [focused EXCEPT ![current] = focused[current]]
      BY <2>2, <3>1 DEF F!handle_lock_unlock, F!FocusShown, F!focus_toplevel
    <3> QED
      BY <1>2, <3>2
  <2> QED
    BY <2>1, <2>2
<1>4. F!TypeOK'
  <2>1. focused[current] \in Window \cup {None}
    BY <1>2
  <2> QED
    BY <1>1, <1>2, <1>3, <2>1 DEF ShellInv, F!TypeOK
<1>5. FocusedIsHere' /\ LockedOnly'
  <2>1. focused[current] \notin Output
    BY <1>2 DEF FocusConstants
  <2> QED
    BY <1>1, <1>3, <2>1 DEF ShellInv, FocusedIsHere, LockedOnly
<1>6. F!TypingGoesToFocused'
  <2>1. focused[current] \in Window => home[focused[current]] = current
    BY <1>2 DEF ShellInv, FocusedIsHere, FocusConstants
  <2> QED
    BY <1>1, <1>2, <1>3, <2>1 DEF F!TypingGoesToFocused, FocusConstants
<1>7. F!KeyboardComesBack'
  BY <1>1, <1>3 DEF F!KeyboardComesBack
<1> QED
  BY <1>4, <1>5, <1>6, <1>7 DEF ShellInv

\* Hotplug and the session lock.
LEMMA LockKeeps ==
    ASSUME FocusConstants, ShellInv,
           \/ \E o \in Output : F!PlugOutput(o) \/ F!output_destroy(o)
           \/ F!handle_new_lock \/ F!handle_lock_unlock \/ F!handle_lock_destroy
           \/ \E o \in Output : F!handle_new_lock_surface(o) \/ F!handle_lock_surface_destroy(o)
    PROVE  ShellInv'
<1> USE DEF FocusConstants, ShellInv, FocusedIsHere, LockedOnly, F!TypingGoesToFocused,
            F!KeyboardComesBack, F!TypeOK, F!GiveTo, F!locking, F!windows
<1>1. ASSUME NEW o \in Output, F!PlugOutput(o)
      PROVE  ShellInv'
    BY <1>1 DEF F!PlugOutput
<1>2. ASSUME NEW o \in Output, F!output_destroy(o)
      PROVE  ShellInv'
    BY <1>2 DEF F!output_destroy
<1>3. CASE F!handle_new_lock
    BY <1>3 DEF F!handle_new_lock
<1>4. CASE F!handle_lock_unlock
  BY <1>4, UnlockKeeps
<1>5. CASE F!handle_lock_destroy
    BY <1>5 DEF F!handle_lock_destroy
<1>6. ASSUME NEW o \in Output, F!handle_new_lock_surface(o)
      PROVE  ShellInv'
    BY <1>6 DEF F!handle_new_lock_surface
<1>7. ASSUME NEW o \in Output, F!handle_lock_surface_destroy(o)
      PROVE  ShellInv'
    BY <1>7 DEF F!handle_lock_surface_destroy
<1> QED
    BY <1>1, <1>2, <1>3, <1>4, <1>5, <1>6, <1>7

\* Every handler keeps the invariant.
LEMMA ShellNext == ASSUME FocusConstants, ShellInv, [F!Next]_F!vars PROVE ShellInv'
<1>1. CASE UNCHANGED F!vars
    BY <1>1 DEF ShellInv, FocusedIsHere, LockedOnly, F!TypingGoesToFocused, F!KeyboardComesBack,
           F!TypeOK, F!vars
<1> QED
    BY <1>1, WindowKeeps, LayerKeeps, LockKeeps DEF F!Next

FocusInv == part = "focus" => ShellInv

\* Every behaviour keeps the invariant.
LEMMA FocusStays == ASSUME FocusConstants PROVE Spec => []FocusInv
<1>1. Init => FocusInv
  BY ShellInit DEF Init, FocusInv
<1>2. FocusInv /\ [Next]_vars => FocusInv'
  BY StepOfPart, ShellNext DEF FocusInv
<1> QED
  BY <1>1, <1>2, PTL DEF Spec

\* A window that has the keyboard is the one its workspace calls focused,
\* whichever handler gave it the keyboard (window.c, layer_shell.c, session_lock.c).
THEOREM TypingReachesFocused ==
  ASSUME FocusConstants PROVE Spec => []TypingGoesToFocused
<1>1. FocusInv => TypingGoesToFocused
  BY DEF FocusInv, ShellInv, TypingGoesToFocused
<1> QED
  BY FocusStays, <1>1, PTL

\* When launchers and locks go, the focused window of the displayed workspace
\* has the keyboard again (layer_shell.c, session_lock.c).
THEOREM KeyboardReturns == ASSUME FocusConstants PROVE Spec => []KeyboardComesBack
<1>1. FocusInv => KeyboardComesBack
  BY DEF FocusInv, ShellInv, KeyboardComesBack
<1> QED
  BY FocusStays, <1>1, PTL

----------------------------------------------------------------------------
(* What the status bar is told.  A change is announced or excused because  *)
(* the window with the keyboard is the focused one of its workspace, so    *)
(* that a handler that moves the focus notifies of it; and the callback is *)
(* queued exactly while its source is set.                                 *)

\* Model values are told apart.
BarConstants == None \notin Window \cup Workspace \cup Output

\* The keyboard's window is mapped and the focused one of its workspace.
KeyboardAtHome(d) ==
    d.keyboard # None => /\ d.keyboard \in d.mapped
                         /\ d.focused[d.home[d.keyboard]] = d.keyboard

\* What a workspace calls focused is one of its windows, and mapped.
FocusedAtHome(d) ==
    \A s \in Workspace :
       d.focused[s] # None => d.focused[s] \in d.mapped /\ d.home[d.focused[s]] = s

MappedAtHome(d) == \A w \in d.mapped : d.home[w] # None

TypeOfDesk(d) ==
    d \in [home : [Window -> Workspace \cup {None}], mapped : SUBSET Window,
           focused : [Workspace -> Window \cup {None}],
           keyboard : Window \cup {None}, shows : [Output -> Workspace],
           active_output : Output, output : [Workspace -> Output \cup {None}],
           bar_toplevel : [Output -> Window \cup {None}],
           bar_ws : [Output -> Workspace \cup {None}], idle_source : BOOLEAN]

DeskBase(d) == TypeOfDesk(d) /\ FocusedAtHome(d) /\ MappedAtHome(d)
DeskGood(d) == DeskBase(d) /\ KeyboardAtHome(d)

\* The inductive invariant.
BarInv ==
    /\ DeskGood(desk) /\ queued = desk.idle_source /\ silent \in BOOLEAN
    /\ ~desk.idle_source /\ ~silent => B!InSync


\* To notify writes down what the output was notified of and asks for the callback.
LEMMA NotifyType ==
    ASSUME BarConstants, NEW d, TypeOfDesk(d), NEW w \in Window, d.home[w] \in Workspace
    PROVE  LET e == B!uwm_bar_notify_focus(d, w)
               o == d.output[d.home[w]]
           IN  /\ TypeOfDesk(e)
               /\ e.home = d.home /\ e.mapped = d.mapped /\ e.focused = d.focused
               /\ e.keyboard = d.keyboard /\ e.shows = d.shows /\ e.output = d.output
               /\ e.active_output = d.active_output
               /\ d.idle_source => e.idle_source
               /\ o # None /\ ~B!Repeats(d, w, o) => e.idle_source
<1> DEFINE o == d.output[d.home[w]]
<1>1. CASE o = None \/ B!Repeats(d, w, o)
  <2>1. B!uwm_bar_notify_focus(d, w) = d
    BY <1>1 DEF B!uwm_bar_notify_focus
  <2> QED
    BY <1>1, <2>1
<1>2. CASE ~(o = None \/ B!Repeats(d, w, o))
  <2>1. B!uwm_bar_notify_focus(d, w)
          = [[d EXCEPT !.bar_toplevel[o] = w, !.bar_ws[o] = d.shows[o]]
             EXCEPT !.idle_source = TRUE]
    BY <1>2 DEF B!uwm_bar_notify_focus, B!uwm_bar_send_output
  <2>2. o \in Output /\ d.shows[o] \in Workspace
    BY <1>2 DEF TypeOfDesk
  <2> DEFINE tops == [d.bar_toplevel EXCEPT ![o] = w]
             wss == [d.bar_ws EXCEPT ![o] = d.shows[o]]
  <2>3. /\ tops \in [Output -> Window \cup {None}]
        /\ wss \in [Output -> Workspace \cup {None}]
    BY <2>2 DEF TypeOfDesk
  <2>4. B!uwm_bar_notify_focus(d, w)
          = [d EXCEPT !.bar_toplevel = tops, !.bar_ws = wss, !.idle_source = TRUE]
    BY <2>1, <2>2 DEF TypeOfDesk
  <2> HIDE DEF tops, wss
  <2> QED
    BY <1>2, <2>3, <2>4 DEF TypeOfDesk
<1> QED
  BY <1>1, <1>2

\* What is focused is w, after d.
Focuses(d, e, w) ==
    LET s == d.home[w]
        o == d.output[s]
    IN  /\ DeskBase(e) /\ e.keyboard = w
        /\ e.home = d.home /\ e.mapped = d.mapped
        /\ e.focused = IF d.keyboard = w THEN d.focused
                       ELSE [d.focused EXCEPT ![s] = w]
        /\ e.shows = d.shows /\ e.output = d.output
        /\ d.keyboard = w => e = d
        /\ d.idle_source => e.idle_source
        /\ d.keyboard # w /\ o # None /\ ~B!Repeats(d, w, o) => e.idle_source

\* What focus_toplevel leaves behind.
LEMMA FocusBase ==
    ASSUME BarConstants, NEW d, DeskBase(d), NEW w \in d.mapped
    PROVE  Focuses(d, B!focus_toplevel(d, w), w)
<1> DEFINE s == d.home[w]
           o == d.output[s]
           act == IF o = None THEN d.active_output ELSE o
           f == [d EXCEPT !.focused[s] = w, !.keyboard = w, !.active_output = act]
<1>1. w \in Window /\ s \in Workspace /\ o \in Output \cup {None} /\ act \in Output
  BY DEF DeskBase, TypeOfDesk, MappedAtHome
<1>2. CASE d.keyboard = w
  <2>1. B!focus_toplevel(d, w) = d
    BY <1>2 DEF B!focus_toplevel
  <2>2. Focuses(d, d, w)
    BY <1>2 DEF Focuses
  <2> QED
    BY <2>1, <2>2
<1>3. CASE d.keyboard # w
  <2>1. B!focus_toplevel(d, w) = B!uwm_bar_notify_focus(f, w)
    BY <1>3 DEF B!focus_toplevel
  <2>2. /\ f.home = d.home /\ f.mapped = d.mapped /\ f.shows = d.shows
        /\ f.output = d.output /\ f.keyboard = w /\ f.idle_source = d.idle_source
        /\ f.focused = [d.focused EXCEPT ![s] = w]
        /\ f.bar_toplevel = d.bar_toplevel /\ f.bar_ws = d.bar_ws
    BY <1>1 DEF DeskBase, TypeOfDesk
  <2>3. TypeOfDesk(f)
    <3>1. [d.focused EXCEPT ![s] = w] \in [Workspace -> Window \cup {None}]
      BY <1>1 DEF DeskBase, TypeOfDesk
    <3> QED
      BY <1>1, <3>1 DEF DeskBase, TypeOfDesk
  <2>4. FocusedAtHome(f) /\ MappedAtHome(f)
    BY <1>1, <2>2 DEF DeskBase, TypeOfDesk, FocusedAtHome, MappedAtHome
  <2>5. B!Repeats(f, w, o) <=> B!Repeats(d, w, o)
    BY <2>2 DEF B!Repeats
  <2> HIDE DEF f
  <2> DEFINE e == B!uwm_bar_notify_focus(f, w)
  <2>6. /\ TypeOfDesk(e) /\ e.home = f.home /\ e.mapped = f.mapped /\ e.focused = f.focused
        /\ e.keyboard = f.keyboard /\ e.shows = f.shows /\ e.output = f.output
        /\ f.idle_source => e.idle_source
        /\ f.output[f.home[w]] # None /\ ~B!Repeats(f, w, f.output[f.home[w]]) => e.idle_source
    BY <1>1, <2>2, <2>3, NotifyType
  <2> HIDE DEF e
  <2>7. DeskBase(e)
    BY <2>4, <2>6 DEF DeskBase, FocusedAtHome, MappedAtHome
  <2>8. Focuses(d, e, w)
    BY <1>1, <1>3, <2>2, <2>5, <2>6, <2>7 DEF Focuses
  <2> QED
    BY <2>1, <2>8 DEF e
<1> QED
  BY <1>2, <1>3

\* FocusOn focuses what the workspace calls focused, or clears the keyboard.
LEMMA FocusOnBase ==
    ASSUME BarConstants, NEW d, DeskBase(d), NEW s \in Workspace
    PROVE  LET e == B!FocusOn(d, s)
           IN  /\ DeskBase(e) /\ e.home = d.home /\ e.mapped = d.mapped /\ e.focused[s] = d.focused[s]
               /\ KeyboardAtHome(e)
               /\ e.shows = d.shows /\ e.output = d.output
               /\ d.idle_source => e.idle_source
<1> DEFINE w == d.focused[s]
<1>1. CASE w # None
  <2>1. w \in d.mapped /\ d.home[w] = s
    BY <1>1 DEF DeskBase, FocusedAtHome
  <2>2. B!FocusOn(d, s) = B!focus_toplevel(d, w)
    BY <1>1 DEF B!FocusOn
  <2> DEFINE e == B!focus_toplevel(d, w)
  <2>3. /\ DeskBase(e) /\ e.keyboard = w /\ e.home = d.home /\ e.mapped = d.mapped
        /\ e.focused = IF d.keyboard = w THEN d.focused ELSE [d.focused EXCEPT ![s] = w]
        /\ e.shows = d.shows /\ e.output = d.output
        /\ d.idle_source => e.idle_source
    <3>1. Focuses(d, e, w)
      BY <2>1, FocusBase
    <3> HIDE DEF e
    <3> QED
      BY <2>1, <3>1 DEF Focuses
  <2> HIDE DEF e
  <2>4. e.focused[s] = w
    BY <2>3 DEF DeskBase, TypeOfDesk
  <2>5. KeyboardAtHome(e)
    BY <2>1, <2>3, <2>4 DEF KeyboardAtHome
  <2> QED
    BY <2>2, <2>3, <2>4, <2>5 DEF e
<1>2. CASE w = None
  <2>1. B!FocusOn(d, s) = [d EXCEPT !.keyboard = None]
    BY <1>2 DEF B!FocusOn
  <2> QED
    BY <2>1 DEF DeskBase, TypeOfDesk, FocusedAtHome, MappedAtHome, KeyboardAtHome
<1> QED
  BY <1>1, <1>2

\* A switch keeps what is focused where it belongs; unless it has nothing to do it
\* asks for the callback.
LEMMA SwitchBase ==
    ASSUME BarConstants, NEW d, DeskBase(d), NEW o \in Output, NEW s \in Workspace
    PROVE  LET e == B!output_set_workspace(d, o, s)
           IN  /\ DeskBase(e) /\ e.home = d.home /\ e.mapped = d.mapped /\ e.focused[s] = d.focused[s]
               /\ e = d \/ KeyboardAtHome(e)
               /\ e = d \/ e.idle_source
               /\ d.idle_source => e.idle_source
               /\ d.shows[o] # s \/ d.output[s] # o => e.idle_source
<1>1. CASE d.shows[o] = s /\ d.output[s] = o
  <2>1. B!output_set_workspace(d, o, s) = d
    BY <1>1 DEF B!output_set_workspace
  <2> QED
    BY <1>1, <2>1
<1>2. CASE ~(d.shows[o] = s /\ d.output[s] = o)
  <2> DEFINE other == d.output[s]
             shows == [p \in Output |->
                         IF p = o THEN s ELSE IF p = other THEN d.shows[o] ELSE d.shows[p]]
             output == [v \in Workspace |->
                          IF v = s THEN o
                          ELSE IF v = d.shows[o] /\ d.output[v] = o THEN None ELSE d.output[v]]
             t == [d EXCEPT !.shows = shows, !.output = output]
             f == B!FocusOn(t, s)
             e == B!output_set_workspace(d, o, s)
  <2>1. shows \in [Output -> Workspace] /\ output \in [Workspace -> Output \cup {None}]
    BY DEF DeskBase, TypeOfDesk
  <2>2. B!TradePlaces(d, o, s) = t
    BY DEF B!TradePlaces, DeskBase, TypeOfDesk
  <2> HIDE DEF shows, output
  <2>3. DeskBase(t) /\ t.home = d.home /\ t.mapped = d.mapped /\ t.focused = d.focused
    BY <2>1 DEF DeskBase, TypeOfDesk, FocusedAtHome, MappedAtHome
  <2>4. e = [[f EXCEPT !.active_output = o] EXCEPT !.idle_source = TRUE]
    BY <1>2, <2>2 DEF B!output_set_workspace, B!uwm_bar_send_output
  <2> HIDE DEF t
  <2>5. /\ DeskBase(f) /\ f.home = t.home /\ f.mapped = t.mapped /\ f.focused[s] = t.focused[s]
        /\ KeyboardAtHome(f)
    BY <2>3, FocusOnBase
  <2> HIDE DEF f
  <2>6. /\ TypeOfDesk(e) /\ e.home = f.home /\ e.mapped = f.mapped /\ e.focused = f.focused
        /\ e.keyboard = f.keyboard /\ e.idle_source
    BY <2>4, <2>5 DEF DeskBase, TypeOfDesk
  <2> HIDE DEF e
  <2>7. DeskBase(e) /\ KeyboardAtHome(e)
    BY <2>5, <2>6 DEF DeskBase, FocusedAtHome, MappedAtHome, KeyboardAtHome
  <2> QED
    BY <2>3, <2>5, <2>6, <2>7 DEF e
<1> QED
  BY <1>1, <1>2

----------------------------------------------------------------------------
(* The handlers. *)

\* A handler that leaves a good desk, and announces what it changes unless that is
\* excused.
LEMMA StepKeeps ==
    ASSUME BarConstants, BarInv, NEW d, NEW excused \in BOOLEAN, B!Step(d, excused), DeskGood(d),
           desk.idle_source => d.idle_source,
           excused \/ d.idle_source \/ B!State(d) = B!State(desk)
    PROVE  BarInv'
<1>1. /\ desk' = d /\ sent' = sent /\ queued' = (queued \/ (d.idle_source /\ ~desk.idle_source))
      /\ silent' = (~d.idle_source /\ (silent \/ (excused /\ B!State(d) # B!State(desk))))
  BY DEF B!Step
<1>2. desk.idle_source \in BOOLEAN /\ d.idle_source \in BOOLEAN
  BY DEF BarInv, DeskGood, DeskBase, TypeOfDesk
<1>3. DeskGood(desk)' /\ silent' \in BOOLEAN
  BY <1>1
<1>4. queued' = (desk.idle_source)'
  <2>1. queued = desk.idle_source
    BY DEF BarInv
  <2> QED
    BY <1>1, <1>2, <2>1
<1>5. ASSUME ~d.idle_source, ~silent', sent # None PROVE sent = B!State(d)
  <2>1. ~desk.idle_source /\ ~silent /\ B!State(d) = B!State(desk)
    BY <1>1, <1>2, <1>5
  <2>2. sent = B!State(desk)
    BY <1>5, <2>1 DEF BarInv, B!InSync
  <2> QED
    BY <2>1, <2>2
<1>6. B!State(desk)' = B!State(d)
  BY <1>1
<1>7. (~desk.idle_source /\ ~silent => B!InSync)'
  BY <1>1, <1>5, <1>6 DEF B!InSync
<1> QED
  BY <1>3, <1>4, <1>7 DEF BarInv

\* A window opens.
LEMMA MapKeeps ==
    ASSUME BarConstants, BarInv, NEW w \in Window, NEW s \in Workspace, B!MapWindow(w, s)
    PROVE  BarInv'
<1> DEFINE d == [desk EXCEPT !.mapped = @ \cup {w}, !.home[w] = s]
           o == d.output[s]
           e == B!focus_toplevel(d, w)
           excused == o = None \/ B!Repeats(d, w, o)
<1>1. DeskBase(desk) /\ KeyboardAtHome(desk) /\ w \notin desk.mapped
  BY DEF BarInv, DeskGood, B!MapWindow
<1>2. B!Step(e, excused)
  BY DEF B!MapWindow
<1> HIDE DEF excused
<1>3. /\ TypeOfDesk(d) /\ d.mapped = desk.mapped \cup {w}
      /\ d.home = [desk.home EXCEPT ![w] = s] /\ d.focused = desk.focused
      /\ d.keyboard = desk.keyboard /\ d.idle_source = desk.idle_source
  BY <1>1 DEF DeskBase, TypeOfDesk
<1>4. w # desk.keyboard
  BY <1>1 DEF KeyboardAtHome, BarConstants
<1>5. DeskBase(d) /\ d.home[w] = s /\ w \in d.mapped /\ d.keyboard # w
  BY <1>1, <1>3, <1>4 DEF DeskBase, TypeOfDesk, FocusedAtHome, MappedAtHome, BarConstants
<1> HIDE DEF d
<1>6. /\ DeskBase(e) /\ e.keyboard = w /\ e.home = d.home /\ e.mapped = d.mapped
      /\ e.focused = [d.focused EXCEPT ![d.home[w]] = w]
      /\ d.idle_source => e.idle_source
      /\ d.output[d.home[w]] # None /\ ~B!Repeats(d, w, d.output[d.home[w]]) => e.idle_source
  <2>1. Focuses(d, e, w)
    BY <1>5, FocusBase
  <2> HIDE DEF e
  <2> QED
    BY <1>5, <2>1 DEF Focuses
<1> HIDE DEF e
<1>7. DeskGood(e)
  BY <1>3, <1>5, <1>6 DEF DeskGood, DeskBase, TypeOfDesk, KeyboardAtHome
<1>8. excused \in BOOLEAN /\ (excused \/ e.idle_source)
  BY <1>5, <1>6 DEF excused
<1> QED
  BY <1>2, <1>3, <1>6, <1>7, <1>8, StepKeeps

\* A window closes; its heir, if it had the focus, gets it.
LEMMA UnmapKeeps ==
    ASSUME BarConstants, BarInv, NEW w \in Window, B!UnmapWindow(w)
    PROVE  BarInv'
<1> DEFINE s == desk.home[w]
<1>1. /\ DeskBase(desk) /\ KeyboardAtHome(desk) /\ w \in desk.mapped
      /\ desk.home[w] \in Workspace
  BY DEF BarInv, DeskGood, B!UnmapWindow, DeskBase, TypeOfDesk, MappedAtHome
<1>2. CASE desk.focused[s] = w
  <2> DEFINE d == [desk EXCEPT !.mapped = @ \ {w}, !.focused[s] = None]
  <2>1. /\ TypeOfDesk(d) /\ d.mapped = desk.mapped \ {w} /\ d.home = desk.home
        /\ d.focused = [desk.focused EXCEPT ![s] = None]
        /\ d.keyboard = desk.keyboard /\ d.idle_source = desk.idle_source
    BY <1>1 DEF DeskBase, TypeOfDesk
  <2>2. DeskBase(d)
    BY <1>1, <2>1 DEF DeskBase, TypeOfDesk, FocusedAtHome, MappedAtHome, BarConstants
  <2>3. \/ B!Step([d EXCEPT !.keyboard = None], TRUE)
        \/ \E heir \in B!On(d, s) : B!Step(B!focus_toplevel(d, heir), TRUE)
    BY <1>2 DEF B!UnmapWindow, B!UnmapFocused
  <2> HIDE DEF d
  <2>4. CASE B!Step([d EXCEPT !.keyboard = None], TRUE)
    <3> DEFINE e == [d EXCEPT !.keyboard = None]
    <3>1. DeskGood(e) /\ e.idle_source = d.idle_source
      BY <2>2 DEF DeskGood, DeskBase, TypeOfDesk, FocusedAtHome, MappedAtHome, KeyboardAtHome
    <3> HIDE DEF e
    <3>2. B!Step(e, TRUE)
      BY <2>4 DEF e
    <3> QED
      BY <2>1, <3>1, <3>2, StepKeeps
  <2>5. CASE \E heir \in B!On(d, s) : B!Step(B!focus_toplevel(d, heir), TRUE)
    <3>1. PICK heir \in B!On(d, s) : B!Step(B!focus_toplevel(d, heir), TRUE)
      BY <2>5
    <3>2. heir \in d.mapped /\ d.home[heir] = s /\ heir # w
      BY <2>1 DEF B!On
    <3>3. heir # d.keyboard
      BY <1>1, <1>2, <2>1, <3>2, desk.home[heir] = s DEF KeyboardAtHome, BarConstants, DeskBase, TypeOfDesk
    <3> DEFINE e == B!focus_toplevel(d, heir)
    <3>4. /\ DeskBase(e) /\ e.keyboard = heir /\ e.home = d.home /\ e.mapped = d.mapped
          /\ e.focused = [d.focused EXCEPT ![d.home[heir]] = heir]
          /\ d.idle_source => e.idle_source
      <4>1. Focuses(d, e, heir)
        BY <2>2, <3>2, FocusBase
      <4> HIDE DEF e
      <4> QED
        BY <3>3, <4>1 DEF Focuses
    <3> HIDE DEF e
    <3>5. DeskGood(e)
      BY <1>1, <2>1, <3>2, <3>4 DEF DeskGood, DeskBase, TypeOfDesk, KeyboardAtHome
    <3>6. B!Step(e, TRUE)
      BY <3>1 DEF e
    <3> QED
      BY <2>1, <3>4, <3>5, <3>6, StepKeeps
  <2> QED
    BY <2>3, <2>4, <2>5
<1>3. CASE desk.focused[s] # w
  <2> DEFINE d == [desk EXCEPT !.mapped = @ \ {w}]
  <2>1. /\ TypeOfDesk(d) /\ d.mapped = desk.mapped \ {w} /\ d.home = desk.home
        /\ d.focused = desk.focused
        /\ d.keyboard = desk.keyboard /\ d.idle_source = desk.idle_source
    BY <1>1 DEF DeskBase, TypeOfDesk
  <2>2. DeskGood(d)
    BY <1>1, <1>3, <2>1
    DEF DeskGood, DeskBase, FocusedAtHome, MappedAtHome, KeyboardAtHome
  <2>3. B!Step(d, TRUE)
    BY <1>3 DEF B!UnmapWindow
  <2> HIDE DEF d
  <2> QED
    BY <2>1, <2>2, <2>3, StepKeeps
<1> QED
  BY <1>2, <1>3

\* A window is forgotten.
LEMMA DestroyKeeps ==
    ASSUME BarConstants, BarInv, NEW w \in Window, B!DestroyWindow(w)
    PROVE  BarInv'
<1> DEFINE tops == [o \in Output |-> IF desk.bar_toplevel[o] = w THEN None
                                     ELSE desk.bar_toplevel[o]]
           homes == [desk.home EXCEPT ![w] = None]
           d == [desk EXCEPT !.idle_source = TRUE, !.home = homes, !.bar_toplevel = tops]
<1>1. DeskBase(desk) /\ KeyboardAtHome(desk) /\ w \notin desk.mapped
  BY DEF BarInv, DeskGood, B!DestroyWindow
<1>2. tops \in [Output -> Window \cup {None}] /\ homes \in [Window -> Workspace \cup {None}]
  BY <1>1 DEF DeskBase, TypeOfDesk
<1>3. B!Step(d, FALSE)
  BY <1>1 DEF B!DestroyWindow, B!uwm_bar_send_output, DeskBase, TypeOfDesk
<1>4. \A v \in desk.mapped : homes[v] = desk.home[v]
  BY <1>1 DEF DeskBase, TypeOfDesk
<1> HIDE DEF tops, homes
<1>5. /\ TypeOfDesk(d) /\ d.home = homes /\ d.mapped = desk.mapped /\ d.focused = desk.focused
      /\ d.keyboard = desk.keyboard /\ d.idle_source
  BY <1>1, <1>2 DEF DeskBase, TypeOfDesk
<1> HIDE DEF d
<1>6. DeskGood(d)
  BY <1>1, <1>4, <1>5 DEF DeskGood, DeskBase, FocusedAtHome, MappedAtHome, KeyboardAtHome
<1> QED
  BY <1>3, <1>5, <1>6, StepKeeps

\* A click.
LEMMA ClickKeeps ==
    ASSUME BarConstants, BarInv, NEW w \in Window, B!Click(w)
    PROVE  BarInv'
<1> DEFINE e == B!focus_toplevel(desk, w)
           excused == B!Repeats(desk, w, desk.output[desk.home[w]])
<1>1. /\ DeskBase(desk) /\ KeyboardAtHome(desk) /\ w \in desk.mapped
      /\ desk.output[desk.home[w]] # None /\ B!Step(e, excused)
  BY DEF BarInv, DeskGood, B!Click
<1>2. excused \in BOOLEAN
  BY DEF B!Repeats
<1>3. /\ DeskBase(e) /\ e.keyboard = w /\ e.home = desk.home /\ e.mapped = desk.mapped
      /\ e.focused = IF desk.keyboard = w THEN desk.focused
                     ELSE [desk.focused EXCEPT ![desk.home[w]] = w]
      /\ desk.keyboard = w => e = desk
      /\ desk.idle_source => e.idle_source
      /\ desk.keyboard # w /\ ~excused => e.idle_source
  <2>1. Focuses(desk, e, w)
    BY <1>1, FocusBase
  <2> HIDE DEF e
  <2> QED
    BY <1>1, <2>1 DEF Focuses
<1> HIDE DEF e, excused
<1>4. DeskGood(e)
  <2>1. desk.home[w] \in Workspace
    BY <1>1 DEF DeskBase, TypeOfDesk, MappedAtHome
  <2>2. CASE desk.keyboard = w
    BY <1>1, <1>3, <2>2 DEF DeskGood
  <2>3. CASE desk.keyboard # w
    BY <1>1, <1>3, <2>1, <2>3 DEF DeskGood, KeyboardAtHome, DeskBase, TypeOfDesk
  <2> QED
    BY <2>2, <2>3
<1> QED
  BY <1>1, <1>2, <1>3, <1>4, StepKeeps

\* A switch of the workspace.
LEMMA SwitchKeeps ==
    ASSUME BarConstants, BarInv, NEW s \in Workspace, B!workspace_switch(s)
    PROVE  BarInv'
<1> DEFINE o == desk.active_output
           e == B!output_set_workspace(desk, o, s)
<1>1. DeskBase(desk) /\ KeyboardAtHome(desk) /\ o \in Output /\ B!Step(e, FALSE)
  BY DEF BarInv, DeskGood, DeskBase, TypeOfDesk, B!workspace_switch
<1>2. /\ DeskBase(e) /\ (e = desk \/ KeyboardAtHome(e)) /\ (e = desk \/ e.idle_source)
      /\ desk.idle_source => e.idle_source
  BY <1>1, SwitchBase
<1> HIDE DEF e
<1> QED
  BY <1>1, <1>2, StepKeeps DEF DeskGood

\* The focused window moves to another workspace, which is switched to.
LEMMA MoveKeeps ==
    ASSUME BarConstants, BarInv, NEW s \in Workspace, B!movetows(s)
    PROVE  BarInv'
<1> DEFINE a == desk.active_output
           from == desk.shows[a]
           w == desk.focused[from]
           others == B!On(desk, from) \ {w}
           o == desk.output[s]
           excused == o # None /\ B!Repeats(desk, w, o)
<1>1. PICK heir \in IF others = {} THEN {None} ELSE others :
         LET d == B!workspace_move_toplevel(desk, w, s, heir)
         IN  B!Step(B!focus_toplevel(B!output_set_workspace(d, d.active_output, s), w), excused)
  BY DEF B!movetows
<1>2. /\ DeskBase(desk) /\ KeyboardAtHome(desk) /\ a \in Output /\ from \in Workspace
      /\ w # None /\ s # from /\ o \in Output \cup {None}
  BY DEF BarInv, DeskGood, DeskBase, TypeOfDesk, B!movetows
<1>3. w \in desk.mapped /\ desk.home[w] = from /\ w \in Window
  BY <1>2 DEF DeskBase, TypeOfDesk, FocusedAtHome
<1>4. heir = None \/ (heir \in desk.mapped /\ desk.home[heir] = from /\ heir # w)
  BY DEF B!On
<1> HIDE DEF others, excused
<1> DEFINE homes == [desk.home EXCEPT ![w] = s]
           foci == [[desk.focused EXCEPT ![from] = heir] EXCEPT ![s] = w]
           m == [desk EXCEPT !.home = homes, !.focused = foci]
           d == IF o # None THEN B!focus_toplevel(m, w) ELSE m
           f == B!output_set_workspace(d, d.active_output, s)
           e == B!focus_toplevel(f, w)
<1>5. /\ homes \in [Window -> Workspace \cup {None}] /\ foci \in [Workspace -> Window \cup {None}]
      /\ homes[w] = s /\ \A v \in Window \ {w} : homes[v] = desk.home[v]
      /\ foci[s] = w /\ foci[from] = heir
      /\ \A v \in Workspace \ {from, s} : foci[v] = desk.focused[v]
  BY <1>2, <1>3, <1>4 DEF DeskBase, TypeOfDesk
<1>6. B!workspace_move_toplevel(desk, w, s, heir) = d
  BY <1>2, <1>3 DEF B!workspace_move_toplevel, DeskBase, TypeOfDesk
<1> HIDE DEF homes, foci
<1>7. /\ TypeOfDesk(m) /\ m.home = homes /\ m.mapped = desk.mapped /\ m.focused = foci
      /\ m.keyboard = desk.keyboard /\ m.shows = desk.shows /\ m.output = desk.output
      /\ m.active_output = a /\ m.idle_source = desk.idle_source
      /\ m.bar_toplevel = desk.bar_toplevel /\ m.bar_ws = desk.bar_ws
  BY <1>2, <1>5 DEF DeskBase, TypeOfDesk
<1>8. DeskBase(m)
  <2>1. FocusedAtHome(desk) /\ MappedAtHome(desk) /\ desk.mapped \in SUBSET Window
    BY <1>2 DEF DeskBase, TypeOfDesk
  <2>2. FocusedAtHome(m)
    <3> SUFFICES ASSUME NEW v \in Workspace, foci[v] # None
                 PROVE  foci[v] \in desk.mapped /\ homes[foci[v]] = v
      BY <1>7 DEF FocusedAtHome
    <3>1. CASE v = s
      BY <1>3, <1>5, <3>1
    <3>2. CASE v = from
      BY <1>2, <1>4, <1>5, <2>1, <3>2
    <3>3. CASE v \notin {from, s}
      <4>1. foci[v] = desk.focused[v] /\ desk.focused[v] \in desk.mapped
            /\ desk.home[desk.focused[v]] = v
        BY <1>5, <2>1, <3>3 DEF FocusedAtHome
      <4>2. desk.focused[v] # w
        BY <1>3, <3>3, <4>1
      <4> QED
        BY <1>5, <2>1, <4>1, <4>2
    <3> QED
      BY <3>1, <3>2, <3>3
  <2>3. MappedAtHome(m)
    <3> SUFFICES ASSUME NEW v \in desk.mapped PROVE homes[v] # None
      BY <1>7 DEF MappedAtHome
    <3>1. desk.home[v] # None /\ v \in Window
      BY <2>1 DEF MappedAtHome
    <3> QED
      BY <1>5, <3>1 DEF BarConstants
  <2> QED
    BY <1>7, <2>2, <2>3 DEF DeskBase
<1>9. B!Repeats(m, w, o) <=> B!Repeats(desk, w, o)
  BY <1>7 DEF B!Repeats
<1> HIDE DEF m
<1>10. /\ DeskBase(d) /\ d.home = homes /\ d.mapped = desk.mapped /\ d.focused[s] = w
       /\ d.shows = desk.shows /\ d.output = desk.output
       /\ desk.idle_source => d.idle_source
       /\ excused \/ d.idle_source \/ d.active_output = a \/ o = None
  <2>1. CASE o = None
    BY <1>5, <1>7, <1>8, <2>1
  <2>2. CASE o # None
    <3>0. w \in m.mapped /\ m.home[w] = s /\ d = B!focus_toplevel(m, w)
      BY <1>3, <1>5, <1>7, <2>2
    <3> HIDE DEF d
    <3>1. /\ DeskBase(d) /\ d.home = m.home /\ d.mapped = m.mapped
          /\ d.focused = IF m.keyboard = w THEN m.focused
                         ELSE [m.focused EXCEPT ![m.home[w]] = w]
          /\ d.shows = m.shows /\ d.output = m.output
          /\ m.keyboard = w => d = m
          /\ m.idle_source => d.idle_source
          /\ m.keyboard # w /\ ~B!Repeats(m, w, m.output[m.home[w]])
                /\ m.output[m.home[w]] # None => d.idle_source
      <4>1. Focuses(m, B!focus_toplevel(m, w), w)
        BY <1>8, <3>0, FocusBase
      <4>2. Focuses(m, d, w)
        BY <3>0, <4>1
      <4> QED
        BY <4>2 DEF Focuses
    <3>2. d.focused[s] = w
      BY <1>2, <1>5, <1>7, <3>0, <3>1
    <3>3. excused \/ d.idle_source \/ d.active_output = a
      BY <1>5, <1>7, <1>9, <2>2, <3>1 DEF excused
    <3> QED
      BY <1>7, <3>1, <3>2, <3>3
  <2> QED
    BY <2>1, <2>2
<1> HIDE DEF d
<1>11. d.active_output \in Output
  BY <1>10 DEF DeskBase, TypeOfDesk
<1>12. /\ DeskBase(f) /\ f.home = d.home /\ f.mapped = d.mapped /\ f.focused[s] = d.focused[s]
       /\ d.idle_source => f.idle_source
       /\ d.shows[d.active_output] # s \/ d.output[s] # d.active_output => f.idle_source
  BY <1>10, <1>11, SwitchBase
<1> HIDE DEF f
<1>13. excused \/ f.idle_source
  BY <1>2, <1>10, <1>11, <1>12 DEF BarConstants
<1>14. /\ DeskBase(e) /\ e.keyboard = w /\ e.home = f.home /\ e.mapped = f.mapped
       /\ e.focused = IF f.keyboard = w THEN f.focused ELSE [f.focused EXCEPT ![f.home[w]] = w]
       /\ f.idle_source => e.idle_source
  <2>1. w \in f.mapped
    BY <1>3, <1>10, <1>12
  <2>2. DeskBase(f)
    BY <1>12
  <2>3. Focuses(f, e, w)
    BY <2>1, <2>2, FocusBase
  <2> HIDE DEF e
  <2> QED
    BY <2>3 DEF Focuses
<1> HIDE DEF e
<1>15. e.focused[s] = w
  BY <1>5, <1>10, <1>12, <1>14 DEF DeskBase, TypeOfDesk
<1>16. DeskGood(e)
  <2>1. e.mapped = desk.mapped /\ e.home = homes
    BY <1>10, <1>12, <1>14
  <2>2. KeyboardAtHome(e)
    BY <1>3, <1>5, <1>14, <1>15, <2>1 DEF KeyboardAtHome
  <2> QED
    BY <1>14, <2>2 DEF DeskGood
<1>17. B!Step(e, excused)
  BY <1>1, <1>6 DEF e, f
<1>18. excused \in BOOLEAN
  BY DEF excused
<1> QED
  BY <1>10, <1>12, <1>13, <1>14, <1>16, <1>17, <1>18, StepKeeps

\* The connection comes and goes, and the idle callback runs.
LEMMA ConnectionKeeps ==
    ASSUME BarConstants, BarInv,
           B!get_workspace_group \/ B!workspace_group_destroy \/ B!bar_send_idle_handler
    PROVE  BarInv'
<1> USE DEF BarInv, B!InSync
<1>1. CASE B!get_workspace_group
  BY <1>1 DEF B!get_workspace_group
<1>2. CASE B!workspace_group_destroy
  BY <1>2 DEF B!workspace_group_destroy
<1>3. CASE B!bar_send_idle_handler
  <2> DEFINE d == [desk EXCEPT !.idle_source = FALSE]
  <2>1. /\ desk' = d /\ queued' = FALSE /\ silent' = FALSE
        /\ sent' = IF sent = None THEN None ELSE B!State(desk)
    BY <1>3 DEF B!bar_send_idle_handler
  <2>2. /\ TypeOfDesk(d) /\ d.home = desk.home /\ d.mapped = desk.mapped
        /\ d.focused = desk.focused /\ d.keyboard = desk.keyboard /\ d.shows = desk.shows
        /\ d.active_output = desk.active_output /\ d.idle_source = FALSE
    BY DEF DeskGood, DeskBase, TypeOfDesk
  <2> HIDE DEF d
  <2>3. DeskGood(d)
    BY <2>2 DEF DeskGood, DeskBase, FocusedAtHome, MappedAtHome, KeyboardAtHome
  <2>4. B!State(d) = B!State(desk)
    BY <2>2 DEF B!State
  <2>5. B!State(desk)' = B!State(d)
    BY <2>1
  <2> QED
    BY <2>1, <2>2, <2>3, <2>4, <2>5
<1> QED
  BY <1>1, <1>2, <1>3


\* At the start no window is mapped and no bar is there.
LEMMA BarInit == ASSUME BarConstants, B!Init PROVE BarInv
<1>1. PICK shows \in [Output -> Workspace], o \in Output :
        desk = [home |-> [w \in Window |-> None], mapped |-> {},
                focused |-> [s \in Workspace |-> None], keyboard |-> None,
                shows |-> shows, active_output |-> o,
                output |-> [s \in Workspace |->
                    IF \E p \in Output : shows[p] = s THEN CHOOSE p \in Output : shows[p] = s
                    ELSE None],
                bar_toplevel |-> [p \in Output |-> None], bar_ws |-> [p \in Output |-> None],
                idle_source |-> FALSE]
  BY DEF B!Init
<1> DEFINE output == [s \in Workspace |->
             IF \E p \in Output : shows[p] = s THEN CHOOSE p \in Output : shows[p] = s ELSE None]
<1>2. output \in [Workspace -> Output \cup {None}]
  OBVIOUS
<1> HIDE DEF output
<1>3. TypeOfDesk(desk)
  BY <1>1, <1>2 DEF TypeOfDesk, output
<1>4. DeskGood(desk)
  BY <1>1, <1>3 DEF DeskGood, DeskBase, FocusedAtHome, MappedAtHome, KeyboardAtHome
<1> QED
  BY <1>1, <1>4 DEF B!Init, BarInv, B!InSync

\* Every step keeps it.
LEMMA BarNext == ASSUME BarConstants, BarInv, [B!Next]_B!vars PROVE BarInv'
<1>1. CASE UNCHANGED B!vars
  BY <1>1 DEF BarInv, B!vars, B!InSync
<1>2. CASE B!Next
  BY <1>2, MapKeeps, UnmapKeeps, DestroyKeeps, ClickKeeps, SwitchKeeps, MoveKeeps, ConnectionKeeps DEF B!Next
<1> QED
  BY <1>1, <1>2

\* It gives the property, and the types.
LEMMA BarInvTold == ASSUME BarInv PROVE B!BarIsTold /\ B!TypeOK
  BY DEF BarInv, DeskGood, DeskBase, TypeOfDesk, B!BarIsTold, B!TypeOK

BarStaysInv == part = "bar" => BarInv

\* Every behaviour of MCParts keeps it.
LEMMA BarStays == ASSUME BarConstants PROVE Spec => []BarStaysInv
<1>1. Init => BarStaysInv
  BY BarInit DEF Init, BarStaysInv
<1>2. BarStaysInv /\ [Next]_vars => BarStaysInv'
  BY StepOfPart, BarNext DEF BarStaysInv
<1> QED
  BY <1>1, <1>2, PTL DEF Spec

\* Once the idle callbacks have run, a bar has been told of every change that a
\* handler announces: none is lost because a callback was queued already, two
\* changes shared one, or a window was forgotten in between (uwm_bar.c).
THEOREM BarHearsAll == ASSUME BarConstants PROVE Spec => []BarIsTold
<1>1. BarStaysInv => BarIsTold
  BY BarInvTold DEF BarStaysInv, BarIsTold
<1> QED
  BY BarStays, <1>1, PTL

----------------------------------------------------------------------------
(***************************************************************************)
(* ubar's readings.                                                        *)
(*                                                                         *)
(* The property is inductive but for two readings.  What the clock shows   *)
(* is right only because it counts from the minute kept of the last        *)
(* reading, also over a click that asks for the other format; what is      *)
(* shown of the network only because the name kept belongs to the          *)
(* interface kept, and the count kept is that of the interface read last,  *)
(* which has only grown since.                                             *)
(***************************************************************************)

\* The counters hold what passes between two readings.
MeterConstants ==
  /\ Hour \in Nat \ {0} /\ Load \in Nat \ {0} /\ ThermalZones \in Nat
  /\ Wrap \in Nat /\ 2 * Load < Wrap /\ None \notin R!Iface /\ None \notin {"A", "B"}

(* What all readings have in common.  Other values than were drawn are     *)
(* about to be.                                                            *)
Shape(m) ==
  /\ m = [kind |-> m.kind, world |-> m.world, kept |-> m.kept, shown |-> m.shown,
          seen |-> m.seen, undrawn |-> m.undrawn, need_redraw |-> m.need_redraw]
  /\ m.undrawn \in BOOLEAN /\ m.need_redraw \in BOOLEAN
  /\ m.undrawn => m.need_redraw

(* What the clock shows is the time of the last reading, which passed      *)
(* counts from.                                                            *)
ClockKept(m) ==
  /\ m.world \in R!Worlds.clock /\ m.shown \in R!Times
  /\ m.kept \in [prev_minute : {m.shown % Hour}, time_detailed : BOOLEAN]
  /\ m.world.passed < Hour => m.world.now = (m.shown + m.world.passed) % (2 * Hour)

(* What is kept of the network.  prev_rx is of the interface read last,    *)
(* whose counter only grows.                                               *)
NetworkKept(m) ==
  /\ m.world \in R!Networks
  /\ m.kept \in [iface : R!Iface \cup {None}, name : {"WiFi", "Ethernet", "A", "B", None},
                 prev_rx : 0..Load]
  /\ m.kept.iface = "cable" => m.kept.name = "Ethernet"
  /\ m.kept.iface = "wifi" =>
       /\ m.kept.name \in {"WiFi", "A", "B"}
       /\ ~ m.world.roamed => m.kept.name \in {"WiFi", m.world.ssid}
  /\ m.world.read.of # None =>
       m.kept.prev_rx = m.world.read.rx /\ m.world.read.rx <= m.world.rx[m.world.read.of]

(* A reading and what is kept of it, and what it shows is current.          *)
GoodReading(m) ==
  /\ Shape(m) /\ m.kind \in R!Kinds /\ m.world \in R!Worlds[m.kind]
  /\ m.kind = "clock" => ClockKept(m)
  /\ m.kind = "network" => NetworkKept(m)
  /\ R!Current(m)

(* The inductive invariant.                                                *)
MeterInv == GoodReading(meter)

----------------------------------------------------------------------------
(* Numbers. *)

(* A number that is below the modulus is its own remainder.                *)
LEMMA ModSmall ==
  ASSUME NEW n \in Nat \ {0}, NEW x \in 0..(n - 1) PROVE x % n = x
  OBVIOUS

(* A number that is past it once has it subtracted.                        *)
LEMMA ModOver ==
  ASSUME NEW n \in Nat \ {0}, NEW x \in n..(2 * n - 1) PROVE x % n = x - n
  OBVIOUS

----------------------------------------------------------------------------
(* The readings. *)

(* r is m after a reading. *)
After(r, m, kept, value) ==
  /\ Shape(r) /\ r.kind = m.kind /\ r.world = m.world /\ r.kept = kept
  /\ r.shown = value /\ r.seen = m.world

(* A record written out, with the fields of a reading replaced, is a reading.*)
LEMMA ReadingShape ==
  ASSUME NEW m, Shape(m), NEW kept, NEW value, NEW u \in BOOLEAN, NEW n \in BOOLEAN, u => n,
         NEW r, r = [m EXCEPT !.kept = kept, !.shown = value, !.seen = m.world,
                              !.undrawn = u, !.need_redraw = n]
  PROVE  After(r, m, kept, value)
<1>1. r = [kind |-> m.kind, world |-> m.world, kept |-> kept, shown |-> value,
           seen |-> m.world, undrawn |-> u, need_redraw |-> n]
  BY DEF Shape
<1> QED
  BY <1>1 DEF Shape, After

(* A reading that says that it has changed, if it shows something else. *)
LEMMA Changed ==
  ASSUME NEW m, Shape(m), NEW kept, NEW value
  PROVE  /\ After(R!Reading(m, kept, value, TRUE), m, kept, value)
         /\ After(R!Reading(m, kept, value, value # m.shown), m, kept, value)
         /\ After(R!Reading(m, kept, value, m.shown # value), m, kept, value)
         /\ After(R!Reading(m, kept, m.shown, FALSE), m, kept, m.shown)
<1> DEFINE u == m.undrawn \/ value # m.shown
<1>1. ASSUME NEW n \in BOOLEAN, u => n,
             NEW r, r = [m EXCEPT !.kept = kept, !.shown = value, !.seen = m.world,
                                  !.undrawn = u, !.need_redraw = n]
      PROVE  After(r, m, kept, value)
  <2>1. u \in BOOLEAN
    OBVIOUS
  <2> HIDE DEF u
  <2> QED
    BY <1>1, <2>1, ReadingShape
<1>2. After(R!Reading(m, kept, value, TRUE), m, kept, value)
  <2> DEFINE n == m.need_redraw \/ TRUE
  <2>1. n \in BOOLEAN /\ (u => n)
    OBVIOUS
  <2> HIDE DEF n
  <2> QED
    BY <1>1, <2>1 DEF R!Reading, n
<1>3. After(R!Reading(m, kept, value, value # m.shown), m, kept, value)
  <2> DEFINE n == m.need_redraw \/ value # m.shown
  <2>1. n \in BOOLEAN /\ (u => n)
    BY DEF Shape
  <2> HIDE DEF n
  <2> QED
    BY <1>1, <2>1 DEF R!Reading, n
<1>4. After(R!Reading(m, kept, value, m.shown # value), m, kept, value)
  <2> DEFINE n == m.need_redraw \/ m.shown # value
  <2>1. n \in BOOLEAN /\ (u => n)
    BY DEF Shape
  <2> HIDE DEF n
  <2> QED
    BY <1>1, <2>1 DEF R!Reading, n
<1>5. After(R!Reading(m, kept, m.shown, FALSE), m, kept, m.shown)
  <2> DEFINE v == m.undrawn \/ m.shown # m.shown
             n == m.need_redraw \/ FALSE
  <2>1. v \in BOOLEAN /\ n \in BOOLEAN /\ (v => n)
    BY DEF Shape
  <2>2. R!Reading(m, kept, m.shown, FALSE)
          = [m EXCEPT !.kept = kept, !.shown = m.shown, !.seen = m.world,
                      !.undrawn = v, !.need_redraw = n]
    BY DEF R!Reading
  <2> HIDE DEF v, n
  <2> QED
    BY <2>1, <2>2, ReadingShape
<1> QED
  BY <1>2, <1>3, <1>4, <1>5

(* With a world that is put back after the reading. *)
LEMMA WorldShape ==
  ASSUME NEW r, Shape(r), NEW w
  PROVE  LET q == [r EXCEPT !.world = w]
         IN /\ Shape(q) /\ q.kind = r.kind /\ q.world = w /\ q.kept = r.kept
            /\ q.shown = r.shown /\ q.seen = r.seen
  BY DEF Shape

(* With something else seen. *)
LEMMA SeenShape ==
  ASSUME NEW r, Shape(r), NEW seen
  PROVE  LET q == [r EXCEPT !.seen = seen]
         IN /\ Shape(q) /\ q.kind = r.kind /\ q.world = r.world /\ q.kept = r.kept
            /\ q.shown = r.shown /\ q.seen = seen
  BY DEF Shape

(* The same minute within the hour is the same time. *)
LEMMA SameMinute ==
  ASSUME MeterConstants, NEW value \in R!Times, NEW passed \in 0..(Hour - 1),
         NEW now, now = (value + passed) % (2 * Hour), now % Hour = value % Hour
  PROVE  now = value
<1>1. 2 * Hour \in Nat \ {0} /\ Hour \in Nat \ {0}
  BY DEF MeterConstants
<1>2. value \in 0..(2 * Hour - 1)
  BY DEF R!Times
<1>3. CASE value + passed < Hour
  BY <1>1, <1>2, <1>3, ModSmall
<1>4. CASE value + passed >= 2 * Hour
  <2>0. value + passed \in (2 * Hour)..(2 * (2 * Hour) - 1)
    BY <1>1, <1>2, <1>4
  <2>1. now = value + passed - 2 * Hour
    <3> DEFINE n == 2 * Hour
               x == value + passed
    <3>1. n \in Nat \ {0} /\ x \in n..(2 * n - 1) /\ now = x % n
      BY <1>1, <2>0
    <3> HIDE DEF n, x
    <3>2. now = x - n
      BY <3>1, ModOver
    <3> QED
      BY <1>1, <1>2, <3>2 DEF n, x
  <2>2. now \in 0..(Hour - 1) /\ value \in Hour..(2 * Hour - 1)
    BY <1>1, <1>2, <1>4, <2>1
  <2>3. now % Hour = now /\ value % Hour = value - Hour
    BY <1>1, <2>2, ModSmall, ModOver
  <2> QED
    BY <1>1, <1>2, <2>1, <2>2, <2>3
<1>5. CASE Hour <= value + passed /\ value + passed < 2 * Hour
  <2>1. now = value + passed
    BY <1>1, <1>2, <1>5, ModSmall
  <2>2. now % Hour = now - Hour
    BY <1>1, <1>5, <2>1, ModOver
  <2>3. CASE value < Hour
    BY <1>1, <1>2, <2>1, <2>2, <2>3, ModSmall
  <2>4. CASE value >= Hour
    BY <1>1, <1>2, <2>1, <2>2, <2>4, ModOver
  <2> QED
    BY <1>1, <1>2, <2>3, <2>4
<1> QED
  BY <1>1, <1>2, <1>3, <1>4, <1>5

(* The clock, when it is not looked at and when it is. *)
LEMMA ClockReads ==
  ASSUME MeterConstants, NEW m, Shape(m), m.kind = "clock", m.world \in R!Worlds.clock,
         m.kept \in [prev_minute : Int, time_detailed : BOOLEAN],
         m.kept.prev_minute = m.world.now % Hour => ClockKept(m)
  PROVE  GoodReading(R!data_update_clock(m))
<1> DEFINE minute == m.world.now % Hour
           kept == [m.kept EXCEPT !.prev_minute = minute]
           r == R!Reading(m, kept, m.world.now, TRUE)
           w == [m.world EXCEPT !.passed = 0]
           q == [r EXCEPT !.world = w]
           same == R!Reading(m, m.kept, m.shown, FALSE)
<1>1. /\ m.world.now \in R!Times /\ m.world.passed \in 0..Hour /\ Hour \in Nat \ {0}
      /\ w \in [now : R!Times, passed : 0..Hour] /\ w.now = m.world.now /\ w.passed = 0
      /\ m.world \in [now : R!Times, passed : 0..Hour]
  BY DEF R!Worlds, MeterConstants
<1>2. minute \in Int /\ kept \in [prev_minute : {minute}, time_detailed : BOOLEAN]
  BY <1>1 DEF R!Times
<1>3. CASE ~ m.kept.time_detailed /\ m.kept.prev_minute = minute
  <2>1. R!data_update_clock(m) = same
    BY <1>3 DEF R!data_update_clock
  <2>2. ClockKept(m)
    BY <1>3
  <2>3. /\ Shape(same) /\ same.kind = m.kind /\ same.world = m.world /\ same.kept = m.kept
        /\ same.shown = m.shown /\ same.seen = m.world
    <3>1. After(same, m, m.kept, m.shown)
      BY Changed
    <3> QED
      BY <3>1 DEF After
  <2> HIDE DEF same
  <2>4. ClockKept(same)
    BY <2>2, <2>3 DEF ClockKept
  <2>5. R!ClockRight(same)
    <3> SUFFICES ASSUME m.world.passed < Hour PROVE m.shown = m.world.now
      BY <2>3 DEF R!ClockRight
    <3>1. m.world.now = (m.shown + m.world.passed) % (2 * Hour) /\ m.shown \in R!Times
      BY <2>2 DEF ClockKept
    <3>2. m.world.now % Hour = m.shown % Hour
      BY <1>3, <2>2 DEF ClockKept
    <3>3. m.world.passed \in 0..(Hour - 1)
      BY <1>1
    <3> HIDE DEF minute
    <3> QED
      BY <3>1, <3>2, <3>3, SameMinute
  <2> QED
    BY <1>1, <2>1, <2>3, <2>4, <2>5 DEF GoodReading, R!Current, Shape, R!Kinds, R!Worlds
<1>4. CASE ~ (~ m.kept.time_detailed /\ m.kept.prev_minute = minute)
  <2>1. /\ Shape(r) /\ r.kind = m.kind /\ r.world = m.world /\ r.kept = kept
        /\ r.shown = m.world.now /\ r.seen = m.world
    <3>1. After(r, m, kept, m.world.now)
      BY Changed
    <3> QED
      BY <3>1 DEF After
  <2>2. R!data_update_clock(m) = [r EXCEPT !.world.passed = 0]
    BY <1>4 DEF R!data_update_clock
  <2> HIDE DEF r, kept
  <2>3. R!data_update_clock(m) = q
    BY <2>1, <2>2 DEF Shape
  <2>4. /\ Shape(q) /\ q.kind = m.kind /\ q.world = w /\ q.kept = kept
        /\ q.shown = m.world.now /\ q.seen = m.world
    BY <2>1, WorldShape
  <2> HIDE DEF q, w
  <2>5. m.world.now = (m.world.now + 0) % (2 * Hour)
    <3>1. 2 * Hour \in Nat \ {0} /\ m.world.now \in 0..(2 * Hour - 1)
      BY <1>1 DEF R!Times
    <3> QED
      BY <3>1, ModSmall
  <2>6. ClockKept(q)
    BY <1>1, <1>2, <2>4, <2>5 DEF ClockKept, R!Worlds
  <2>7. R!ClockRight(q)
    BY <2>4 DEF R!ClockRight
  <2> QED
    BY <1>1, <2>3, <2>4, <2>6, <2>7 DEF GoodReading, R!Current, Shape, R!Kinds, R!Worlds
<1> QED
  BY <1>3, <1>4

(* The processor, whose counters are put back after the reading. *)
LEMMA CpuReads ==
  ASSUME MeterConstants, NEW m, Shape(m), m.kind = "cpu", m.world \in R!Worlds.cpu
  PROVE  GoodReading(R!data_update_cpu(m))
<1> DEFINE busy == m.world.busy
           idle == m.world.idle
           total == (busy + idle) % Wrap
           pct == IF total = 0 THEN 0 ELSE (((total - (idle % Wrap)) % Wrap) * 100) \div total
           r == R!Reading(m, None, pct, pct # m.shown)
           q == [r EXCEPT !.world = [busy |-> 0, idle |-> 0]]
<1>1. busy \in 0..Load /\ idle \in -1..Load
  BY DEF R!Worlds
<1>2. R!data_update_cpu(m) = q
  BY DEF R!data_update_cpu
<1>3. ASSUME idle >= 0
      PROVE  pct = IF busy + idle = 0 THEN 0 ELSE (busy * 100) \div (busy + idle)
  <2>1. /\ Wrap \in Nat \ {0} /\ idle \in 0..(Wrap - 1) /\ busy \in 0..(Wrap - 1)
        /\ busy + idle \in 0..(Wrap - 1)
    BY <1>1, <1>3 DEF MeterConstants
  <2>2. total = busy + idle /\ idle % Wrap = idle
    BY <2>1, ModSmall
  <2>3. (total - (idle % Wrap)) % Wrap = busy
    <3>1. total - (idle % Wrap) = busy
      BY <1>1, <2>2
    <3> QED
      BY <2>1, <3>1, ModSmall
  <2> QED
    BY <2>2, <2>3
<1> HIDE DEF pct
<1>4. After(r, m, None, pct)
  BY Changed
<1> HIDE DEF r
<1>5. /\ Shape(q) /\ q.kind = "cpu" /\ q.world = [busy |-> 0, idle |-> 0]
      /\ q.shown = pct /\ q.seen = m.world
  BY <1>4, WorldShape DEF After
<1> HIDE DEF q
<1>6. R!CpuRight(q)
  BY <1>3, <1>5 DEF R!CpuRight
<1>7. q.world \in R!Worlds.cpu
  BY <1>5 DEF R!Worlds, MeterConstants
<1> QED
  BY <1>2, <1>5, <1>6, <1>7 DEF GoodReading, R!Current, Shape, R!Kinds, R!Worlds

(* The first zone that can be read can be read. *)
LEMMA FirstReadable ==
  ASSUME MeterConstants, NEW world \in R!Worlds.temperature, R!Readable(world) # {}
  PROVE  (CHOOSE z \in R!Readable(world) : \A y \in R!Readable(world) : z <= y) \in R!Readable(world)
<1>1. R!Readable(world) \in SUBSET Nat
  BY DEF R!Readable, R!Worlds, MeterConstants
<1> QED
  BY <1>1, LeastNumber

(* The zone shown is one that can be read (data_update_temp).              *)
LEMMA TemperatureReads ==
  ASSUME MeterConstants, NEW m, Shape(m), m.kind = "temperature", m.world \in R!Worlds.temperature
  PROVE  GoodReading(R!data_update_temp(m))
<1>1. ASSUME NEW r, NEW kept, NEW value, After(r, m, kept, value),
             R!Readable(m.world) # {} => \E z \in R!Readable(m.world) : value = m.world[z]
      PROVE  GoodReading(r)
  <2>1. R!TemperatureRight(r)
    BY <1>1 DEF After, R!TemperatureRight
  <2> QED
    BY <1>1, <2>1 DEF After, GoodReading, R!Current, Shape, R!Kinds, R!Worlds
<1>2. CASE R!CachedZone(m)
  <2>1. R!data_update_temp(m)
          = R!Reading(m, m.kept, m.world[m.kept], m.world[m.kept] # m.shown)
    BY <1>2 DEF R!data_update_temp
  <2>2. After(R!data_update_temp(m), m, m.kept, m.world[m.kept])
    BY <2>1, Changed
  <2> QED
    BY <1>1, <1>2, <2>2 DEF R!CachedZone
<1>3. CASE ~ R!CachedZone(m) /\ R!Readable(m.world) = {}
  <2>1. R!data_update_temp(m) = R!Reading(m, None, m.shown, FALSE)
    BY <1>3 DEF R!data_update_temp
  <2>2. After(R!data_update_temp(m), m, None, m.shown)
    BY <2>1, Changed
  <2> QED
    BY <1>1, <1>3, <2>2
<1>4. CASE ~ R!CachedZone(m) /\ R!Readable(m.world) # {}
  <2> DEFINE first == CHOOSE z \in R!Readable(m.world) : \A y \in R!Readable(m.world) : z <= y
  <2>1. R!data_update_temp(m) = R!Reading(m, first, m.world[first], TRUE)
    BY <1>4 DEF R!data_update_temp
  <2>2. first \in R!Readable(m.world)
    BY <1>4, FirstReadable
  <2> HIDE DEF first
  <2>3. After(R!data_update_temp(m), m, first, m.world[first])
    BY <2>1, Changed
  <2> QED
    BY <1>1, <2>2, <2>3
<1> QED
  BY <1>2, <1>3, <1>4

(* The lock keys: the last of the keyboards is one of them. *)
LEMMA LocksReads ==
  ASSUME NEW m, Shape(m), m.kind = "locks", m.world \in R!Worlds.locks
  PROVE  GoodReading(R!data_update_locks_hardware(m))
<1> DEFINE last == CHOOSE k \in R!Keyboards : \A l \in R!Keyboards : l <= k
           r == R!data_update_locks_hardware(m)
<1>1. last \in R!Keyboards
  <2>1. \E k \in R!Keyboards : \A l \in R!Keyboards : l <= k
    BY DEF R!Keyboards
  <2> QED
    BY <2>1
<1>2. r = R!Reading(m, None, m.world[last], m.world[last] # m.shown)
  BY DEF R!data_update_locks_hardware
<1> HIDE DEF last, r
<1>3. After(r, m, None, m.world[last])
  BY <1>2, Changed
<1>4. R!LocksRight(r)
  BY <1>1, <1>3 DEF After, R!LocksRight
<1> QED
  BY <1>3, <1>4 DEF r, After, GoodReading, R!Current, Shape, R!Kinds, R!Worlds

(* Of the memory, the battery and the displays only what is drawn is said. *)
LEMMA OthersReads ==
  ASSUME NEW m, Shape(m), m.kind \in {"memory", "battery", "hdmi"},
         m.world \in R!Worlds[m.kind]
  PROVE  /\ GoodReading(R!data_update_memory(m)) /\ GoodReading(R!data_update_battery_hardware(m))
         /\ GoodReading(R!data_update_hdmi_hardware(m))
<1>1. ASSUME NEW r, NEW value, After(r, m, None, value) PROVE GoodReading(r)
  BY <1>1 DEF After, GoodReading, R!Current, Shape, R!Kinds, R!Worlds
<1>2. GoodReading(R!data_update_memory(m))
  <2> DEFINE value == [pct |-> (m.world * 100) \div Load, used |-> m.world]
  <2>1. R!data_update_memory(m) = R!Reading(m, None, value, m.shown # value)
    BY DEF R!data_update_memory
  <2> HIDE DEF value
  <2>2. After(R!data_update_memory(m), m, None, value)
    BY <2>1, Changed
  <2> QED
    BY <1>1, <2>2
<1>3. GoodReading(R!data_update_battery_hardware(m))
  <2> DEFINE bats == SelectSeq(m.world, LAMBDA b : b # None)
             value == IF bats = <<>> THEN [pct |-> 0, charging |-> FALSE] ELSE Head(bats)
  <2>1. R!data_update_battery_hardware(m) = R!Reading(m, None, value, value # m.shown)
    BY DEF R!data_update_battery_hardware
  <2> HIDE DEF value
  <2>2. After(R!data_update_battery_hardware(m), m, None, value)
    BY <2>1, Changed
  <2> QED
    BY <1>1, <2>2
<1>4. GoodReading(R!data_update_hdmi_hardware(m))
  <2> DEFINE value == \E c \in DOMAIN m.world : m.world[c]
  <2>1. R!data_update_hdmi_hardware(m) = R!Reading(m, None, value, value # m.shown)
    BY DEF R!data_update_hdmi_hardware
  <2> HIDE DEF value
  <2>2. After(R!data_update_hdmi_hardware(m), m, None, value)
    BY <2>1, Changed
  <2> QED
    BY <1>1, <2>2
<1> QED
  BY <1>2, <1>3, <1>4

(* The network, when there is none and when there is. *)
LEMMA NetworkReads ==
  ASSUME MeterConstants, NEW m, Shape(m), m.kind = "network", NetworkKept(m), NEW found \in BOOLEAN
  PROVE  GoodReading(R!data_sync_network(m, found))
<1> DEFINE i == R!Active(m.world)
           kept == R!Renamed(m, i, found)
           offline == [name |-> "Offline", speed |-> 0, of |-> None]
<1>1. /\ m.world \in R!Networks /\ m.world.up \in SUBSET R!Iface /\ m.world.ssid \in {"A", "B"}
      /\ m.world.rx \in [R!Iface -> 0..Load] /\ m.world.roamed \in BOOLEAN
      /\ m.world.read \in [of : R!Iface \cup {None}, rx : 0..Load]
  BY DEF NetworkKept, R!Networks
<1>2. CASE i = None
  <2> DEFINE r == R!Reading(m, m.kept, offline, TRUE)
             q == [r EXCEPT !.seen = R!Seen(None, None, FALSE, 0)]
  <2>1. R!data_sync_network(m, found) = q
    BY <1>2 DEF R!data_sync_network
  <2> HIDE DEF offline
  <2>2. After(r, m, m.kept, offline)
    BY Changed
  <2> HIDE DEF r
  <2>3. /\ Shape(q) /\ q.kind = "network" /\ q.world = m.world /\ q.kept = m.kept
        /\ q.shown = offline /\ q.seen = R!Seen(None, None, FALSE, 0)
    <3>1. Shape(r)
      BY <2>2 DEF After
    <3> QED
      BY <2>2, <3>1, SeenShape DEF After
  <2> HIDE DEF q
  <2>4. NetworkKept(q)
    BY <2>3 DEF NetworkKept
  <2>5. R!NetworkRight(q)
    BY <2>3 DEF R!NetworkRight, R!Seen, MeterConstants, R!Iface, offline
  <2>6. q.world \in R!Worlds.network /\ "network" \in R!Kinds
    BY <1>1, <2>3 DEF R!Worlds, R!Kinds
  <2> HIDE DEF i, kept
  <2> QED
    BY <2>1, <2>3, <2>4, <2>5, <2>6 DEF GoodReading, R!Current, Shape
<1>3. CASE i # None
  <2> DEFINE rx == m.world.rx[i]
             online == [name |-> kept.name, speed |-> R!Speed(m, i), of |-> m.world.read.of]
             newkept == [kept EXCEPT !.prev_rx = rx]
             r == R!Reading(m, newkept, online, TRUE)
             roamed == m.world.roamed /\ m.kept.iface = i
             read == [of |-> i, rx |-> rx]
             w == [m.world EXCEPT !.roamed = roamed, !.read = read]
             seen == R!Seen(i, m.world.ssid, roamed, rx - m.world.read.rx)
             q == [r EXCEPT !.world = w, !.seen = seen]
  <2>1. i \in R!Iface /\ rx \in 0..Load
    BY <1>1, <1>3 DEF R!Active, R!Iface
  <2>2. kept \in [iface : {i}, name : {"WiFi", "Ethernet", "A", "B", None}, prev_rx : 0..Load]
    BY <1>1, <2>1 DEF R!Renamed, R!Default, NetworkKept, R!Iface
  <2>3. newkept \in [iface : {i}, name : {kept.name}, prev_rx : {rx}]
    BY <2>2
  <2>4. /\ i = "cable" => kept.name = "Ethernet"
        /\ i = "wifi" => /\ kept.name \in {"WiFi", "A", "B"}
                         /\ ~ roamed => kept.name \in {"WiFi", m.world.ssid}
    BY <1>1 DEF R!Renamed, R!Default, NetworkKept, R!Iface, MeterConstants
  <2>5. ASSUME i = m.world.read.of PROVE R!Speed(m, i) = rx - m.world.read.rx
    <3>1. m.kept.prev_rx = m.world.read.rx /\ m.world.read.rx <= rx /\ m.world.read.rx \in 0..Load
      BY <1>1, <1>3, <2>5 DEF NetworkKept
    <3>2. Wrap \in Nat \ {0} /\ rx - m.world.read.rx \in 0..(Wrap - 1)
      BY <2>1, <3>1 DEF MeterConstants
    <3>3. R!Speed(m, i) = (rx - m.world.read.rx) % Wrap
      BY <3>1 DEF R!Speed
    <3> QED
      BY <3>2, <3>3, ModSmall
  <2> DEFINE same == m.kept.iface = i
  <2>6. R!data_sync_network(m, found)
          = [r EXCEPT !.world.roamed = @ /\ same, !.world.read = read,
                      !.seen = R!Seen(i, m.world.ssid, @.roamed /\ same,
                                    rx - m.world.read.rx)]
    BY <1>3 DEF R!data_sync_network
  <2> HIDE DEF i, kept, rx, online, newkept
  <2>7. After(r, m, newkept, online)
    BY Changed
  <2> HIDE DEF r, same
  <2>8. w \in R!Networks /\ w.up = m.world.up /\ w.ssid = m.world.ssid /\ w.rx = m.world.rx
        /\ w.roamed = roamed /\ w.read = read
    <3>1. roamed \in BOOLEAN /\ read \in [of : R!Iface \cup {None}, rx : 0..Load]
      BY <1>1, <2>1
    <3> HIDE DEF roamed, read
    <3> QED
      BY <1>1, <3>1 DEF R!Networks
  <2>9. R!data_sync_network(m, found) = q
    <3>1. r.world = m.world /\ r.seen = m.world
      BY <2>7 DEF After
    <3>2. (m.world.roamed /\ same) = roamed
      BY DEF same
    <3> HIDE DEF roamed, read
    <3> QED
      BY <2>6, <2>7, <3>1, <3>2 DEF After, Shape
  <2> HIDE DEF w, seen
  <2>10. /\ Shape(q) /\ q.kind = "network" /\ q.world = w /\ q.kept = newkept
         /\ q.shown = online /\ q.seen = seen
    <3> DEFINE p == [r EXCEPT !.world = w]
    <3>1. Shape(r) /\ r.kind = "network" /\ r.kept = newkept /\ r.shown = online
      BY <2>7 DEF After
    <3>2. /\ Shape(p) /\ p.kind = "network" /\ p.world = w /\ p.kept = newkept
          /\ p.shown = online
      BY <3>1, WorldShape
    <3>3. q = [p EXCEPT !.seen = seen]
      BY <3>1 DEF Shape
    <3> HIDE DEF p, q
    <3> QED
      BY <3>2, <3>3, SeenShape
  <2> HIDE DEF q
  <2>11. NetworkKept(q)
    <3>1. /\ newkept.iface = i /\ newkept.name = kept.name /\ newkept.prev_rx = rx
          /\ kept.name \in {"WiFi", "Ethernet", "A", "B", None}
      BY <2>2, <2>3
    <3>2. newkept \in [iface : R!Iface \cup {None}, name : {"WiFi", "Ethernet", "A", "B", None},
                       prev_rx : 0..Load]
      BY <2>1, <2>2, <2>3
    <3>3. w.read.of = i /\ w.read.rx = rx /\ w.rx[i] = rx
      BY <2>8 DEF rx, read
    <3>4. rx <= rx
      BY <2>1
    <3> HIDE DEF roamed, read
    <3> QED
      BY <2>4, <2>8, <2>10, <3>1, <3>2, <3>3, <3>4 DEF NetworkKept
  <2>12. R!NetworkRight(q)
    <3>1. /\ seen.active = i /\ seen.roamed = roamed /\ seen.bytes = rx - m.world.read.rx
          /\ i = "wifi" => seen.ssid = m.world.ssid
      BY DEF seen, R!Seen
    <3>2. /\ online.name = kept.name /\ online.speed = R!Speed(m, i)
          /\ online.of = m.world.read.of
      BY DEF online
    <3>3. kept.name # "Offline"
      BY <2>1, <2>4, <1>1 DEF R!Iface
    <3> QED
      BY <1>3, <2>1, <2>4, <2>5, <2>10, <3>1, <3>2, <3>3 DEF R!NetworkRight, R!Iface
  <2> QED
    BY <2>8, <2>9, <2>10, <2>11, <2>12 DEF GoodReading, R!Current, Shape, R!Kinds, R!Worlds
<1> QED
  BY <1>2, <1>3

----------------------------------------------------------------------------
(* The invariant. *)

(* The readings of data_init_fast. *)
LEMMA MeterInit == ASSUME MeterConstants, R!Init PROVE MeterInv
<1>1. ASSUME NEW kind, NEW world, NEW kept, NEW value
      PROVE  LET f == R!Fresh(kind, world, kept, value)
             IN /\ Shape(f) /\ f.kind = kind /\ f.world = world /\ f.kept = kept
                /\ f.shown = value
  BY DEF R!Fresh, Shape
<1>2. ASSUME NEW t \in R!Times,
             meter = R!data_update_clock(
               R!Fresh("clock", [now |-> t, passed |-> 0],
                     [prev_minute |-> -1, time_detailed |-> FALSE], None))
      PROVE  MeterInv
  <2> DEFINE w == [now |-> t, passed |-> 0]
             kept == [prev_minute |-> -1, time_detailed |-> FALSE]
             f == R!Fresh("clock", w, kept, None)
  <2>1. w \in R!Worlds.clock /\ kept \in [prev_minute : Int, time_detailed : BOOLEAN]
        /\ kept.prev_minute # w.now % Hour
    BY DEF R!Worlds, MeterConstants, R!Times
  <2>2. meter = R!data_update_clock(f)
    BY <1>2
  <2> HIDE DEF w, kept
  <2>3. Shape(f) /\ f.kind = "clock" /\ f.world = w /\ f.kept = kept
    BY <1>1
  <2> HIDE DEF f
  <2> QED
    BY <2>1, <2>2, <2>3, ClockReads DEF MeterInv
<1>3. ASSUME NEW w \in R!Worlds.cpu, meter = R!data_update_cpu(R!Fresh("cpu", w, None, 0))
      PROVE  MeterInv
  BY <1>1, <1>3, CpuReads DEF MeterInv
<1>4. ASSUME NEW w \in R!Worlds.temperature,
             meter = R!data_update_temp(R!Fresh("temperature", w, None, 0))
      PROVE  MeterInv
  BY <1>1, <1>4, TemperatureReads DEF MeterInv
<1>5. ASSUME NEW w \in R!Worlds.memory,
             meter = R!data_update_memory(R!Fresh("memory", w, None, [pct |-> 0, used |-> 0]))
      PROVE  MeterInv
  BY <1>1, <1>5, OthersReads DEF MeterInv
<1>6. ASSUME NEW w \in R!Worlds.battery,
             meter = R!data_update_battery_hardware(
                       R!Fresh("battery", w, None, [pct |-> 0, charging |-> FALSE]))
      PROVE  MeterInv
  BY <1>1, <1>6, OthersReads DEF MeterInv
<1>7. ASSUME NEW w \in R!Worlds.hdmi,
             meter = R!data_update_hdmi_hardware(R!Fresh("hdmi", w, None, FALSE))
      PROVE  MeterInv
  <2> DEFINE no == FALSE
             f == R!Fresh("hdmi", w, None, no)
  <2> HIDE DEF no
  <2>1. Shape(f) /\ f.kind = "hdmi" /\ f.world = w
    BY <1>1
  <2>2. meter = R!data_update_hdmi_hardware(f)
    BY <1>7 DEF no
  <2> HIDE DEF f
  <2> QED
    BY <2>1, <2>2, OthersReads DEF MeterInv
<1>8. ASSUME NEW w \in R!Worlds.locks,
             meter = R!data_update_locks_hardware(R!Fresh("locks", w, None, FALSE))
      PROVE  MeterInv
  <2> DEFINE no == FALSE
             f == R!Fresh("locks", w, None, no)
  <2> HIDE DEF no
  <2>1. Shape(f) /\ f.kind = "locks" /\ f.world = w
    BY <1>1
  <2>2. meter = R!data_update_locks_hardware(f)
    BY <1>8 DEF no
  <2> HIDE DEF f
  <2> QED
    BY <2>1, <2>2, LocksReads DEF MeterInv
<1>9. ASSUME NEW up \in SUBSET R!Iface,
             meter = R!Fresh("network",
                           [up |-> up, ssid |-> "A", rx |-> [i \in R!Iface |-> 0],
                            roamed |-> FALSE, read |-> [of |-> None, rx |-> 0]],
                           [iface |-> None, name |-> None, prev_rx |-> 0],
                           [name |-> None, speed |-> 0, of |-> None])
      PROVE  MeterInv
  <2> DEFINE w == [up |-> up, ssid |-> "A", rx |-> [i \in R!Iface |-> 0],
                   roamed |-> FALSE, read |-> [of |-> None, rx |-> 0]]
             kept == [iface |-> None, name |-> None, prev_rx |-> 0]
             value == [name |-> None, speed |-> 0, of |-> None]
  <2>1. w \in R!Networks /\ w.read.of = None
    BY DEF R!Networks, MeterConstants
  <2>2. meter = R!Fresh("network", w, kept, value)
    BY <1>9
  <2> HIDE DEF w
  <2>3. Shape(meter) /\ meter.kind = "network" /\ meter.world = w /\ meter.kept = kept
        /\ meter.shown = value
    BY <1>1, <2>2
  <2>4. NetworkKept(meter)
    BY <2>1, <2>3 DEF NetworkKept, MeterConstants, R!Iface
  <2>5. R!NetworkRight(meter)
    BY <2>3 DEF R!NetworkRight
  <2>6. w \in R!Worlds.network /\ "network" \in R!Kinds
    BY <2>1 DEF R!Worlds, R!Kinds
  <2> QED
    BY <2>3, <2>4, <2>5, <2>6 DEF MeterInv, GoodReading, R!Current, Shape
<1> QED
  BY <1>2, <1>3, <1>4, <1>5, <1>6, <1>7, <1>8, <1>9 DEF R!Init

(* The readings of one round of the main loop, or of a thread.             *)
LEMMA MeterRefresh ==
  ASSUME MeterConstants, MeterInv, NEW found \in BOOLEAN, R!Refresh(found) PROVE MeterInv'
<1>1. Shape(meter) /\ meter.kind \in R!Kinds /\ meter.world \in R!Worlds[meter.kind]
  BY DEF MeterInv, GoodReading
<1>2. CASE meter.kind = "clock"
  <2>1. meter' = R!data_update_clock(meter)
    BY <1>2 DEF R!Refresh
  <2>2. ClockKept(meter)
    BY <1>2 DEF MeterInv, GoodReading
  <2>3. meter.kept \in [prev_minute : Int, time_detailed : BOOLEAN]
    <3>1. meter.shown % Hour \in Int
      BY <2>2 DEF ClockKept, R!Times, MeterConstants
    <3> HIDE DEF R!Times
    <3> QED
      BY <2>2, <3>1 DEF ClockKept
  <2>4. meter.world \in R!Worlds.clock
    BY <1>1, <1>2
  <2>5. GoodReading(R!data_update_clock(meter))
    BY <1>1, <1>2, <2>2, <2>3, <2>4, ClockReads
  <2> QED
    BY <2>1, <2>5 DEF MeterInv
<1>3. CASE meter.kind = "cpu"
  BY <1>1, <1>3, CpuReads DEF R!Refresh, MeterInv
<1>4. CASE meter.kind = "temperature"
  BY <1>1, <1>4, TemperatureReads DEF R!Refresh, MeterInv
<1>5. CASE meter.kind = "memory"
  BY <1>1, <1>5, OthersReads DEF R!Refresh, MeterInv
<1>6. CASE meter.kind = "battery"
  BY <1>1, <1>6, OthersReads DEF R!Refresh, MeterInv
<1>7. CASE meter.kind = "hdmi"
  BY <1>1, <1>7, OthersReads DEF R!Refresh, MeterInv
<1>8. CASE meter.kind = "locks"
  BY <1>1, <1>8, LocksReads DEF R!Refresh, MeterInv
<1>9. CASE meter.kind = "network"
  <2>1. meter' = R!data_sync_network(meter, found)
    BY <1>9 DEF R!Refresh
  <2>2. NetworkKept(meter)
    BY <1>9 DEF MeterInv, GoodReading
  <2>3. GoodReading(R!data_sync_network(meter, found))
    BY <1>1, <1>9, <2>2, NetworkReads
  <2> QED
    BY <2>1, <2>3 DEF MeterInv
<1>10. meter.kind \in {"clock", "cpu", "temperature", "memory", "battery", "hdmi",
                       "locks", "network"}
  BY <1>1 DEF R!Kinds, R!Worlds
<1> QED
  BY <1>2, <1>3, <1>4, <1>5, <1>6, <1>7, <1>8, <1>9, <1>10

(* What is current is so whatever is drawn of it.                          *)
LEMMA SameReading ==
  ASSUME NEW m, GoodReading(m), NEW q, Shape(q),
         q.kind = m.kind, q.world = m.world, q.kept = m.kept, q.shown = m.shown, q.seen = m.seen
  PROVE  GoodReading(q)
<1>1. q.kind \in R!Kinds /\ q.world \in R!Worlds[q.kind]
  BY DEF GoodReading
<1>2. q.kind = "clock" => ClockKept(q)
  BY DEF GoodReading, ClockKept
<1>3. q.kind = "network" => NetworkKept(q)
  BY DEF GoodReading, NetworkKept
<1>4. /\ q.kind = "clock" => R!ClockRight(q)
      /\ q.kind = "cpu" => R!CpuRight(q)
  BY DEF GoodReading, R!Current, R!ClockRight, R!CpuRight
<1>5. /\ q.kind = "temperature" => R!TemperatureRight(q)
      /\ q.kind = "locks" => R!LocksRight(q)
  BY DEF GoodReading, R!Current, R!TemperatureRight, R!LocksRight
<1>6. q.kind = "network" => R!NetworkRight(q)
  BY DEF GoodReading, R!Current, R!NetworkRight
<1>7. q.undrawn => q.need_redraw
  BY DEF Shape
<1> QED
  BY <1>1, <1>2, <1>3, <1>4, <1>5, <1>6, <1>7 DEF GoodReading, R!Current

(* A world that changes is not seen before the next reading.               *)
LEMMA MeterWorld ==
  ASSUME MeterInv, NEW w, meter' = [meter EXCEPT !.world = w], w \in R!Worlds[meter.kind],
         meter.kind = "clock" => ClockKept([meter EXCEPT !.world = w]),
         meter.kind = "network" => NetworkKept([meter EXCEPT !.world = w])
  PROVE  MeterInv'
<1> DEFINE q == [meter EXCEPT !.world = w]
<1>1. Shape(meter) /\ R!Current(meter) /\ meter.kind \in R!Kinds
  BY DEF MeterInv, GoodReading
<1>2. /\ Shape(q) /\ q.kind = meter.kind /\ q.world = w /\ q.kept = meter.kept
      /\ q.shown = meter.shown /\ q.seen = meter.seen
  BY <1>1, WorldShape
<1>3. (meter.kind = "clock" => ClockKept(q)) /\ (meter.kind = "network" => NetworkKept(q))
      /\ meter' = q
  OBVIOUS
<1> HIDE DEF q
<1>4. R!Current(q)
  <2>1. /\ q.kind = "clock" => R!ClockRight(q)
        /\ q.kind = "cpu" => R!CpuRight(q)
    BY <1>1, <1>2 DEF R!Current, R!ClockRight, R!CpuRight
  <2>2. /\ q.kind = "temperature" => R!TemperatureRight(q)
        /\ q.kind = "locks" => R!LocksRight(q)
    BY <1>1, <1>2 DEF R!Current, R!TemperatureRight, R!LocksRight
  <2>3. q.kind = "network" => R!NetworkRight(q)
    BY <1>1, <1>2 DEF R!Current, R!NetworkRight
  <2> QED
    BY <1>2, <2>1, <2>2, <2>3 DEF R!Current, Shape
<1>5. GoodReading(q)
  BY <1>1, <1>2, <1>3, <1>4 DEF GoodReading
<1> QED
  BY <1>3, <1>5 DEF MeterInv

(* Time passes between two readings of the clock.                          *)
LEMMA MeterClock ==
  ASSUME MeterConstants, MeterInv, NEW d \in 1..Hour, R!TimePasses(d) PROVE MeterInv'
<1> DEFINE now == (meter.world.now + d) % (2 * Hour)
           passed == IF meter.world.passed + d > Hour THEN Hour ELSE meter.world.passed + d
           w == [meter.world EXCEPT !.now = now, !.passed = passed]
           q == [meter EXCEPT !.world = w]
<1>1. /\ Shape(meter) /\ meter.kind = "clock" /\ ClockKept(meter)
  BY DEF MeterInv, GoodReading, R!TimePasses
<1>2. /\ meter.world \in [now : R!Times, passed : 0..Hour] /\ meter.shown \in R!Times
      /\ Hour \in Nat \ {0} /\ 2 * Hour \in Nat \ {0}
  BY <1>1 DEF ClockKept, R!Worlds, MeterConstants
<1>3. now \in R!Times
  BY <1>2 DEF R!Times
<1>4. passed \in 0..Hour
  BY <1>2
<1>5. ASSUME passed < Hour PROVE now = (meter.shown + passed) % (2 * Hour)
  <2> DEFINE n == 2 * Hour
             p == meter.world.passed
             t == meter.world.now
             s == meter.shown
  <2>1. p \in 0..(Hour - 1) /\ passed = p + d /\ d \in 1..(Hour - 1) /\ p + d \in 1..(Hour - 1)
    BY <1>2, <1>5
  <2>2. t = (s + p) % n
    <3>1. meter.world.passed < Hour
      BY <1>2, <2>1
    <3> QED
      BY <1>1, <3>1 DEF ClockKept
  <2>3. n \in Nat \ {0} /\ s \in 0..(n - 1) /\ p \in 0..(n - 1) /\ p + d \in 0..(n - 1)
        /\ d \in 0..(n - 1)
    BY <1>2, <2>1 DEF R!Times
  <2> SUFFICES (t + d) % n = (s + (p + d)) % n
    BY <2>1
  <2> HIDE DEF n, p, t, s, passed, now
  <2>4. CASE s + p < n
    <3>1. t = s + p
      BY <2>2, <2>3, <2>4, ModSmall
    <3>2. t + d = s + (p + d)
      BY <2>3, <3>1
    <3> QED
      BY <3>2
  <2>5. CASE s + p >= n
    <3>1. s + p \in n..(2 * n - 1)
      BY <2>3, <2>5
    <3>2. t = s + p - n
      <4> DEFINE x == s + p
      <4>1. x \in n..(2 * n - 1) /\ t = x % n
        BY <2>2, <3>1
      <4> HIDE DEF x
      <4>2. t = x - n
        BY <2>3, <4>1, ModOver
      <4> QED
        BY <2>3, <4>2 DEF x
    <3>3. s + (p + d) \in n..(2 * n - 1) /\ s + (p + d) - n \in 0..(n - 1)
      BY <2>3, <2>5
    <3>4. (s + (p + d)) % n = s + (p + d) - n
      BY <2>3, <3>3, ModOver
    <3>5. t + d = s + (p + d) - n
      BY <2>3, <3>2
    <3>6. (t + d) % n = t + d
      BY <2>3, <3>3, <3>5, ModSmall
    <3> QED
      BY <3>4, <3>5, <3>6
  <2> QED
    BY <2>3, <2>4, <2>5
<1>6. meter' = q
  BY <1>1, <1>2 DEF R!TimePasses, Shape
<1> HIDE DEF now, passed
<1>7. w \in [now : R!Times, passed : 0..Hour] /\ w.now = now /\ w.passed = passed
  BY <1>2, <1>3, <1>4
<1> HIDE DEF w
<1>8. ClockKept(q)
  <2>1. q.world = w /\ q.kept = meter.kept /\ q.shown = meter.shown
    BY <1>1, WorldShape
  <2> HIDE DEF q
  <2> QED
    BY <1>1, <1>5, <1>7, <2>1 DEF ClockKept, R!Worlds
<1>9. w \in R!Worlds[meter.kind]
  BY <1>1, <1>7 DEF R!Worlds
<1> QED
  BY <1>1, <1>6, <1>8, <1>9, MeterWorld

(* An interface goes up or down, carries traffic or changes its network.   *)
LEMMA MeterLink ==
  ASSUME MeterConstants, MeterInv, NEW i \in R!Iface, R!UpOrDown(i) \/ R!Roam \/ R!Traffic(i) PROVE MeterInv'
<1>1. Shape(meter) /\ meter.kind = "network" /\ NetworkKept(meter)
  BY DEF MeterInv, GoodReading, R!UpOrDown, R!Roam, R!Traffic
<1>2. /\ meter.world \in R!Networks /\ meter.world.up \in SUBSET R!Iface
      /\ meter.world.ssid \in {"A", "B"} /\ meter.world.rx \in [R!Iface -> 0..Load]
      /\ meter.world.roamed \in BOOLEAN
      /\ meter.world.read \in [of : R!Iface \cup {None}, rx : 0..Load]
  BY <1>1 DEF NetworkKept, R!Networks
<1>3. ASSUME NEW w \in R!Networks, meter' = [meter EXCEPT !.world = w], w.read = meter.world.read,
             \A j \in R!Iface : w.rx[j] >= meter.world.rx[j],
             w.roamed \/ (~ meter.world.roamed /\ w.ssid = meter.world.ssid)
      PROVE  MeterInv'
  <2> DEFINE q == [meter EXCEPT !.world = w]
  <2>1. q.world = w /\ q.kept = meter.kept
    BY <1>1, WorldShape
  <2> HIDE DEF q
  <2>2. w.read.of # None => w.read.rx <= w.rx[w.read.of]
    <3> SUFFICES ASSUME w.read.of # None PROVE w.read.rx <= w.rx[w.read.of]
      OBVIOUS
    <3> DEFINE j == w.read.of
    <3>1. j \in R!Iface /\ w.read.rx <= meter.world.rx[j]
      BY <1>1, <1>2, <1>3 DEF NetworkKept
    <3>2. w.rx[j] >= meter.world.rx[j] /\ w.rx[j] \in Int /\ meter.world.rx[j] \in Int
          /\ w.read.rx \in Int
      BY <1>2, <1>3, <3>1 DEF R!Networks
    <3> HIDE DEF j
    <3>3. w.read.rx <= w.rx[j]
      BY <3>1, <3>2
    <3> QED
      BY <3>3 DEF j
  <2>3. NetworkKept(q)
    BY <1>1, <1>3, <2>1, <2>2 DEF NetworkKept
  <2>4. w \in R!Worlds[meter.kind]
    BY <1>1 DEF R!Worlds
  <2> QED
    BY <1>1, <1>3, <2>3, <2>4, MeterWorld DEF q
<1>4. CASE R!UpOrDown(i)
  <2> DEFINE up == IF i \in meter.world.up THEN meter.world.up \ {i} ELSE meter.world.up \cup {i}
             w == [meter.world EXCEPT !.up = up]
  <2>1. up \in SUBSET R!Iface
    BY <1>2
  <2>2. meter' = [meter EXCEPT !.world = w]
    BY <1>1, <1>2, <1>4 DEF R!UpOrDown, Shape, R!Networks
  <2> HIDE DEF up
  <2>3. w \in R!Networks /\ w.read = meter.world.read /\ w.rx = meter.world.rx
        /\ w.roamed = meter.world.roamed /\ w.ssid = meter.world.ssid
    BY <1>2, <2>1 DEF R!Networks
  <2> HIDE DEF w
  <2>4. \A j \in R!Iface : w.rx[j] >= meter.world.rx[j]
    BY <1>2, <2>3
  <2> QED
    BY <1>2, <1>3, <2>2, <2>3, <2>4
<1>5. CASE R!Roam
  <2> DEFINE ssid == IF meter.world.ssid = "A" THEN "B" ELSE "A"
             w == [meter.world EXCEPT !.ssid = ssid, !.roamed = TRUE]
  <2>1. ssid \in {"A", "B"}
    BY <1>2
  <2>2. meter' = [meter EXCEPT !.world = w]
    BY <1>1, <1>2, <1>5 DEF R!Roam, Shape, R!Networks
  <2> HIDE DEF ssid
  <2>3. w \in R!Networks /\ w.read = meter.world.read /\ w.rx = meter.world.rx /\ w.roamed
    BY <1>2, <2>1 DEF R!Networks
  <2> HIDE DEF w
  <2>4. \A j \in R!Iface : w.rx[j] >= meter.world.rx[j]
    BY <1>2, <2>3
  <2> QED
    BY <1>2, <1>3, <2>2, <2>3, <2>4
<1>6. CASE R!Traffic(i)
  <2> DEFINE rx == [meter.world.rx EXCEPT ![i] = @ + 1]
             w == [meter.world EXCEPT !.rx = rx]
  <2>1. rx \in [R!Iface -> 0..Load] /\ \A j \in R!Iface : rx[j] >= meter.world.rx[j]
    BY <1>2, <1>6 DEF R!Traffic, MeterConstants
  <2>2. meter' = [meter EXCEPT !.world = w]
    BY <1>1, <1>2, <1>6 DEF R!Traffic, Shape, R!Networks
  <2> HIDE DEF rx
  <2>3. w \in R!Networks /\ w.read = meter.world.read /\ w.rx = rx
        /\ w.roamed = meter.world.roamed /\ w.ssid = meter.world.ssid
    BY <1>2, <2>1 DEF R!Networks
  <2> HIDE DEF w
  <2> QED
    BY <1>2, <1>3, <2>1, <2>2, <2>3
<1> QED
  BY <1>4, <1>5, <1>6

(* A click on the clock changes its format, and the clock is read again.   *)
LEMMA MeterClick == ASSUME MeterConstants, MeterInv, R!ClickTime PROVE MeterInv'
<1> DEFINE form == ~ meter.kept.time_detailed
           kept == [meter.kept EXCEPT !.time_detailed = form, !.prev_minute = -1]
           m == [meter EXCEPT !.kept = kept]
           r == R!data_update_clock(m)
           q == [r EXCEPT !.need_redraw = TRUE]
<1>1. Shape(meter) /\ meter.kind = "clock" /\ ClockKept(meter)
  BY DEF MeterInv, GoodReading, R!ClickTime
<1>2. meter.kept.time_detailed \in BOOLEAN /\ meter.world \in R!Worlds.clock
  BY <1>1 DEF ClockKept
<1>3. kept \in [prev_minute : Int, time_detailed : BOOLEAN] /\ kept.prev_minute = -1
  <2>1. form \in BOOLEAN /\ meter.kept \in [prev_minute : {meter.shown % Hour},
                                           time_detailed : BOOLEAN]
    BY <1>1 DEF ClockKept
  <2> HIDE DEF form
  <2>2. kept = [meter.kept EXCEPT !.time_detailed = form, !.prev_minute = -1]
    OBVIOUS
  <2> HIDE DEF kept
  <2>3. kept = [prev_minute |-> -1, time_detailed |-> form]
    BY <2>1, <2>2
  <2> QED
    BY <2>1, <2>3
<1>4. meter' = q
  <2>1. m = [meter EXCEPT !.kept.time_detailed = form, !.kept.prev_minute = -1]
    BY <1>1 DEF Shape, ClockKept
  <2> HIDE DEF m
  <2> QED
    BY <2>1 DEF R!ClickTime
<1> HIDE DEF kept
<1>5. Shape(m) /\ m.kind = "clock" /\ m.world = meter.world /\ m.kept = kept
  BY <1>1 DEF Shape
<1> HIDE DEF m
<1>6. m.kept.prev_minute # m.world.now % Hour
  BY <1>2, <1>3, <1>5 DEF R!Worlds, R!Times, MeterConstants
<1>7. GoodReading(r)
  BY <1>2, <1>3, <1>5, <1>6, ClockReads
<1> HIDE DEF r
<1>8. Shape(r)
  BY <1>7 DEF GoodReading
<1>9. /\ Shape(q) /\ q.kind = r.kind /\ q.world = r.world /\ q.kept = r.kept
      /\ q.shown = r.shown /\ q.seen = r.seen
  <2> DEFINE yes == TRUE
             u == r.undrawn
  <2>1. yes \in BOOLEAN /\ u \in BOOLEAN /\ (u => yes)
    BY <1>8 DEF Shape
  <2>2. q = [r EXCEPT !.need_redraw = yes]
    OBVIOUS
  <2> HIDE DEF yes, q
  <2>3. q = [kind |-> r.kind, world |-> r.world, kept |-> r.kept, shown |-> r.shown,
             seen |-> r.seen, undrawn |-> r.undrawn, need_redraw |-> yes]
    BY <1>8, <2>2 DEF Shape
  <2> QED
    BY <2>1, <2>3 DEF Shape
<1> HIDE DEF q
<1>10. GoodReading(q)
  BY <1>7, <1>9, SameReading
<1> QED
  BY <1>4, <1>10 DEF MeterInv

(* A drawing shows the values that there are.                              *)
LEMMA MeterDraw == ASSUME MeterInv, R!Draw PROVE MeterInv'
<1> DEFINE q == [meter EXCEPT !.undrawn = FALSE, !.need_redraw = FALSE]
<1>1. Shape(meter) /\ meter' = q
  BY DEF MeterInv, GoodReading, R!Draw
<1>2. /\ Shape(q) /\ q.kind = meter.kind /\ q.world = meter.world /\ q.kept = meter.kept
      /\ q.shown = meter.shown /\ q.seen = meter.seen
  <2> DEFINE no == FALSE
  <2>1. no \in BOOLEAN
    OBVIOUS
  <2>2. q = [meter EXCEPT !.undrawn = no, !.need_redraw = no]
    OBVIOUS
  <2> HIDE DEF no, q
  <2>3. q = [kind |-> meter.kind, world |-> meter.world, kept |-> meter.kept,
             shown |-> meter.shown, seen |-> meter.seen, undrawn |-> no, need_redraw |-> no]
    BY <1>1, <2>2 DEF Shape
  <2> QED
    BY <2>1, <2>3 DEF Shape
<1> HIDE DEF q
<1>3. GoodReading(meter)
  BY DEF MeterInv
<1>4. GoodReading(q)
  BY <1>2, <1>3, SameReading
<1> QED
  BY <1>1, <1>4 DEF MeterInv

(* Every step keeps the invariant.                                         *)
LEMMA MeterNext == ASSUME MeterConstants, MeterInv, [R!Next]_meter PROVE MeterInv'
<1>1. CASE UNCHANGED meter
  BY <1>1 DEF MeterInv
<1>2. ASSUME R!Change PROVE MeterInv'
  <2>1. meter.kind \notin {"clock", "network"}
    BY <1>2 DEF R!Change
  <2> QED
    BY <1>2, <2>1, MeterWorld DEF R!Change
<1> QED
  BY <1>1, <1>2, MeterRefresh, MeterClick, MeterDraw, MeterClock, MeterLink, "wifi" \in R!Iface
  DEF R!Next, R!Iface

ReadingsInv == part = "readings" => MeterInv

\* The invariant of the readings.
LEMMA ReadingsStay == ASSUME MeterConstants PROVE Spec => []ReadingsInv
<1>1. Init => ReadingsInv
  BY MeterInit DEF Init, ReadingsInv
<1>2. ReadingsInv /\ [Next]_vars => ReadingsInv'
  BY StepOfPart, MeterNext DEF ReadingsInv
<1> QED
  BY <1>1, <1>2, PTL DEF Spec

\* The values shown are those of the last reading, whatever changed between two of
\* them, and values that differ from the ones drawn are about to be (data.c).
THEOREM ReadingsStayCurrent == ASSUME MeterConstants PROVE Spec => []ReadingsAreCurrent
<1>1. ReadingsInv => ReadingsAreCurrent
  BY DEF ReadingsInv, MeterInv, GoodReading, R!ReadingsAreCurrent, ReadingsAreCurrent
<1> QED
  BY ReadingsStay, <1>1, PTL

----------------------------------------------------------------------------
(* X11 windows. *)

XWindowsInv == part = "xwindows" => X!Inv

\* The invariant of XWindowsProofs.
LEMMA XWindowsStay == ASSUME X!Constants PROVE Spec => []XWindowsInv
<1>1. Init => XWindowsInv
  BY X!InitInv DEF Init, XWindowsInv
<1>2. XWindowsInv /\ [Next]_vars => XWindowsInv'
  <2>1. ASSUME XWindowsInv, [X!Next]_xdesk, part = "xwindows" PROVE X!Inv'
    <3>1. CASE X!Next
      BY <2>1, <3>1, X!NextInv DEF XWindowsInv
    <3>2. CASE UNCHANGED xdesk
      BY <2>1, <3>2 DEF XWindowsInv, X!Inv
    <3> QED
      BY <2>1, <3>1, <3>2
  <2> QED
    BY <2>1, StepOfPart DEF XWindowsInv
<1> QED
  BY <1>1, <1>2, PTL DEF Spec

\* However an X11 window turns into a menu and back, loses its surface, unmaps or is
\* destroyed, and whatever is grabbed or fullscreen then: focus, lists, tree, handles
\* and grab lead to objects of mapped windows, of which none is lost, listeners end
\* with the surface, and the keyboard is on the focused window
\* (window_xwayland.c:40-492).
THEOREM XPointersStayLive == ASSUME X!Constants PROVE Spec => []XPointersLive
<1>1. XWindowsInv => XPointersLive
  BY X!InvImplies DEF XWindowsInv, XPointersLive
<1> QED
  BY XWindowsStay, <1>1, PTL

\* Of the windows seen only the focused one has a frame, and a menu never has, for any
\* order of maps, focus changes, toggles and commits (border.c:77-177).
THEOREM FramesMarkFocus == ASSUME X!Constants PROVE Spec => []FrameMarksFocus
<1>1. XWindowsInv => FrameMarksFocus
  BY X!InvImplies DEF XWindowsInv, FrameMarksFocus
<1> QED
  BY XWindowsStay, <1>1, PTL

----------------------------------------------------------------------------
(* What ubar draws. *)

ScreenInv == part = "screen" => P!Follows(bar)

\* The invariant of BarScreenProofs.
LEMMA ScreenStays == ASSUME P!Constants PROVE Spec => []ScreenInv
<1>1. Init => ScreenInv
  BY P!InitFollows DEF Init, ScreenInv
<1>2. ScreenInv /\ [Next]_vars => ScreenInv'
  BY StepOfPart, P!NextFollows DEF ScreenInv
<1> QED
  BY <1>1, <1>2, PTL DEF Spec

\* However the events of a batch, frames, held buffers, clicks and new widths of the
\* screen interleave, for any number of workspaces and buffers: when all that was
\* sent has been received and no frame is due, the bar shows the workspaces as told
\* last, unless its last frame came in the middle of a batch; and no two of its items
\* are in one place, whatever the width (render.c, ubar.c, input.c).
THEOREM ScreenStaysCurrent == ASSUME P!Constants PROVE Spec => []ScreenIsCurrent
<1>1. ScreenInv => ScreenIsCurrent
  BY P!FollowsIsCurrent DEF ScreenInv, ScreenIsCurrent
<1> QED
  BY ScreenStays, <1>1, PTL

----------------------------------------------------------------------------
(* The launcher. *)

LauncherInv == part = "launcher" => L!Launches

\* The invariant of LauncherProofs.
LEMMA LauncherStays == Spec => []LauncherInv
<1>1. Init => LauncherInv
  BY LauncherConstants, L!InitLaunches DEF Init, LauncherInv
<1>2. LauncherInv /\ [Next]_vars => LauncherInv'
  BY LauncherConstants, StepOfPart, L!NextLaunches DEF LauncherInv
<1> QED
  BY <1>1, <1>2, PTL DEF Spec

\* Whatever is typed, erased and typed again, the list shows lines that match the
\* whole query, the best first, and leaves one out only for want of room, although
\* only the survivors of the last query are looked at (filter.c, score.c).
THEOREM BestStayShown == Spec => []ShowsBestMatches
<1>1. LauncherInv => ShowsBestMatches
  BY LauncherConstants, L!LaunchesBest DEF LauncherInv, ShowsBestMatches
<1> QED
  BY LauncherStays, <1>1, PTL

\* The selection is a line of the list, unless it went to -1 while the list was empty,
\* and what is printed or run when it is taken is that line or a command that some
\* desktop file offers by that name, however the list changed and wherever the keys
\* moved it (input.c, mode_drun.c).
THEOREM SelectionStays == Spec => []SelectionIsAResult
<1>1. LauncherInv => SelectionIsAResult
  BY LauncherConstants, L!LaunchesSelected DEF LauncherInv, SelectionIsAResult
<1> QED
  BY LauncherStays, <1>1, PTL

----------------------------------------------------------------------------
(* The sizes of windows. *)

SizesInv == part = "sizes" => D!Settled(ws)

\* The invariant of SizesProofs.
LEMMA SizesStay == Spec => []SizesInv
<1>1. Init => SizesInv
  BY SizesConstants, D!InitSettles DEF Init, SizesInv
<1>2. SizesInv /\ [Next]_vars => SizesInv'
  BY SizesConstants, StepOfPart, D!NextSettles DEF SizesInv
<1> QED
  BY <1>1, <1>2, PTL DEF Spec

\* A window that can be seen is drawn where its state says and its client has been
\* asked for that size, or will be at the end of the pointer frame or of the grab, for
\* any number of windows and whatever maps, toggles, grabs and unmaps come in between
\* (bsp_arrange.c, floating.c, cursor.c).
THEOREM SizesAreAllSent == Spec => []SizesAreSent
<1>1. SizesInv => SizesAreSent
  BY SizesConstants, D!SettledSends DEF SizesInv, SizesAreSent
<1> QED
  BY SizesStay, <1>1, PTL

----------------------------------------------------------------------------
(***************************************************************************)
(* The types.  Most are in the invariants above; what is left are the      *)
(* counters of the supervisor (Counting), what the launcher has read and   *)
(* typed (L!Typed) and the place in the lists of the set-up (InTheList),   *)
(* where every way out of server_init begins a list of its own.            *)
(***************************************************************************)

\* What is assumed of the constants, of all parts.
PartsConstants ==
  /\ SupervisorConstants /\ GraceTries \in Nat /\ MaxCrashRestarts \in Nat \ {0}
  /\ KeysDiffer /\ UbarConstants /\ FocusConstants /\ BarConstants /\ MeterConstants
  /\ X!Constants /\ P!Constants

\* The counters; a crash is counted only while the budget is not spent.
Counting ==
  /\ tries \in 0 .. GraceTries
  /\ next \in 1 .. Len(Commands) + 1 /\ old \in Pid \cup {NoPid} /\ raced \subseteq Exe
  /\ crash_restarts \in 0 .. MaxCrashRestarts
  /\ main \notin {"crashed"} \cup S!Terminating \cup S!Gone =>
       crash_restarts < MaxCrashRestarts

\* At the start they are 0.
LEMMA CountInit == ASSUME PartsConstants, S!Init PROVE Counting
<1>1. Len(Commands) \in Nat
  BY DEF PartsConstants, SupervisorConstants
<1> QED
  BY <1>1 DEF PartsConstants, S!Init, S!ChildInit, Counting

\* Each step keeps them below their limits.
LEMMA CountNext ==
  ASSUME PartsConstants, TableInv, InstanceInv, Counting, [S!Next]_S!vars
  PROVE  Counting'
<1> USE DEF Counting, S!Gone, S!Terminating, S!Go
<1>1. /\ Len(Commands) \in Nat /\ \A i \in 1 .. Len(Commands) : Commands[i] \in Exe
      /\ GraceTries \in Nat /\ MaxCrashRestarts \in Nat \ {0}
  BY DEF PartsConstants, SupervisorConstants
<1>2. /\ pidfile \in [Exe -> Pid \cup {NoPid}] /\ caller \in {"autostart", "run"}
      /\ main = "checked" => next <= Len(Commands)
  BY DEF TableInv, ChildTypes, InstanceInv, ExeTypes, CheckedIsFree
<1>3. CASE S!InstallHandlers \/ S!ServerInit \/ S!BackendStart \/ S!EnterLoop
  BY <1>1, <1>3
  DEF S!InstallHandlers, S!ServerInit, S!BackendStart, S!EnterLoop, S!ForkHelper, S!Terminate,
      S!superVars
<1>4. CASE S!CleanPidDir
  BY <1>1, <1>4 DEF S!CleanPidDir
<1>5. CASE S!CheckPidFile
  BY <1>1, <1>2, <1>5 DEF S!CheckPidFile
<1>6. CASE S!Spawn
  BY <1>1, <1>2, <1>6 DEF S!Spawn, S!Fork
<1>7. ASSUME NEW p \in Pid, S!WritePidFile(p)
      PROVE  Counting'
  BY <1>7 DEF S!WritePidFile, S!childVars
<1>8. CASE S!Recover \/ S!Rerun \/ S!Crash \/ S!Quit \/ S!KeySpawn \/ S!XWaylandReady
  BY <1>1, <1>8
  DEF S!Recover, S!Rerun, S!Crash, S!Counted, S!Quit, S!Terminate, S!KeySpawn, S!XWaylandReady,
      S!Fork, S!ForkHelper, S!superVars
<1>9. CASE S!ReExec
  BY <1>1, <1>9 DEF S!ReExec, S!Terminate
<1>10. CASE (S!Store \/ S!WaitOnce) /\ UNCHANGED S!superVars
  BY <1>1, <1>2, <1>10 DEF S!Store, S!WaitOnce, S!superVars
<1>11. CASE /\ S!TakeSlot \/ S!ReadSlot("gone") \/ S!Grace("gone") \/ S!Wake \/ S!Kill("gone")
            /\ UNCHANGED S!superVars
  BY <1>1, <1>11 DEF S!TakeSlot, S!ReadSlot, S!Grace, S!Wake, S!Kill, S!superVars
<1>12. ASSUME S!Reap \/ \E p \in Pid : S!Exit(p, main # "exec") \/ S!Recycle(p),
              UNCHANGED <<pidfile, next, old, crash_restarts, raced>>
       PROVE  Counting'
  BY <1>1, <1>12 DEF S!Reap, S!Exit, S!Recycle
<1>13. CASE UNCHANGED S!vars
  BY <1>13 DEF S!vars, S!childVars, S!superVars
<1>14. ASSUME NEW p \in Pid, S!Setsid(p), UNCHANGED S!superVars
       PROVE  Counting'
  BY <1>14 DEF S!Setsid, S!superVars
<1> QED
  BY <1>14, <1>3, <1>4, <1>5, <1>6, <1>7, <1>8, <1>9, <1>10, <1>11, <1>12, <1>13
  DEF S!Next, S!Main, S!Environment, S!Over

\* The ways out of server_init; a call that may fail takes one of them.
Ways == {"over", "backend", "renderer", "allocator", "err"}
TakesAWay(c) == c.do = "make" => c.fails \subseteq Ways \cup {"on"}

\* A list of n calls, none of which leaves by another way.
CallsIn(list, n) ==
  /\ list \in Seq({list[i] : i \in 1 .. n}) /\ Len(list) = n
  /\ \A i \in 1 .. n : TakesAWay(list[i])

\* So are two of them one after the other.
LEMMA CallsJoined ==
  ASSUME NEW a, NEW m \in Nat, CallsIn(a, m), NEW b, NEW n \in Nat, CallsIn(b, n)
  PROVE  CallsIn(a \o b, m + n)
<1> DEFINE Both == {a[i] : i \in 1 .. m} \cup {b[i] : i \in 1 .. n}
<1>1. a \in Seq(Both) /\ b \in Seq(Both) /\ Len(a) = m /\ Len(b) = n
  BY DEF CallsIn
<1> HIDE DEF Both
<1>2. /\ a \o b \in Seq(Both) /\ Len(a \o b) = m + n
      /\ \A i \in 1 .. m + n : (a \o b)[i] = IF i <= m THEN a[i] ELSE b[i - m]
  BY <1>1
<1>3. a \o b \in Seq({(a \o b)[i] : i \in 1 .. m + n})
  <2>1. a \o b \in [1 .. m + n -> Both]
    BY <1>2, LenProperties
  <2>2. a \o b \in [1 .. m + n -> {(a \o b)[i] : i \in 1 .. m + n}]
    BY <2>1
  <2>3. m + n \in Nat
    OBVIOUS
  <2> QED
    BY <2>2, <2>3, SeqDef
<1>4. \A i \in 1 .. m + n : TakesAWay((a \o b)[i])
  <2> SUFFICES ASSUME NEW i \in 1 .. m + n
               PROVE  TakesAWay((a \o b)[i])
    OBVIOUS
  <2>1. CASE i <= m
    BY <1>2, <2>1 DEF CallsIn
  <2>2. CASE ~ (i <= m)
    <3>1. i - m \in 1 .. n /\ (a \o b)[i] = b[i - m]
      BY <1>2, <2>2
    <3> QED
      BY <3>1 DEF CallsIn
  <2> QED
    BY <2>1, <2>2
<1> QED
  BY <1>2, <1>3, <1>4 DEF CallsIn

\* Each part of server_init and server_finish and each way out is such a list.
LEMMA ListsOfCalls ==
  /\ CallsIn(C!Foundation, 7) /\ CallsIn(C!Shells, 14) /\ CallsIn(C!Inputs, 8)
  /\ CallsIn(C!Protocols, 7) /\ CallsIn(C!Captures, 9)
  /\ CallsIn(C!NoBackend, 1) /\ CallsIn(C!NoRenderer, 4)
  /\ CallsIn(<<C!Unhook({"renderer_lost"}, "renderer"), C!Destroy("renderer")>>, 2)
  /\ CallsIn(C!Err, 19) /\ CallsIn(C!Unhooks, 22) /\ CallsIn(C!Destroys, 11)
<1> USE DEF CallsIn
<1>0. \A o : /\ TakesAWay(C!Create(o)) /\ TakesAWay(C!Destroy(o)) /\ TakesAWay(C!Clear(o))
            /\ \A w \in Ways \cup {"on"} : TakesAWay(C!Make(o, {w}))
            /\ TakesAWay(C!Make(o, {"on", "err"}))
  BY DEF TakesAWay, Ways, C!Make, C!Create, C!Destroy, C!Clear
<1>12. \A ls, o : TakesAWay(C!Hook(ls, o)) /\ TakesAWay(C!Unhook(ls, o))
  BY DEF TakesAWay, C!Hook, C!Unhook
<1>1. CallsIn(C!Foundation, 7)
  <2>1. C!Foundation \in Seq({C!Foundation[i] : i \in 1 .. 7}) /\ Len(C!Foundation) = 7
    BY DEF C!Foundation, C!SessionListeners
  <2>2. \A i \in 1 .. 7 : TakesAWay(C!Foundation[i])
    BY <1>0, <1>12 DEF C!Foundation, C!SessionListeners, Ways
  <2> QED
    BY <2>1, <2>2
<1>2. CallsIn(C!Shells, 14)
  <2>1. C!Shells \in Seq({C!Shells[i] : i \in 1 .. 14}) /\ Len(C!Shells) = 14
    BY DEF C!Shells
  <2>2. \A i \in 1 .. 14 : TakesAWay(C!Shells[i])
    BY <1>0, <1>12 DEF C!Shells, Ways
  <2> QED
    BY <2>1, <2>2
<1>3. CallsIn(C!Inputs, 8)
  <2>1. C!Inputs \in Seq({C!Inputs[i] : i \in 1 .. 8}) /\ Len(C!Inputs) = 8
    BY DEF C!Inputs
  <2>2. \A i \in 1 .. 8 : TakesAWay(C!Inputs[i])
    BY <1>0, <1>12 DEF C!Inputs, Ways
  <2> QED
    BY <2>1, <2>2
<1>4. CallsIn(C!Protocols, 7)
  <2>1. C!Protocols \in Seq({C!Protocols[i] : i \in 1 .. 7}) /\ Len(C!Protocols) = 7
    BY DEF C!Protocols
  <2>2. \A i \in 1 .. 7 : TakesAWay(C!Protocols[i])
    BY <1>0, <1>12 DEF C!Protocols, Ways
  <2> QED
    BY <2>1, <2>2
<1>5. CallsIn(C!Captures, 9)
  <2>1. C!Captures \in Seq({C!Captures[i] : i \in 1 .. 9}) /\ Len(C!Captures) = 9
    BY DEF C!Captures
  <2>2. \A i \in 1 .. 9 : TakesAWay(C!Captures[i])
    BY <1>0, <1>12 DEF C!Captures, Ways
  <2> QED
    BY <2>1, <2>2
<1>6. CallsIn(C!NoBackend, 1)
  <2>1. C!NoBackend \in Seq({C!NoBackend[i] : i \in 1 .. 1}) /\ Len(C!NoBackend) = 1
    BY DEF C!NoBackend
  <2>2. \A i \in 1 .. 1 : TakesAWay(C!NoBackend[i])
    BY <1>0, <1>12 DEF C!NoBackend, Ways
  <2> QED
    BY <2>1, <2>2
<1>7. CallsIn(C!NoRenderer, 4)
  <2>1. C!NoRenderer \in Seq({C!NoRenderer[i] : i \in 1 .. 4}) /\ Len(C!NoRenderer) = 4
    BY DEF C!NoRenderer
  <2>2. \A i \in 1 .. 4 : TakesAWay(C!NoRenderer[i])
    BY <1>0, <1>12 DEF C!NoRenderer, Ways
  <2> QED
    BY <2>1, <2>2
<1>8. CallsIn(<<C!Unhook({"renderer_lost"}, "renderer"), C!Destroy("renderer")>>, 2)
  <2>1. <<C!Unhook({"renderer_lost"}, "renderer"), C!Destroy("renderer")>> \in Seq({<<C!Unhook({"renderer_lost"}, "renderer"), C!Destroy("renderer")>>[i] : i \in 1 .. 2}) /\ Len(<<C!Unhook({"renderer_lost"}, "renderer"), C!Destroy("renderer")>>) = 2
    OBVIOUS
  <2>2. \A i \in 1 .. 2 : TakesAWay(<<C!Unhook({"renderer_lost"}, "renderer"), C!Destroy("renderer")>>[i])
    BY <1>0, <1>12 DEF Ways
  <2> QED
    BY <2>1, <2>2
<1>9. CallsIn(C!Err, 19)
  <2>1. C!Err \in Seq({C!Err[i] : i \in 1 .. 19}) /\ Len(C!Err) = 19
    BY DEF C!Err, C!DestroyTransients, C!layer_shell_destroy, C!session_lock_destroy,
         C!idle_inhibit_destroy
  <2>2. \A i \in 1 .. 19 : TakesAWay(C!Err[i])
    BY <1>0, <1>12 DEF C!Err, C!DestroyTransients, C!layer_shell_destroy, C!session_lock_destroy,
         C!idle_inhibit_destroy, Ways
  <2> QED
    BY <2>1, <2>2
<1>10. CallsIn(C!Unhooks, 22)
  <2>1. C!Unhooks \in Seq({C!Unhooks[i] : i \in 1 .. 22}) /\ Len(C!Unhooks) = 22
    BY DEF C!Unhooks, C!DestroyTransients, C!layer_shell_destroy, C!session_lock_destroy,
         C!idle_inhibit_destroy
  <2>2. \A i \in 1 .. 22 : TakesAWay(C!Unhooks[i])
    BY <1>0, <1>12 DEF C!Unhooks, C!DestroyTransients, C!layer_shell_destroy, C!session_lock_destroy,
         C!idle_inhibit_destroy, Ways
  <2> QED
    BY <2>1, <2>2
<1>11. CallsIn(C!Destroys, 11)
  <2>1. C!Destroys \in Seq({C!Destroys[i] : i \in 1 .. 11}) /\ Len(C!Destroys) = 11
    BY DEF C!Destroys
  <2>2. \A i \in 1 .. 11 : TakesAWay(C!Destroys[i])
    BY <1>0, <1>12 DEF C!Destroys, Ways
  <2> QED
    BY <2>1, <2>2
<1> HIDE DEF CallsIn
<1> QED
  BY <1>1, <1>2, <1>3, <1>4, <1>5, <1>6, <1>7, <1>8, <1>9, <1>10, <1>11

\* What List finds is one of at most 45 calls, and only server_init is longer than 33.
LEMMA WhatIsListed ==
  /\ CallsIn(C!server_init, 45) /\ CallsIn(C!server_finish, 33) /\ CallsIn(C!NoAllocator, 6)
  /\ \A p \in {"init", "finish"} \cup (Ways \ {"over"}) :
       \E n \in 1 .. 45 : CallsIn(C!List(p), n)
<1>1. /\ CallsIn(C!Foundation \o C!Shells, 21)
      /\ CallsIn(C!Foundation \o C!Shells \o C!Inputs, 29)
      /\ CallsIn(C!Foundation \o C!Shells \o C!Inputs \o C!Protocols, 36)
      /\ CallsIn(C!Foundation \o C!Shells \o C!Inputs \o C!Protocols \o C!Captures, 45)
  <2>1. CallsIn(C!Foundation \o C!Shells, 7 + 14)
    BY ListsOfCalls, CallsJoined
  <2>2. CallsIn((C!Foundation \o C!Shells) \o C!Inputs, 21 + 8)
    BY ListsOfCalls, CallsJoined, <2>1
  <2>3. CallsIn((C!Foundation \o C!Shells \o C!Inputs) \o C!Protocols, 29 + 7)
    BY ListsOfCalls, CallsJoined, <2>2
  <2>4. CallsIn((C!Foundation \o C!Shells \o C!Inputs \o C!Protocols) \o C!Captures, 36 + 9)
    BY ListsOfCalls, CallsJoined, <2>3
  <2> QED
    BY <2>1, <2>2, <2>3, <2>4
<1>2. CallsIn(C!Unhooks \o C!Destroys, 22 + 11)
  BY ListsOfCalls, CallsJoined
<1>3. CallsIn(C!NoAllocator, 6)
  <2>1. CallsIn(<<C!Unhook({"renderer_lost"}, "renderer"), C!Destroy("renderer")>>
                  \o C!NoRenderer, 2 + 4)
    BY ListsOfCalls, CallsJoined
  <2> QED
    BY <2>1 DEF C!NoAllocator
<1>4. CallsIn(C!server_init, 45) /\ CallsIn(C!server_finish, 33)
  BY <1>1, <1>2 DEF C!server_init, C!server_finish
<1>5. /\ C!List("init") = C!server_init /\ C!List("finish") = C!server_finish
      /\ C!List("backend") = C!NoBackend /\ C!List("renderer") = C!NoRenderer
      /\ C!List("allocator") = C!NoAllocator /\ C!List("err") = C!Err
  BY DEF C!List
<1> QED
  BY <1>3, <1>4, <1>5, ListsOfCalls DEF Ways

(* The set-up. *)

\* A list that is carried out is inside it; otherwise pc is back at its start.
InTheList ==
  /\ path \in {"init", "start", "run", "finish"} \cup Ways
  /\ IF path \in {"init", "finish"} \cup (Ways \ {"over"})
     THEN pc \in 1 .. Len(C!List(path)) ELSE pc = 1
  /\ devices \subseteq {"output", "keyboard", "x11"}

\* Which is what the type of the set-up says.
LEMMA InTheListTypes == InTheList => C!TypeOK
<1> SUFFICES ASSUME InTheList
             PROVE  C!TypeOK
  OBVIOUS
<1>1. Len(C!server_init) = 45 /\ Len(C!server_finish) = 33
  BY WhatIsListed DEF CallsIn
<1>2. pc \in 1 .. 45
  <2>1. CASE path \in {"init", "finish"} \cup (Ways \ {"over"})
    <3>1. pc \in 1 .. Len(C!List(path)) /\ \E n \in 1 .. 45 : Len(C!List(path)) = n
      BY <2>1, WhatIsListed DEF CallsIn, InTheList
    <3> QED
      BY <3>1
  <2> QED
    BY <2>1 DEF InTheList
<1> QED
  BY <1>1, <1>2 DEF InTheList, C!TypeOK, Ways

\* The first call of a list is in it.
LEMMA FirstIsInIt ==
  \A p \in {"init", "finish"} \cup (Ways \ {"over"}) : 1 \in 1 .. Len(C!List(p))
<1> SUFFICES ASSUME NEW p \in {"init", "finish"} \cup (Ways \ {"over"})
             PROVE  1 \in 1 .. Len(C!List(p))
  OBVIOUS
<1>1. PICK n \in 1 .. 45 : Len(C!List(p)) = n
  BY WhatIsListed DEF CallsIn
<1> QED
  BY <1>1

\* Whatever happens to the call at hand, the next one is in a list
\* (core/server.c: server_init, its labels, server_finish).
LEMMA InTheListNext == ASSUME InTheList, [C!Next]_C!vars PROVE InTheList'
<1> DEFINE Lists == {"init", "finish"} \cup (Ways \ {"over"})
<1>1. ASSUME path \in Lists, C!Proceed(path), devices' \subseteq devices
      PROVE  InTheList'
  <2>1. /\ \E n \in 1 .. 45 : Len(C!List(path)) = n
        /\ pc \in 1 .. Len(C!List(path))
    BY <1>1, WhatIsListed DEF CallsIn, InTheList
  <2> QED
    BY <1>1, <2>1 DEF C!Proceed, InTheList, Ways
<1>2. C!Running => path \in Lists
  BY DEF C!Running, InTheList, Ways
<1>3. CASE C!Running /\ (C!Made \/ C!Hooked \/ C!Unhooked \/ C!Destroyed)
  <2>1. path \in Lists /\ C!Proceed(path) /\ devices' \subseteq devices
    BY <1>2, <1>3 DEF C!Made, C!Hooked, C!Unhooked, C!Destroyed
  <2> QED
    BY <1>1, <2>1
<1>4. CASE C!Running /\ C!Failed
  <2>1. PICK f \in C!Call.fails :
          IF f = "on" THEN C!Proceed(path) ELSE path' = f /\ pc' = 1
    BY <1>4 DEF C!Failed
  <2>2. CASE f = "on"
    BY <1>1, <1>2, <1>4, <2>1, <2>2 DEF C!Failed
  <2>3. CASE f # "on"
    <3>1. PICK n \in 1 .. 45 : CallsIn(C!List(path), n)
      BY <1>2, <1>4, WhatIsListed
    <3>2. pc \in 1 .. n
      BY <1>2, <1>4, <3>1 DEF CallsIn, InTheList
    <3>3. C!Call.fails \subseteq Ways \cup {"on"}
      BY <1>4, <3>1, <3>2 DEF CallsIn, TakesAWay, C!Call, C!Failed
    <3>4. path' \in Ways /\ pc' = 1 /\ devices' = devices
      BY <1>4, <2>1, <2>3, <3>3 DEF C!Failed
    <3> QED
      BY <3>4, FirstIsInIt DEF InTheList
  <2> QED
    BY <2>2, <2>3
<1>5. CASE C!BackendStart \/ C!Quit
  <2>1. /\ path' \in {"run", "finish"} /\ pc' = 1
        /\ devices' \subseteq devices \cup {"output", "keyboard"}
    BY <1>5 DEF C!BackendStart, C!Quit
  <2> QED
    BY <2>1, FirstIsInIt DEF InTheList, Ways
<1>6. CASE C!NewDevice
  BY <1>6 DEF C!NewDevice, C!Announced, InTheList, C!List
<1>7. CASE C!DeviceGone \/ C!TransientSeat \/ C!Over \/ UNCHANGED C!vars
  BY <1>7 DEF C!DeviceGone, C!TransientSeat, C!Over, C!vars, InTheList, C!List
<1> QED
  BY <1>3, <1>4, <1>5, <1>6, <1>7 DEF C!Next

CountsInv == part = "supervisor" => Counting

\* The counters of the supervisor stay small.
LEMMA CountsStay == ASSUME PartsConstants PROVE Spec => [](SupervisorInv /\ CountsInv)
<1>1. SupervisorConstants
  BY DEF PartsConstants
<1>2. Init => SupervisorInv /\ CountsInv
  BY <1>1, TableInit, InstanceInit, CountInit DEF Init, SupervisorInv, CountsInv
<1>3. SupervisorInv /\ CountsInv /\ [Next]_vars => (SupervisorInv /\ CountsInv)'
  BY <1>1, StepOfPart, TableNext, InstanceNext, CountNext DEF SupervisorInv, CountsInv
<1> QED
  BY <1>2, <1>3, PTL DEF Spec

TypedInv == part = "launcher" => L!Launches /\ L!Typed

\* What the launcher reads and is told to do keeps its type.
LEMMA TypedStays == Spec => []TypedInv
<1>1. Init => TypedInv
  BY LauncherConstants, L!InitLaunches, L!InitTyped DEF Init, TypedInv
<1>2. TypedInv /\ [Next]_vars => TypedInv'
  BY LauncherConstants, StepOfPart, L!NextLaunches, L!NextTyped DEF TypedInv
<1> QED
  BY <1>1, <1>2, PTL DEF Spec

StartupInv == part = "startup" => InTheList

\* The set-up and the tear-down stay in their lists.
LEMMA StartupStays == Spec => []StartupInv
<1>1. Init => StartupInv
  BY FirstIsInIt DEF Init, C!Init, StartupInv, InTheList
<1>2. StartupInv /\ [Next]_vars => StartupInv'
  BY StepOfPart, InTheListNext DEF StartupInv
<1> QED
  BY <1>1, <1>2, PTL DEF Spec

\* What the invariants say of the types of the parts.
LEMMA SupervisorTypes == ASSUME TableInv, InstanceInv, Counting PROVE S!TypeOK
  BY DEF TableInv, ChildTypes, InstanceInv, ExeTypes, Counting, S!TypeOK

\* Every part keeps its types, for any children, keys, threads, windows, layers,
\* workspaces, readings and lists of files; every index of a loop, of a list that is
\* shown and of a page stays inside, and no counter goes past its limit.
THEOREM TypesAreOK == ASSUME PartsConstants PROVE Spec => []TypesOK
<1>1. /\ SupervisorConstants /\ KeysDiffer /\ UbarConstants /\ FocusConstants
      /\ BarConstants /\ MeterConstants /\ X!Constants /\ P!Constants
  BY DEF PartsConstants
<1> DEFINE All == /\ SupervisorInv /\ CountsInv /\ KeyboardInv /\ TypedInv /\ UbarStaysInv
                  /\ FocusInv /\ BarStaysInv /\ StartupInv /\ SizesInv /\ XWindowsInv
                  /\ ReadingsInv /\ ScreenInv
<1>2. ASSUME All PROVE TypesOK
  <2>1. part = "supervisor" => S!TypeOK
    BY <1>2, SupervisorTypes DEF SupervisorInv, CountsInv
  <2>2. part = "keyboard" => K!TypeOK
    BY <1>2 DEF KeyboardInv, KeysInv
  <2>3. part = "launcher" => L!TypeOK
    BY <1>2, LauncherConstants, L!LaunchesTyped DEF TypedInv
  <2>4. part = "ubar" => U!TypeOK
    BY <1>2 DEF UbarStaysInv, UbarInv
  <2>5. part = "focus" => F!TypeOK
    BY <1>2 DEF FocusInv, ShellInv
  <2>6. part = "bar" => B!TypeOK
    BY <1>2, BarInvTold DEF BarStaysInv
  <2>7. part = "startup" => C!TypeOK
    BY <1>2, InTheListTypes DEF StartupInv
  <2>8. part = "sizes" => D!TypeOK
    BY <1>2, D!SettledTypeOK DEF SizesInv
  <2>9. part = "xwindows" => X!TypeOK
    BY <1>2 DEF XWindowsInv, X!Inv, X!Right, X!Good, X!Nearly, X!TypeOK
  <2>10. part = "readings" => R!TypeOK
    BY <1>2 DEF ReadingsInv, MeterInv, GoodReading, Shape, R!TypeOK
  <2>11. part = "screen" => P!TypeOK
    BY <1>1, <1>2, P!FollowsTyped DEF ScreenInv
  <2> QED
    BY <2>1, <2>2, <2>3, <2>4, <2>5, <2>6, <2>7, <2>8, <2>9, <2>10, <2>11 DEF TypesOK
<1> QED
  <2>1. All => TypesOK
    BY <1>2
  <2>2. Spec => []All
    BY <1>1, CountsStay, KeyboardStays, TypedStays, UbarStays, FocusStays, BarStays,
       StartupStays, SizesStay, XWindowsStay, ReadingsStay, ScreenStays, PTL
  <2> QED
    BY <2>1, <2>2, PTL

----------------------------------------------------------------------------
(***************************************************************************)
(* Setting up and taking down.  The lists of calls are concrete, so what   *)
(* is proved of them is proved call by call; what makes the proof is an    *)
(* invariant that follows the listeners through the lists: server_init has *)
(* hooked those of the calls before pc and no others (HookedBefore), the   *)
(* list that ends it has unhooked those of its calls before pc (Unlinked). *)
(***************************************************************************)

\* What a call links, and what it takes off.
Puts(c) == IF c.do = "hook" THEN c.listeners \X {c.what} ELSE {}
Takes(c) == IF c.do = "unhook" THEN c.listeners \X {c.what} ELSE {}

\* What server_init has linked when it comes to its n-th call, and what the clients link.
HookedBefore(n) == UNION {Puts(C!server_init[i]) : i \in 1 .. n - 1}
SeatHook == {<<"seat_destroy", "transient_seat">>}

\* The lists that end the compositor, and how far server_init was.
Ends == {"backend", "renderer", "allocator", "err", "finish"}
Came(p) == CASE p = "backend" -> 2 [] p = "renderer" -> 5 [] p = "allocator" -> 7
             [] OTHER -> 46

\* What the handlers of outputs and keyboards use.
Scene == {"scene", "seat", "output_layout", "output_manager_v1", "display"}

\* The invariant.
Unlinked == path \in Ends => \A i \in 1 .. pc - 1 : hooks \cap Takes(C!List(path)[i]) = {}

Linked ==
  /\ path = "init" => hooks \subseteq HookedBefore(pc)
  /\ path \in Ends \ {"finish"} => hooks \subseteq HookedBefore(Came(path))
  /\ path \in {"start", "run", "finish"} => hooks \subseteq HookedBefore(46) \cup SeatHook

SceneMade ==
  /\ path = "init" =>
       \A i \in 1 .. pc - 1 : LET c == C!server_init[i]
                              IN c.do = "make" /\ c.what \in Scene => c.what \in alive
  /\ path \in {"start", "run"} => Scene \subseteq alive
  /\ path = "finish" /\ pc <= 23 => Scene \subseteq alive
  /\ path \notin {"run", "finish", "over"} => devices = {}

OrderInv == InTheList /\ Unlinked /\ Linked /\ SceneMade

\* c has the m calls of a and then the n calls of b.
Runs(c, a, m, b, n) == \A i \in 1 .. m + n : c[i] = IF i <= m THEN a[i] ELSE b[i - m]

\* So it is if they are put together.
LEMMA BothRun ==
  ASSUME NEW a, NEW m \in Nat, CallsIn(a, m), NEW b, NEW n \in Nat, CallsIn(b, n)
  PROVE  Runs(a \o b, a, m, b, n)
<1> DEFINE Both == {a[j] : j \in 1 .. m} \cup {b[j] : j \in 1 .. n}
<1>1. a \in Seq(Both) /\ b \in Seq(Both) /\ Len(a) = m /\ Len(b) = n
  BY DEF CallsIn
<1> HIDE DEF Both
<1> QED
  BY <1>1 DEF Runs

\* A call of server_init is one of its parts.
LEMMA CallOfInit ==
  ASSUME NEW i \in 1 .. 45
  PROVE  C!server_init[i] =
           IF i <= 7 THEN C!Foundation[i]
           ELSE IF i <= 21 THEN C!Shells[i - 7]
           ELSE IF i <= 29 THEN C!Inputs[i - 21]
           ELSE IF i <= 36 THEN C!Protocols[i - 29] ELSE C!Captures[i - 36]
<1>1. /\ CallsIn(C!Foundation \o C!Shells, 7 + 14)
      /\ CallsIn((C!Foundation \o C!Shells) \o C!Inputs, 21 + 8)
      /\ CallsIn(((C!Foundation \o C!Shells) \o C!Inputs) \o C!Protocols, 29 + 7)
  <2>1. CallsIn(C!Foundation \o C!Shells, 7 + 14)
    BY ListsOfCalls, CallsJoined
  <2>2. CallsIn((C!Foundation \o C!Shells) \o C!Inputs, 21 + 8)
    BY ListsOfCalls, CallsJoined, <2>1
  <2>3. CallsIn(((C!Foundation \o C!Shells) \o C!Inputs) \o C!Protocols, 29 + 7)
    BY ListsOfCalls, CallsJoined, <2>2
  <2> QED
    BY <2>1, <2>2, <2>3
<1> DEFINE two == C!Foundation \o C!Shells
           three == two \o C!Inputs
           four == three \o C!Protocols
<1>2. Runs(two, C!Foundation, 7, C!Shells, 14)
  BY ListsOfCalls, BothRun
<1>3. C!server_init = four \o C!Captures
  BY DEF C!server_init
<1>4. CallsIn(two, 21) /\ CallsIn(three, 29) /\ CallsIn(four, 36)
  BY <1>1
<1> HIDE DEF two
<1>5. Runs(three, two, 21, C!Inputs, 8)
  BY <1>4, ListsOfCalls, BothRun
<1> HIDE DEF three
<1>6. Runs(four, three, 29, C!Protocols, 7)
  BY <1>4, ListsOfCalls, BothRun
<1> HIDE DEF four
<1>7. Runs(C!server_init, four, 36, C!Captures, 9)
  BY <1>3, <1>4, ListsOfCalls, BothRun
<1>8. CASE i <= 21
  BY <1>2, <1>5, <1>6, <1>7, <1>8 DEF Runs
<1>9. CASE i > 21
  BY <1>5, <1>6, <1>7, <1>9 DEF Runs
<1> QED
  BY <1>8, <1>9

\* What the steps below need of a call: the first ways out come at one place each, and
\* nothing the handlers use is done without.
Placed(c, i) ==
  /\ c.do \in {"make", "hook"}
  /\ c.do = "make" => /\ "backend" \in c.fails => i = 2
                      /\ "renderer" \in c.fails => i = 5
                      /\ "allocator" \in c.fails => i = 7
                      /\ "on" \in c.fails => c.what \notin Scene

\* A call that makes something.
IsMaking(c, o) == c.do = "make" /\ c.what = o

\* Each call of server_init is such, and it makes all that the handlers use.
LEMMA CallsOfInit ==
  /\ \A i \in 1 .. 45 : Placed(C!server_init[i], i)
  /\ \A o \in Scene : \E i \in 1 .. 45 : IsMaking(C!server_init[i], o)
<1> USE DEF C!Make, C!Create, C!Hook, Scene
<1>1. \A i \in 1 .. 7 : Placed(C!Foundation[i], i)
  BY DEF Placed, C!Foundation
<1>2. \A i \in 1 .. 14 : Placed(C!Shells[i], i + 7)
  BY DEF Placed, C!Shells
<1>3. \A i \in 1 .. 8 : Placed(C!Inputs[i], i + 21)
  BY DEF Placed, C!Inputs
<1>4. \A i \in 1 .. 7 : Placed(C!Protocols[i], i + 29)
  BY DEF Placed, C!Protocols
<1>5. \A i \in 1 .. 9 : Placed(C!Captures[i], i + 36)
  BY DEF Placed, C!Captures
<1>6. /\ IsMaking(C!Foundation[1], "display") /\ IsMaking(C!Shells[5], "output_layout")
      /\ IsMaking(C!Shells[8], "scene") /\ IsMaking(C!Shells[13], "output_manager_v1")
      /\ IsMaking(C!Inputs[5], "seat")
  BY DEF IsMaking, C!Foundation, C!Shells, C!Inputs
<1>7. ASSUME NEW i \in 1 .. 45 PROVE Placed(C!server_init[i], i)
  <2>1. CASE i <= 7
    BY <1>1, <2>1, CallOfInit
  <2>2. CASE i > 7 /\ i <= 21
    <3>1. i - 7 \in 1 .. 14 /\ (i - 7) + 7 = i /\ C!server_init[i] = C!Shells[i - 7]
      BY <2>2, CallOfInit
    <3> QED
      BY <1>2, <3>1
  <2>3. CASE i > 21 /\ i <= 29
    <3>1. i - 21 \in 1 .. 8 /\ (i - 21) + 21 = i /\ C!server_init[i] = C!Inputs[i - 21]
      BY <2>3, CallOfInit
    <3> QED
      BY <1>3, <3>1
  <2>4. CASE i > 29 /\ i <= 36
    <3>1. i - 29 \in 1 .. 7 /\ (i - 29) + 29 = i /\ C!server_init[i] = C!Protocols[i - 29]
      BY <2>4, CallOfInit
    <3> QED
      BY <1>4, <3>1
  <2>5. CASE i > 36
    <3>1. i - 36 \in 1 .. 9 /\ (i - 36) + 36 = i /\ C!server_init[i] = C!Captures[i - 36]
      BY <2>5, CallOfInit
    <3> QED
      BY <1>5, <3>1
  <2> QED
    BY <2>1, <2>2, <2>3, <2>4, <2>5
<1>8. /\ C!server_init[1] = C!Foundation[1] /\ C!server_init[12] = C!Shells[5]
      /\ C!server_init[15] = C!Shells[8] /\ C!server_init[20] = C!Shells[13]
      /\ C!server_init[26] = C!Inputs[5]
  BY CallOfInit
<1>9. ASSUME NEW o \in Scene PROVE \E i \in 1 .. 45 : IsMaking(C!server_init[i], o)
  <2>1. 1 \in 1 .. 45 /\ 12 \in 1 .. 45 /\ 15 \in 1 .. 45 /\ 20 \in 1 .. 45 /\ 26 \in 1 .. 45
    OBVIOUS
  <2> QED
    BY <1>6, <1>8, <2>1
<1> QED
  BY <1>7, <1>9

\* The objects that server_init puts a listener on.
Heard ==
  {"session", "renderer", "transient_seat_manager", "output_layout", "backend", "xdg_shell",
   "xdg_decoration_manager", "output_manager_v1", "cursor", "seat",
   "cursor_shape_manager", "layer_shell", "idle_inhibit", "session_lock",
   "image_copy_capture_manager", "capture_source_manager", "xwayland"}

\* server_finish takes a listener off, and err if it is one of these.
TakenOff(h) ==
  /\ h[2] \in Heard
  /\ \E j \in 1 .. 22 : h \in Takes(C!Unhooks[j])
  /\ h[2] = "xwayland" => h \in Takes(C!Err[1])
  /\ h[2] = "session_lock" => h \in Takes(C!Err[6])
  /\ h[2] = "idle_inhibit" => h \in Takes(C!Err[7])
  /\ h[2] = "layer_shell" => h \in Takes(C!Err[8])
  /\ h[2] = "session" => h \in Takes(C!Err[15])

\* All the listeners that a call puts are taken off by another one.
Undone(c) == \A h \in Puts(c) : TakenOff(h)

\* So are all of server_init's.
LEMMA HooksAreUndone == \A i \in 1 .. 45 : Undone(C!server_init[i])
<1>1. /\ C!Unhooks[1] = C!layer_shell_destroy /\ C!Unhooks[2] = C!idle_inhibit_destroy
      /\ C!Unhooks[3] = C!session_lock_destroy
      /\ C!Unhooks[5] = C!Unhook({"new_xdg_toplevel", "new_xdg_popup"}, "xdg_shell")
      /\ C!Unhooks[6] = C!Unhook({"new_toplevel_decoration"}, "xdg_decoration_manager")
      /\ C!Unhooks[7] = C!Unhook({"transient_seat_create"}, "transient_seat_manager")
      /\ C!Unhooks[10] = C!Unhook({"new_foreign_toplevel_capture_request"},
                                  "capture_source_manager")
      /\ C!Unhooks[11] = C!Unhook({"new_capture_session"}, "image_copy_capture_manager")
      /\ C!Unhooks[12] = C!Unhook({"xwayland_surface", "xwayland_ready"}, "xwayland")
      /\ C!Unhooks[13] = C!Unhook({"motion", "motion_absolute", "button", "axis", "frame"},
                                  "cursor")
      /\ C!Unhooks[14] = C!Unhook({"swipe_begin", "swipe_update", "swipe_end", "pinch_begin",
                                   "pinch_update", "pinch_end", "hold_begin", "hold_end"},
                                  "cursor")
      /\ C!Unhooks[15] = C!Unhook({"cursor_shape_request"}, "cursor_shape_manager")
      /\ C!Unhooks[16] = C!Unhook({"new_input"}, "backend")
      /\ C!Unhooks[17] = C!Unhook({"request_cursor", "pointer_focus_change",
                                   "request_set_selection",
                                   "request_set_primary_selection"}, "seat")
      /\ C!Unhooks[18] = C!Unhook({"new_output"}, "backend")
      /\ C!Unhooks[19] = C!Unhook({"output_layout_change"}, "output_layout")
      /\ C!Unhooks[20] = C!Unhook({"output_manager_apply", "output_manager_test"},
                                  "output_manager_v1")
      /\ C!Unhooks[21] = C!Unhook({"renderer_lost"}, "renderer")
      /\ C!Unhooks[22] = C!Unhook(C!SessionListeners, "session")
  BY DEF C!Unhooks
<1>2. /\ C!Err[1] = C!Unhook({"xwayland_surface", "xwayland_ready"}, "xwayland")
      /\ C!Err[6] = C!session_lock_destroy /\ C!Err[7] = C!idle_inhibit_destroy
      /\ C!Err[8] = C!layer_shell_destroy
      /\ C!Err[15] = C!Unhook(C!SessionListeners, "session")
  BY DEF C!Err
<1>3. \A ls, o : /\ Puts(C!Hook(ls, o)) = ls \X {o} /\ Takes(C!Unhook(ls, o)) = ls \X {o}
                 /\ \A f \in ls \X {o} : f[2] = o
  BY DEF Puts, Takes, C!Hook, C!Unhook
<1>4. (\A o : Undone(C!Create(o))) /\ \A o, f : Undone(C!Make(o, f))
  BY DEF Undone, Puts, C!Create, C!Make
<1>5. \A ls, o, j : j \in 1 .. 22 /\ C!Unhooks[j] = C!Unhook(ls, o) /\ o \in Heard
                    /\ (o = "xwayland" => C!Err[1] = C!Unhook(ls, o))
                    /\ (o = "session_lock" => C!Err[6] = C!Unhook(ls, o))
                    /\ (o = "idle_inhibit" => C!Err[7] = C!Unhook(ls, o))
                    /\ (o = "layer_shell" => C!Err[8] = C!Unhook(ls, o))
                    /\ (o = "session" => C!Err[15] = C!Unhook(ls, o))
                    => Undone(C!Hook(ls, o))
  BY <1>3 DEF Undone, TakenOff
<1>6. Undone(C!Hook({"motion", "motion_absolute", "button", "axis", "frame",
                     "swipe_begin", "swipe_update", "swipe_end", "pinch_begin",
                     "pinch_update", "pinch_end", "hold_begin", "hold_end"}, "cursor"))
  BY <1>1, <1>3, 13 \in 1 .. 22, 14 \in 1 .. 22 DEF Undone, TakenOff, Heard
<1>7. Undone(C!Hook(C!SessionListeners, "session"))
  BY <1>1, <1>2, <1>5, 22 \in 1 .. 22 DEF Heard
<1>8. Undone(C!Hook({"renderer_lost"}, "renderer"))
  BY <1>1, <1>2, <1>5, 21 \in 1 .. 22 DEF Heard
<1>9. Undone(C!Hook({"transient_seat_create"}, "transient_seat_manager"))
  BY <1>1, <1>2, <1>5, 7 \in 1 .. 22 DEF Heard
<1>10. Undone(C!Hook({"output_layout_change"}, "output_layout"))
  BY <1>1, <1>2, <1>5, 19 \in 1 .. 22 DEF Heard
<1>11. Undone(C!Hook({"new_output"}, "backend"))
  BY <1>1, <1>2, <1>5, 18 \in 1 .. 22 DEF Heard
<1>12. Undone(C!Hook({"new_xdg_toplevel", "new_xdg_popup"}, "xdg_shell"))
  BY <1>1, <1>2, <1>5, 5 \in 1 .. 22 DEF Heard
<1>13. Undone(C!Hook({"new_toplevel_decoration"}, "xdg_decoration_manager"))
  BY <1>1, <1>2, <1>5, 6 \in 1 .. 22 DEF Heard
<1>14. Undone(C!Hook({"output_manager_apply", "output_manager_test"}, "output_manager_v1"))
  BY <1>1, <1>2, <1>5, 20 \in 1 .. 22 DEF Heard
<1>15. Undone(C!Hook({"new_input"}, "backend"))
  BY <1>1, <1>2, <1>5, 16 \in 1 .. 22 DEF Heard
<1>16. Undone(C!Hook({"request_cursor", "pointer_focus_change", "request_set_selection",
                         "request_set_primary_selection"}, "seat"))
  BY <1>1, <1>2, <1>5, 17 \in 1 .. 22 DEF Heard
<1>17. Undone(C!Hook({"cursor_shape_request"}, "cursor_shape_manager"))
  BY <1>1, <1>2, <1>5, 15 \in 1 .. 22 DEF Heard
<1>18. Undone(C!Hook({"new_layer_surface"}, "layer_shell"))
  BY <1>1, <1>2, <1>5, 1 \in 1 .. 22 DEF Heard, C!layer_shell_destroy
<1>19. Undone(C!Hook({"new_inhibitor"}, "idle_inhibit"))
  BY <1>1, <1>2, <1>5, 2 \in 1 .. 22 DEF Heard, C!idle_inhibit_destroy
<1>20. Undone(C!Hook({"new_lock", "manager_destroy"}, "session_lock"))
  BY <1>1, <1>2, <1>5, 3 \in 1 .. 22 DEF Heard, C!session_lock_destroy
<1>21. Undone(C!Hook({"new_capture_session"}, "image_copy_capture_manager"))
  BY <1>1, <1>2, <1>5, 11 \in 1 .. 22 DEF Heard
<1>22. Undone(C!Hook({"new_foreign_toplevel_capture_request"}, "capture_source_manager"))
  BY <1>1, <1>2, <1>5, 10 \in 1 .. 22 DEF Heard
<1>23. Undone(C!Hook({"xwayland_surface", "xwayland_ready"}, "xwayland"))
  BY <1>1, <1>2, <1>5, 12 \in 1 .. 22 DEF Heard
<1>24. \A i \in 1 .. 7 : Undone(C!Foundation[i])
  BY <1>4, <1>7, <1>8 DEF C!Foundation
<1>25. \A i \in 1 .. 14 : Undone(C!Shells[i])
  BY <1>4, <1>9, <1>10, <1>11, <1>12, <1>13, <1>14 DEF C!Shells
<1>26. \A i \in 1 .. 8 : Undone(C!Inputs[i])
  BY <1>4, <1>6, <1>15, <1>16, <1>17 DEF C!Inputs
<1>27. \A i \in 1 .. 7 : Undone(C!Protocols[i])
  BY <1>4, <1>18, <1>19, <1>20 DEF C!Protocols
<1>28. \A i \in 1 .. 9 : Undone(C!Captures[i])
  BY <1>4, <1>21, <1>22, <1>23 DEF C!Captures
<1> QED
  <2> SUFFICES ASSUME NEW i \in 1 .. 45
               PROVE  Undone(C!server_init[i])
    OBVIOUS
  <2>1. CASE i <= 7
    BY <1>24, <2>1, CallOfInit
  <2>2. CASE i > 7 /\ i <= 21
    <3>1. i - 7 \in 1 .. 14 /\ C!server_init[i] = C!Shells[i - 7]
      BY <2>2, CallOfInit
    <3> QED
      BY <1>25, <3>1
  <2>3. CASE i > 21 /\ i <= 29
    <3>1. i - 21 \in 1 .. 8 /\ C!server_init[i] = C!Inputs[i - 21]
      BY <2>3, CallOfInit
    <3> QED
      BY <1>26, <3>1
  <2>4. CASE i > 29 /\ i <= 36
    <3>1. i - 29 \in 1 .. 7 /\ C!server_init[i] = C!Protocols[i - 29]
      BY <2>4, CallOfInit
    <3> QED
      BY <1>27, <3>1
  <2>5. CASE i > 36
    <3>1. i - 36 \in 1 .. 9 /\ C!server_init[i] = C!Captures[i - 36]
      BY <2>5, CallOfInit
    <3> QED
      BY <1>28, <3>1
  <2> QED
    BY <2>1, <2>2, <2>3, <2>4, <2>5

\* The listeners that are there when one of the first calls fails.
LEMMA FirstHooks ==
  /\ HookedBefore(2) = {}
  /\ HookedBefore(5) \subseteq C!SessionListeners \X {"session"}
  /\ HookedBefore(7) \subseteq (C!SessionListeners \X {"session"}) \cup {<<"renderer_lost", "renderer">>}
<1>1. /\ Puts(C!server_init[1]) = {} /\ Puts(C!server_init[2]) = {}
      /\ Puts(C!server_init[3]) = {} /\ Puts(C!server_init[5]) = {}
      /\ Puts(C!server_init[4]) = C!SessionListeners \X {"session"}
      /\ Puts(C!server_init[6]) = {"renderer_lost"} \X {"renderer"}
  BY CallOfInit DEF C!Foundation, C!Make, C!Hook, Puts
<1>2. HookedBefore(2) = {}
  BY <1>1 DEF HookedBefore
<1>3. ASSUME NEW h \in HookedBefore(5) PROVE h \in C!SessionListeners \X {"session"}
  <2>1. PICK i \in 1 .. 4 : h \in Puts(C!server_init[i])
    BY <1>3 DEF HookedBefore
  <2>2. i \in {1, 2, 3, 4}
    OBVIOUS
  <2> QED
    BY <1>1, <2>1, <2>2
<1>4. ASSUME NEW h \in HookedBefore(7)
      PROVE  h \in (C!SessionListeners \X {"session"}) \cup {<<"renderer_lost", "renderer">>}
  <2>1. PICK i \in 1 .. 6 : h \in Puts(C!server_init[i])
    BY <1>4 DEF HookedBefore
  <2>2. i \in {1, 2, 3, 4, 5, 6}
    OBVIOUS
  <2> QED
    BY <1>1, <2>1, <2>2
<1> QED
  BY <1>2, <1>3, <1>4

\* What is linked by any of the calls is taken off again.
LEMMA AllAreUndone == \A n \in 1 .. 46 : \A h \in HookedBefore(n) : TakenOff(h)
<1> SUFFICES ASSUME NEW n \in 1 .. 46, NEW h \in HookedBefore(n)
             PROVE  TakenOff(h)
  OBVIOUS
<1>1. PICK i \in 1 .. n - 1 : h \in Puts(C!server_init[i])
  BY DEF HookedBefore
<1>2. i \in 1 .. 45
  BY <1>1
<1> QED
  BY <1>1, <1>2, HooksAreUndone DEF Undone

\* A later call has more before it.
LEMMA MoreBefore ==
  ASSUME NEW m \in 1 .. 46, NEW n \in 1 .. 46, m <= n
  PROVE  HookedBefore(m) \subseteq HookedBefore(n)
BY DEF HookedBefore

\* A call that ends something.
IsEnding(c) == c.do \in {"unhook", "destroy", "clear"}

\* What takes the place of server_finish's calls, and what they are.
LEMMA CallsOfFinish ==
  /\ \A i \in 1 .. 22 : C!server_finish[i] = C!Unhooks[i]
  /\ \A i \in 1 .. 33 : IsEnding(C!server_finish[i])
  /\ \A i \in 1 .. 22 :
       C!server_finish[i].do # "unhook" =>
         \/ C!server_finish[i].what = "bar_manager"
         \/ C!server_finish[i].what = "transient_seat" /\ i = 9
  /\ Takes(C!server_finish[8]) = SeatHook
  /\ C!server_finish[23].what = "backend"
  /\ \A i \in 24 .. 33 : C!server_finish[i].what # "backend"
  /\ \A i \in 23 .. 33 : C!server_finish[i].do # "unhook"
<1> USE DEF C!Unhook, C!Destroy, C!Clear, IsEnding
<1>1. Runs(C!server_finish, C!Unhooks, 22, C!Destroys, 11)
  BY ListsOfCalls, BothRun DEF C!server_finish
<1>2. /\ \A i \in 1 .. 22 : C!server_finish[i] = C!Unhooks[i]
      /\ \A i \in 23 .. 33 : i - 22 \in 1 .. 11 /\ C!server_finish[i] = C!Destroys[i - 22]
  BY <1>1 DEF Runs
<1>3. /\ \A i \in 1 .. 22 :
           /\ IsEnding(C!Unhooks[i])
           /\ C!Unhooks[i].do # "unhook" =>
                \/ C!Unhooks[i].what = "bar_manager"
                \/ C!Unhooks[i].what = "transient_seat" /\ i = 9
  BY DEF C!Unhooks, C!DestroyTransients, C!layer_shell_destroy, C!session_lock_destroy,
         C!idle_inhibit_destroy
<1>4. /\ \A i \in 1 .. 11 : IsEnding(C!Destroys[i]) /\ C!Destroys[i].do # "unhook"
      /\ C!Destroys[1].what = "backend" /\ \A i \in 2 .. 11 : C!Destroys[i].what # "backend"
  BY DEF C!Destroys
<1>5. \A i \in 24 .. 33 : i - 22 \in 2 .. 11 /\ i \in 23 .. 33
  OBVIOUS
<1>6. \A i \in 1 .. 33 : i \in 1 .. 22 \/ i \in 23 .. 33
  OBVIOUS
<1>7. C!server_finish[23] = C!Destroys[1] /\ C!server_finish[8] = C!Unhooks[8]
  BY <1>1 DEF Runs
<1>8. Takes(C!Unhooks[8]) = SeatHook
  <2>1. C!Unhooks[8] = C!DestroyTransients
    BY DEF C!Unhooks
  <2> QED
    BY <2>1 DEF C!DestroyTransients, Takes, SeatHook
<1> HIDE DEF C!Unhook, C!Destroy, C!Clear, IsEnding
<1> QED
  BY <1>2, <1>3, <1>4, <1>5, <1>6, <1>7, <1>8

\* The calls of err, and what it takes off before it.
LEMMA CallsOfErr ==
  \A i \in 1 .. 19 :
    /\ IsEnding(C!Err[i])
    /\ C!Err[i].do # "unhook" =>
         /\ C!Err[i].what \in {"xwayland", "transient_seat", "bar_manager", "scene", "cursor_mgr",
                               "cursor", "allocator", "renderer", "backend", "session", "seat",
                               "output_layout", "display"}
         /\ C!Err[i].what = "xwayland" => i > 1
         /\ C!Err[i].what = "session" => i > 15
         /\ C!Err[i].what = "display" => i > 8
BY DEF C!Err, C!DestroyTransients, C!layer_shell_destroy, C!session_lock_destroy,
       C!idle_inhibit_destroy, C!Unhook, C!Destroy, C!Clear, IsEnding

\* The calls of the other ways out.
LEMMA CallsOfOthers ==
  /\ IsEnding(C!NoBackend[1])
  /\ \A i \in 1 .. 4 :
       /\ IsEnding(C!NoRenderer[i])
       /\ C!NoRenderer[i].do # "unhook" =>
            \/ C!NoRenderer[i].what \in {"backend", "display"}
            \/ C!NoRenderer[i].what = "session" /\ i > 2
  /\ Takes(C!NoRenderer[2]) = C!SessionListeners \X {"session"}
  /\ \A i \in 1 .. 6 :
       /\ IsEnding(C!NoAllocator[i])
       /\ C!NoAllocator[i].do # "unhook" =>
            \/ C!NoAllocator[i].what \in {"backend", "display"}
            \/ C!NoAllocator[i].what = "renderer" /\ i > 1
            \/ C!NoAllocator[i].what = "session" /\ i > 4
  /\ Takes(C!NoAllocator[1]) = {<<"renderer_lost", "renderer">>}
  /\ Takes(C!NoAllocator[4]) = C!SessionListeners \X {"session"}
<1> DEFINE two == <<C!Unhook({"renderer_lost"}, "renderer"), C!Destroy("renderer")>>
<1>1. Runs(C!NoAllocator, two, 2, C!NoRenderer, 4)
  BY ListsOfCalls, BothRun DEF C!NoAllocator
<1>2. /\ \A i \in 1 .. 4 :
           /\ IsEnding(C!NoRenderer[i])
           /\ C!NoRenderer[i].do # "unhook" =>
                \/ C!NoRenderer[i].what \in {"backend", "display"}
                \/ C!NoRenderer[i].what = "session" /\ i > 2
  BY DEF C!NoRenderer, C!Unhook, C!Destroy, C!Clear, IsEnding
<1>3. /\ IsEnding(two[1]) /\ two[1].do = "unhook" /\ IsEnding(two[2]) /\ two[2].what = "renderer"
      /\ Takes(two[1]) = {<<"renderer_lost", "renderer">>}
  BY DEF C!Unhook, C!Destroy, IsEnding, Takes
<1>8. Takes(C!NoRenderer[2]) = C!SessionListeners \X {"session"}
  <2>1. C!NoRenderer[2] = C!Unhook(C!SessionListeners, "session")
    BY DEF C!NoRenderer
  <2> QED
    BY <2>1 DEF C!Unhook, Takes
<1>4. IsEnding(C!NoBackend[1])
  BY DEF C!NoBackend, C!Destroy, IsEnding
<1> HIDE DEF two
<1>5. /\ C!NoAllocator[1] = two[1] /\ C!NoAllocator[2] = two[2]
      /\ C!NoAllocator[4] = C!NoRenderer[2]
      /\ \A i \in 3 .. 6 : i - 2 \in 1 .. 4 /\ C!NoAllocator[i] = C!NoRenderer[i - 2]
  BY <1>1 DEF Runs
<1>6. \A i \in 1 .. 6 : i = 1 \/ i = 2 \/ i \in 3 .. 6
  OBVIOUS
<1>7. \A i \in 3 .. 6 : i - 2 > 2 => i > 4
  OBVIOUS
<1> QED
  BY <1>2, <1>3, <1>4, <1>5, <1>6, <1>7, <1>8

\* The call at hand.
LEMMA AtTheCall ==
  ASSUME InTheList
  PROVE  /\ path = "init" => pc \in 1 .. 45 /\ Len(C!List(path)) = 45 /\ C!Call = C!server_init[pc]
         /\ path = "finish" => pc \in 1 .. 33 /\ C!Call = C!server_finish[pc]
         /\ path = "backend" => pc \in 1 .. 1 /\ C!Call = C!NoBackend[pc]
         /\ path = "renderer" => pc \in 1 .. 4 /\ C!Call = C!NoRenderer[pc]
         /\ path = "allocator" => pc \in 1 .. 6 /\ C!Call = C!NoAllocator[pc]
         /\ path = "err" => pc \in 1 .. 19 /\ C!Call = C!Err[pc]
         /\ path \in Ends => pc \in 1 .. Len(C!List(path)) /\ pc \in 1 .. 33 /\ IsEnding(C!Call)
<1>1. /\ Len(C!server_init) = 45 /\ Len(C!server_finish) = 33 /\ Len(C!NoBackend) = 1
      /\ Len(C!NoRenderer) = 4 /\ Len(C!NoAllocator) = 6 /\ Len(C!Err) = 19
  BY WhatIsListed, ListsOfCalls DEF CallsIn
<1>2. /\ C!List("init") = C!server_init /\ C!List("finish") = C!server_finish
      /\ C!List("backend") = C!NoBackend /\ C!List("renderer") = C!NoRenderer
      /\ C!List("allocator") = C!NoAllocator /\ C!List("err") = C!Err
  BY DEF C!List
<1>3. path \in {"init", "finish", "backend", "renderer", "allocator", "err"} =>
        pc \in 1 .. Len(C!List(path))
  BY DEF InTheList, Ways
<1>4. path = "init" => pc \in 1 .. 45 /\ Len(C!List(path)) = 45 /\ C!Call = C!server_init[pc]
  BY <1>1, <1>2, <1>3 DEF C!Call
<1>5. path = "finish" => /\ pc \in 1 .. 33 /\ C!Call = C!server_finish[pc] /\ IsEnding(C!Call)
  BY <1>1, <1>2, <1>3, CallsOfFinish DEF C!Call
<1>6. path = "backend" => /\ pc \in 1 .. 1 /\ C!Call = C!NoBackend[pc] /\ IsEnding(C!Call)
  <2>1. pc \in 1 .. 1 => pc = 1
    OBVIOUS
  <2> QED
    BY <1>1, <1>2, <1>3, <2>1, CallsOfOthers DEF C!Call
<1>7. path = "renderer" => /\ pc \in 1 .. 4 /\ C!Call = C!NoRenderer[pc] /\ IsEnding(C!Call)
  BY <1>1, <1>2, <1>3, CallsOfOthers DEF C!Call
<1>8. path = "allocator" => /\ pc \in 1 .. 6 /\ C!Call = C!NoAllocator[pc] /\ IsEnding(C!Call)
  BY <1>1, <1>2, <1>3, CallsOfOthers DEF C!Call
<1>9. path = "err" => /\ pc \in 1 .. 19 /\ C!Call = C!Err[pc] /\ IsEnding(C!Call)
  BY <1>1, <1>2, <1>3, CallsOfErr DEF C!Call
<1>10. path \in Ends => pc \in 1 .. Len(C!List(path)) /\ pc \in 1 .. 33 /\ IsEnding(C!Call)
  BY <1>3, <1>5, <1>6, <1>7, <1>8, <1>9 DEF Ends
<1> QED
  BY <1>4, <1>5, <1>6, <1>7, <1>8, <1>9, <1>10

\* At the start nothing is linked.
LEMMA OrderInit == ASSUME C!Init PROVE OrderInv
  BY FirstIsInIt DEF C!Init, OrderInv, InTheList, Unlinked, Linked, SceneMade, Ends

\* A call of server_init goes to the next one or to one of the ways out.
LEMMA InitStep ==
  ASSUME OrderInv, path = "init",
         C!Made \/ C!Failed \/ C!Hooked \/ C!Unhooked \/ C!Destroyed
  PROVE  (Unlinked /\ Linked /\ SceneMade)'
<1>1. /\ pc \in 1 .. 45 /\ Len(C!List(path)) = 45 /\ C!Call = C!server_init[pc]
      /\ Placed(C!Call, pc)
  BY AtTheCall, CallsOfInit DEF OrderInv
<1>2. HookedBefore(pc) \cup Puts(C!Call) \subseteq HookedBefore(pc + 1)
  BY <1>1 DEF HookedBefore
<1>3. HookedBefore(pc) \subseteq HookedBefore(46)
  BY <1>1, MoreBefore
<1>4. /\ hooks \subseteq HookedBefore(pc) /\ devices = {}
      /\ \A i \in 1 .. pc - 1 : LET c == C!server_init[i]
                                IN c.do = "make" /\ c.what \in Scene => c.what \in alive
  BY DEF OrderInv, Linked, SceneMade
<1>5. ASSUME C!Proceed(path), hooks' \subseteq hooks \cup Puts(C!Call), alive \subseteq alive',
             C!Call.do = "make" /\ C!Call.what \in Scene => C!Call.what \in alive',
             devices' = devices
      PROVE  (Unlinked /\ Linked /\ SceneMade)'
  <2>1. \A i \in 1 .. pc : LET c == C!server_init[i]
                           IN c.do = "make" /\ c.what \in Scene => c.what \in alive'
    BY <1>1, <1>4, <1>5
  <2>2. CASE pc < 45
    <3>1. path' = "init" /\ pc' = pc + 1
      BY <1>1, <1>5, <2>2 DEF C!Proceed
    <3> QED
      BY <1>1, <1>2, <1>4, <1>5, <2>1, <3>1 DEF Unlinked, Linked, SceneMade, Ends
  <2>3. CASE pc = 45
    <3>1. path' = "start" /\ pc' = 1
      <4> DEFINE n == Len(C!List(path))
      <4>1. n = 45 /\ pc = 45
        BY <1>1, <2>3
      <4>2. IF pc < n THEN path' = path /\ pc' = pc + 1
                      ELSE /\ path' = IF path = "init" THEN "start" ELSE "over"
                           /\ pc' = 1
        BY <1>5 DEF C!Proceed
      <4> HIDE DEF n
      <4>3. ~ (pc < n)
        BY <4>1
      <4> QED
        BY <4>2, <4>3
    <3>2. Scene \subseteq alive'
      BY <2>1, <2>3, CallsOfInit DEF IsMaking
    <3>3. hooks' \subseteq HookedBefore(46)
      BY <1>2, <1>4, <1>5, <2>3
    <3> QED
      BY <1>4, <1>5, <3>1, <3>2, <3>3 DEF Unlinked, Linked, SceneMade, Ends
  <2> QED
    BY <1>1, <2>2, <2>3
<1>6. CASE C!Made
  BY <1>5, <1>6 DEF C!Made
<1>7. CASE C!Hooked
  <2>1. hooks' \subseteq hooks \cup Puts(C!Call)
    BY <1>7 DEF C!Hooked, Puts
  <2> QED
    BY <1>5, <1>7, <2>1 DEF C!Hooked
<1>8. CASE C!Failed
  <2>1. PICK f \in C!Call.fails : IF f = "on" THEN C!Proceed(path) ELSE path' = f /\ pc' = 1
    BY <1>8 DEF C!Failed
  <2>2. C!Call.do = "make" /\ UNCHANGED <<alive, known, hooks, devices>>
    BY <1>8 DEF C!Failed
  <2>3. CASE f = "on"
    BY <1>1, <1>5, <2>1, <2>2, <2>3 DEF Placed
  <2>4. CASE f # "on"
    <3>1. f \in Ways /\ path' = f /\ pc' = 1
      BY <1>1, <2>1, <2>2, <2>4, WhatIsListed DEF CallsIn, TakesAWay
    <3>2. f \in Ends => hooks \subseteq HookedBefore(Came(f))
      <4>1. CASE f = "backend"
        BY <1>1, <1>4, <2>1, <2>2, <4>1 DEF Placed, Came
      <4>2. CASE f = "renderer"
        BY <1>1, <1>4, <2>1, <2>2, <4>2 DEF Placed, Came
      <4>3. CASE f = "allocator"
        BY <1>1, <1>4, <2>1, <2>2, <4>3 DEF Placed, Came
      <4>4. CASE f \in {"err", "over"}
        BY <1>3, <1>4, <4>4 DEF Came, Ends
      <4> QED
        BY <3>1, <4>1, <4>2, <4>3, <4>4 DEF Ways
    <3> QED
      BY <1>4, <2>2, <3>1, <3>2 DEF Unlinked, Linked, SceneMade, Ways
  <2> QED
    BY <2>3, <2>4
<1>9. ~ C!Unhooked /\ ~ C!Destroyed
  BY <1>1 DEF C!Unhooked, C!Destroyed, Placed
<1> QED
  BY <1>6, <1>7, <1>8, <1>9

\* A call of a list that ends the compositor goes to the next or is the last.
LEMMA EndStep ==
  ASSUME OrderInv, path \in Ends,
         C!Made \/ C!Failed \/ C!Hooked \/ C!Unhooked \/ C!Destroyed
  PROVE  (Unlinked /\ Linked /\ SceneMade)'
<1>1. pc \in 1 .. Len(C!List(path)) /\ pc \in 1 .. 33 /\ IsEnding(C!Call)
  BY AtTheCall DEF OrderInv
<1>2. C!Unhooked \/ C!Destroyed
  BY <1>1 DEF IsEnding, C!Made, C!Failed, C!Hooked
<1>3. C!Proceed(path) /\ devices' \subseteq devices
  BY <1>2 DEF C!Unhooked, C!Destroyed
<1>4. (path' = path /\ pc' = pc + 1) \/ path' = "over"
  BY <1>1, <1>3 DEF C!Proceed, Ends
<1>5. hooks' \subseteq hooks /\ hooks' \cap Takes(C!Call) = {}
  <2>1. CASE C!Unhooked
    BY <2>1 DEF C!Unhooked, Takes
  <2>2. CASE C!Destroyed
    BY <2>2 DEF C!Destroyed, Takes
  <2> QED
    BY <1>2, <2>1, <2>2
<1>6. Unlinked'
  <2> SUFFICES ASSUME path' = path, pc' = pc + 1, NEW i \in 1 .. pc
               PROVE  hooks' \cap Takes(C!List(path)[i]) = {}
    BY <1>1, <1>4 DEF Unlinked, Ends
  <2>1. CASE i = pc
    BY <1>5, <2>1 DEF C!Call
  <2>2. CASE i # pc
    <3>1. i \in 1 .. pc - 1
      BY <1>1, <2>2
    <3> QED
      BY <1>5, <3>1 DEF OrderInv, Unlinked
  <2> QED
    BY <2>1, <2>2
<1>7. Linked'
  BY <1>4, <1>5 DEF OrderInv, Linked, Ends
<1>8. SceneMade'
  <2>1. path = "finish" /\ pc <= 22 => Scene \subseteq alive'
    <3> SUFFICES ASSUME path = "finish", pc <= 22
                 PROVE  Scene \subseteq alive'
      OBVIOUS
    <3>1. Scene \subseteq alive
      BY <1>1 DEF OrderInv, SceneMade
    <3>2. CASE C!Unhooked
      BY <3>1, <3>2 DEF C!Unhooked
    <3>3. CASE C!Destroyed
      <4>1. C!Call.what \in {"bar_manager", "transient_seat"}
        <5>1. C!Call = C!server_finish[pc] /\ pc \in 1 .. 22
          <6>1. pc \in 1 .. 22
            BY <1>1
          <6> QED
            BY <6>1, AtTheCall DEF OrderInv
        <5>2. C!Call.do # "unhook"
          BY <3>3 DEF C!Destroyed
        <5> QED
          BY <5>1, <5>2, CallsOfFinish
      <4>2. alive \ {C!Call.what} \subseteq alive'
        BY <3>3, <4>1 DEF C!Destroyed, C!DiesWith
      <4> QED
        BY <3>1, <4>1, <4>2 DEF Scene
    <3> QED
      BY <1>2, <3>2, <3>3
  <2> QED
    BY <1>1, <1>3, <1>4, <2>1 DEF OrderInv, SceneMade, Ends
<1> QED
  BY <1>6, <1>7, <1>8

\* Each step keeps the invariant.
LEMMA OrderNext == ASSUME OrderInv, [C!Next]_C!vars PROVE OrderInv'
<1>1. InTheList'
  BY InTheListNext DEF OrderInv
<1>2. CASE C!Running /\ (C!Made \/ C!Failed \/ C!Hooked \/ C!Unhooked \/ C!Destroyed)
  <2>1. path = "init" \/ path \in Ends
    BY <1>2 DEF OrderInv, InTheList, C!Running, Ways, Ends
  <2> QED
    BY <1>1, <1>2, <2>1, InitStep, EndStep DEF OrderInv
<1>3. CASE C!BackendStart \/ C!Quit
  BY <1>1, <1>3
  DEF C!BackendStart, C!Quit, OrderInv, Unlinked, Linked, SceneMade, Ends
<1>4. CASE C!NewDevice \/ C!DeviceGone
  BY <1>1, <1>4
  DEF C!NewDevice, C!DeviceGone, OrderInv, Unlinked, Linked, SceneMade, Ends
<1>5. CASE C!TransientSeat
  BY <1>1, <1>5
  DEF C!TransientSeat, OrderInv, Unlinked, Linked, SceneMade, Ends, SeatHook, Scene
<1>6. CASE C!Over \/ UNCHANGED C!vars
  BY <1>1, <1>6 DEF C!Over, C!vars, OrderInv, Unlinked, Linked, SceneMade, Ends
<1> QED
  BY <1>2, <1>3, <1>4, <1>5, <1>6 DEF C!Next

\* What a call destroys has no listener any more, but for what err is excused.
LEMMA NothingIsHeard ==
  ASSUME OrderInv, path \in Ends, C!Call.do \in {"destroy", "clear"},
         NEW h \in hooks, h[2] \in C!DiesWith(C!Call.what)
  PROVE  h[2] \in C!LeftLinked
<1> DEFINE o == C!Call.what
<1>1. o # "display" => h[2] = o
  BY DEF C!DiesWith
<1>2. \A i \in 1 .. pc - 1 : h \notin Takes(C!List(path)[i])
  BY DEF OrderInv, Unlinked
<1>3. /\ path \in Ends \ {"finish"} => h \in HookedBefore(Came(path))
      /\ path = "finish" => h \in HookedBefore(46) \cup SeatHook
  BY DEF OrderInv, Linked
<1>4. C!Call.do # "unhook"
  OBVIOUS
<1> HIDE DEF o
<1>5. CASE path = "backend"
  BY <1>3, <1>5, FirstHooks DEF Came, Ends
<1>6. CASE path = "renderer"
  <2>1. /\ pc \in 1 .. 4 /\ C!Call = C!NoRenderer[pc] /\ C!List(path) = C!NoRenderer
    BY <1>6, AtTheCall DEF OrderInv, C!List
  <2>2. h \in C!SessionListeners \X {"session"}
    BY <1>3, <1>6, FirstHooks DEF Came, Ends
  <2>3. h[2] = "session" /\ h \in Takes(C!NoRenderer[2])
    BY <2>2, CallsOfOthers
  <2>4. ~ (pc > 2)
    <3> SUFFICES ASSUME pc > 2
                 PROVE  FALSE
      OBVIOUS
    <3>1. 2 \in 1 .. pc - 1
      BY <2>1
    <3> QED
      BY <1>2, <2>1, <2>3, <3>1
  <2>5. o \in {"backend", "display"}
    BY <1>4, <2>1, <2>4, CallsOfOthers DEF o
  <2> QED
    BY <2>3, <2>5 DEF C!DiesWith, C!Globals, o
<1>7. CASE path = "allocator"
  <2>1. /\ pc \in 1 .. 6 /\ C!Call = C!NoAllocator[pc] /\ C!List(path) = C!NoAllocator
    BY <1>7, AtTheCall DEF OrderInv, C!List
  <2>2. h \in (C!SessionListeners \X {"session"}) \cup {<<"renderer_lost", "renderer">>}
    BY <1>3, <1>7, FirstHooks DEF Came, Ends
  <2>3. \/ h[2] = "session" /\ h \in Takes(C!NoAllocator[4])
        \/ h[2] = "renderer" /\ h \in Takes(C!NoAllocator[1])
    BY <2>2, CallsOfOthers
  <2>4. pc > 4 => 4 \in 1 .. pc - 1
    BY <2>1
  <2>5. pc > 1 => 1 \in 1 .. pc - 1
    BY <2>1
  <2>6. /\ pc > 4 => h[2] # "session"
        /\ pc > 1 => h[2] # "renderer"
    BY <1>2, <2>1, <2>3, <2>4, <2>5
  <2>7. \/ o \in {"backend", "display"}
        \/ o = "renderer" /\ pc > 1
        \/ o = "session" /\ pc > 4
    BY <1>4, <2>1, CallsOfOthers DEF o
  <2> QED
    BY <2>3, <2>6, <2>7 DEF C!DiesWith, C!Globals, o
<1>8. CASE path = "err"
  <2>1. /\ pc \in 1 .. 19 /\ C!Call = C!Err[pc] /\ C!List(path) = C!Err
    BY <1>8, AtTheCall DEF OrderInv, C!List
  <2>2. TakenOff(h)
    BY <1>3, <1>8, AllAreUndone DEF Came, Ends
  <2>3. /\ o \in {"xwayland", "transient_seat", "bar_manager", "scene", "cursor_mgr",
                  "cursor", "allocator", "renderer", "backend", "session", "seat",
                  "output_layout", "display"}
        /\ o = "xwayland" => pc > 1
        /\ o = "session" => pc > 15
        /\ o = "display" => pc > 8
    BY <1>4, <2>1, CallsOfErr DEF o
  <2>4. /\ pc > 1 => 1 \in 1 .. pc - 1
        /\ pc > 8 => 6 \in 1 .. pc - 1 /\ 7 \in 1 .. pc - 1 /\ 8 \in 1 .. pc - 1
        /\ pc > 15 => 15 \in 1 .. pc - 1
    BY <2>1
  <2>5. /\ pc > 1 => h[2] # "xwayland"
        /\ pc > 8 => h[2] \notin {"session_lock", "idle_inhibit", "layer_shell"}
        /\ pc > 15 => h[2] # "session"
    BY <1>2, <2>1, <2>2, <2>4 DEF TakenOff
  <2>6. CASE o = "display"
    BY <1>8, <2>2, <2>3, <2>5, <2>6 DEF C!DiesWith, C!LeftLinked, C!Globals, TakenOff, Heard, o
  <2>7. CASE o # "display"
    <3>1. h[2] = o
      BY <1>1, <2>7
    <3> QED
      BY <1>8, <2>2, <2>3, <2>5, <3>1 DEF C!LeftLinked, TakenOff, Heard
  <2> QED
    BY <2>6, <2>7
<1>9. CASE path = "finish"
  <2>1. /\ pc \in 1 .. 33 /\ C!Call = C!server_finish[pc] /\ C!List(path) = C!server_finish
    BY <1>9, AtTheCall DEF OrderInv, C!List
  <2>2. CASE h \in SeatHook
    <3>1. h[2] = "transient_seat" /\ h \in Takes(C!server_finish[8])
      BY <2>2, CallsOfFinish DEF SeatHook
    <3>2. ~ (pc > 8)
      <4> SUFFICES ASSUME pc > 8
                   PROVE  FALSE
        OBVIOUS
      <4>1. 8 \in 1 .. pc - 1
        BY <2>1
      <4> QED
        BY <1>2, <2>1, <3>1, <4>1
    <3>3. pc \in 1 .. 22 /\ pc # 9
      BY <2>1, <3>2
    <3>4. o = "bar_manager"
      BY <1>4, <2>1, <3>3, CallsOfFinish DEF o
    <3> QED
      BY <1>1, <3>1, <3>4
  <2>3. CASE h \in HookedBefore(46)
    <3>1. TakenOff(h)
      BY <2>3, AllAreUndone
    <3>2. CASE pc \in 1 .. 22
      <4>1. o \in {"bar_manager", "transient_seat"}
        BY <1>4, <2>1, <3>2, CallsOfFinish DEF o
      <4>2. h[2] = o
        BY <1>1, <4>1
      <4> QED
        BY <3>1, <4>1, <4>2 DEF TakenOff, Heard
    <3>3. CASE pc \in 23 .. 33
      <4>1. PICK j \in 1 .. 22 : h \in Takes(C!Unhooks[j])
        BY <3>1 DEF TakenOff
      <4>2. j \in 1 .. pc - 1 /\ C!server_finish[j] = C!Unhooks[j]
        BY <3>3, CallsOfFinish
      <4> QED
        BY <1>2, <2>1, <4>1, <4>2
    <3> QED
      BY <2>1, <3>2, <3>3
  <2> QED
    BY <1>3, <1>9, <2>2, <2>3
<1> QED
  BY <1>5, <1>6, <1>7, <1>8, <1>9 DEF Ends

\* So no step breaks the order.
LEMMA OrderIsKept ==
  ASSUME OrderInv, [C!Next]_C!vars
  PROVE  C!NoListenerLeft /\ C!SceneStillThere
<1>1. CASE C!Running /\ (C!Made \/ C!Failed \/ C!Hooked \/ C!Unhooked)
  <2>1. alive \subseteq alive' /\ devices' = devices
    BY <1>1 DEF C!Made, C!Failed, C!Hooked, C!Unhooked
  <2> QED
    BY <2>1 DEF C!NoListenerLeft, C!SceneStillThere
<1>2. CASE C!Running /\ C!Destroyed
  <2>1. path \in Ends
    <3>1. path \in Ends \/ path = "init"
      BY <1>2 DEF OrderInv, InTheList, C!Running, Ways, Ends
    <3>2. path # "init"
      BY <1>2, AtTheCall, CallsOfInit DEF OrderInv, C!Destroyed, Placed
    <3> QED
      BY <3>1, <3>2
  <2>2. C!Call.do \in {"destroy", "clear"} /\ hooks' = hooks
    BY <1>2 DEF C!Destroyed
  <2>3. alive \ alive' \subseteq C!DiesWith(C!Call.what)
    BY <1>2 DEF C!Destroyed
  <2>4. C!NoListenerLeft
    BY <2>1, <2>2, <2>3, NothingIsHeard DEF C!NoListenerLeft
  <2>5. C!SceneStillThere
    <3> SUFFICES ASSUME (devices \ devices') \cap {"output", "keyboard"} # {}
                 PROVE  Scene \subseteq alive'
      BY DEF C!SceneStillThere, Scene
    <3>1. C!Call.what = "backend"
      BY <1>2 DEF C!Destroyed, C!Owned
    <3>2. path = "finish"
      BY <2>1 DEF OrderInv, SceneMade, Ends
    <3>3. pc \in 1 .. 33 /\ C!Call = C!server_finish[pc]
      BY <3>2, AtTheCall DEF OrderInv
    <3>4. pc \notin 24 .. 33
      BY <3>1, <3>3, CallsOfFinish
    <3>5. pc <= 23
      BY <3>3, <3>4
    <3>6. Scene \subseteq alive
      BY <3>2, <3>5 DEF OrderInv, SceneMade
    <3> QED
      BY <2>3, <3>1, <3>6 DEF C!DiesWith, Scene
  <2> QED
    BY <2>4, <2>5
<1>3. CASE C!BackendStart
  <2>1. alive' = alive /\ devices = {}
    BY <1>3 DEF C!BackendStart, OrderInv, SceneMade
  <2> QED
    BY <2>1 DEF C!NoListenerLeft, C!SceneStillThere
<1>4. CASE C!NewDevice \/ C!Quit \/ C!Over \/ UNCHANGED C!vars
  BY <1>4 DEF C!NewDevice, C!Quit, C!Over, C!vars, C!NoListenerLeft, C!SceneStillThere
<1>5. CASE C!DeviceGone
  <2>1. alive' = alive /\ Scene \subseteq alive
    BY <1>5 DEF C!DeviceGone, OrderInv, SceneMade
  <2> QED
    BY <2>1 DEF C!NoListenerLeft, C!SceneStillThere, Scene
<1>6. CASE C!TransientSeat
  <2>1. /\ alive \ {"transient_seat"} \subseteq alive' /\ devices' = devices
        /\ \/ alive \subseteq alive'
           \/ hooks' = hooks \ SeatHook
    BY <1>6 DEF C!TransientSeat, SeatHook
  <2>2. hooks \subseteq HookedBefore(46) \cup SeatHook
    BY <1>6 DEF C!TransientSeat, OrderInv, Linked
  <2>3. \A h \in HookedBefore(46) : h[2] # "transient_seat"
    BY AllAreUndone DEF TakenOff, Heard
  <2> QED
    BY <2>1, <2>2, <2>3 DEF C!NoListenerLeft, C!SceneStillThere
<1> QED
  BY <1>1, <1>2, <1>3, <1>4, <1>5, <1>6 DEF C!Next

OrderStaysInv == part = "startup" => OrderInv

\* Before an object is destroyed every listener of the compositor is off its signals,
\* but for those that the label err leaves linked; and outputs and keyboards go while
\* all that their handlers use is there: on every way through server_init, the loop
\* and server_finish, whatever devices and seats came and went (core/server.c).
THEOREM TearDownStaysInOrder == Spec => TearDownInOrder
<1>1. Init => OrderStaysInv
  BY OrderInit DEF Init, OrderStaysInv
<1>2. OrderStaysInv /\ [Next]_vars => OrderStaysInv'
  BY StepOfPart, OrderNext DEF OrderStaysInv
<1>3. OrderStaysInv /\ [Next]_vars => [part = "startup" => C!NoListenerLeft /\ C!SceneStillThere]_vars
  BY StepOfPart, OrderIsKept DEF OrderStaysInv
<1> QED
  BY <1>1, <1>2, <1>3, PTL DEF Spec, TearDownInOrder
=============================================================================
