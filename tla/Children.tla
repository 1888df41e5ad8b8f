------------------------------ MODULE Children ------------------------------
(***************************************************************************)
(* The processes uwm starts and the table it remembers them in             *)
(* (core/child.c, the SIGCHLD handler of core/server.c, and the fork       *)
(* helpers of input/actions.c and core/session_env.c).                     *)
(*                                                                         *)
(* The compositor has one thread, whose place in the code is main, and one *)
(* signal handler that reaps children, which runs between any two of its   *)
(* steps.  The kernel's process table is state: a pid is free, a child of  *)
(* uwm, a zombie that nobody has waited for, or, after it was reaped,      *)
(* somebody else's process.  So are its process groups: a child leads one  *)
(* from its own setsid on, which may come late after the fork, and until   *)
(* then a signal to the group reaches nobody.  Children exit whenever they *)
(* like, with or without the SIGTERM of children_terminate, so the signal  *)
(* itself needs no state.                                                  *)
(*                                                                         *)
(* Abstracted: signal masks and dispositions, the subtree of a child (its  *)
(* group leader stands for it), and a kill that is not permitted.          *)
(***************************************************************************)
EXTENDS Naturals, FiniteSets

CONSTANTS
  Pid,        \* process ids the kernel hands out
  MaxChildren,\* UWM_MAX_CHILDREN
  GraceTries, \* UWM_CHILD_GRACE_TRIES
  NoPid       \* 0 in a slot

Slot == 1 .. MaxChildren

VARIABLES
  process,    \* [Pid -> State], the kernel's process table
  group,      \* [Pid -> GroupState], the kernel's process groups
  sigchld,    \* SIGCHLD is pending
  child_pids, \* [Slot -> Pid \cup {NoPid}]
  main,       \* where the thread is
  caller,     \* where child_register returns to
  new,        \* the pid fork returned, or the one children_terminate read
  slot,       \* the slot it was stored in, or the next one to look at
  live,       \* the pids children_terminate took out of the table
  tries,      \* sleeps of the grace period so far
  registered, \* auxiliary: children that were given a slot and are not reaped
  missed      \* auxiliary: pids reaped between their fork and their store

childVars == <<process, group, sigchld, child_pids, main, caller, new, slot,
               live, tries, registered, missed>>

State == {"free", "child", "zombie", "other"}

\* No group, a child that has not called setsid yet, a group named after its leader.
GroupState == {"none", "due", "leads"}

\* child_register and uwm_children_terminate, statement by statement
Registering == {"forked", "stored"}
Terminating == {"walk", "taken", "grace", "asleep", "kill"}

Free == {p \in Pid : process[p] = "free"}
Zombies == {p \in Pid : process[p] = "zombie"}
Tracked == {child_pids[s] : s \in Slot} \ {NoPid}
FreeSlots_any == Slot
FreeSlots == {s \in Slot : child_pids[s] = NoPid}

\* kill(pid, 0) finds a process, be it a zombie or somebody else's
Alive(p) == p # NoPid /\ process[p] # "free"

\* kill(-pid, 0) finds a process group; a zombie still counts as its leader
HasGroup(p) == process[p] # "free" /\ group[p] = "leads"

ChildInit ==
  /\ process = [p \in Pid |-> "free"]
  /\ group = [p \in Pid |-> "none"]
  /\ sigchld = FALSE
  /\ child_pids = [s \in Slot |-> NoPid]
  /\ caller = "run" /\ new = NoPid /\ slot = 1
  /\ live = {} /\ tries = 0
  /\ registered = {} /\ missed = {}

----------------------------------------------------------------------------
(* The children and the rest of the system. *)

\* A child exits.  SIGCHLD stays pending until the handler has run; without a
\* handler it is lost.
Exit(p, handled) ==
  /\ process[p] = "child"
  /\ process' = [process EXCEPT ![p] = "zombie"]
  /\ sigchld' = handled
  /\ UNCHANGED <<group, child_pids, main, caller, new, slot, live, tries,
                 registered, missed>>

\* The child, after the fork and before its exec.
Setsid(p) ==
  /\ process[p] = "child" /\ group[p] = "due"
  /\ group' = [group EXCEPT ![p] = "leads"]
  /\ UNCHANGED <<process, sigchld, child_pids, main, caller, new, slot, live,
                 tries, registered, missed>>

\* A pid nobody uses is given to a process of another program, which may lead a
\* group, and which ends.
Recycle(p) ==
  /\ \/ /\ process[p] = "free"
        /\ process' = [process EXCEPT ![p] = "other"]
        /\ \E g \in {"none", "leads"} : group' = [group EXCEPT ![p] = g]
     \/ /\ process[p] = "other"
        /\ process' = [process EXCEPT ![p] = "free"]
        /\ group' = [group EXCEPT ![p] = "none"]
  /\ UNCHANGED <<sigchld, child_pids, main, caller, new, slot, live, tries,
                 registered, missed>>

\* uwm_child_reaped clears the slots that hold one of these pids.
Cleared(pids) ==
  [s \in Slot |-> IF child_pids[s] \in pids THEN NoPid ELSE child_pids[s]]

\* sigchld_handler waits for every zombie and reports it; the signal cuts a nanosleep short.
Reap ==
  /\ sigchld
  /\ sigchld' = FALSE
  /\ process' = [p \in Pid |-> IF p \in Zombies THEN "free" ELSE process[p]]
  /\ group' = [p \in Pid |-> IF p \in Zombies THEN "none" ELSE group[p]]
  /\ child_pids' = Cleared(Zombies)
  /\ registered' = registered \ Zombies
  /\ missed' = (missed \ Zombies)
                 \cup {p \in Zombies : main = "forked" /\ p = new}
  /\ main' = IF main = "asleep" THEN "grace" ELSE main
  /\ UNCHANGED <<caller, new, slot, live, tries>>

----------------------------------------------------------------------------
(* Starting a child: fork, then child_register, then on to where the       *)
(* caller continues.                                                       *)

Fork(p, back) ==
  /\ p \in Free
  /\ process' = [process EXCEPT ![p] = "child"]
  /\ group' = [group EXCEPT ![p] = "due"]
  /\ new' = p /\ caller' = back /\ main' = "forked"
  /\ UNCHANGED <<sigchld, child_pids, slot, live, tries, registered, missed>>

\* spawn_env_helper does not register its one-shot child, which stays in the
\* compositor's group.
ForkHelper(p) ==
  /\ p \in Free
  /\ process' = [process EXCEPT ![p] = "child"]
  /\ UNCHANGED <<group, sigchld, child_pids, caller, new, slot, live, tries,
                 registered, missed>>

\* The first free slot takes the pid; a full table is only logged.
Store ==
  /\ main = "forked"
  /\ IF FreeSlots # {}
     THEN /\ \E s \in FreeSlots :
               /\ \A t \in FreeSlots : s <= t
               /\ child_pids' = [child_pids EXCEPT ![s] = new]
               /\ slot' = s
          /\ main' = "stored"
          /\ registered' =
               IF process[new] = "child" THEN registered \cup {new} ELSE registered
          /\ UNCHANGED new
     ELSE /\ main' = caller
          /\ new' = NoPid
          /\ UNCHANGED <<child_pids, slot, registered>>
  /\ UNCHANGED <<process, group, sigchld, caller, live, tries, missed>>

\* waitpid(pid, NULL, WNOHANG) == pid says that the child is gone.
WaitOnce ==
  /\ main = "stored"
  /\ IF process[new] = "zombie"
     THEN /\ process' = [process EXCEPT ![new] = "free"]
          /\ group' = [group EXCEPT ![new] = "none"]
          /\ child_pids' = [child_pids EXCEPT ![slot] = NoPid]
          /\ registered' = registered \ {new}
     ELSE UNCHANGED <<process, group, child_pids, registered>>
  /\ main' = caller /\ new' = NoPid /\ slot' = 1
  /\ UNCHANGED <<sigchld, caller, live, tries, missed>>

----------------------------------------------------------------------------
(* uwm_children_terminate. *)

Terminate ==
  /\ main' = "walk"
  /\ slot' = 1 /\ live' = {} /\ tries' = 0
  /\ UNCHANGED <<process, group, sigchld, child_pids, caller, new, registered,
                 missed>>

WalkIsOver_early == slot >= MaxChildren
WalkIsOver == slot > MaxChildren

\* The walk reads a slot, and only then clears it: the handler may have
\* cleared it in between.  At the end every group gets a SIGTERM.
ReadSlot(return) ==
  /\ main = "walk"
  /\ IF WalkIsOver
     THEN /\ main' = IF live = {} THEN return ELSE "grace"
          /\ UNCHANGED <<new, slot>>
     ELSE IF child_pids[slot] = NoPid
          THEN slot' = slot + 1 /\ UNCHANGED <<main, new>>
          ELSE new' = child_pids[slot] /\ main' = "taken" /\ UNCHANGED slot
  /\ UNCHANGED <<process, group, sigchld, child_pids, caller, live, tries, registered,
                 missed>>

TakeSlot ==
  /\ main = "taken"
  /\ child_pids' = [child_pids EXCEPT ![slot] = NoPid]
  /\ live' = live \cup {new}
  /\ new' = NoPid /\ slot' = slot + 1 /\ main' = "walk"
  /\ UNCHANGED <<process, group, sigchld, caller, tries, registered, missed>>

\* Up to GraceTries times: return if all groups are gone, else sleep.  A child
\* that has no group yet counts as gone.
Grace(return) ==
  /\ main = "grace"
  /\ IF tries = GraceTries
     THEN main' = "kill" /\ UNCHANGED tries
     ELSE IF \A p \in live : ~HasGroup(p)
          THEN main' = return /\ UNCHANGED tries
          ELSE main' = "asleep" /\ tries' = tries + 1
  /\ UNCHANGED <<process, group, sigchld, child_pids, caller, new, slot, live,
                 registered, missed>>

Wake ==
  /\ main = "asleep" /\ main' = "grace"
  /\ UNCHANGED <<process, group, sigchld, child_pids, caller, new, slot, live, tries,
                 registered, missed>>

\* SIGKILL for the groups that are left, whoever leads them by now.
Killed == {p \in live : HasGroup(p)}
Kill(return) ==
  /\ main = "kill"
  /\ process' = [p \in Pid |->
       IF p \notin Killed THEN process[p]
       ELSE IF process[p] = "other" THEN "free" ELSE "zombie"]
  /\ group' = [p \in Pid |->
       IF p \in Killed /\ process[p] = "other" THEN "none" ELSE group[p]]
  /\ sigchld' = (sigchld \/ \E p \in Killed : process[p] = "child")
  /\ main' = return
  /\ UNCHANGED <<child_pids, caller, new, slot, live, tries, registered, missed>>

----------------------------------------------------------------------------
(* What the table is for. *)

\* No child gets lost: one that was given a slot and has not exited is in the
\* table, or has been taken out of it by the walk that is going to signal it,
\* whatever the handler does in between (child.c:41-70, 76-82).
RegisteredIsTracked ==
  \A p \in registered :
    process[p] = "child" =>
      p \in Tracked \cup live \cup (IF main = "taken" THEN {new} ELSE {})

\* A pid in the table outside child_register belongs to a child of uwm, or to
\* a zombie the pending SIGCHLD will clear.  The exception is a child that
\* exited and was reaped between its fork and its store: waitpid then finds no
\* child, the slot keeps the dead pid, and the table may name somebody else's
\* process from then on (child.c:49-57).
DeadPidOnlyIfMissed ==
  main \notin Registering =>
    \A p \in Tracked :
      \/ process[p] = "child"
      \/ (process[p] = "zombie" /\ sigchld)
      \/ p \in missed

\* The table and the children agree, in both directions (child.c:41-82).
TableTracksChildren == RegisteredIsTracked /\ DeadPidOnlyIfMissed

\* What the comment at child.c:51-55 promises: "One non-blocking wait settles
\* both, so a recycled pid can never end up in the table".
NoDeadPidInTable ==
  main \notin Registering =>
    \A p \in Tracked : process[p] = "child" \/ (process[p] = "zombie" /\ sigchld)
============================================================================
