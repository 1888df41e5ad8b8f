----------------------------- MODULE Supervisor -----------------------------
(***************************************************************************)
(* The life of the compositor process (core/main.c): start, autostart with *)
(* pid files, the event loop, crashes caught a few times in the process    *)
(* and then by executing it anew, and the end, which terminates the        *)
(* children (Children).                                                    *)
(*                                                                         *)
(* An execv keeps the pid, hence the children, and the pid files; it       *)
(* clears the memory, hence the table and the count of crashes, and the    *)
(* SIGCHLD handler until server_init installs it again.                    *)
(*                                                                         *)
(* Abstracted: options, the content of commands (a command is the key of   *)
(* its pid file, the hash of its first word), and crashes outside          *)
(* wl_display_run other than the one the recovery itself can cause.        *)
(***************************************************************************)
EXTENDS Children, Sequences

CONSTANTS
  Exe,              \* executables, as far as pid files tell them apart
  Commands,         \* autostart[] and then the startup command, by executable
  MaxCrashRestarts, \* UWM_MAX_CRASH_RESTARTS
  NoExe

VARIABLES
  exe,            \* [Pid -> Exe \cup {NoExe}], what an autostarted child runs
  unwritten,      \* children that have not written their pid file yet
  pidfile,        \* [Exe -> Pid \cup {NoPid}], NoPid: no file
  next,           \* index of the next command to start
  old,            \* the pid spawn_cmd read from the file
  crash_restarts,
  raced           \* auxiliary: checked while an instance had not written

superVars == <<exe, unwritten, pidfile, next, old, crash_restarts, raced>>
vars == <<childVars, superVars>>

Startup == {"exec", "init", "backend", "clean", "autostart", "checked"}
Gone == {"gone", "killed"}
Places == Startup \cup {"run", "crashed", "recover"}
            \cup Registering \cup Terminating \cup Gone

Init ==
  /\ ChildInit
  /\ main = "exec"
  /\ exe = [p \in Pid |-> NoExe]
  /\ unwritten = {}
  /\ pidfile = [e \in Exe |-> NoPid]
  /\ next = 1 /\ old = NoPid
  /\ crash_restarts = 0
  /\ raced = {}

\* The thread goes from one place to another and nothing else changes.
Go(from, to) ==
  /\ main = from /\ main' = to
  /\ UNCHANGED <<process, group, sigchld, child_pids, caller, new, slot, live,
                 tries, registered, missed>>

----------------------------------------------------------------------------
(* Start. *)

\* server_init installs the handlers before anything else; it may fail.
InstallHandlers == Go("exec", "init") /\ UNCHANGED superVars

ServerInit ==
  /\ \/ Go("init", "backend")
     \/ Go("init", "gone")
     \/ main = "init" /\ main' = "backend" /\ \E p \in Pid : ForkHelper(p)
  /\ UNCHANGED superVars

\* A backend that does not start ends in server_finish.
BackendStart ==
  /\ main = "backend"
  /\ Go("backend", "clean") \/ Terminate
  /\ UNCHANGED superVars

LivePidFiles_none == [e \in Exe |-> NoPid]
LivePidFiles == [e \in Exe |-> IF Alive(pidfile[e]) THEN pidfile[e] ELSE NoPid]

\* clean_pid_dir removes the files whose process is gone.
CleanPidDir ==
  /\ Go("clean", "autostart")
  /\ pidfile' = LivePidFiles
  /\ next' = 1
  /\ UNCHANGED <<exe, unwritten, old, crash_restarts, raced>>

\* spawn_cmd returns if the file names a process that exists.
CheckPidFile ==
  /\ next <= Len(Commands)
  /\ LET pid == pidfile[Commands[next]]
     IN IF Alive(pid)
        THEN /\ Go("autostart", "autostart")
             /\ next' = next + 1
             /\ UNCHANGED <<old, raced>>
        ELSE /\ Go("autostart", "checked")
             /\ old' = pid
             /\ raced' = raced \cup ({Commands[next]} \cap {exe[p] : p \in unwritten})
             /\ UNCHANGED next
  /\ UNCHANGED <<exe, unwritten, pidfile, crash_restarts>>

\* A stale file goes; fork may fail.
Spawn ==
  /\ main = "checked"
  /\ \/ /\ Go("checked", "autostart")
        /\ UNCHANGED <<exe, unwritten>>
     \/ \E p \in Pid :
          /\ Fork(p, "autostart")
          /\ exe' = [exe EXCEPT ![p] = Commands[next]]
          /\ unwritten' = unwritten \cup {p}
  /\ pidfile' = IF old = NoPid THEN pidfile
                ELSE [pidfile EXCEPT ![Commands[next]] = NoPid]
  /\ old' = NoPid /\ next' = next + 1
  /\ UNCHANGED <<crash_restarts, raced>>

\* The child writes its own pid, after its setsid and before its exec.
WritePidFile(p) ==
  /\ p \in unwritten /\ process[p] = "child" /\ group[p] = "leads"
  /\ pidfile' = [pidfile EXCEPT ![exe[p]] = p]
  /\ unwritten' = unwritten \ {p}
  /\ UNCHANGED <<childVars, exe, next, old, crash_restarts, raced>>

EnterLoop ==
  /\ next > Len(Commands)
  /\ Go("autostart", "run")
  /\ UNCHANGED superVars

----------------------------------------------------------------------------
(* The event loop. *)

\* A key binding starts a program; XWayland gets ready and the environment is
\* exported again.
KeySpawn ==
  /\ main = "run"
  /\ \E p \in Pid : Fork(p, "run")
  /\ UNCHANGED superVars

XWaylandReady ==
  /\ main = "run" /\ main' = "run"
  /\ \E p \in Pid : ForkHelper(p)
  /\ UNCHANGED superVars

Quit ==
  /\ main = "run"
  /\ Terminate
  /\ UNCHANGED superVars

Counted_not == crash_restarts
Counted == crash_restarts + 1

\* crash_handler jumps out of wl_display_run.
Crash ==
  /\ Go("run", "crashed")
  /\ crash_restarts' = Counted
  /\ UNCHANGED <<exe, unwritten, pidfile, next, old, raced>>

\* Within the budget: the session's listeners are rebuilt.  Without a session
\* uwm_rebuild_session_listeners reads through a null pointer, and with the
\* jump buffer invalid that ends the process.
Recover ==
  /\ crash_restarts < MaxCrashRestarts
  /\ Go("crashed", "recover") \/ Go("crashed", "killed")
  /\ UNCHANGED superVars

Rerun == Go("recover", "run") /\ UNCHANGED superVars

\* The budget is spent: execv, and server_finish if that returns.
ReExec ==
  /\ main = "crashed" /\ crash_restarts >= MaxCrashRestarts
  /\ \/ /\ main' = "exec"
        /\ child_pids' = [s \in Slot |-> NoPid]
        /\ sigchld' = FALSE
        /\ caller' = "run" /\ new' = NoPid /\ slot' = 1 /\ live' = {} /\ tries' = 0
        /\ registered' = {} /\ missed' = {}
        /\ next' = 1 /\ old' = NoPid /\ crash_restarts' = 0
        /\ UNCHANGED <<process, group>>
     \/ Terminate /\ UNCHANGED <<next, old, crash_restarts>>
  /\ UNCHANGED <<exe, unwritten, pidfile, raced>>

----------------------------------------------------------------------------
Main ==
  \/ InstallHandlers \/ ServerInit \/ BackendStart \/ CleanPidDir
  \/ CheckPidFile \/ Spawn \/ EnterLoop
  \/ Recover \/ Rerun \/ ReExec
  \/ (Store \/ WaitOnce \/ TakeSlot \/ ReadSlot("gone") \/ Grace("gone")
        \/ Wake \/ Kill("gone")) /\ UNCHANGED superVars

\* What happens to the loop, and around the process.
Environment ==
  \/ KeySpawn \/ XWaylandReady \/ Quit \/ Crash
  \/ \E p \in Pid : WritePidFile(p) \/ (Setsid(p) /\ UNCHANGED superVars)
  \/ /\ Reap \/ \E p \in Pid : Exit(p, main # "exec") \/ Recycle(p)
     /\ UNCHANGED <<pidfile, next, old, crash_restarts, raced>>
     /\ exe' = [p \in Pid |-> IF process'[p] = "child" THEN exe[p] ELSE NoExe]
     /\ unwritten' = {p \in unwritten : process'[p] = "child"}

Running == main \notin Gone

\* The process is over.
Over == ~Running /\ UNCHANGED vars

Next == (Running /\ (Main \/ Environment)) \/ Over

\* Only the compositor's own steps are fair: nobody makes a child exit, call
\* setsid or write its file, delivers a crash or quits.
Spec == Init /\ [][Next]_vars /\ WF_vars(Running /\ Main)

----------------------------------------------------------------------------
(* Properties. *)

TypeOK ==
  /\ process \in [Pid -> State] /\ group \in [Pid -> GroupState]
  /\ child_pids \in [Slot -> Pid \cup {NoPid}]
  /\ main \in Places /\ caller \in {"autostart", "run"}
  /\ new \in Pid \cup {NoPid} /\ slot \in 1 .. MaxChildren + 1
  /\ live \subseteq Pid /\ tries \in 0 .. GraceTries
  /\ registered \subseteq Pid /\ missed \subseteq Pid
  /\ exe \in [Pid -> Exe \cup {NoExe}] /\ unwritten \subseteq Pid
  /\ pidfile \in [Exe -> Pid \cup {NoPid}]
  /\ next \in 1 .. Len(Commands) + 1 /\ old \in Pid \cup {NoPid}
  /\ crash_restarts \in 0 .. MaxCrashRestarts
  /\ raced \subseteq Exe
  /\ sigchld \in BOOLEAN

\* An orderly end leaves none of the children of this life that had a slot and
\* have become what the walk can signal: each has exited by itself or got a
\* SIGKILL, however late it exits, whenever the handler runs and whatever the
\* walk had read (child.c:72-113, main.c:304-308).  What may remain is a child
\* that has not come to its setsid when the compositor looks for the last time: its
\* group does not exist, and child.c:101 takes it for gone, against the promise of
\* main.c:156-157, that "nothing outlives the session scope".  So may the env
\* helpers, the children that found the table full and those of a life that ended
\* in an execv.
NothingOutlives ==
  main = "gone" =>
    \A p \in registered : process[p] = "child" => group[p] = "due"

\* Crashes that go on do not spin in one address space: again and again the
\* program is executed anew (main.c:20-32, 271-291).
CrashLoopReachesExec == []<>(main = "crashed") => []<>(main = "exec")

\* A program is not started twice, not even when a crash has the compositor
\* executed anew and autostart runs again: two instances run only if a command
\* was checked while an instance of its executable ran that had not written
\* its file yet (main.c:116-189).
OneInstance ==
  \A p, q \in Pid :
    (p # q /\ exe[p] = exe[q] /\ exe[p] # NoExe) => exe[p] \in raced
============================================================================
