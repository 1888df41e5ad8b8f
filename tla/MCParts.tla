------------------------------ MODULE MCParts ------------------------------
(***************************************************************************)
(* The parts of the system that are modelled apart from the trees and the  *)
(* desktop, one instance of each.  They share no state, so a behaviour is  *)
(* a behaviour of one of them, its part; the variables of the others keep  *)
(* the value Unused.  Only the two that know of a session lock have a      *)
(* variable in common, and never both use it.                              *)
(***************************************************************************)
EXTENDS Naturals, Sequences, FiniteSets, TLC

CONSTANTS
  Pid, MaxChildren, GraceTries, NoPid, Exe, MaxCrashRestarts, NoExe,
  Key, Bound, Logo, NoKey,
  InputMax, MaxScoreResults, MaxItems, MaxEntries,
  Watched, MaxRetries,
  Window, X11, Workspace, Layer, Output, Primary, None,
  XSurface, Object,
  ThermalZones, Hour, Load, Wrap,
  Spaces, Buffers, Widths,
  Unused

VARIABLES
  process, group, sigchld, child_pids, main, caller, new, slot, live, tries,
  registered, missed, exe, unwritten, pidfile, next, old, crash_restarts,
  raced,
  attached, held, armed, repeat_keycode, locked, told,
  mode, entries, exec_cmds, input, prev_input, cand, filtered, cursor,
  visible_start, need_redraw, repeat_key, outcome, given, strayed,
  loop, served, resume, term, monitors, wake, thread, sock, pipe,
  real, shown, sink, unheard, audio, sink_event, reply, g_vol_pct, retries,
  home, focused, current, layer, plugged, lock, lock_surface, keyboard, dropped,
  desk, queued, sent, silent,
  path, pc, alive, known, hooks, devices,
  ws, xdesk, meter, bar,
  part

supervisorVars ==
  <<process, group, sigchld, child_pids, main, caller, new, slot, live,
    tries, registered, missed, exe, unwritten, pidfile, next, old, crash_restarts,
    raced>>
keyboardVars == <<attached, held, armed, repeat_keycode, told>>
launcherVars ==
  <<mode, entries, exec_cmds, input, prev_input, cand, filtered, cursor,
    visible_start, need_redraw, repeat_key, outcome, given, strayed>>
ubarVars ==
  <<loop, served, resume, term, monitors, wake, thread, sock, pipe,
    real, shown, sink, unheard, audio, sink_event, reply, g_vol_pct, retries>>
focusVars ==
  <<home, focused, current, layer, plugged, lock, lock_surface, keyboard,
    dropped>>
barVars == <<desk, queued, sent, silent>>
startupVars == <<path, pc, alive, known, hooks, devices>>
recordVars == <<ws, xdesk, meter, bar>>
vars == <<supervisorVars, keyboardVars, launcherVars, ubarVars, focusVars,
          barVars, startupVars, recordVars, locked, part>>

----------------------------------------------------------------------------
(* The instances. *)

\* The same program twice in the list of what is started.
Commands == <<CHOOSE e \in Exe : TRUE, CHOOSE e \in Exe : TRUE>>

\* The first letters match in several places, "b" in all lines but in none
\* as well as in the third, and one key types two bytes.
Lines == << <<"a", "b">>, <<"x", "a", "-", "b">>, <<"b", "a">>, <<"a", "b", "a">> >>
Collating == <<" ", "-", "a", "b", "x">>

\* A desktop file that is hidden and one with a second section; two of one name
\* in different directories; the second directory is not read, for the first
\* one has MaxEntries already, but the user's is.
Line(key, value) == [key |-> key, value |-> value]
DesktopEntry == Line("[", "Desktop Entry")
Dirs == << << <<DesktopEntry, Line("Name", <<"b", "a">>), Line("Exec", <<"x", "%%", " ", "%f">>)>>,
              <<DesktopEntry, Line("Name", <<"x">>), Line("Exec", <<"b">>), Line("NoDisplay", "true")>>,
              <<DesktopEntry, Line("Name", <<"a", "b">>), Line("Exec", <<"a">>),
                Line("[", "Desktop Action"), Line("Name", <<"x">>), Line("Exec", <<"b">>)>> >>,
           << <<DesktopEntry, Line("Name", <<"a">>), Line("Exec", <<"x">>)>> >> >>
Home == << <<DesktopEntry, Line("Name", <<"a", "b">>), Line("Exec", <<"b">>)>>,
           <<DesktopEntry, Line("Name", <<"b">>)>> >>
Utf8 == [a |-> <<"a">>, b |-> <<"b", "a">>]

Level == [l \in Layer |-> IF l = "panel" THEN "top" ELSE "overlay"]

Wishes ==
  [l \in Layer |-> IF l = "panel" THEN {"none", "exclusive"}
                   ELSE {"on_demand", "exclusive"}]

\* Two tiles halve the area, and a drag may leave a window as it is, where and as
\* large as a tile, or only as large as one.
Split == {[at |-> "left", size |-> "half"], [at |-> "right", size |-> "half"]}
FloatBox == {[at |-> "middle", size |-> "small"], [at |-> "left", size |-> "half"],
             [at |-> "middle", size |-> "half"]}

S == INSTANCE Supervisor
K == INSTANCE Keyboard
L == INSTANCE LauncherProofs
U == INSTANCE Ubar
F == INSTANCE ShellFocus
B == INSTANCE Bar
C == INSTANCE Startup
D == INSTANCE SizesProofs
X == INSTANCE XWindowsProofs
R == INSTANCE Readings
P == INSTANCE BarScreenProofs

\* The lines and the files above are of the kind the launcher reads.
ASSUME LauncherConstants == L!Constants

\* So are the boxes above.
ASSUME SizesConstants == D!Constants

----------------------------------------------------------------------------
(* A part that is not the one. *)

NoSupervisor ==
  /\ process = Unused /\ group = Unused /\ sigchld = Unused /\ child_pids = Unused
  /\ main = Unused /\ caller = Unused /\ new = Unused /\ slot = Unused
  /\ live = Unused /\ tries = Unused /\ registered = Unused
  /\ missed = Unused /\ exe = Unused /\ unwritten = Unused
  /\ pidfile = Unused /\ next = Unused /\ old = Unused
  /\ crash_restarts = Unused /\ raced = Unused

NoKeyboard ==
  /\ attached = Unused /\ held = Unused /\ armed = Unused
  /\ repeat_keycode = Unused /\ told = Unused

NoLauncher ==
  /\ mode = Unused /\ entries = Unused /\ exec_cmds = Unused /\ given = Unused
  /\ input = Unused /\ prev_input = Unused
  /\ cand = Unused /\ filtered = Unused /\ cursor = Unused
  /\ visible_start = Unused /\ need_redraw = Unused /\ repeat_key = Unused
  /\ outcome = Unused /\ strayed = Unused

NoUbar ==
  /\ loop = Unused /\ served = Unused /\ resume = Unused /\ term = Unused
  /\ monitors = Unused /\ wake = Unused
  /\ thread = Unused /\ sock = Unused /\ pipe = Unused /\ real = Unused
  /\ shown = Unused /\ sink = Unused /\ unheard = Unused
  /\ audio = Unused /\ sink_event = Unused
  /\ reply = Unused /\ g_vol_pct = Unused /\ retries = Unused

NoFocus ==
  /\ home = Unused /\ focused = Unused /\ current = Unused /\ layer = Unused
  /\ plugged = Unused /\ lock = Unused /\ lock_surface = Unused
  /\ keyboard = Unused /\ dropped = Unused

NoBar ==
  /\ desk = Unused /\ queued = Unused /\ sent = Unused /\ silent = Unused

NoStartup ==
  /\ path = Unused /\ pc = Unused /\ alive = Unused /\ known = Unused
  /\ hooks = Unused /\ devices = Unused

\* The parts that keep their state in one variable, but for p.
NoRecord(p) ==
  /\ p # "sizes" => ws = Unused
  /\ p # "xwindows" => xdesk = Unused
  /\ p # "readings" => meter = Unused
  /\ p # "screen" => bar = Unused

AllAlone ==
  /\ NoSupervisor /\ NoKeyboard /\ NoLauncher /\ NoUbar /\ NoFocus /\ NoBar
  /\ NoStartup /\ NoRecord(part) /\ locked = Unused

----------------------------------------------------------------------------
Init ==
  \/ /\ part = "supervisor" /\ S!Init /\ locked = Unused
     /\ NoKeyboard /\ NoLauncher /\ NoUbar
     /\ NoFocus /\ NoBar /\ NoStartup /\ NoRecord(part)
  \/ /\ part = "keyboard" /\ K!Init
     /\ NoSupervisor /\ NoLauncher /\ NoUbar
     /\ NoFocus /\ NoBar /\ NoStartup /\ NoRecord(part)
  \/ /\ part = "launcher" /\ L!Init /\ locked = Unused
     /\ NoSupervisor /\ NoKeyboard /\ NoUbar
     /\ NoFocus /\ NoBar /\ NoStartup /\ NoRecord(part)
  \/ /\ part = "ubar" /\ U!Init /\ locked = Unused
     /\ NoSupervisor /\ NoKeyboard /\ NoLauncher
     /\ NoFocus /\ NoBar /\ NoStartup /\ NoRecord(part)
  \/ /\ part = "focus" /\ F!Init
     /\ NoSupervisor /\ NoKeyboard /\ NoLauncher
     /\ NoUbar /\ NoBar /\ NoStartup /\ NoRecord(part)
  \/ /\ part = "bar" /\ B!Init /\ locked = Unused
     /\ NoSupervisor /\ NoKeyboard /\ NoLauncher
     /\ NoUbar /\ NoFocus /\ NoStartup /\ NoRecord(part)
  \/ /\ part = "startup" /\ C!Init /\ locked = Unused
     /\ NoSupervisor /\ NoKeyboard /\ NoLauncher
     /\ NoUbar /\ NoFocus /\ NoBar /\ NoRecord(part)
  \/ /\ part = "sizes" /\ D!Init /\ AllAlone
  \/ /\ part = "xwindows" /\ X!Init /\ AllAlone
  \/ /\ part = "readings" /\ R!Init /\ AllAlone
  \/ /\ part = "screen" /\ P!Init /\ AllAlone

OnlySupervisor ==
  /\ part = "supervisor"
  /\ UNCHANGED <<keyboardVars, launcherVars, ubarVars, focusVars, barVars,
                 startupVars, recordVars, locked, part>>

OnlyKeyboard ==
  /\ part = "keyboard"
  /\ UNCHANGED <<supervisorVars, launcherVars, ubarVars, focusVars, barVars,
                 startupVars, recordVars, part>>

OnlyLauncher ==
  /\ part = "launcher"
  /\ UNCHANGED <<supervisorVars, keyboardVars, ubarVars, focusVars, barVars,
                 startupVars, recordVars, locked, part>>

OnlyUbar ==
  /\ part = "ubar"
  /\ UNCHANGED <<supervisorVars, keyboardVars, launcherVars, focusVars,
                 barVars, startupVars, recordVars, locked, part>>

OnlyFocus ==
  /\ part = "focus"
  /\ UNCHANGED <<supervisorVars, keyboardVars, launcherVars, ubarVars,
                 barVars, startupVars, recordVars, part>>

OnlyBar ==
  /\ part = "bar"
  /\ UNCHANGED <<supervisorVars, keyboardVars, launcherVars, ubarVars,
                 focusVars, startupVars, recordVars, locked, part>>

OnlyStartup ==
  /\ part = "startup"
  /\ UNCHANGED <<supervisorVars, keyboardVars, launcherVars, ubarVars,
                 focusVars, barVars, recordVars, locked, part>>

\* A part with one variable; others are the variables of the other such parts.
OnlyRecord(p, others) ==
  /\ part = p
  /\ UNCHANGED <<supervisorVars, keyboardVars, launcherVars, ubarVars, focusVars,
                 barVars, startupVars, others, locked, part>>

Next ==
  \/ OnlySupervisor /\ S!Next
  \/ OnlyKeyboard /\ K!Next
  \/ OnlyLauncher /\ L!Next
  \/ OnlyUbar /\ U!Next
  \/ OnlyFocus /\ F!Next
  \/ OnlyBar /\ B!Next
  \/ OnlyStartup /\ C!Next
  \/ OnlyRecord("sizes", <<xdesk, meter, bar>>) /\ D!Next
  \/ OnlyRecord("xwindows", <<ws, meter, bar>>) /\ X!Next
  \/ OnlyRecord("readings", <<ws, xdesk, bar>>) /\ R!Next
  \/ OnlyRecord("screen", <<ws, xdesk, meter>>) /\ P!Next

\* The fairness of the parts that have one and are checked for liveness here.
Fair ==
  \/ OnlySupervisor /\ S!Running /\ S!Main
  \/ OnlyKeyboard /\ K!TimerFires

Spec == Init /\ [][Next]_vars /\ WF_vars(Fair)

----------------------------------------------------------------------------
(* The properties, each explained where it is defined. *)

\* The type invariants.
TypesOK ==
  /\ part = "supervisor" => S!TypeOK
  /\ part = "keyboard" => K!TypeOK
  /\ part = "launcher" => L!TypeOK
  /\ part = "ubar" => U!TypeOK
  /\ part = "focus" => F!TypeOK
  /\ part = "bar" => B!TypeOK
  /\ part = "startup" => C!TypeOK
  /\ part = "sizes" => D!TypeOK
  /\ part = "xwindows" => X!TypeOK
  /\ part = "readings" => R!TypeOK
  /\ part = "screen" => P!TypeOK

\* Every child with a slot is tracked, and only a child reaped before it was
\* stored leaves its pid in the table.
TableTracksChildren == part = "supervisor" => S!TableTracksChildren

\* No registered child outlives an orderly end.
NothingOutlives == part = "supervisor" => S!NothingOutlives

\* Autostart starts a program once, also across an execv.
OneInstance == part = "supervisor" => S!OneInstance

\* A crash loop does not stay in one address space.
CrashLoopReachesExec == part = "supervisor" => S!CrashLoopReachesExec

\* The repeat timer runs a binding only for a key that is down.
RepeatsWhatIsHeld == part = "keyboard" => K!RepeatsWhatIsHeld

\* No client believes a key to be down that is up.
NoStuckKey == part = "keyboard" => K!NoStuckKey

\* The timer of a released key does not stay armed.
RepeatEnds ==
  (part = "keyboard" /\ K!RepeatsInVain) ~> (part = "keyboard" => ~K!RepeatsInVain)

\* The list shows the best of all matching lines.
ShowsBestMatches == part = "launcher" => L!ShowsBestMatches

\* While there are results one of them is selected.
SelectionIsAResult == part = "launcher" => L!SelectionIsAResult

\* No change of a watched value is lost between ubar's threads.
NoChangeIsLost == part = "ubar" => U!NoChangeIsLost

\* The focused window of the displayed workspace gets the keyboard back.
KeyboardComesBack == part = "focus" => F!KeyboardComesBack

\* A window that has the keyboard is the focused one of its workspace.
TypingGoesToFocused == part = "focus" => F!TypingGoesToFocused

\* A bar has been told of every announced change once the loop is idle.
BarIsTold == part = "bar" => B!BarIsTold

\* A visible window is drawn and sized as its state says.
SizesAreSent == part = "sizes" => D!SizesAreSent

\* Pointers to X11 windows and listeners on them end in time.
XPointersLive == part = "xwindows" => X!XPointersLive

\* Only the focused window has a frame.
FrameMarksFocus == part = "xwindows" => X!FrameMarksFocus

\* A reading shown is not left over from an earlier one.
ReadingsAreCurrent == part = "readings" => R!ReadingsAreCurrent

\* The bar shows what it was told of and what it has read.
ScreenIsCurrent == part = "screen" => P!ScreenIsCurrent

\* No object is destroyed with a listener of the compositor on it, and outputs
\* and keyboards before what their handlers use.
TearDownInOrder ==
  [][part = "startup" => C!NoListenerLeft /\ C!SceneStillThere]_vars
============================================================================
