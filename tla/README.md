# Verification of uwm

uwm is a tiling Wayland compositor in C on wlroots, with a status bar (`ubar`)
and a launcher (`ulaunch`) beside it. This directory holds TLA+ models of the
three programs, TLC configurations that check them on small instances, and TLAPS
proofs about the core for every size. The models are translated from the
source; `PROJECT.json` maps every definition to the lines it stands for.

    tlc -workers 2 -config BspTree.cfg MCBspTree     # a run
    tlapm BspTreeProofs.tla                          # the proofs

## The system

uwm is one process. wlroots calls its listeners one at a time from the event
loop, so a handler runs to its end before the next one starts and is one action
of a model. Only the SIGCHLD handler interrupts other code, and only child
processes (autostart, spawned programs, `ubar`, `ulaunch`) run beside it. `ubar` is
a program with threads: a loop and three watchers, which talk through pipes.
`ulaunch` is a single loop.

| Component (source) | State | Operations | Interacts with |
|---|---|---|---|
| BSP trees (`wm/bsp.c`, `bsp_nav.c`) | node pool and free list, a root per workspace, a cached leaf per window | insert, remove, restore, find, swap, rotate, resize | called by every window handler |
| Floating, fullscreen (`wm/floating.c`) | saved tree position, floating and fullscreen flags, per-workspace fullscreen window | toggle_floating, toggle_fullscreen | trees, lists, layers |
| Rules (`wm/rules.c`) | rules of the configuration | apply to a window as it is mapped | trees, lists, workspaces |
| Windows (`wm/window.c`, `window_xwayland.c`, `toplevel.c`) | window objects, global list, focus | create, map, unmap, destroy, requests | everything |
| Workspaces (`wm/workspace.c`) | tiled and floating list, focused, last focused, monocle, output | switch, show, hide, move window, cycle | outputs, focus |
| Layout and borders (`wm/bsp_arrange.c`, `layout.c`, `border.c`) | rectangles, visibility | arrange, monocle | trees, outputs |
| Outputs (`output/output.c`, `core/output_manager.c`) | list of outputs, the workspace each shows, the active one | plug, unplug, set workspace, configure | workspaces, bar, layers |
| Input (`input/*.c`) | grab, key repeat timer, key bindings | keys, buttons, motion, actions | windows, workspaces, lock |
| Layer shell, lock, idle (`shell/*.c`) | layer surfaces, lock surfaces, inhibitors | map, unmap, lock, unlock | focus, outputs |
| Bar protocol (`ui/uwm_bar.c`) | clients, last state sent | notify | outputs, windows |
| Children (`core/child.c`) | table of 512 pids | register, reap (signal), terminate | supervisor, actions |
| Supervisor (`core/main.c`) | restart count, pid file | crash, re-exec, autostart | children |
| Set-up and tear-down (`core/server.c`) | the objects of the server and the listeners on them | server_init and its failures, server_finish, rebuilding the session's listeners | everything |
| ubar (`tools/ubar`) | values shown, what readings keep, pipes, buffers | poll, read, draw, click, end | bar protocol, sound server, kernel |
| ulaunch (`tools/ulaunch`) | entries, query, results, selection | keys, filter, scroll, choose | standard input |

What makes each correct, in short:

* **Trees**: the pointers form binary trees; a window that is tiled is in
  exactly one of them, its own workspace's, once; no node leaks; a lookup is
  never fooled by a stale cache; an exhausted pool damages nothing; moving one
  window leaves the order of all others alone; floating and tiling again is the
  identity.
* **Windows and workspaces**: a window is in exactly one list of its own
  workspace; what is focused exists and is there; what is visible is on a
  workspace that an output shows; at most one window is fullscreen per
  workspace.
* **Outputs**: output -> workspace and workspace -> output are inverse to each
  other; no window is lost when an output goes.
* **Input**: a grab ends with its window, and the client is told its last size; a
  repeating binding ends with its key; no client believes a released key down.
* **Shell**: the keyboard comes back to the focused window from launchers and
  locks; the bar is told of every change that is announced.
* **Children**: the table holds exactly the live children; none outlives the
  session (but for the cases under "Known limits"); no pid is signalled that is no
  longer ours.
* **Supervisor**: crashes end in a fresh program image; a program is started once.
* **Set-up and tear-down**: nothing is destroyed while something still listens to it.
* **ubar**: no change is lost between its threads; what is shown is what was last
  read; SIGTERM ends it.
* **ulaunch**: the list shows the best matches; one of them is selected.

The hard behaviours are long sequences of legal calls over shared pointers
(stale caches, objects freed while remembered elsewhere), an allocation that
fails half way, hotplug in between, a crash in between, and the true
interleavings: the SIGCHLD handler in the compositor, the threads of `ubar`.
The hazards are listed line by line under "hazards" in `PROJECT.json`.

## The modules

| Module | Models |
|---|---|
| `LeafOrder` | abstract: a sequence of tiled windows per workspace; a window enters, leaves, moves or trades places |
| `BspTree` | the node pool, the trees and every handler that edits them |
| `BspTreeProofs` | theorems about the invariants of `BspTree`, and that it implements `LeafOrder` |
| `Lemmas` | facts that several proofs need: induction, recursion, sequences without duplicates |
| `BspRoundTrip` | `BspTree` with a memory of the last layout: floating and tiling again |
| `BspRules` | `BspTree` with workspace rules |
| `Desktop` | windows, lists, focus, visibility, fullscreen, monocle, workspaces and outputs |
| `DesktopProofs` | theorems about `Desktop`, and about `Desktop` with one output |
| `Sizes` | where windows are drawn and which size clients are asked for; the pointer grab |
| `XWindows` | the life of X11 windows, menus among them, and the frame around the focus |
| `Keyboard` | key events, key bindings, the repeat timer and the session lock |
| `ShellFocus` | the keyboard among windows, layer surfaces and lock surfaces |
| `Bar` | what the compositor tells a status bar |
| `Children` | processes, the table of pids, the SIGCHLD handler |
| `Supervisor` | `Children` and the life of the compositor: autostart, crashes, re-exec |
| `Startup` | server_init, its failures, server_finish |
| `Ubar` | the loop and the threads of the bar |
| `Readings` | what the bar measures and caches |
| `BarScreen` | what the bar draws and when |
| `Launcher` | the launcher, with lines of standard input or with desktop files |
| `BarScreenProofs`, `LauncherProofs`, `SizesProofs`, `XWindowsProofs` | lemmas about these modules |
| `PartsProofs` | lemmas about `Supervisor`, `Keyboard`, `Ubar`, `Readings`, `ShellFocus`, `Bar` and `Startup`, and all theorems about the parts, stated of `MCParts` |
| `MCParts` | the modules from `Sizes` on side by side, for one run |
| `MC...` | what TLC needs: views, action constraints, orders of the free list |

### BspTree

The C heap is the record `bsp`: one function per field of `struct uwm_bsp_node`,
the workspaces' roots, the set of free nodes and the windows' `bsp_leaf`
pointers. An operator named after a C function (`bsp_insert`, `bsp_remove`,
`bsp_restore`) takes the heap before the call to the heap after it, and a
handler is an action that composes them, e.g. `MoveToWorkspace` is
`workspace_move_toplevel`: remove here, insert there, in one step.

| Action | Code |
|---|---|
| `Create`, `Destroy` | `server_new_xdg_toplevel`, `xdg_toplevel_destroy` |
| `MapTiled`, `MapFloating`, `MapFullscreen`, `Unmap` | `xdg_toplevel_map` on its three paths, `xdg_toplevel_unmap` |
| `Float`, `Unfloat` | `toggle_floating` in its two directions |
| `MoveToWorkspace` | `workspace_move_toplevel` |
| `Swap`, `Rotate` | `bsp_swap_direction`, `bsp_rotate_focused_split` |
| `LookUp` | every caller that only finds a leaf, which may rewrite the cache |

`bsp_find_leaf` has a side effect, and the bugs it could cause are the point of
the model: a cached leaf is kept when windows are swapped or nodes freed and is
checked at each use by the window it carries and by a walk up to the root.
`FindLeaf` is what the function returns, `Lookup` the heap it leaves behind.

Abstracted: rectangles and ratios (so the split chosen for an insert and the
nearest leaf of a swap are free choices), the focus (an insert may split at any
mapped window's leaf or at none), the order of the free list (the constant
`Heads` says which free nodes may be handed out next). Fullscreen edits no tree:
a fullscreen window that floats stays in `floating` while the code keeps the
flag aside in `saved_floating`. What the code reads of a window that was freed
(only `bsp_saved_sibling` is) is read as it was left; an address may be reused
by a later window, which is why `Create` resets the fields `calloc` clears and
`saved` of other windows may name a window that is a different one by then.

Walks up and down the tree are defined over sets closed under the pointers, not
by recursion, so that they are total on any heap and can be proved about. The
few recursive functions (`FirstLeaf`, `RestoreTarget`) are guarded in the actions
by `InsertWalks`, `RestoreWalks` and `PositionWalks`; the invariant
`WalksStayInTree` shows that the guards never disable a handler.

### BspRoundTrip, BspRules

`BspRoundTrip` adds the layout that the last step found if that step floated a
window, and states that the step that undoes it gives the layout back.
`BspRules` adds `MapByRule`, the map of a window that a rule sends to another
workspace: the rule inserts it, then the handler does.

### Desktop

The handlers of `window.c`, `window_xwayland.c`, `workspace.c`, `floating.c`,
`layout.c`, `output.c` and `output_manager.c` share nearly all their state and
call each other several levels deep: a key binding that moves a window switches
the workspace, which hides and shows, arranges and focuses. They are modelled
together. The state is one record, `desk`, and an operator with the name of a C
function (`focus_toplevel`, `toggle_fullscreen`, `output_set_workspace`, ...)
maps the record before a call to the one after it, calls inside it included.

| Field of `desk` | Code |
|---|---|
| `workspace`, `mapped`, `floating`, `fullscreen`, `savedFloating` | `struct uwm_toplevel` and whether its surface is mapped |
| `leaf` | the window has a leaf in its workspace's tree; the trees themselves are in `BspTree` |
| `enabled` | its scene node is enabled |
| `toplevels`, `floats`, `focused`, `lastFocused`, `fullscreenWindow`, `monocle`, `output` | `struct uwm_workspace` |
| `shows`, `outputs`, `powered` | `output->current_workspace`, `server->outputs`, `wlr_output->enabled` |
| `activeOutput`, `current`, `keyboard` | `server->active_output`, `workspaces.current`, the seat's focused surface |

| Action | Code |
|---|---|
| `Create`, `Map`, `Unmap`, `Destroy` | the handlers of xdg and XWayland windows; the set `XWayland` says which is which |
| `RequestFullscreen`, `RequestActivate`, `RequestMove` | requests of clients and window lists |
| `Click`, `Grab` | `server_cursor_button` without and with the logo key |
| `ToggleFloating`, `ToggleFullscreen`, `ToggleMonocle`, `SetBsp`, `MoveFocus`, `CycleFocus`, `Switch`, `MoveToWorkspace` | key bindings (`actions.c`) |
| `server_new_output`, `output_destroy` | hotplug (`output.c`) |
| `PowerOff`, `PowerOn` | `handle_output_manager_apply` |

One detail decides much: `workspace_link` and `floating_link` are a union
(`window.h:36-39`), so a window has one link, and removing it "from the floating
list" takes it out of whichever list it is in. `Unlink` says just that, and
`Map` stops short where the code inserts a link that is in a list already, which
`wl_list` does not survive. `EarlyFullscreen` names the windows whose clients
toggle fullscreen while they are unmapped; only the run that shows the result
has any.

Abstracted: the sibling that inherits the focus of an unmapped window is a free
choice among those the tree could give; geometry; the scene's layers and
stacking; the bar (`Bar`); layer surfaces and the session lock (`ShellFocus`);
sizes (`Sizes`); menus of X11 (`XWindows`); workspace rules (`BspRules`); a pool
that runs out (`BspTree`). A keyboard is attached. wlroots is
relied on for three things: it unmaps a window before it destroys it, enables an
xdg window's scene node as its surface is mapped and disables it when unmapped,
and clears the seat's focus when the focused surface is destroyed.

### Sizes

Arranging asks every tile for a size and remembers it per window, so that the
same size is not asked for twice (`toplevel_set_size` and its cache `req`); dragging
asks at most once per frame and keeps the rest for later (`pending`). A size can
so be forgotten in two ways, and `SizesAreSent` says that neither happens: a
visible window is drawn where its state says, and its client was asked for that
size or will be. The record `ws` is one displayed workspace; `Map...`, `Unmap`, the
toggles, `Motion`, `Frame`, `EndGrab` and the rest are the handlers. The arithmetic of
ratios and gaps is left out: a tile that is alone has the area, and whenever a leaf
comes or goes, or a key swaps tiles, resizes one or turns a split (`Rearrange`), each
of several tiles gets another one of the boxes in `Split`. In the run two tiles halve
the area, and a drag reaches one of three boxes, of which one has a tile's size.

Excused are windows that a grab overtook (`crossed`), which the handlers really leave
with a size they do not have; such a state is followed only by unmaps.

### XWindows

An X11 window is created, associated with a surface, mapped, unmapped,
dissociated and destroyed, each an event; it may turn from a managed window into
a menu (override-redirect) or back at any stage, for which the code frees the
window object and makes another. Objects are addresses, which `calloc` may hand
out again. `XPointersLive` relates all pointers that the compositor keeps
(`focused`, the lists, the grab, the leaf) to objects in use, and each object's
listeners to its stage. The frame (`border.c`) is drawn by whoever moves the focus,
and removed by them: `FrameMarksFocus`.

### Keyboard

What matters is which keys are down (`held`), which the focused client believes to
be down (`told`), and the repeat timer. `Press` and `Release` are
`keyboard_handle_key` with the modifier event that wlroots sends after it.
While the session is locked the handler returns before it stops the timer; that
this does no harm rests on one assumption on time, in `Unlock`: a lock lasts longer
than the 250 ms for which a timer may be armed.

### ShellFocus

Several handlers move the keyboard without `focus_toplevel`: a launcher that maps
or unmaps, a lock that begins or ends, an output that goes with its surfaces. The
state is who has the keyboard, which window each workspace calls focused, and the
life of each layer and lock surface. A click or a key binding focuses a window only
while no lock is in the way (`FocusWindow`, `SwitchWorkspace`); a window list or an X11
client activates one at any time, and has its workspace shown (`Activate`). A window is
mapped on the current workspace and stays there; `Desktop` has the rest.
`KeyboardComesBack` excuses two known cases by the history variable `dropped`; see
"Known limits".

### Bar and BarScreen

`Bar` has the notifications (`uwm_bar_notify_focus`, `uwm_bar_send_output`), their
deduplication and the idle callback that sends the batch. `BarScreen` receives such
batches event by event, between frames and with a bounded number of buffers.
`BarIsTold` excuses changes that no handler announces (`silent`), `ScreenIsCurrent` a
frame drawn in the middle of a batch (`open`).

### Children and Supervisor

`Children` interleaves at the grain at which the SIGCHLD handler can interrupt:
`main` is where the only thread is, and `Fork`, `Store` and `WaitOnce`, or `ReadSlot`
and `TakeSlot`, are separate steps. The kernel's process table is state, and a pid
that was reaped may become another process (`Recycle`). So are its process groups: the
walk of `uwm_children_terminate` signals and looks for groups only, and a child leads
one from its own `setsid` on, a step of the child that may come late (`Setsid`, `group`).
Until then a signal to its group reaches nobody and it counts as gone (`HasGroup`). A
group ends with its leader here: a subtree that goes on without it is left out.
`NothingOutlives` therefore speaks of children that had come to their `setsid`; the
others are a known limit.
`Supervisor` extends it with
`core/main.c`: pid files, which children write themselves after the fork; crashes,
which return to the loop a bounded number of times; and `ReExec`, which keeps the
children and the pid files but clears the memory.

### Startup

`server_init`, the paths it leaves by when a step fails, and `server_finish` are
lists of calls (`Make`, `Hook`, `Unhook`, `Destroy`, `Clear`), and the actions carry a
list out. `Made`, `Failed`, `Hooked`, `Unhooked` and `Destroyed` are one call each, so
that the order of calls, which is all there is to this code, is kept. Outputs,
keyboards and X11 windows come and go while the loop runs.

### Ubar and Readings

`Ubar` has one value per source, in the world and in the bar, and the way between:
a socket, the thread that reads it, a pipe, the loop; for the volume PulseAudio's
thread with callbacks and retries. Every interleaving of these is explored,
including SIGTERM between the test of `term_received` and `poll` or before `execvp`, and
a thread that hangs when it is joined.

The sound server is modelled by what `data.c` takes of it. It has one sink or none
(`sink`, `SinkAppears`, `SinkGoes`); only a CHANGE of a sink is asked about, by the
sink's index, and a query for an index that is gone ends without an answer
(`"stale"`). The NEW event of a sink that appears is ignored, so that `unheard` says that
nothing has told ubar of this sink yet. The connection may be refused or end at any
step, and nobody opens another (`Lose`). `NoChangeIsLost` speaks of the volume
while there is a sink ubar has heard of and the connection stands; what happens
otherwise is under "Known limits". Several sinks at a time, of which ubar shows the one that changed last, are left out.

`Readings` is what `data.c` does in one reading: what it
keeps, what it shows, whether it reports a change. A behaviour is about one kind
of reading, since they share nothing.

### Launcher

Entries and the query are sequences of bytes, scores are computed as in
`score_match`. The interesting part is that results are narrowed incrementally when
a letter is appended, but computed anew otherwise, while entries still arrive and
the list is cut to a maximum. `ShowsBestMatches` compares with the definition: the
best of all matching lines, in the order of their scores.

A desktop file is a sequence of lines, records of key and value;
`parse_desktop_file` folds `ReadLine` over them, `DesktopEntries` reads the
directories in order, up to the limit, which holds between directories only, and
`mode_drun` sorts. `SelectionIsAResult` compares what is run with another
definition of what a file offers (`Offers`).

### MCParts

These modules share no state (`Keyboard` and `ShellFocus` both have a variable
`locked`, in different behaviours). `MCParts` is their sum: the variable `part` says
which of them a behaviour is about, and the variables of the others are `Unused`.
Its properties are theirs, and its fairness is the disjunction of those of `Supervisor` and
`Keyboard`, of which only one can ever be enabled. Three of the parts are instantiated through their proof
modules, so that what is proved of them can be used.

## What the runs check

| Run | Instance | Result |
|---|---|---|
| `BspTree.cfg` | 3 windows, 1 workspace, 5 nodes handed out in any order | pointers form trees (`LinksConsistent`), no leaks (`NoNodeLeaks`), exact lookups (`LookupExact`), walks stay in the tree (`WalksStayInTree`), types (`TypeOK`), refinement of `LeafOrder` |
| `BspPool.cfg` | 3 windows, 2 workspaces, 3 nodes | with exhausted pools: `StaleLeafDetached`, one leaf per tiled window in its own tree (`LeafBelongsToWindow`), `TilesUnlessPoolExhausted`, refinement of `LeafOrder` |
| `BspRoundTrip.cfg` | 4 windows, every layout of them | floating and tiling again is the identity unless the split was nested in one of the same direction |
| `SavedSibling.cfg` | 3 windows | violated: the saved sibling is used after it was destroyed (finding) |
| `BspRules.cfg` | 3 windows, 2 workspaces | violated: a workspace rule gives a window two leaves (finding) |
| `DesktopOne.cfg` | an xdg and an XWayland window, 2 workspaces, 1 output | one list per window (`ListsConsistent`), trees hold the tiled list (`TreeMatchesList`), no dangling pointers (`PointersLive`), the keyboard is on its workspace's focus (`KeyboardIsFocused`), visibility (`DisplayedVisible`, `MonocleShowsOne`) |
| `DesktopTwo.cfg` | 2 windows, 2 workspaces, 2 outputs, no monocle | lists, pointers, output and workspace inverse to each other, an active output that exists (`DeskConsistent`), and that a lost output's listed windows all move (`EvacuatesListed`) |
| `DesktopSwap.cfg` | 2 windows, 2 outputs | violated: the workspace the other output takes over gets no output (finding) |
| `DesktopRelink.cfg` | 2 windows, one of them with an early fullscreen client | violated: a window in the tiled and the floating list at once (finding) |
| `Parts.cfg` | one small instance of each of the other modules | see the table below |
| `UbarTerm.cfg` | `Ubar`: one source with a thread, the volume, one retry | SIGTERM ends the bar (`TermEndsBar`) if it comes before the last look at its flag |
| `DeadPid.cfg` | `MCSupervisor`: 2 pids, 1 program | violated: the pid of a child that is reaped before it is stored stays in the table (finding) |

| Property of `Parts.cfg` | Module | What it says |
|---|---|---|
| `TypesOK` | all | the type invariants; the one of `ShellFocus` ties lock surfaces to plugged outputs |
| `SizesAreSent` | `Sizes` | a visible window is drawn, and its client asked, as its state says, or will be |
| `XPointersLive` | `XWindows` | pointers are to objects in use, of mapped windows; listeners last as long as the surface |
| `FrameMarksFocus` | `XWindows` | only the focused window has a frame |
| `RepeatsWhatIsHeld`, `NoStuckKey`, `RepeatEnds` | `Keyboard` | a binding repeats only while its key is down; no client believes a released key down; a timer without its key ends |
| `KeyboardComesBack`, `TypingGoesToFocused` | `ShellFocus` | the focused window of the displayed workspace gets the keyboard back; whichever window has it is its workspace's focused one |
| `BarIsTold` | `Bar` | once the loop is idle, the bar was told of every announced change |
| `TableTracksChildren`, `NothingOutlives` | `Children`, `Supervisor` | no child is lost from the table; none that was in it and has called `setsid` survives an orderly end |
| `OneInstance`, `CrashLoopReachesExec` | `Supervisor` | autostart starts a program once, across executions; repeated crashes end in a new image |
| `TearDownInOrder` | `Startup` | listeners go before what they listen to, outputs before the scene |
| `NoChangeIsLost` | `Ubar` | a change of a watched value is shown or on its way |
| `ReadingsAreCurrent` | `Readings` | what is shown is what was last read, and is about to be drawn if it differs |
| `ScreenIsCurrent` | `BarScreen` | with nothing left to do, the screen shows what was told; items do not overlap |
| `ShowsBestMatches`, `SelectionIsAResult` | `Launcher` | the list is the best of all matches; one of them is selected, and what is printed or run is what it stands for |

Bounds. Three windows give every shape of tree in which a removal has a parent,
a grandparent and a sibling that is a leaf or an inner node; five nodes are what
three tiled windows need, and three nodes make the first or the second
allocation fail. Four windows give round trips through siblings of depth two.
`VIEW UpToNumbering` identifies states that differ in the numbering of nodes or
in what an unreferenced free node still holds; no operation distinguishes them.
`ACTION_CONSTRAINTS OnlyFloaters` lets one of the windows float, which keeps its
partner `saved` free of positions that only multiply the states; which window
it is does not matter, the windows are alike. `FloatsAreUndone` explores layouts
without floating and undoes each float at once.

In `Desktop`, two windows are a focused and a displaced one, a tiled and a
floating one, a fullscreen one and one behind it, a first and a last of a list;
two workspaces and two outputs are what a switch, a swap and an evacuation
involve. Windows of one type and outputs are symmetric (`Symmetric`), and
`VIEW UpToUnread` ignores two fields where no handler reads them. The run with
two outputs leaves monocle to the other one (`NoMonocle`). Every run checks for
deadlock: the user and the clients can always do something.

`Parts.cfg` has, per module, the smallest numbers at which its cases happen: two
pids and a table of one slot (a full table, a pid used again), two crashes before
the re-exec (one recovered, one not), one try of the grace period; two bound keys
and one that is not; a query of three letters over four lines of which three are
shown at most and two fit on a page; desktop files with a hidden one, two of one name
and a directory beyond the limit; one source with a thread beside the volume,
one retry; two windows, one of them X11, two workspaces, a panel and a launcher,
two outputs; two X windows and two addresses; two thermal zones, an hour of three
minutes, counters that wrap at 64; two workspaces on the bar, one buffer, an output
wide enough for most of the bar's pictures and one too narrow for any. It has about
1.8 million states and takes three minutes. Half of them are of `Ubar`, whose liveness
is therefore checked by itself, in `UbarTerm.cfg`, with the same constants.

Fairness is assumed where liveness is stated, and only of steps the programs
take by themselves: of the compositor's main thread while the process lives
(`Supervisor`), of the event loop that dispatches an armed timer (`Keyboard`), of
`ubar`'s main thread (`Ubar`). It is weak fairness, since these steps stay enabled until
taken. Nothing is assumed of children, users, the kernel or the other threads:
`TermEndsBar` holds though a monitor thread may hang, because the join is
bounded. A program that is over stutters (`Over`), which keeps the check for deadlock
meaningful for the rest.

Every property has a mutant: an operator next to the one it mutates (named
`X_what`) with a mistake someone could make; with it in place TLC finds the
property violated.

## What is proved

`BspTreeProofs` proves, for any sets of windows and workspaces, any finite set of
nodes and any order of the free list, from the three assumptions of `BspTree`: `NULL`
is not a window, workspace or node; the nodes are finitely many (they are the
elements of an array of fixed size, `bsp.h:39`); a non-empty free list has a head.

* `TypeCorrect`: `Spec => []TypeOK`.
* `TreesAlwaysLinked`: `Spec => []LinksConsistent`.
* `StaleLeafNeverUsed`: `Spec => []StaleLeafDetached`.
* `LookupsAlwaysExact`: `Spec => []LookupExact`.
* `NoNodeIsLost`: `Spec => []NoNodeLeaks`.
* `LeavesBelongToWindows`: `Spec => []LeafBelongsToWindow`.
* `OnlyExhaustionLosesTiles`: `Spec => TilesUnlessPoolExhausted`, an action property.
* `WalksAlwaysStayInTree`: `Spec => []WalksStayInTree`.

The first four follow from the inductive invariant `TypeInv /\ Sound(bsp)`: types, every
mapped window has a workspace, the trees are `Linked`, and `StaleDetached`, without
which it would not be inductive: were a freed node that still names a window
reachable through the window's cache, a remove would unlink a node that is on the
free list. The argument goes by lemmas on the heap operators. `OutOfReach` says that
a set of nodes closed under `parent` that misses the root is not in the tree;
from it, a node of a tree without a parent is its root (`RootOfTree`) and no
node is its own parent or grandparent (`NoShortCycle`), which `ContractSound`
needs for the grandparent case. `WalkInTree` turns the walk up that validates a
cached leaf into membership in the tree. `SpliceSound`, `ContractSound`,
`NewRootSound`, `ReturnedSound`, `TradeSound` and `SplitSound` treat the edits,
`InsertSound`, `RemoveSound` and `RestoreSound` the C functions, `SoundStep` the
handlers.

The others need `TreeInv`, which adds `AllOwned`: every node not on the free list is
in a tree (`Reached`), no window has two leaves (`OneLeaf`), and a window has
a leaf only if it is mapped and not floating, in the tree of its own workspace
(`Placed`). The converse of `Placed` does not hold, since a window stays without
a leaf when the pool is exhausted; `TilesUnlessPoolExhausted` says that this is the only
reason. What an edit does to the set of nodes of a tree is stated once as `Grown` (a
leaf more) and `Shrunk` (a leaf less). That the recursive walks stay in the tree
is by induction along the parents.

Its second part proves the refinement, `TreesImplementLeafOrder`:
`Spec => ImplementsLeafOrder`. `LeafOrder` knows a sequence of windows per workspace and no
tree; the mapping reads the leaves of a tree from left to right (`InOrder`).
`WindowsOf` shows that in sound trees, which end (`TreesEnd`), the recursive function behind
`InOrder` exists and has, at an inner node, the sequence of its first child
followed by that of its second. `OrderExtends` then carries a change of the
sequence at one node up to the root; the changes of the rest of the tree are
none (`OrderSame`). `InsertEnters`, `RemoveLeaves`, `RestoreEnters` and `TradeOrder`
say what the C functions do to the sequences, `OrderStep` which step of
`LeafOrder` each handler is.

The provers cannot instantiate a theorem that takes an operator, so `Lemmas` has
induction as a fact about sets of numbers (`Induction`), and recursion as the
existence of a function that obeys an equation (`TreeRecursion`, `Recursion`):
both from the library's theorem on well-founded relations.

`DesktopProofs`, for any numbers of windows, workspaces and outputs:

* `DeskStaysConsistent`: `Spec => []DeskConsistent`.
* `ListsStayConsistent`, `PointersStayLive`: its parts `ListsConsistent` and `PointersLive`,
  which the run with one output checks.
* `WindowsAreEvacuated`: `Spec => EvacuatesListed`, an action property.

All assume `EarlyFullscreen = {}`: a client that toggles fullscreen while its window is
unmapped gets the window linked twice, which is the finding of `DesktopRelink.cfg`,
and from there on the lists are corrupt. All else is as general as the module.

The inductive invariant, `Good(desk, {})`, is no stronger than what a handler relies on:
exactly the placed windows are listed, each once and by its own workspace, where
a window is placed if it is mapped and not a floating one that is fullscreen
(`Windows`, `Lists`); a workspace points at its own mapped windows (`Pointers`); a
workspace's output shows it, and the active output is one of the list (`Screens`).
What it adds to `DeskConsistent` is that an unmapped window has no leaf and is not
fullscreen, that no window is floating and fullscreen at once, and that no
output is in the list twice.

The handlers are compositions of some thirty operators, so each operator has a lemma:
applied to a consistent record it gives a consistent one. Most of them change
a few fields and call another, so what a caller needs to know besides is said
by relations: nothing but visibility changed (`Alike`), or the focus too
(`Refocused`), or the lists only (`Relinked`), windows and outputs are the same
(`Keeps`), no list gained a window (`Thins`), windows moved to one workspace
(`Carries`). Two operators leave the record inconsistent half way, which the
invariant is parameterised for: a window taken out of one workspace and not
yet put into another (`Loose`), and an output that has left the list and may
still be the active one (the `O` of `Good`). The loop of `output_destroy` over
the windows of a workspace is a recursive function; `MovedExists` shows that it
has values, by `Recursion`, and `MoveAllGood` what they are, by `Induction`.

The second half of `DesktopProofs`, for any numbers of windows and workspaces and at
most one output (with two an evacuation breaks both, see below):

* `TreesStayMatched`: `Spec => []TreeMatchesList`.
* `KeyboardStaysFocused`: `Spec => []KeyboardIsFocused`.

They assume `EarlyFullscreen = {}` as well. The inductive invariant is that of
`DesktopProofs` and `Orderly`: each workspace's leaves are the windows of its tiled list
and no window has a leaf and is floating (`Sorted`); a window with the keyboard
is mapped and the focused one of its workspace (`OnTop`). Neither is kept by every
operator in between. A window that is raised, tiled again or mapped is in the
wrong list for a while: that is said by excepting it (`Sorted(d, {t})`, `Rough`, `Fresh`). A
window that is moved to another workspace takes the keyboard along but not the
focus, and is only focused after the switch: what holds until then is that it
has the aim of the keyboard (`Aimed`). `Tidies` says that an operator loses neither.
With one output the loop that evacuates windows does not run (`OutputsTidy`).

* `WindowsStayVisible`: `Spec => []DisplayedVisible`.
* `StacksShowOne`: `Spec => []MonocleShowsOne`.

The invariant grows by `Seen`. `Fair` says of every displayed workspace that no window
covers that its listed windows are visible but for what monocle hides (`Open`) and that
of a stack one tile is (`Stacked`), and that what is in a floating list floats
(`Floaters`, without which a stack could hide a floating window for good). `OnDisplay`
says that an output shows the current workspace: a window is mapped onto the current
one and is hidden if that has no output. Most of `Orderly` is needed too, for
`bsp_arrange` stacks the windows of a list only where the tree has a leaf. An
operator disturbs one workspace at most and the others do not notice (`Aside`,
`Local`); within a handler that one may have a window that is still hidden or one
tile too many, which the layout at the handler's end repairs (`ArrangeSees`,
`ArrangeTreeSees`, `OffSees`). A focus hides nothing in any case (`FocusSees`).

The proofs of the parts each state what they assume of the constants as a
definition (`Constants`, `KeysDiffer`, `BarConstants`, `UbarConstants`, `MeterConstants`, `SupervisorConstants`) that the theorems take as an
assumption: that the kinds of names are disjoint and the bounds are numbers.
`PartsProofs` states them of `MCParts`, whose properties the run `Parts.cfg`
checks: a step of `MCParts` is a step of the part or leaves it alone
(`StepOfPart`), so the part's invariant is kept. For that `MCParts` instantiates
the proof module where a part has one, which extends the part.

`Keyboard`, for any sets of keys and of bound keys:

* `RepeatedKeysAreHeld`: `Spec => []RepeatsWhatIsHeld`.
* `NoKeyEverStuck`: `Spec => []NoStuckKey`.

The invariant adds when the timer is armed: only while the logo key is down, and,
unless the session is locked, only for a key that is down. Locked is the
exception because the release of a key then returns before it stops the timer;
the timer runs nothing then.

`Bar`, for any windows, workspaces and outputs:

* `BarHearsAll`: `Spec => []BarIsTold`.

A change is announced because the handler that makes it moves the keyboard, and
`focus_toplevel` does nothing for the window that has it already. So the invariant
(`BarInv`) has to say where the keyboard is: on a mapped window that its workspace
calls focused (`KeyboardAtHome`), and that what a workspace calls focused is a
mapped window of its own (`FocusedAtHome`). `StepKeeps` is the argument for all
handlers: a step that announces its change or is excused keeps the invariant.

`Readings`, for any length of the hour, any load a counter takes between two
readings, and any number of thermal zones, if the counters are wide enough for
two loads:

* `ReadingsStayCurrent`: `Spec => []ReadingsAreCurrent`.

For most readings the property is inductive. The clock reads only when the minute
differs from the one kept, so the invariant relates what is shown to that minute
and to the time passed since (`ClockKept`); with the same minute, and less than an
hour passed, none has (`SameMinute`). The network's name is kept with the interface
it belongs to, and its counter with the interface read last (`NetworkKept`).

`Supervisor`, for any pids, executables and commands, any size of the table
and any number of tries of the grace period:

* `ChildrenTracked`: `Spec => []TableTracksChildren`.
* `NoneOutlives`: `Spec => []NothingOutlives`.
* `StartedOnce`: `Spec => []OneInstance`.

The first two follow from `TableInv`. A pid in the table that is neither a child nor a
zombie still to be announced was reaped before it was stored (`SlotsKnown`).
For that to be inductive it takes what is known of a pid between its fork and
its store, where the same number may be in the table from an earlier life
(`NewKnown`), that a registered child has a group or is about to (`RegisteredAreOurs`),
and what the walk of `children_terminate` has left behind it (`ThreadPlaces`): each
registered child is among the pids it took, so that no look or SIGKILL at the end passes
one by that leads a group. The third follows from `InstanceInv`: the pid file of a program
names its instance once it is written (`FilesNameInstances`), so a check that
lets a command pass means that none is running (`CheckedIsFree`).

`BarScreenProofs`, for any numbers of workspaces and of buffers, and screens of any widths:

* `ScreenStaysCurrent`: `Spec => []ScreenIsCurrent`.

The inductive invariant, `Follows`, says where the bar is in what it is told: it has
heard all of it (`Settled`), or the first `k` events of the last batch and the
others are on the wire (`Hearing`). The events are applied one at a time and frames
come in between, so it has to say what is known half way: of the workspaces, those
below `k`, as the first event of a batch discards what was known; and once
the active workspace is among them a frame is due, or one was drawn since (`HeardTo`).
Where it was drawn since, the picture may be of half a batch, and `ws_done` asks for no
other: that is the excuse `open` of the property, which the proof needs in this case only.
That no two items overlap holds of every picture (`PicturesApart`). The left block,
the centre and the right block are sums of widths, and the centre gives way to the
left, the right to the centre. `LeftZones` is written as a fold over the
workspaces because the prover knows no definition of `SelectSeq`; the facts about folds
(`FoldExists`, `FoldPrefix`) are in `Lemmas`.

`Ubar`, for any set of watched sources and any number of retries:

* `NothingIsLost`: `Spec => []NoChangeIsLost`.

For a source with a thread of its own the property is inductive (`UbarInv`). The volume
passes through a copy, `g_vol_pct`, and its part has to be split: for a sink that was heard
of, over a connection that stands, the copy agrees with the sound server or an exchange is
due (`CopyFollows`), and the bar agrees with the copy or a byte is due (`BarFollows`).

`LauncherProofs`, for any lines, any desktop files in any directories, any keys and
any limits of the list:

* `BestStayShown`: `Spec => []ShowsBestMatches`.
* `SelectionStays`: `Spec => []SelectionIsAResult`.

The lemmas (`InitLaunches`, `NextLaunches`) are as general as that. The theorems are of
`MCParts`, which defines the lines and the files, so their assumption is not a
hypothesis there but an `ASSUME` that TLC evaluates (`LauncherConstants`).

`ShowsBestMatches` defines a match by an embedding of the query in the line, `score_match`
by a walk that takes each byte where it first fits. That these agree is
`ScoreIsMatch`: what the walk has taken is an embedding (`WalkFinds`), and it is never
behind another one (`WalkMissesNone`). So a match of a longer query is one of the shorter,
and to look at the survivors only is right as long as they are those of
`prev_input`, and this is the query shown. That is the first part of the inductive
invariant, `Launches`; it is what the code has to preserve when a line arrives while the
query stays, and when several bytes are erased at once. `Results` chooses any list of the
best matches with scores that never grow; the maximum cuts it after sorting, so what is
left out scores no more (`ResultsAreBest`).

The names and commands come from a fold over the lines of a file, of which `ReadUpTo` is
the meaning: the last value given to a key in the right section counts, and one `true`
hides the file for good (`FileRead`). With that, each name in the list stands for a command
that some file offers by that name (`DrunOffers`), after sorting too, as names and
commands are moved together.

`XWindowsProofs`, for any X11 windows and any addresses of objects:

* `XPointersStayLive`: `Spec => []XPointersLive`.
* `FramesMarkFocus`: `Spec => []FrameMarksFocus`.

The invariant says of a set of objects that all pointers lead to it (`Pointed`). Between
handlers these are the objects of the mapped windows; within one they need not be, as
when `SetOverrideRedirect` gives a window that stays mapped another object. It
adds to the properties that no list has an object twice, that a window and its object
name each other (`Named`), and that an object in no list is fullscreen and was floating,
without which the end of fullscreen would not bring it back to a list.
The frames need the pointers: where the focus may stay on an object that
went, its frame would stay with it.

`ShellFocus`, for any windows, workspaces, layer surfaces and outputs:

* `TypingReachesFocused`: `Spec => []TypingGoesToFocused`.
* `KeyboardReturns`: `Spec => []KeyboardComesBack`.

The two need each other, and two facts more: what a workspace calls focused is
one of its windows (`FocusedIsHere`), and without a lock no lock surface has the
keyboard (`LockedOnly`).

`SizesProofs`, for any number of windows, any of them X11's, and any boxes:

* `SizesStaySent`, of `Sizes` by itself, and `SizesAreAllSent`, of `MCParts`:
  `Spec => []SizesAreSent`.

It assumes that boxes have places and sizes other than `None`, which TLC evaluates for
the boxes of the run (`SizesConstants`). The property speaks of windows that can be seen, but a window
that cannot is shown by the next toggle, and the arrangement skips it if its cache says it was
asked already. So the inductive invariant, `Settled`, is mostly about caches: what a
Wayland window has in its cache is what its client was asked last (`Recalls`), in
monocle the cache of the tile shown is current even if an X11 client was asked past it
(`Served`), and a size that waits for the end of a pointer frame is that of the
grabbed window, which floats unless it was overtaken (`Gripped`). Floating and fullscreen
windows are as their state says all the time (`FloatsSent`), tiles when an arrangement has
ended and no fullscreen window hides them (`TilesSent`). Handlers float, prune and place before they arrange; `Settling` is what
holds in between, and `ArrangeSends` that the arrangement ends it.

`TypesAreOK`, `Spec => []TypesOK` of `MCParts`, takes the types of all parts together. They
are mostly parts of the invariants above, and in three cases more is needed: a crash is
counted only while the budget for crashes is not spent, which bounds the counter (`Counting`);
what is typed is a string of keys cut at the size of the buffer, and cursor and page
stay in a list that shrinks under them (`Typed` of `LauncherProofs`); and the set-up stays inside the list of
calls at hand, since each failure leaves to a list that exists (`InTheList`, `ListsOfCalls`).

`Startup`, in `PartsProofs`:

* `TearDownStaysInOrder`: `Spec => TearDownInOrder`, an action property.

`Startup` has no constants but the lists of calls, and TLC sees every state of it; the proof
says why none is wrong. Its invariant, `OrderInv`, follows the listeners: `server_init` has
hooked those of its calls up to `pc` and no others (`Linked`, `HookedBefore`), the list that
ends it has unhooked those of its own calls up to `pc` (`Unlinked`), and what the handlers of
outputs use is made before any can appear and is there until the backend goes
(`SceneMade`). The rest is about the lists: for each listener put there is a call that
takes it off (`HooksAreUndone`), early enough (`CallsOfFinish`, `CallsOfErr`,
`CallsOfOthers`), and each of the first ways out starts from one place only
(`CallsOfInit`, `FirstHooks`). That `err` leaves some listeners linked is the excuse of the
property (`LeftLinked`).

Only model-checked: the round trip of `BspRoundTrip`, a property that compares the trees
with those of an earlier state, node by node; and liveness (`CrashLoopReachesExec`,
`RepeatEnds`, `TermEndsBar`), which is out of the prover's reach.

## Plan

The modules planned at first are all there. What is left, in this order:

1. Popups of xdg and layer surfaces, whose listeners follow the same rules as
   those of windows.
2. The geometry of `bsp_nav.c`, which picks the nearest leaf in a direction, and the
   matching of patterns in `rules.c`.

## Known limits

What was seen while the properties were found, and shaped them. In `BspTree`:

* Of a split nested in one of the same direction, such as `V(a, V(c, b))`, a window that
  is floated and tiled again comes back one level too high: `bsp_restore` takes the outer
  split for one that was made after the window was floated (`bsp.c:223-226`).
  `RoundTripUnlessNestedAlike` makes the exception.

In `Desktop`:

* A floating window that is fullscreen is in no list. `output_destroy` passes it
  by, so `EvacuatesListed` speaks of listed windows, and `ListsConsistent` makes
  the exception.
* `xdg_toplevel_map` hides a window whose workspace is not `workspaces.current`,
  also when another output shows it. `DisplayedVisible` holds with one output
  and is checked there.
* An XWayland window that was hidden when unmapped stays hidden when mapped
  again. `DisplayedVisible` leaves those out.
* Unmapping the last window of a hidden workspace clears the keyboard focus of
  the visible one, and closing a dialog over a fullscreen window may leave that
  window visible without focus. `KeyboardIsFocused` therefore says where a
  keyboard that is on a window is, and not that it is on one.
* `workspaces.current` and the active output's workspace differ after a click on
  another output, although `workspace.h:31` calls the former the workspace "of
  the focused output"; new windows go to the former, key bindings to the latter.

In the compositor's other parts:

* A dead pid may stay in the table of children (finding `dead_pid`).
  `TableTracksChildren` makes the exception (`missed`).
* Two instances of an autostarted program run if a crash has the compositor
  executed anew before the first one has written its pid file (`raced`).
* A child that has not called `setsid` when the walk of `uwm_children_terminate` looks for
  the last time is left running: its process group does not exist yet, so
  `kill(-pid, ...)` fails with ESRCH, which `child.c:101` takes for a group that is empty,
  although `main.c:156-157` says that `server_finish` guarantees that "nothing outlives
  the session scope". Without its exception `NothingOutlives` is violated by a
  quit right after a fork, with nothing else going wrong. Left running are also a child
  that found the table full, one of a life that ended in an `execv`, and the helpers that
  export the environment, which are not registered.
* Recovering from a crash without a session (a nested or headless backend) reads
  through a null pointer, which ends the process (`Recover`).
* The label `err` of `server_init` destroys objects with listeners still linked
  (`LeftLinked`); `server_finish` does not.
* An output may remember, as the window last announced to the bar, a window object that
  was freed when an X11 window changed between managed and override-redirect
  (`bar_focused_toplevel`). The address is only compared; `XWindows` leaves it out.
* A layer surface whose output is unplugged while it has the keyboard keeps it until
  the next change of focus; its listeners are gone by then.
* A size is not asked for if an X11 window was configured past the cache
  (`RequestConfigure`), if a grab starts while another window's size is pending, or
  if the grabbed window is toggled (`crossed`).
* An X11 window that is unmapped keeps its frame's rectangles until it is mapped
  again; they are not seen meanwhile. A menu may be given the keyboard
  (`window_xwayland.c:187-188`), although `window.h:139-150` says that such windows
  are never focused.
* The occupancy of a workspace that no output shows changes without a message to the
  bar (`silent`).

In `ubar`:

* Frames drawn in the middle of a batch of workspace events stay, as `ws_done` asks
  for no other (`open`).
* The clock skips a reading when whole hours pass between two ticks
  (`data.c:121`); iowait that goes back gives a wrong load; with two keyboards the
  last one decides on caps lock; the name of a wifi network is cached as long as no
  other interface is used, also while ubar is offline in between (`data.c:1284`); the
  traffic of two interfaces shares one counter. Each is an exception named at
  `ReadingsAreCurrent`. Counters that start again at zero, as those of an interface that
  is plugged in again, do not occur in `Readings`.
* A sink that appears after the retries at the start, which follow each other at once
  (`data.c:474-490`), is not asked about, since its event is NEW and not CHANGE
  (`data.c:543-544`). The comment at `data.c:471` says that the retries are for sinks that
  are not ready at boot. Nor is anything asked once the connection to the sound server has
  ended (`data.c:600-603`). The bar shows an old volume from then on, in the first case
  until somebody changes it. `NoChangeIsLost` makes both exceptions.
* With a sink at volume zero the queries never end: each answer sets
  `audio_init_retries` back (`data.c:496`), and its end asks again (`Info`, `EndOfList`).
* A SIGTERM between the last test of the flag and `execvp` is lost (`Exec`), although
  `ubar.c:487-488` says that a termination signal must never re-exec. The main thread's own reads (`nmcli`, `iwctl`) are taken to return.
* The loop may wait up to a second with events already read and not yet drawn
  (`Tick`).

In `ulaunch`: End or Page Down on an empty list selects -1, which stays until the next
key that moves the selection (`strayed`).

## Not modelled

Splits' ratios and other arithmetic of rectangles, scaling, colours, text and
rendering; the matching of patterns in rules; parsing of the configuration and of
themes; popups and decorations; screen capture and idle
inhibitors beyond their tear-down; the wlroots and libwayland internals, which appear
only as the order in which they call the listeners. The code that
wayland-scanner generates for the protocols (`protocol/` and `tools/*/protocol/`,
nearly half of all lines) keeps no state and is not modelled; what it carries is.
