----------------------------- MODULE ShellFocus -----------------------------
(***************************************************************************)
(* Who has the keyboard: the windows of the workspaces that the output     *)
(* Primary shows in turn, the layer surfaces (bars, launchers) of any      *)
(* output, and the lock surfaces of a session lock (shell/layer_shell.c,   *)
(* shell/session_lock.c, and the parts of wm/window.c and output/output.c  *)
(* that move the keyboard).                                                *)
(*                                                                         *)
(* Bounds: workspaces are switched on Primary only, the other outputs show *)
(* empty workspaces; a window is mapped on the current workspace and stays *)
(* on it (Desktop has rules and moves); an output has at most one layer    *)
(* surface per level, so their order inside a level does not matter; a     *)
(* keyboard is attached.                                                   *)
(***************************************************************************)
EXTENDS Naturals, FiniteSets

CONSTANTS
    Window, Workspace,
    Layer,      \* the layer surfaces
    Level,      \* the level of each: "bottom", "top" or "overlay"
    Wishes,     \* the keyboard interactivities that its client asks for
    Output,     \* outputs; an output also stands for its lock surface
    Primary,    \* the output that is never unplugged
    None

VARIABLES
    home,       \* window |-> its workspace while it is mapped, None otherwise
    focused,    \* workspace |-> ws->focused
    current,    \* workspaces.current, which Primary shows
    layer,      \* layer surface |-> its life, wrapper and wish for the keyboard
    plugged,    \* server->outputs
    locked, lock,    \* server->locked; session_lock->lock is not NULL
    lock_surface,    \* outputs whose lock_surface is not NULL
    keyboard,        \* the seat's focused surface
    dropped     \* history: the keyboard was cleared where nobody passes it on

vars == <<home, focused, current, layer, plugged, locked, lock, lock_surface, keyboard, dropped>>
windows == <<home, focused, current>>
locking == <<locked, lock, lock_surface>>

Wish == {"none", "on_demand", "exclusive"}
Absent == [is |-> "absent", output |-> None, wish |-> "none"]
On(ws) == {w \in Window : home[w] = ws}

\* The mapped exclusive layer surfaces of an output, the overlay before the top level.
Exclusive(o, level, ls) ==
    {l \in Layer : ls[l].is = "mapped" /\ ls[l].output = o
                   /\ ls[l].wish = "exclusive" /\ Level[l] = level}

\* Who has the keyboard after the layers of o were arranged while k had it.
layer_surface_arrange(o, k, ls) ==
    LET overlay == Exclusive(o, "overlay", ls)
        top == Exclusive(o, "top", ls)
    IN  IF overlay # {} THEN CHOOSE l \in overlay : TRUE
        ELSE IF top # {} THEN CHOOSE l \in top : TRUE ELSE k

\* The focus pointers after focus_toplevel(w) while k had the keyboard.
focus_toplevel(w, k) == IF k = w THEN focused ELSE [focused EXCEPT ![home[w]] = w]

\* The keyboard goes to k; a clear of it is expected to leave no window waiting.
GiveTo(k) == keyboard' = k /\ dropped' = (k = None /\ keyboard = None /\ dropped)

\* The keyboard is taken from whoever has it by a handler that looks for nobody else.
Drop == keyboard' = None /\ dropped' = TRUE
-----------------------------------------------------------------------------
(* Windows. *)

MapWindow(w) ==
    /\ home[w] = None
    /\ home' = [home EXCEPT ![w] = current]
    /\ focused' = [focused EXCEPT ![current] = w]
    /\ GiveTo(w)
    /\ UNCHANGED <<current, layer, plugged, locking>>

UnmapFocused_unset(w, ws) ==
    /\ focused[ws] = w
    /\ UNCHANGED focused
    /\ IF On(ws) = {w} THEN GiveTo(None)
       ELSE \E heir \in On(ws) \ {w} : GiveTo(heir)

\* The window that was focused passes the focus to one of its workspace.
UnmapFocused(w, ws) ==
    /\ focused[ws] = w
    /\ IF On(ws) = {w}
       THEN /\ focused' = [focused EXCEPT ![ws] = None]
            /\ IF focused[current] \in {w, None} THEN GiveTo(None) ELSE Drop
       ELSE \E heir \in On(ws) \ {w} :
            focused' = [focused EXCEPT ![ws] = heir] /\ GiveTo(heir)

UnmapOther(w, ws) ==
    /\ focused[ws] # w
    /\ UNCHANGED <<focused, keyboard, dropped>>

UnmapWindow(w) ==
    /\ home[w] # None
    /\ UnmapFocused(w, home[w]) \/ UnmapOther(w, home[w])
    /\ home' = [home EXCEPT ![w] = None]
    /\ UNCHANGED <<current, layer, plugged, locking>>

\* A click or a key binding focuses a window that Primary shows; a lock surface
\* covers it, and key bindings do nothing while the session is locked.
FocusWindow(w) ==
    /\ home[w] = current
    /\ ~locked \/ Primary \notin lock_surface
    /\ focused' = focus_toplevel(w, keyboard)
    /\ GiveTo(w)
    /\ UNCHANGED <<home, current, layer, plugged, locking>>

FocusShown(ws) ==
    IF focused[ws] # None THEN focused' = focus_toplevel(focused[ws], keyboard) ELSE UNCHANGED focused

\* Who has the keyboard once Primary shows ws.
KeyboardOn(ws) == layer_surface_arrange(Primary, focused[ws], layer)

output_set_workspace(ws) ==
    /\ ws # current
    /\ FocusShown(ws)
    /\ GiveTo(KeyboardOn(ws))
    /\ current' = ws
    /\ UNCHANGED <<home, layer, plugged, locking>>

\* Key bindings do nothing while the session is locked.
SwitchWorkspace(ws) == ~locked /\ output_set_workspace(ws)

\* A window list or an X11 client activates a window, also of a workspace that is
\* not shown and also behind the lock: the switch first, then the focus.
Activate(w) ==
    /\ home[w] # None
    /\ current' = home[w]
    /\ focused' = focus_toplevel(w, IF home[w] = current THEN keyboard ELSE KeyboardOn(home[w]))
    /\ GiveTo(w)
    /\ UNCHANGED <<home, layer, plugged, locking>>
-----------------------------------------------------------------------------
(* Layer surfaces. *)

layer_surface_create(l, o, wish) ==
    /\ layer[l].is = "absent"
    /\ \A k \in Layer : layer[k].output = o => Level[k] # Level[l]
    /\ layer' = [layer EXCEPT ![l] = [is |-> "created", output |-> o, wish |-> wish]]
    /\ UNCHANGED <<windows, plugged, locking, keyboard, dropped>>

\* Mapping gives the keyboard to a surface that wants it; the commit that mapped
\* it then arranges its output.
TakesOnMap(l) == layer[l].wish # "none" /\ Level[l] \in {"overlay", "top"}

MapLayer(l) ==
    /\ layer[l].is = "created"
    /\ layer' = [layer EXCEPT ![l].is = "mapped"]
    /\ IF layer[l].output = None THEN UNCHANGED <<keyboard, dropped>>
       ELSE GiveTo(layer_surface_arrange(layer[l].output,
                        IF TakesOnMap(l) THEN l ELSE keyboard, layer'))
    /\ UNCHANGED <<windows, plugged, locking>>

\* The client changes its wish; such a commit arranges the output.
CommitLayer(l, wish) ==
    /\ layer[l].is # "absent" /\ layer[l].wish # wish
    /\ layer' = [layer EXCEPT ![l].wish = wish]
    /\ IF layer[l].output = None THEN UNCHANGED <<keyboard, dropped>>
       ELSE GiveTo(layer_surface_arrange(layer[l].output, keyboard, layer'))
    /\ UNCHANGED <<windows, plugged, locking>>

handle_unmap_none(l) == IF keyboard = l THEN None ELSE keyboard

\* Who has the keyboard after l was unmapped: the focused window if l had it.
handle_unmap(l) == IF keyboard = l THEN focused[current] ELSE keyboard

\* A mapped surface is unmapped, or any surface is destroyed; the commit or the end
\* of its node arranges the output. A surface whose output was lost has no listener
\* left: only the seat notices that it is gone.
Leave(l, is) ==
    /\ layer' = [layer EXCEPT ![l] = IF is = "absent" THEN Absent ELSE [@ EXCEPT !.is = is]]
    /\ IF layer[l].output # None
       THEN GiveTo(layer_surface_arrange(layer[l].output, handle_unmap(l), layer'))
       ELSE IF is = "absent" /\ keyboard = l THEN Drop
       ELSE UNCHANGED <<keyboard, dropped>>
    /\ UNCHANGED <<windows, plugged, locking>>

UnmapLayer(l) == layer[l].is = "mapped" /\ Leave(l, "created")
DestroyLayer(l) == layer[l].is # "absent" /\ Leave(l, "absent")
-----------------------------------------------------------------------------
(* Outputs. *)

PlugOutput(o) ==
    /\ o \notin plugged
    /\ keyboard # o
    /\ plugged' = plugged \cup {o}
    /\ UNCHANGED <<windows, layer, locking, keyboard, dropped>>

output_destroy_keeps_lock(o) ==
    /\ o \in plugged \ {Primary}
    /\ plugged' = plugged \ {o}
    /\ layer' = [l \in Layer |-> IF layer[l].output = o THEN [layer[l] EXCEPT !.output = None]
                                 ELSE layer[l]]
    /\ UNCHANGED <<windows, locking, keyboard, dropped>>

\* The layer surfaces of the output lose their wrapper with its scene trees, the
\* lock surface its listener; whoever has the keyboard keeps it.
output_destroy(o) ==
    /\ o \in plugged \ {Primary}
    /\ plugged' = plugged \ {o}
    /\ layer' = [l \in Layer |-> IF layer[l].output = o THEN [layer[l] EXCEPT !.output = None]
                                 ELSE layer[l]]
    /\ lock_surface' = lock_surface \ {o}
    /\ UNCHANGED <<windows, locked, lock, keyboard, dropped>>
-----------------------------------------------------------------------------
(* The session lock. *)

\* A second lock is refused while there is one; after a crash of the first client
\* there is none, though the session is still locked.
handle_new_lock ==
    /\ ~lock
    /\ lock' = TRUE /\ locked' = TRUE
    /\ GiveTo(None)
    /\ UNCHANGED <<windows, layer, plugged, lock_surface>>

handle_new_lock_surface(o) ==
    /\ lock /\ o \in plugged \ lock_surface
    /\ lock_surface' = lock_surface \cup {o}
    /\ GiveTo(o)
    /\ UNCHANGED <<windows, layer, plugged, locked, lock>>

\* The lock surfaces end with the lock; their handler clears the pointers.
handle_lock_unlock ==
    /\ lock
    /\ lock' = FALSE /\ locked' = FALSE /\ lock_surface' = {}
    /\ GiveTo(focused[current])
    /\ FocusShown(current)
    /\ UNCHANGED <<home, current, layer, plugged>>

\* The client died: the session stays locked.
handle_lock_destroy ==
    /\ lock
    /\ lock' = FALSE /\ lock_surface' = {}
    /\ GiveTo(None)
    /\ UNCHANGED <<windows, layer, plugged, locked>>

\* The client destroys one lock surface, or the one whose output is gone.
handle_lock_surface_destroy(o) ==
    /\ o \in lock_surface \/ keyboard = o
    /\ lock_surface' = lock_surface \ {o}
    /\ GiveTo(IF keyboard = o THEN None ELSE keyboard)
    /\ UNCHANGED <<windows, layer, plugged, locked, lock>>
-----------------------------------------------------------------------------
Init ==
    /\ home = [w \in Window |-> None]
    /\ focused = [ws \in Workspace |-> None]
    /\ current \in Workspace
    /\ layer = [l \in Layer |-> Absent]
    /\ plugged = {Primary}
    /\ locked = FALSE /\ lock = FALSE /\ lock_surface = {}
    /\ keyboard = None /\ dropped = FALSE

Next ==
    \/ \E w \in Window : MapWindow(w) \/ UnmapWindow(w) \/ FocusWindow(w) \/ Activate(w)
    \/ \E ws \in Workspace : SwitchWorkspace(ws)
    \/ \E l \in Layer, o \in plugged : \E wish \in Wishes[l] : layer_surface_create(l, o, wish)
    \/ \E l \in Layer : MapLayer(l) \/ UnmapLayer(l) \/ DestroyLayer(l)
    \/ \E l \in Layer : \E wish \in Wishes[l] : CommitLayer(l, wish)
    \/ \E o \in Output : PlugOutput(o) \/ output_destroy(o)
    \/ handle_new_lock \/ handle_lock_unlock \/ handle_lock_destroy
    \/ \E o \in Output : handle_new_lock_surface(o) \/ handle_lock_surface_destroy(o)

Spec == Init /\ [][Next]_vars
-----------------------------------------------------------------------------
TypeOK ==
    /\ home \in [Window -> Workspace \cup {None}]
    /\ focused \in [Workspace -> Window \cup {None}]
    /\ current \in Workspace
    /\ layer \in [Layer -> [is : {"absent", "created", "mapped"},
                            output : Output \cup {None}, wish : Wish]]
    /\ plugged \in SUBSET Output
    /\ locked \in BOOLEAN /\ lock \in BOOLEAN /\ dropped \in BOOLEAN
    /\ lock_surface \in SUBSET plugged
    /\ keyboard \in Window \cup Layer \cup Output \cup {None}

\* While the session is not locked the window that the displayed workspace calls
\* focused is not left without the keyboard: whoever takes it away - a launcher
\* that closes, a lock that ends, a switch to a workspace, another window that goes
\* - gives it to that window in the end. Two cases are known to lose it (dropped):
\* a surface of an unplugged output that had it, whose listeners are gone, and the
\* last window of a workspace that is not displayed, whose unmap clears the seat's
\* focus whoever has it (window.c:495).
KeyboardComesBack ==
    ~locked /\ keyboard = None /\ ~dropped => focused[current] = None

\* A window that has the keyboard is mapped and is the one its workspace calls
\* focused, whatever layer or lock surface had the keyboard in between: several
\* handlers pass the keyboard to ws->focused without focus_toplevel, and
\* focus_toplevel sets nothing when the keyboard is there already.
TypingGoesToFocused ==
    keyboard \in Window => home[keyboard] # None /\ focused[home[keyboard]] = keyboard
=============================================================================
