-------------------------------- MODULE Bar --------------------------------
(***************************************************************************)
(* What the compositor tells a status bar (ui/uwm_bar.c) while windows and *)
(* workspaces change: the notifications in wm/window.c, output/output.c    *)
(* and wm/workspace.c, the idle callback that batches them, and the        *)
(* deduplication of focus changes.                                         *)
(*                                                                         *)
(* The bar asks for a group without an output, as ubar does, so it is told *)
(* of the active output. Bounds: the outputs stay plugged (hotplug is in   *)
(* Desktop), and no move or resize with the pointer is going on.           *)
(***************************************************************************)
EXTENDS FiniteSets

CONSTANTS Window, Workspace, Output, None

VARIABLES
    desk,       \* what the handlers read and write, see TypeOK
    queued,     \* bar_send_idle_handler is in the event loop's idle list
    sent,       \* what the bar was told last, None without a bar
    silent      \* history: a change of it that no handler announced, since then

vars == <<desk, queued, sent, silent>>

\* The two flags the protocol sends for each workspace.
State(d) ==
    [active |-> {d.shows[d.active_output]},
     occupied |-> {d.home[w] : w \in d.mapped}]

On(d, ws) == {w \in d.mapped : d.home[w] = ws}
-----------------------------------------------------------------------------
(* The notifications. *)

uwm_bar_send_output(d) == [d EXCEPT !.idle_source = TRUE]

\* The output repeats the toplevel and workspace it notified of last.
Repeats(d, w, o) == d.bar_toplevel[o] = w /\ d.bar_ws[o] = d.shows[o]

uwm_bar_notify_focus(d, w) ==
    LET o == d.output[d.home[w]]
    IN  IF o = None \/ Repeats(d, w, o) THEN d
        ELSE uwm_bar_send_output(
                [d EXCEPT !.bar_toplevel[o] = w, !.bar_ws[o] = d.shows[o]])

focus_toplevel(d, w) ==
    LET ws == d.home[w]
    IN  IF d.keyboard = w THEN d
        ELSE uwm_bar_notify_focus(
                [d EXCEPT !.focused[ws] = w, !.keyboard = w,
                          !.active_output = IF d.output[ws] = None THEN @ ELSE d.output[ws]], w)

FocusOn(d, ws) ==
    IF d.focused[ws] # None THEN focus_toplevel(d, d.focused[ws])
    ELSE [d EXCEPT !.keyboard = None]

\* The other output takes the workspace in exchange, but not the workspace the output.
TradePlaces(d, o, ws) ==
    LET other == d.output[ws]
    IN  [d EXCEPT !.shows = [p \in Output |->
                      IF p = o THEN ws ELSE IF p = other THEN d.shows[o] ELSE @[p]],
                  !.output = [v \in Workspace |->
                      IF v = ws THEN o
                      ELSE IF v = d.shows[o] /\ @[v] = o THEN None ELSE @[v]]]

output_set_workspace(d, o, ws) ==
    IF d.shows[o] = ws /\ d.output[ws] = o THEN d
    ELSE uwm_bar_send_output(
            [FocusOn(TradePlaces(d, o, ws), ws) EXCEPT !.active_output = o])
-----------------------------------------------------------------------------
(* A handler turns desk into d. The idle callback is added unless its source is
   still set. A change of what the bar is to show that goes unannounced is one of
   the excused cases below or a mistake. *)
Step(d, excused) ==
    /\ desk' = d
    /\ queued' = (queued \/ (d.idle_source /\ ~desk.idle_source))
    /\ silent' = (~d.idle_source /\ (silent \/ (excused /\ State(d) # State(desk))))
    /\ UNCHANGED sent

\* A window opens on the current workspace, or where a rule sends it. Excused: no
\* output shows that workspace, or the output was notified of this window last.
MapWindow(w, ws) ==
    /\ w \notin desk.mapped
    /\ LET d == [desk EXCEPT !.mapped = @ \cup {w}, !.home[w] = ws]
           o == d.output[ws]
       IN  Step(focus_toplevel(d, w), o = None \/ Repeats(d, w, o))

UnmapFocused(w) ==
    LET ws == desk.home[w]
        d == [desk EXCEPT !.mapped = @ \ {w}, !.focused[ws] = None]
    IN  IF On(d, ws) = {} THEN {[d EXCEPT !.keyboard = None]}
        ELSE {focus_toplevel(d, heir) : heir \in On(d, ws)}

\* Excused: the handler notifies of the window that gets the focus, if one does.
UnmapWindow(w) ==
    /\ w \in desk.mapped
    /\ \E d \in IF desk.focused[desk.home[w]] = w THEN UnmapFocused(w)
                ELSE {[desk EXCEPT !.mapped = @ \ {w}]} : Step(d, TRUE)

DestroyWindow(w) ==
    /\ w \notin desk.mapped /\ desk.home[w] # None
    /\ Step([uwm_bar_send_output(desk) EXCEPT
                !.home[w] = None,
                !.bar_toplevel = [o \in Output |-> IF @[o] = w THEN None ELSE @[o]]], FALSE)

\* Excused: the output of the clicked window was notified of it before.
Click(w) ==
    /\ w \in desk.mapped /\ desk.output[desk.home[w]] # None
    /\ Step(focus_toplevel(desk, w), Repeats(desk, w, desk.output[desk.home[w]]))

workspace_switch(ws) == Step(output_set_workspace(desk, desk.active_output, ws), FALSE)

workspace_move_toplevel(d, w, ws, heir) ==
    LET old == d.home[w]
        moved == [d EXCEPT !.home[w] = ws, !.focused[old] = heir, !.focused[ws] = w]
    IN  IF d.output[ws] # None THEN focus_toplevel(moved, w) ELSE moved

\* Excused: the window moves to another output that was notified of it before.
movetows(ws) ==
    LET old == desk.shows[desk.active_output]
        w == desk.focused[old]
        others == On(desk, old) \ {w}
    IN  /\ w # None /\ ws # old
        /\ \E heir \in IF others = {} THEN {None} ELSE others :
           LET d == workspace_move_toplevel(desk, w, ws, heir)
               o == desk.output[ws]
           IN  Step(focus_toplevel(output_set_workspace(d, d.active_output, ws), w),
                    o # None /\ Repeats(desk, w, o))
-----------------------------------------------------------------------------
(* The bar's connection. *)

get_workspace_group ==
    /\ sent = None
    /\ sent' = State(desk) /\ silent' = FALSE
    /\ UNCHANGED <<desk, queued>>

workspace_group_destroy ==
    /\ sent # None
    /\ sent' = None
    /\ UNCHANGED <<desk, queued, silent>>

bar_send_idle_handler_kept ==
    /\ queued
    /\ queued' = FALSE
    /\ sent' = IF sent = None THEN None ELSE State(desk)
    /\ silent' = FALSE
    /\ UNCHANGED desk

bar_send_idle_handler ==
    /\ queued
    /\ queued' = FALSE
    /\ desk' = [desk EXCEPT !.idle_source = FALSE]
    /\ sent' = IF sent = None THEN None ELSE State(desk)
    /\ silent' = FALSE
-----------------------------------------------------------------------------
\* Each output shows a workspace of its own; one output is active.
Init ==
    /\ \E shows \in {f \in [Output -> Workspace] : \A o, p \in Output : f[o] = f[p] => o = p},
          o \in Output :
       desk = [home |-> [w \in Window |-> None], mapped |-> {},
               focused |-> [ws \in Workspace |-> None], keyboard |-> None,
               shows |-> shows, active_output |-> o,
               output |-> [ws \in Workspace |->
                   IF \E p \in Output : shows[p] = ws THEN CHOOSE p \in Output : shows[p] = ws
                   ELSE None],
               bar_toplevel |-> [p \in Output |-> None], bar_ws |-> [p \in Output |-> None],
               idle_source |-> FALSE]
    /\ queued = FALSE /\ sent = None /\ silent = FALSE

Next ==
    \/ \E w \in Window, ws \in Workspace : MapWindow(w, ws)
    \/ \E w \in Window : UnmapWindow(w) \/ DestroyWindow(w) \/ Click(w)
    \/ \E ws \in Workspace : workspace_switch(ws) \/ movetows(ws)
    \/ get_workspace_group \/ workspace_group_destroy \/ bar_send_idle_handler

Spec == Init /\ [][Next]_vars
-----------------------------------------------------------------------------
TypeOK ==
    /\ desk.home \in [Window -> Workspace \cup {None}]
    /\ desk.mapped \in SUBSET Window
    /\ desk.focused \in [Workspace -> Window \cup {None}]
    /\ desk.keyboard \in Window \cup {None}
    /\ desk.shows \in [Output -> Workspace]
    /\ desk.output \in [Workspace -> Output \cup {None}]
    /\ desk.active_output \in Output
    /\ desk.bar_toplevel \in [Output -> Window \cup {None}]
    /\ desk.bar_ws \in [Output -> Workspace \cup {None}]
    /\ desk.idle_source \in BOOLEAN /\ queued \in BOOLEAN

InSync == sent # None => sent = State(desk)

\* When the loop has run its idle callbacks the bar has been told of every change
\* that a switch, a move to a workspace, a new window or the end of one brought,
\* also when several of them shared one callback, a window was forgotten in between
\* or the change came after the callback had been queued. Changes that no handler
\* announces (silent) are excused.
BarIsTold == ~queued /\ ~silent => InSync
=============================================================================
