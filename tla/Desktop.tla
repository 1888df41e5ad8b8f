------------------------------ MODULE Desktop ------------------------------
(***************************************************************************)
(* Windows, workspaces and outputs: which windows a workspace lists, which *)
(* one it remembers as focused, which are floating, fullscreen or stacked, *)
(* which workspace an output shows, which window's scene node is enabled   *)
(* and which window the keyboard is on (wm/window.c, wm/workspace.c,       *)
(* wm/floating.c, wm/layout.c, output/output.c, core/output_manager.c and  *)
(* the actions and pointer handlers that call them).                       *)
(*                                                                         *)
(* The handlers share nearly all of this state and call each other, so the *)
(* state is one record, desk, and an operator named after a C function     *)
(* maps the record before the call to the one after it.                    *)
(*                                                                         *)
(* workspace_link and floating_link of a window share their storage: a     *)
(* window has one link, and taking it out of "the" list takes it out of    *)
(* whichever list it is in (Unlink).                                       *)
(*                                                                         *)
(* Abstracted: the trees (BspTree; here only which windows have a leaf, so *)
(* the sibling that inherits the focus is a free choice), geometry, the    *)
(* bar, layer surfaces and the session lock, popups, and workspace rules   *)
(* (BspRules).  A keyboard is attached.                                    *)
(***************************************************************************)
EXTENDS Naturals, Sequences, FiniteSets, SequencesExt

CONSTANTS
  Window,          \* uwm_toplevel objects; an address may be reused
  XWayland,        \* those of type UWM_TOPLEVEL_XWAYLAND
  EarlyFullscreen, \* those whose client toggles fullscreen while unmapped
  WorkspaceCount,  \* UWM_WORKSPACE_COUNT
  Output,          \* monitors
  NULL

Workspace == 0 .. WorkspaceCount - 1

ASSUME CountAssumption == WorkspaceCount \in Nat \ {0}
ASSUME ClientsAssumption ==
  XWayland \subseteq Window /\ EarlyFullscreen \subseteq Window \ XWayland
ASSUME NullsAssumption == NULL \notin Window \cup Output \cup Workspace

VARIABLE desk

Desk == [
  workspace : [Window -> Workspace \cup {NULL}],  \* NULL: no such object
  mapped : SUBSET Window,
  floating : SUBSET Window,
  fullscreen : SUBSET Window,
  savedFloating : SUBSET Window,                  \* was floating before that
  leaf : SUBSET Window,                           \* has a leaf in its ws's tree
  enabled : SUBSET Window,                        \* its scene node is enabled
  toplevels : [Workspace -> Seq(Window)],
  floats : [Workspace -> Seq(Window)],            \* ws->floating_windows
  focused : [Workspace -> Window \cup {NULL}],
  lastFocused : [Workspace -> Window \cup {NULL}],
  fullscreenWindow : [Workspace -> Window \cup {NULL}],
  monocle : SUBSET Workspace,
  output : [Workspace -> Output \cup {NULL}],     \* ws->output
  shows : [Output -> Workspace],                  \* output->current_workspace
  outputs : Seq(Output),                          \* server->outputs
  powered : SUBSET Output,                        \* wlr_output->enabled
  activeOutput : Output \cup {NULL},
  current : Workspace,                            \* workspaces.current
  keyboard : Window \cup {NULL} ]                 \* the seat's focused surface

(* workspace_manager_init, before the backend announces the first output. *)
Init ==
  desk = [workspace |-> [t \in Window |-> NULL], mapped |-> {}, floating |-> {},
          fullscreen |-> {}, savedFloating |-> {}, leaf |-> {}, enabled |-> {},
          toplevels |-> [w \in Workspace |-> <<>>],
          floats |-> [w \in Workspace |-> <<>>],
          focused |-> [w \in Workspace |-> NULL],
          lastFocused |-> [w \in Workspace |-> NULL],
          fullscreenWindow |-> [w \in Workspace |-> NULL],
          monocle |-> {}, output |-> [w \in Workspace |-> NULL],
          shows |-> [o \in Output |-> 0], outputs |-> <<>>, powered |-> {},
          activeOutput |-> NULL, current |-> 0, keyboard |-> NULL]

----------------------------------------------------------------------------
(* Lists, trees and visibility. *)

(* The first that is in S, or NULL. *)
FirstIn(s, S) ==
  LET i == SelectInSeq(s, LAMBDA t : t \in S)
  IN IF i = 0 THEN NULL ELSE s[i]

(* The first that is not NULL, in the order of preference given. *)
FirstOf(s) == FirstIn(s, ToSet(s) \ {NULL})

Listed(d, w) == ToSet(d.toplevels[w]) \cup ToSet(d.floats[w])

(* wl_list_remove of the one link a window has. *)
Unlink(d, t) ==
  LET without(lists) == [w \in Workspace |-> RemoveFirst(lists[w], t)]
  IN [d EXCEPT !.toplevels = without(@), !.floats = without(@)]

LinkTiled(d, t) == [d EXCEPT !.toplevels[d.workspace[t]] = <<t>> \o @]
LinkFloating(d, t) == [d EXCEPT !.floats[d.workspace[t]] = <<t>> \o @]

Tiled(d, t) == t \notin d.floating \cup d.fullscreen
TilesOf(d, w) == {t \in ToSet(d.toplevels[w]) : Tiled(d, t)}
LeavesOf(d, w) == {t \in d.leaf : d.workspace[t] = w}

Enable(d, ws) == [d EXCEPT !.enabled = @ \cup ws]
Disable(d, ws) == [d EXCEPT !.enabled = @ \ ws]

(* The one tiled window that monocle shows. *)
ActiveTiled(d, w) ==
  FirstIn(<<d.focused[w], d.lastFocused[w]>> \o d.toplevels[w],
          {t \in Window : Tiled(d, t)})

Arrange_unstacked(d, w) ==
  IF d.output[w] = NULL THEN d ELSE Enable(d, ToSet(d.floats[w]))
(* bsp_arrange, of which only what it shows and hides is modelled. *)
Arrange(d, w) ==
  IF d.output[w] = NULL THEN d
  ELSE IF w \in d.monocle /\ LeavesOf(d, w) # {}
       THEN Enable(Disable(d, TilesOf(d, w)),
                   ({ActiveTiled(d, w)} \ {NULL}) \cup ToSet(d.floats[w]))
       ELSE Enable(d, ToSet(d.floats[w]))

ArrangeIfTree(d, w) == IF LeavesOf(d, w) = {} THEN d ELSE Arrange(d, w)

(* Monocle ends when nothing is left to stack; everything tiled shows again. *)
ExitMonocleIfEmpty(d, w) ==
  LET off == [d EXCEPT !.monocle = @ \ {w}]
  IN IF w \notin d.monocle \/ TilesOf(d, w) # {} THEN d
     ELSE Enable(ArrangeIfTree(off, w), LeavesOf(d, w))

----------------------------------------------------------------------------
(* Focus. *)

raise_floating(d, t) ==
  IF t \in d.floating THEN LinkFloating(Unlink(d, t), t) ELSE d

ForgetLast_never(d, t) == d
ForgetLast(d, t) ==
  [d EXCEPT !.lastFocused[d.workspace[t]] = IF @ = t THEN NULL ELSE @]

(* Nothing happens if the keyboard is on the window already; else it       *)
(* becomes its workspace's focus and that workspace's output the active    *)
(* one.                                                                    *)
focus_toplevel(d, t) ==
  LET w == d.workspace[t]
      f == [d EXCEPT !.lastFocused[w] = d.focused[w], !.focused[w] = t,
                     !.activeOutput = IF d.output[w] = NULL THEN @ ELSE d.output[w]]
      hidden == TilesOf(f, w) \ {ActiveTiled(f, w)}
      shown == (TilesOf(f, w) \cap {ActiveTiled(f, w)}) \cup ToSet(f.floats[w])
      seen == IF w \in d.monocle THEN Enable(Disable(f, hidden), shown) ELSE f
  IN IF d.keyboard = t THEN d
     ELSE [raise_floating(seen, t) EXCEPT !.keyboard = t]

clear_focus_ignored(d) == d
clear_focus(d) == [d EXCEPT !.keyboard = NULL]

FocusIfAny(d, t) == IF t = NULL THEN d ELSE focus_toplevel(d, t)

(* What a workspace that comes on an output focuses. *)
FocusOf(d, w) == FirstOf(<<d.focused[w]>> \o d.toplevels[w] \o d.floats[w])
FocusOn(d, w) ==
  IF FocusOf(d, w) = NULL THEN clear_focus(d) ELSE focus_toplevel(d, FocusOf(d, w))

----------------------------------------------------------------------------
(* Floating, fullscreen and monocle. *)

FloatOut(d, t) ==
  ExitMonocleIfEmpty(
    LinkFloating(Unlink([d EXCEPT !.leaf = @ \ {t}, !.floating = @ \cup {t}], t), t),
    d.workspace[t])

TileBack_linked_twice(d, t) ==
  LinkTiled([d EXCEPT !.leaf = @ \cup {t}, !.floating = @ \ {t}], t)
TileBack(d, t) ==
  LinkTiled(Unlink([d EXCEPT !.leaf = @ \cup {t}, !.floating = @ \ {t}], t), t)

toggle_floating(d, t) ==
  LET turned == IF t \in d.floating THEN TileBack(d, t) ELSE FloatOut(d, t)
  IN IF t \in d.fullscreen THEN d
     ELSE focus_toplevel(Arrange(turned, d.workspace[t]), t)

EnterFullscreen(d, t) ==
  LET w == d.workspace[t]
      hidden == Disable(d, Listed(d, w) \ {t})
      f == [hidden EXCEPT
              !.savedFloating = IF t \in d.floating THEN @ \cup {t} ELSE @ \ {t},
              !.floating = @ \ {t}, !.fullscreen = @ \cup {t},
              !.fullscreenWindow[w] = t]
  IN IF t \in d.floating THEN Unlink(f, t) ELSE f

LeaveFullscreen(d, t) ==
  LET w == d.workspace[t]
      f == [d EXCEPT !.fullscreen = @ \ {t}, !.fullscreenWindow[w] = NULL]
      back == IF t \in d.savedFloating
              THEN LinkFloating(Unlink([f EXCEPT !.floating = @ \cup {t}], t), t)
              ELSE f
  IN FocusIfAny(Arrange(Enable(back, Listed(back, w)), w),
                IF d.focused[w] = t THEN t ELSE NULL)

toggle_fullscreen(d, t) ==
  IF t \in d.fullscreen THEN LeaveFullscreen(d, t) ELSE EnterFullscreen(d, t)

toggle_monocle(d, w) ==
  LET off == [d EXCEPT !.monocle = @ \ {w}]
      on == [d EXCEPT !.monocle = @ \cup {w}]
      floats == ToSet(d.floats[w])
  IN IF w \in d.monocle
     THEN Enable(ArrangeIfTree(off, w), LeavesOf(d, w) \cup floats)
     ELSE IF LeavesOf(d, w) = {} THEN on
     ELSE Enable(focus_toplevel(Arrange(on, w), d.focused[w]), floats)

NotFullscreen(d, t) == IF t \in d.fullscreen THEN LeaveFullscreen(d, t) ELSE d
NotFloating(d, t) == IF t \in d.floating THEN toggle_floating(d, t) ELSE d
NotMonocle(d, w) == IF w \in d.monocle THEN toggle_monocle(d, w) ELSE d

set_bsp_mode(d, w) ==
  NotMonocle(NotFloating(NotFullscreen(d, d.focused[w]), d.focused[w]), w)

----------------------------------------------------------------------------
(* Workspaces and the outputs that show them. *)

workspace_hide(d, w) ==
  Disable(d, IF d.fullscreenWindow[w] # NULL THEN {d.fullscreenWindow[w]}
             ELSE Listed(d, w))

workspace_show(d, w) ==
  LET tiled == ToSet(d.toplevels[w])
  IN IF d.fullscreenWindow[w] # NULL THEN Enable(d, {d.fullscreenWindow[w]})
     ELSE IF w \in d.monocle
     THEN Enable(Disable(d, tiled),
                 (tiled \cap {ActiveTiled(d, w)}) \cup ToSet(d.floats[w]))
     ELSE Enable(d, Listed(d, w))

Display_arranged(d, w) == ArrangeIfTree(d, w)
(* What both ways to bring a workspace on an output end with. *)
Display(d, w) == workspace_show(ArrangeIfTree(d, w), w)

output_set_workspace(d, o, w) ==
  LET old == d.shows[o]
      swapped == IF d.output[w] \in {NULL, o} THEN d
                 ELSE [d EXCEPT !.shows[d.output[w]] = old]
      left == [swapped EXCEPT !.output[old] = IF @ = o THEN NULL ELSE @]
      hidden == IF left.output[old] # NULL THEN left ELSE workspace_hide(left, old)
      shown == Display([hidden EXCEPT !.shows[o] = w, !.output[w] = o], w)
  IN IF old = w /\ d.output[w] = o THEN d
     ELSE [FocusOn(shown, w) EXCEPT !.current = w, !.activeOutput = o]

workspace_switch(d, w) ==
  LET o == FirstOf(<<d.activeOutput>> \o d.outputs)
  IN IF o = NULL THEN d ELSE output_set_workspace(d, o, w)

(* A move between workspaces: out of the one, which focuses another window, *)
(* and into the other, which focuses this one and shows it if it is shown. *)
MoveOut(d, t) ==
  LET out == Unlink([ForgetLast(d, t) EXCEPT !.leaf = @ \ {t}], t)
  IN IF t \in d.floating THEN out ELSE ExitMonocleIfEmpty(out, d.workspace[t])

PassFocus(d, t) ==
  LET v == d.workspace[t]
  IN IF d.focused[v] # t THEN d
     ELSE [d EXCEPT !.lastFocused[v] = NULL,
                    !.focused[v] = FirstOf(d.toplevels[v] \o d.floats[v])]

MoveIn(d, t, w) ==
  LET in == [d EXCEPT !.workspace[t] = w, !.focused[w] = t]
  IN IF t \in d.floating THEN LinkFloating(in, t)
     ELSE LinkTiled([in EXCEPT !.leaf = @ \cup {t}], t)

ShowMoved(d, t) ==
  IF d.output[d.workspace[t]] = NULL THEN Disable(d, {t})
  ELSE focus_toplevel(Enable(d, {t}), t)

workspace_move_toplevel(d, t, w) ==
  LET v == d.workspace[t]
      out == PassFocus(MoveOut(NotFullscreen(d, t), t), t)
  IN IF v = w THEN d
     ELSE ArrangeIfTree(ArrangeIfTree(ShowMoved(MoveIn(out, t, w), t), v), w)

(* The workspace that key bindings act on. *)
current_ws(d) == IF d.activeOutput # NULL THEN d.shows[d.activeOutput] ELSE d.current

----------------------------------------------------------------------------
(* Windows come and go. *)

Live(t) == desk.workspace[t] # NULL
Mapped(t) == t \in desk.mapped

(* The scene node of an XWayland window is enabled as it is created; that  *)
(* of the others follows the surface's map and unmap.                      *)
Create(t) ==
  /\ ~ Live(t)
  /\ desk' = LET d == [desk EXCEPT !.workspace[t] = desk.current,
                                   !.floating = @ \ {t}, !.fullscreen = @ \ {t},
                                   !.savedFloating = @ \ {t}]
             IN IF t \in XWayland THEN Enable(d, {t}) ELSE Disable(d, {t})

rule_apply_all_no_leaf(d, t, rule) ==
  LET float == [LinkFloating(Unlink(d, t), t) EXCEPT !.floating = @ \cup {t}]
  IN CASE rule = "float" /\ t \notin d.floating -> float
       [] rule = "fullscreen" /\ t \notin d.fullscreen -> toggle_fullscreen(d, t)
       [] OTHER -> d
rule_apply_all(d, t, rule) ==
  LET float == [LinkFloating(Unlink(d, t), t) EXCEPT !.floating = @ \cup {t}]
      leaf == [d EXCEPT !.leaf = IF t \in d.floating THEN @ ELSE @ \cup {t}]
  IN CASE rule = "float" /\ t \notin d.floating -> float
       [] rule = "fullscreen" /\ t \notin d.fullscreen -> toggle_fullscreen(leaf, t)
       [] OTHER -> d

MapTile(d, t) ==
  LET w == d.workspace[t]
      free == d.fullscreenWindow[w] \in {NULL, t}
      arranged == Arrange([d EXCEPT !.leaf = @ \cup {t}], w)
      focused == IF free THEN focus_toplevel(arranged, t) ELSE arranged
  IN IF w # d.current \/ ~ free THEN Disable(focused, {t}) ELSE focused

MapFloat(d, t) ==
  focus_toplevel(
    IF Tiled(d, t)
    THEN LinkFloating(Unlink([d EXCEPT !.floating = @ \cup {t}], t), t)
    ELSE d, t)

Rule == {"none", "float", "fullscreen"}

MapRuled(d, t) == IF Tiled(d, t) THEN MapTile(d, t) ELSE MapFloat(d, t)

(* tile is should_tile_toplevel: it is false of a dialog.  A window that is *)
(* in a list already is inserted all the same: that corrupts both lists,   *)
(* and the model goes no further in the handler.                           *)
Map(t, tile, rule) ==
  /\ Live(t) /\ ~ Mapped(t)
  /\ desk' = LET d == LinkTiled([desk EXCEPT
                         !.mapped = @ \cup {t},
                         !.enabled = IF t \in XWayland THEN @ ELSE @ \cup {t}], t)
             IN IF t \in Listed(desk, desk.workspace[t]) THEN d
                ELSE IF ~ tile THEN MapFloat(d, t)
                ELSE MapRuled(rule_apply_all(d, t, rule), t)

(* What becomes of the node next to t's leaf: a sibling that is an inner   *)
(* node holds no window.                                                   *)
Siblings(d, t) ==
  LET others == LeavesOf(d, d.workspace[t]) \ {t}
  IN IF t \notin d.leaf \/ t \in d.floating THEN {NULL}
     ELSE IF Cardinality(others) = 1 THEN others ELSE others \cup {NULL}

FocusAfter(d, t, sibling) ==
  LET w == d.workspace[t]
      last == IF t \in XWayland \/ d.lastFocused[w] \in d.fullscreen THEN NULL
              ELSE d.lastFocused[w]
  IN FirstOf(<<last, sibling>> \o d.toplevels[w] \o d.floats[w])

MonocleEnds(d, t) ==
  LET w == d.workspace[t]
  IN w \in d.monocle /\ IF t \in XWayland THEN Len(d.toplevels[w]) <= 1
                        ELSE TilesOf(d, w) = {}

(* The layout of what is left, and the keyboard if it was on the window.   *)
Settle(d, w, ends) ==
  LET off == [d EXCEPT !.monocle = IF ends THEN @ \ {w} ELSE @]
  IN Enable(ArrangeIfTree(off, w), IF ends THEN LeavesOf(off, w) ELSE {})

Refocus(d, w, displaced) ==
  IF d.focused[w] = NULL THEN clear_focus(d)
  ELSE FocusIfAny(d, IF displaced THEN d.focused[w] ELSE NULL)

Unmap(t, sibling) ==
  /\ Live(t) /\ Mapped(t)
  /\ sibling \in Siblings(desk, t)
  /\ desk' =
       LET w == desk.workspace[t]
           gone == Unlink([ForgetLast(desk, t) EXCEPT
                     !.mapped = @ \ {t}, !.leaf = @ \ {t}, !.fullscreen = @ \ {t},
                     !.enabled = IF t \in XWayland THEN @ ELSE @ \ {t}], t)
           shown == IF t \in desk.fullscreen
                    THEN Enable([gone EXCEPT !.fullscreenWindow[w] = NULL],
                                Listed(gone, w))
                    ELSE gone
           displaced == desk.focused[w] = t
           passed == [shown EXCEPT !.focused[w] =
                        IF displaced THEN FocusAfter(shown, t, sibling) ELSE @]
       IN Refocus(Settle(passed, w, MonocleEnds(passed, t)), w, displaced)

(* wlroots unmaps a window before it destroys it, and the seat forgets a   *)
(* destroyed surface.  calloc clears the rest for the next object.         *)
Destroy(t) ==
  /\ Live(t) /\ ~ Mapped(t)
  /\ desk' =
       LET w == desk.workspace[t]
           gone == Unlink([desk EXCEPT
                     !.workspace[t] = NULL, !.floating = @ \ {t},
                     !.fullscreen = @ \ {t}, !.savedFloating = @ \ {t},
                     !.enabled = @ \ {t},
                     !.keyboard = IF @ = t THEN NULL ELSE @], t)
           forget(p) == [p EXCEPT ![w] = IF @ = t THEN NULL ELSE @]
       IN [gone EXCEPT !.lastFocused = forget(@), !.focused = forget(@),
                       !.fullscreenWindow = forget(@)]

----------------------------------------------------------------------------
(* Requests of clients, bars and of the user. *)

RequestFullscreen(t) ==
  /\ Live(t) /\ (Mapped(t) \/ t \in EarlyFullscreen)
  /\ desk' = toggle_fullscreen(desk, t)

(* From a window list; X11 windows ask for it the same way. *)
RequestActivate(t) ==
  /\ Live(t) /\ Mapped(t)
  /\ desk' = focus_toplevel(workspace_switch(desk, desk.workspace[t]), t)

(* A click, or the pointer where focus follows it. *)
Click(t) ==
  /\ Live(t) /\ Mapped(t) /\ t \in desk.enabled
  /\ desk' = focus_toplevel(desk, t)

(* Logo and a button: a tiled window floats before it is moved or resized. *)
Grab(t) ==
  /\ Live(t) /\ Mapped(t) /\ t \in desk.enabled
  /\ desk' = LET d == focus_toplevel(desk, t)
             IN IF t \in d.floating THEN d ELSE toggle_floating(d, t)

(* A client wants its window moved with the pointer. *)
RequestMove(t) ==
  /\ Live(t) /\ Mapped(t) /\ t \notin desk.floating
  /\ desk' = toggle_floating(desk, t)

Focused(d) == d.focused[current_ws(d)]

ToggleFloating ==
  /\ Focused(desk) # NULL
  /\ desk' = toggle_floating(desk, Focused(desk))

ToggleFullscreen ==
  /\ Focused(desk) # NULL
  /\ desk' = toggle_fullscreen(desk, Focused(desk))

ToggleMonocle ==
  /\ Focused(desk) # NULL
  /\ desk' = toggle_monocle(desk, current_ws(desk))

SetBsp ==
  /\ Focused(desk) # NULL
  /\ desk' = set_bsp_mode(desk, current_ws(desk))

(* bsp_focus_left and its like: geometry picks the leaf t. *)
MoveFocus(t) ==
  /\ desk.fullscreenWindow[current_ws(desk)] = NULL
  /\ LET tree == LeavesOf(desk, current_ws(desk))
     IN {t, Focused(desk)} \subseteq tree \ desk.floating /\ t # Focused(desk)
  /\ desk' = focus_toplevel(desk, t)

(* cyclefocus, on the workspace switched to last. *)
CycleFocus ==
  LET w == desk.current
      all == desk.toplevels[w] \o desk.floats[w]
      at == {i \in DOMAIN all : all[i] = desk.focused[w]}
      next == IF at = {} THEN 1 ELSE ((CHOOSE i \in at : TRUE) % Len(all)) + 1
  IN /\ desk.fullscreenWindow[w] = NULL /\ Len(all) >= 2
     /\ desk' = focus_toplevel(desk, all[next])

Switch(w) == desk' = workspace_switch(desk, w)

MoveToWorkspace(w) ==
  LET t == Focused(desk)
  IN /\ t # NULL
     /\ desk' = focus_toplevel(
                  workspace_switch(workspace_move_toplevel(desk, t, w), w), t)

----------------------------------------------------------------------------
(* Outputs come and go, and are switched off and on by their manager. *)

Unused(d) == Workspace \ {d.shows[o] : o \in ToSet(d.outputs)}
LowestUnused(d) ==
  IF Unused(d) = {} THEN 0
  ELSE CHOOSE w \in Unused(d) : \A v \in Unused(d) : w <= v

MakeActiveIfNone(d, o) ==
  IF d.activeOutput # NULL THEN d
  ELSE [d EXCEPT !.activeOutput = o, !.current = d.shows[o]]

Announce(d, o) == [d EXCEPT !.outputs = <<o>> \o @, !.powered = @ \cup {o}]

FocusFirst(d, w) == FocusIfAny(d, FirstOf(<<d.focused[w]>> \o d.toplevels[w]))

server_new_output(o) ==
  /\ o \notin ToSet(desk.outputs)
  /\ desk' = LET w == LowestUnused(desk)
                 d == [Announce(desk, o) EXCEPT !.shows[o] = w, !.output[w] = o]
             IN FocusFirst(Display(MakeActiveIfNone(d, o), w), w)

(* The workspace of an output that goes or is switched off has none, and   *)
(* the first other output becomes the active one.                          *)
Vacate_never(d, o) == d
Vacate(d, o) == [d EXCEPT !.output[d.shows[o]] = NULL]

PassActive(d, o) ==
  [d EXCEPT !.activeOutput =
     IF @ = o THEN FirstOf(RemoveFirst(d.outputs, o)) ELSE @]

MoveAll(d, ts, w) ==
  LET moved[n \in 0 .. Len(ts)] ==
        IF n = 0 THEN d ELSE workspace_move_toplevel(moved[n - 1], ts[n], w)
  IN moved[Len(ts)]

Evacuate_tiled(d, v, w) == ArrangeIfTree(MoveAll(d, d.toplevels[v], w), w)
MoveFloats(d, v, w) == MoveAll(d, d.floats[v], w)
(* The tiled windows first, then the floating ones that are left. *)
Evacuate(d, v, w) ==
  ArrangeIfTree(MoveFloats(MoveAll(d, d.toplevels[v], w), v, w), w)

output_destroy(o) ==
  /\ o \in ToSet(desk.outputs)
  /\ desk' =
       LET lost == [Vacate(desk, o) EXCEPT
                      !.outputs = RemoveFirst(@, o),
                      !.powered = @ \ {o}]
       IN PassActive(
            IF lost.outputs = <<>> THEN lost
            ELSE Evacuate(lost, lost.shows[o], lost.shows[Head(lost.outputs)]), o)

PowerOff(o) ==
  /\ o \in desk.powered
  /\ desk' = PassActive([Vacate(desk, o) EXCEPT !.powered = @ \ {o}], o)

FocusShown(d, w) == FocusIfAny(d, FocusOf(d, w))

PowerOn(o) ==
  /\ o \in ToSet(desk.outputs) \ desk.powered
  /\ desk' = LET w == desk.shows[o]
                 other == desk.output[w]
                 passed == IF other \in {NULL, o} THEN desk
                           ELSE [desk EXCEPT !.shows[other] = w]
                 d == [passed EXCEPT !.powered = @ \cup {o}, !.output[w] = o]
             IN FocusShown(Display(MakeActiveIfNone(d, o), w), w)

Next ==
  \/ \E t \in Window :
       \/ Create(t) \/ Destroy(t)
       \/ \E tile \in BOOLEAN, rule \in Rule : Map(t, tile, rule)
       \/ \E sibling \in Window \cup {NULL} : Unmap(t, sibling)
       \/ RequestFullscreen(t) \/ RequestActivate(t) \/ Click(t) \/ Grab(t)
       \/ RequestMove(t) \/ MoveFocus(t)
  \/ ToggleFloating \/ ToggleFullscreen \/ ToggleMonocle \/ SetBsp \/ CycleFocus
  \/ \E w \in Workspace : Switch(w) \/ MoveToWorkspace(w)
  \/ \E o \in Output :
       server_new_output(o) \/ output_destroy(o) \/ PowerOff(o) \/ PowerOn(o)

Spec == Init /\ [][Next]_desk

----------------------------------------------------------------------------
(* Types; an output that is on has been announced. *)
TypeOK == desk \in Desk /\ desk.powered \subseteq ToSet(desk.outputs)

(* How often a window occurs in a list. *)
Occurrences(s, t) == Cardinality({i \in DOMAIN s : s[i] = t})

(* A mapped window is in the lists of its workspace exactly once, but for  *)
(* a floating one that is fullscreen, which is in none; no other window is *)
(* in a list (window.c, floating.c, workspace.c, with one link for both).  *)
ListsConsistent ==
  \A t \in Window, w \in Workspace :
    Occurrences(desk.toplevels[w] \o desk.floats[w], t) =
      IF /\ Mapped(t) /\ desk.workspace[t] = w
         /\ ~ (t \in desk.fullscreen /\ t \in desk.savedFloating)
      THEN 1 ELSE 0

(* A workspace's tree holds the windows of its tiled list (bsp.c next to   *)
(* the lists of window.c, floating.c and workspace.c).                     *)
TreeMatchesList ==
  \A w \in Workspace : LeavesOf(desk, w) = ToSet(desk.toplevels[w])

(* What a workspace points at is a mapped window of that workspace, and    *)
(* the one it shows alone is fullscreen: the handlers follow the pointers  *)
(* without a check (window.c:440-470, workspace.c:60, 98).                 *)
PointersLive ==
  /\ \A w \in Workspace, p \in {desk.focused, desk.lastFocused, desk.fullscreenWindow} :
       p[w] # NULL => Mapped(p[w]) /\ desk.workspace[p[w]] = w
  /\ \A w \in Workspace :
       desk.fullscreenWindow[w] # NULL => desk.fullscreenWindow[w] \in desk.fullscreen

(* The window that receives the keys is its workspace's focused one, which *)
(* key bindings act on.                                                    *)
KeyboardIsFocused ==
  desk.keyboard # NULL => desk.focused[desk.workspace[desk.keyboard]] = desk.keyboard

(* A workspace's output exists and shows that workspace. *)
OutputsExact ==
  \A w \in Workspace :
    desk.output[w] # NULL =>
      desk.output[w] \in ToSet(desk.outputs) /\ desk.shows[desk.output[w]] = w

(* The active output exists, and there is one while one is on.             *)
ActiveExists ==
  /\ desk.activeOutput # NULL => desk.activeOutput \in ToSet(desk.outputs)
  /\ desk.activeOutput = NULL => desk.powered = {}

(* However outputs come, go, trade workspaces and are switched off, the     *)
(* lists, the pointers to windows, the outputs' workspaces and the active   *)
(* output stay consistent with one another (output.c:70-160, 209-283).      *)
DeskConsistent ==
  TypeOK /\ ListsConsistent /\ PointersLive /\ OutputsExact /\ ActiveExists

(* All windows of a workspace on display are visible, unless one of them   *)
(* is fullscreen or they are stacked.  Not so those of XWayland: one that  *)
(* was hidden as it was unmapped stays hidden when it is mapped again,     *)
(* as nothing enables its node then.                                       *)
DisplayedVisible ==
  \A w \in Workspace \ desk.monocle :
    desk.output[w] # NULL /\ desk.fullscreenWindow[w] = NULL
      => Listed(desk, w) \ XWayland \subseteq desk.enabled

(* In monocle at most one tiled window is visible, and one is.             *)
MonocleShowsOne ==
  \A w \in desk.monocle :
    desk.output[w] # NULL /\ desk.fullscreenWindow[w] = NULL /\ TilesOf(desk, w) # {}
      => Cardinality(TilesOf(desk, w) \cap desk.enabled) = 1

(* When an output goes and another remains, all windows that its workspace *)
(* lists move to the workspace of the first one that remains, the lists of *)
(* other workspaces keep theirs, and no window is unmapped (output.c:100). *)
EvacuatesListed ==
  [][\A o \in ToSet(desk.outputs) :
       o \notin ToSet(desk'.outputs) /\ desk'.outputs # <<>>
       => LET to == desk'.shows[Head(desk'.outputs)]
          IN /\ \A t \in Listed(desk, desk.shows[o]) : desk'.workspace[t] = to
             /\ \A w \in Workspace : Listed(desk, w) \subseteq Listed(desk', w)
                                       \/ w = desk.shows[o]
             /\ desk'.mapped = desk.mapped]_desk

(* The other output takes this output's workspace (output.c:226).          *)
SwapIsComplete ==
  \A o \in desk.powered : desk.output[desk.shows[o]] # NULL

(* A window is never in the tiled and the floating list at once            *)
(* (docs/TEXTBOOK.md:2428 on the union of the two links).                  *)
TiledXorFloating ==
  \A w \in Workspace :
    ToSet(desk.toplevels[w]) \cap ToSet(desk.floats[w]) = {}
=============================================================================
