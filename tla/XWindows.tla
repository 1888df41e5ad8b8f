------------------------------ MODULE XWindows ------------------------------
(***************************************************************************)
(* The life of X11 windows (wm/window_xwayland.c): the X window, the       *)
(* surface it is associated with and the window object the compositor      *)
(* keeps for it, which is freed and made anew when the client turns a      *)
(* window into a menu (override-redirect) or back.  Objects are memory: a  *)
(* new one may get the address of one that was freed.                      *)
(*                                                                         *)
(* The frame around the focused window (wm/border.c) is here as well.      *)
(*                                                                         *)
(* One workspace, shown by one output, without monocle and window rules;   *)
(* these, and several workspaces, are in Desktop.  A keyboard is attached. *)
(* Left out is output->bar_focused_toplevel (uwm_bar.c:229-233), which may *)
(* name an object that was freed here and is only compared, never followed *)
(* (Bar has what it is for).                                               *)
(***************************************************************************)
EXTENDS Naturals, FiniteSets, SequencesExt

CONSTANTS
  XSurface,   \* X windows
  Object,     \* addresses for window objects
  None

VARIABLE xdesk

Stages == {"gone", "bare", "associated", "mapped"}

(* The stage of an X window is kept by wlroots, as are redirect and data.  *)
Desk ==
  [ stage : [XSurface -> Stages],
    redirect : SUBSET XSurface,                   \* xs->override_redirect
    data : [XSurface -> Object \cup {None}],      \* xs->data
    surface : [Object -> XSurface \cup {None}],   \* None: freed
    floating : SUBSET Object, fullscreen : SUBSET Object,
    saved_floating : SUBSET Object,
    listens : SUBSET Object,                      \* to map, unmap and commit
    handle : SUBSET Object,                       \* has window-list handles
    leaf : SUBSET Object,                         \* in the tree
    toplevels : Seq(Object), floats : Seq(Object),
    focused : Object \cup {None}, last_focused : Object \cup {None},
    fullscreen_window : Object \cup {None},
    grabbed : Object \cup {None},
    keyboard : XSurface \cup {None},
    disabled : SUBSET Object,                     \* scene node disabled
    border_shown : SUBSET Object ]

Init == xdesk =
  [stage |-> [s \in XSurface |-> "gone"], redirect |-> {},
   data |-> [s \in XSurface |-> None], surface |-> [o \in Object |-> None],
   floating |-> {}, fullscreen |-> {}, saved_floating |-> {}, listens |-> {},
   handle |-> {}, leaf |-> {}, toplevels |-> <<>>, floats |-> <<>>,
   focused |-> None, last_focused |-> None, fullscreen_window |-> None,
   grabbed |-> None, keyboard |-> None, disabled |-> {}, border_shown |-> {}]

Live(d) == {o \in Object : d.surface[o] # None}
IsMenu(d, o) == d.surface[o] \in d.redirect
(* The first that is there, in the order of preference given. *)
FirstOf(s) ==
  LET i == SelectInSeq(s, LAMBDA o : o # None)
  IN IF i = 0 THEN None ELSE s[i]

----------------------------------------------------------------------------
(* Lists and the frame. *)

Listed(d) == ToSet(d.toplevels) \cup ToSet(d.floats)
Unlink(d, o) ==
  [d EXCEPT !.toplevels = RemoveFirst(@, o), !.floats = RemoveFirst(@, o)]
LinkTiled(d, o) == [Unlink(d, o) EXCEPT !.toplevels = <<o>> \o @]
LinkFloating(d, o) == [Unlink(d, o) EXCEPT !.floats = <<o>> \o @]

Float(d, o) == LinkFloating([d EXCEPT !.floating = @ \cup {o}], o)

Tiles(d) == ToSet(d.toplevels) \ (d.floating \cup d.fullscreen)

(* A tiled window that is alone needs no frame. *)
should_show_border(d, o) ==
  /\ o = d.focused
  /\ o \notin d.disabled \cup d.fullscreen /\ ~ IsMenu(d, o)
  /\ o \in d.floating \/ Cardinality(Tiles(d)) > 1

toplevel_update_border(d, os) ==
  [d EXCEPT !.border_shown = (@ \ os) \cup {o \in os : should_show_border(d, o)}]

workspace_update_borders_focused(d) == toplevel_update_border(d, {d.focused} \ {None})
workspace_update_borders(d) == toplevel_update_border(d, Listed(d))

----------------------------------------------------------------------------
(* Focus, floating and fullscreen, as in Desktop. *)

(* The workspace's borders are updated, unless nothing changes. *)
focus_toplevel(d, o) ==
  LET f == [d EXCEPT !.last_focused = d.focused, !.focused = o,
                     !.keyboard = d.surface[o]]
  IN IF d.keyboard = d.surface[o] THEN d
     ELSE workspace_update_borders(IF o \in d.floating THEN LinkFloating(f, o) ELSE f)

toggle_floating(d, o) ==
  LET out == Float([d EXCEPT !.leaf = @ \ {o}], o)
      back == LinkTiled([d EXCEPT !.leaf = @ \cup {o}, !.floating = @ \ {o}], o)
  IN IF o \in d.fullscreen THEN d
     ELSE workspace_update_borders(
            focus_toplevel(IF o \in d.floating THEN back ELSE out, o))

(* The frames stay: a window of the size of the output covers them. *)
EnterFullscreen(d, o) ==
  LET f == [d EXCEPT !.saved_floating = (@ \ {o}) \cup (d.floating \cap {o}),
                     !.floating = @ \ {o}, !.fullscreen = @ \cup {o},
                     !.fullscreen_window = o,
                     !.disabled = @ \cup (Listed(d) \ {o})]
  IN IF o \in d.floating THEN Unlink(f, o) ELSE f

LeaveFullscreen(d, o) ==
  LET f == [d EXCEPT !.fullscreen = @ \ {o}, !.fullscreen_window = None]
      back == IF o \in d.saved_floating THEN Float(f, o) ELSE f
      shown == [back EXCEPT !.disabled = @ \ Listed(back)]
  IN workspace_update_borders(
       IF d.focused = o THEN focus_toplevel(shown, o) ELSE shown)

toggle_fullscreen(d, o) ==
  IF o \in d.fullscreen THEN LeaveFullscreen(d, o) ELSE EnterFullscreen(d, o)

reset_cursor_mode(d, o) == [d EXCEPT !.grabbed = IF @ = o THEN None ELSE @]

----------------------------------------------------------------------------
(* The handlers of one window. *)

(* A menu floats where it says and takes no focus. *)
MapMenu(d, o) == workspace_update_borders(Float(d, o))

(* A dialog floats, unless it floated or is fullscreen already. *)
MapFloat(d, o) ==
  workspace_update_borders(
    focus_toplevel(IF o \in d.floating \cup d.fullscreen THEN d ELSE Float(d, o), o))

MapTile(d, o) ==
  LET tiled == workspace_update_borders([d EXCEPT !.leaf = @ \cup {o}])
  IN IF d.fullscreen_window \in {None, o} THEN focus_toplevel(tiled, o)
     ELSE [tiled EXCEPT !.disabled = @ \cup {o}]

(* tile is should_tile_toplevel.  What floats, or is fullscreen, is not    *)
(* tiled even so.                                                          *)
xwayland_toplevel_map(d, o, tile) ==
  LET in == LinkTiled([d EXCEPT !.handle = @ \cup {o}], o)
  IN IF IsMenu(d, o) THEN MapMenu(in, o)
     ELSE IF tile /\ o \notin d.floating \cup d.fullscreen THEN MapTile(in, o)
     ELSE MapFloat(in, o)

(* sibling: the window next to o in the tree, if it is a window. *)
Siblings(d, o) ==
  IF o \in d.leaf \ d.floating /\ d.leaf # {o} THEN (d.leaf \ {o}) \cup {None}
  ELSE {None}

Removed(d, o) ==
  LET r == Unlink([reset_cursor_mode(d, o) EXCEPT
                     !.handle = @ \ {o}, !.leaf = @ \ {o}, !.fullscreen = @ \ {o},
                     !.last_focused = IF @ = o THEN None ELSE @], o)
  IN IF o \notin d.fullscreen THEN r
     ELSE [r EXCEPT !.fullscreen_window = None, !.disabled = @ \ Listed(r)]

(* The window is in no list by the time the borders are updated. *)
xwayland_toplevel_unmap(d, o, sibling) ==
  LET gone == Removed(d, o)
      next == FirstOf(<<sibling>> \o gone.toplevels \o gone.floats)
      settled == workspace_update_borders(
                   [gone EXCEPT !.focused = IF @ = o THEN next ELSE @])
  IN IF settled.focused = None THEN [settled EXCEPT !.keyboard = None]
     ELSE IF d.focused = o THEN focus_toplevel(settled, next)
     ELSE settled

xwayland_handle_associate(d, o, tile) ==
  LET heard == [d EXCEPT !.listens = @ \cup {o}]
  IN CASE d.stage[d.surface[o]] = "mapped" -> xwayland_toplevel_map(heard, o, tile)
       [] d.stage[d.surface[o]] = "associated" -> heard
       [] OTHER -> d

xwayland_handle_dissociate(d, o) == [d EXCEPT !.listens = @ \ {o}]

(* What a freed object held is cleared when its address is used again, by  *)
(* calloc; the model clears it here.                                       *)
Free(d, o) ==
  [Unlink(d, o) EXCEPT !.surface[o] = None, !.listens = @ \ {o},
                       !.border_shown = @ \ {o}, !.disabled = @ \ {o},
                       !.floating = @ \ {o}, !.fullscreen = @ \ {o},
                       !.saved_floating = @ \ {o}]

server_new_xwayland_surface(d, s, o, tile) ==
  xwayland_handle_associate(
    [d EXCEPT !.data[s] = o, !.surface[o] = s,
              !.floating = IF s \in d.redirect THEN @ \cup {o} ELSE @],
    o, tile)

xwayland_toplevel_destroy(d, o) ==
  LET forget(p) == IF p = o THEN None ELSE p
      f == [Free(reset_cursor_mode(d, o), o) EXCEPT
              !.focused = forget(@), !.last_focused = forget(@),
              !.fullscreen_window = forget(@), !.handle = @ \ {o}]
  IN IF o \in d.floating \cup d.fullscreen THEN f ELSE [f EXCEPT !.leaf = @ \ {o}]

(* The object of s is freed and another one, o, made for it. *)
Unmapped_skipped(d, s, sibling) == d
Unmapped(d, s, sibling) ==
  IF d.stage[s] = "mapped" THEN xwayland_toplevel_unmap(d, d.data[s], sibling) ELSE d

xwayland_handle_override_redirect(d, s, sibling, o, tile) ==
  LET freed == Free(xwayland_handle_dissociate(Unmapped(d, s, sibling), d.data[s]),
                    d.data[s])
  IN server_new_xwayland_surface(freed, s, o, tile)

----------------------------------------------------------------------------
(* What the X server and its clients do, as wlroots reports it. *)

Mapped(s) == xdesk.stage[s] = "mapped"
Managed(s) == Mapped(s) /\ s \notin xdesk.redirect
ObjectOf(s) == xdesk.data[s]

NewWindow(s, menu, o) ==
  /\ xdesk.stage[s] = "gone" /\ o \notin Live(xdesk)
  /\ xdesk' = server_new_xwayland_surface(
                [xdesk EXCEPT !.stage[s] = "bare",
                              !.redirect = IF menu THEN @ \cup {s} ELSE @ \ {s}],
                s, o, TRUE)

Associate(s) ==
  /\ xdesk.stage[s] = "bare"
  /\ xdesk' = xwayland_handle_associate(
                [xdesk EXCEPT !.stage[s] = "associated"], ObjectOf(s), TRUE)

(* Only an object that listens hears of it. *)
MapSurface(s, tile) ==
  /\ xdesk.stage[s] = "associated"
  /\ LET d == [xdesk EXCEPT !.stage[s] = "mapped"]
     IN xdesk' = IF ObjectOf(s) \in d.listens
                 THEN xwayland_toplevel_map(d, ObjectOf(s), tile) ELSE d

UnmapSurface(s, sibling) ==
  /\ Mapped(s) /\ sibling \in Siblings(xdesk, ObjectOf(s))
  /\ LET d == [xdesk EXCEPT !.stage[s] = "associated"]
     IN xdesk' = IF ObjectOf(s) \in d.listens
                 THEN xwayland_toplevel_unmap(d, ObjectOf(s), sibling) ELSE d

(* The surface goes, and with it the seat's focus on it. *)
Dissociate(s) ==
  /\ xdesk.stage[s] = "associated"
  /\ xdesk' = xwayland_handle_dissociate(
                [xdesk EXCEPT !.stage[s] = "bare",
                              !.keyboard = IF @ = s THEN None ELSE @], ObjectOf(s))

DestroyWindow(s) ==
  /\ xdesk.stage[s] = "bare"
  /\ xdesk' = xwayland_toplevel_destroy(
                [xdesk EXCEPT !.stage[s] = "gone", !.data[s] = None,
                              !.redirect = @ \ {s}], ObjectOf(s))

(* xs->override_redirect has changed before the handler is called. *)
SetOverrideRedirect(s, sibling, o, tile) ==
  /\ xdesk.stage[s] # "gone" /\ sibling \in Siblings(xdesk, ObjectOf(s))
  /\ o \notin Live(xdesk) \ {ObjectOf(s)}
  /\ xdesk' = xwayland_handle_override_redirect(
                [xdesk EXCEPT !.redirect = IF s \in @ THEN @ \ {s} ELSE @ \cup {s}],
                s, sibling, o, tile)

RequestActivate(s) == Managed(s) /\ xdesk' = focus_toplevel(xdesk, ObjectOf(s))

Click(s) ==
  /\ Managed(s) /\ ObjectOf(s) \notin xdesk.disabled
  /\ xdesk' = focus_toplevel(xdesk, ObjectOf(s))

(* A commit of the surface only updates its frame. *)
Commit(s) ==
  /\ xdesk.stage[s] \in {"associated", "mapped"} /\ ObjectOf(s) \in xdesk.listens
  /\ xdesk' = toplevel_update_border(xdesk, {ObjectOf(s)})

RequestFullscreen(s) == Mapped(s) /\ xdesk' = toggle_fullscreen(xdesk, ObjectOf(s))

RequestMove(s) ==
  LET o == ObjectOf(s)
      d == IF o \in xdesk.floating THEN xdesk ELSE toggle_floating(xdesk, o)
  IN Mapped(s) /\ xdesk' = [d EXCEPT !.grabbed = o]

RequestResize(s) ==
  /\ Mapped(s) /\ ObjectOf(s) \in xdesk.floating
  /\ xdesk' = [xdesk EXCEPT !.grabbed = ObjectOf(s)]

EndGrab == xdesk.grabbed # None /\ xdesk' = reset_cursor_mode(xdesk, xdesk.grabbed)

(* The key bindings act on the focused window. *)
ToggleFloating ==
  /\ xdesk.focused # None
  /\ xdesk' = toggle_floating(xdesk, xdesk.focused)

ToggleFullscreen ==
  /\ xdesk.focused # None
  /\ xdesk' = toggle_fullscreen(xdesk, xdesk.focused)

workspace_cycle_next ==
  LET all == xdesk.toplevels \o xdesk.floats
      at == {i \in DOMAIN all : all[i] = xdesk.focused}
      next == IF at = {} THEN 1 ELSE ((CHOOSE i \in at : TRUE) % Len(all)) + 1
  IN /\ xdesk.fullscreen_window = None /\ Len(all) >= 2
     /\ xdesk' = focus_toplevel(xdesk, all[next])

Next ==
  \/ \E s \in XSurface, o \in Object, b \in BOOLEAN :
       \/ NewWindow(s, b, o)
       \/ \E sibling \in Object \cup {None} : SetOverrideRedirect(s, sibling, o, b)
  \/ \E s \in XSurface, tile \in BOOLEAN : MapSurface(s, tile)
  \/ \E s \in XSurface, sibling \in Object \cup {None} : UnmapSurface(s, sibling)
  \/ \E s \in XSurface :
       \/ Associate(s) \/ Dissociate(s) \/ DestroyWindow(s)
       \/ RequestActivate(s) \/ Click(s) \/ Commit(s)
       \/ RequestFullscreen(s) \/ RequestMove(s) \/ RequestResize(s)
  \/ EndGrab \/ ToggleFloating \/ ToggleFullscreen \/ workspace_cycle_next

Spec == Init /\ [][Next]_xdesk

----------------------------------------------------------------------------
(* Type invariant.                                                         *)
TypeOK == xdesk \in Desk

ObjectsOf(stages) == {xdesk.data[s] : s \in {t \in XSurface : xdesk.stage[t] \in stages}}

(* However a window turns into a menu and back, loses its surface, unmaps  *)
(* or goes, also with a grab, in fullscreen or with its address used again:*)
(* every pointer the compositor keeps is to an object in use, of a window  *)
(* that is mapped; an object listens to its surface while it has one and   *)
(* no longer; and the keyboard is on the focused window or on none.        *)
XPointersLive ==
  LET mapped == ObjectsOf({"mapped"})
      kept == {xdesk.focused, xdesk.last_focused, xdesk.fullscreen_window,
               xdesk.grabbed} \ {None}
  IN /\ kept \cup Listed(xdesk) \cup xdesk.leaf \cup xdesk.handle \subseteq mapped
     /\ mapped \subseteq Listed(xdesk) \cup xdesk.fullscreen
     /\ xdesk.listens = ObjectsOf({"associated", "mapped"})
     /\ xdesk.keyboard # None =>
          xdesk.focused # None /\ xdesk.surface[xdesk.focused] = xdesk.keyboard

(* Where no window is fullscreen, which covers them, only the focused one  *)
(* of the visible windows has a frame, and a menu never has.               *)
FrameMarksFocus ==
  LET seen == ObjectsOf({"mapped"}) \ xdesk.disabled
  IN xdesk.fullscreen = {} =>
       \A o \in xdesk.border_shown \cap seen : o = xdesk.focused /\ ~ IsMenu(xdesk, o)
=============================================================================
