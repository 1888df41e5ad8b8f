------------------------------- MODULE Sizes -------------------------------
(***************************************************************************)
(* Where the windows of one displayed workspace are drawn and which size   *)
(* their clients were asked for: the arrangement of the tiles with its     *)
(* cache of requested sizes (wm/bsp_arrange.c, wm/layout.c), floating and  *)
(* fullscreen windows (wm/floating.c), and the pointer grabs that move and *)
(* resize a window, whose last size waits for the end of the pointer frame *)
(* (input/cursor.c, input/input.c).                                        *)
(*                                                                         *)
(* A box is a place and a size.  The arithmetic of the drags and of the    *)
(* splits is abstracted: a drag reaches any of some boxes, and a tree with *)
(* several leaves gives each one another of the boxes that share the area. *)
(* Visibility, which window is focused when the focused one goes, and      *)
(* windows that are mapped again are in Desktop.                           *)
(***************************************************************************)
EXTENDS Naturals, Sequences, FiniteSets, SequencesExt

CONSTANTS
  Window,
  X11,      \* those of XWayland among them
  Split,    \* the boxes of tiles that share the area
  FloatBox, \* those that a drag reaches
  None

Area   == [at |-> "left", size |-> "whole"]
Screen == [at |-> "screen", size |-> "screen"]

\* float_x .. float_height of a new floating window
Default == [at |-> "middle", size |-> "small"]

VARIABLE ws \* the workspace, its windows and the grab; see Init

Init ==
  ws = [
    mapped |-> {}, floating |-> {}, full |-> {},
    saved_floating |-> {},                  \* fullscreen and floating before
    toplevels |-> <<>>,                     \* those with a leaf, the newest first
    tile    |-> <<>>,                       \* the boxes of their leaves
    monocle |-> FALSE,
    focused |-> None, last |-> None,        \* last_focused
    float   |-> [w \in Window |-> Default], \* float_x .. float_height
    drawn   |-> [w \in Window |-> None],    \* the position of scene_tree
    req     |-> [w \in Window |-> None],    \* req_width, req_height
    asked   |-> [w \in Window |-> [at |-> None, size |-> None]],
                                            \* the last configure
    mode    |-> "passthrough",              \* server->cursor_mode
    grabbed |-> None,
    pending |-> None,                       \* pending_w if pending_resize
    crossed |-> {}]                         \* auxiliary, see SizesAreSent

----------------------------------------------------------------------------
(* Asking for a size. *)

\* Only an X11 window is told where it is.
Asked(w, b) == IF w \in X11 THEN b ELSE [b EXCEPT !.at = None]

\* A configure that toplevel_set_size does not see.
Configure(d, w, b) == [d EXCEPT !.asked[w] = Asked(w, b)]

toplevel_set_size(d, w, size) ==
  LET at == IF w \in d.floating THEN d.float[w].at ELSE d.drawn[w]
  IN [Configure(d, w, [at |-> at, size |-> size]) EXCEPT !.req[w] = size]

Place(d, w, at) == [d EXCEPT !.drawn[w] = at]

\* A floating window takes its box: position first, then the size.
PutFloat(d, w, b) ==
  toplevel_set_size(Place([d EXCEPT !.float[w] = b], w, b.at), w, b.size)

Tiled(d) == d.mapped \ (d.floating \cup d.full)

\* bsp_arrange_node: the box of each leaf, which its place in the tree decides.
Tilings == {t \in [Window -> Split] : IsInjective(t)}
Boxes(toplevels, t) ==
  [w \in ToSet(toplevels) |-> IF Len(toplevels) = 1 THEN Area ELSE t[w]]

\* The first that is in S, or None.
FirstIn(s, S) ==
  LET i == SelectInSeq(s, LAMBDA v : v \in S)
  IN IF i = 0 THEN None ELSE s[i]

\* The tile that monocle shows.
ActiveTiled(d) == FirstIn(<<d.focused, d.last>> \o d.toplevels, Tiled(d))

Shown(d) == IF d.monocle THEN Tiled(d) \cap {ActiveTiled(d)} ELSE Tiled(d)
Given(d, w) == IF d.monocle THEN Area ELSE d.tile[w]

\* Which of the windows shown are configured: those whose requested size is
\* another one, and outside monocle also an X11 window that is elsewhere.
Outdated(d) ==
  {w \in Shown(d) :
     \/ d.req[w] # Given(d, w).size
     \/ ~d.monocle /\ w \in X11 /\ d.asked[w].at # Given(d, w).at}

\* A leaf of an X11 window is configured without recording the request.
Recorded(d) == {w \in Outdated(d) : d.monocle \/ w \notin X11}

bsp_arrange(d) ==
  [d EXCEPT
    !.drawn = [w \in Window |->
                 IF w \in Shown(d) THEN Given(d, w).at
                 ELSE IF w \in d.mapped \cap d.floating THEN d.float[w].at
                 ELSE @[w]],
    !.asked = [w \in Window |->
                 IF w \in Outdated(d) THEN Asked(w, Given(d, w)) ELSE @[w]],
    !.req   = [w \in Window |->
                 IF w \in Recorded(d) THEN Given(d, w).size ELSE @[w]]]

\* The focus moves; in monocle the tile it shows gets the area.
GiveFocus(d, v) ==
  LET e == [d EXCEPT !.last = d.focused, !.focused = v]
      t == ActiveTiled(e)
      p == Place(e, t, Area.at)
  IN IF ~ d.monocle \/ t = None THEN e
     ELSE IF p.req[t] # Area.size THEN toplevel_set_size(p, t, Area.size) ELSE p

focus_toplevel(d, v) == IF d.focused = v THEN d ELSE GiveFocus(d, v)

\* A leaf comes or goes, and the others get the boxes that are left.
Planted(d, toplevels, t) ==
  [d EXCEPT !.toplevels = toplevels, !.tile = Boxes(toplevels, t)]
Grown(d, w, t) == Planted(d, <<w>> \o d.toplevels, t)
Pruned(d, w, t) ==
  IF w \in ToSet(d.toplevels) THEN Planted(d, RemoveFirst(d.toplevels, w), t) ELSE d

LeaveMonocle(d, empty) == [d EXCEPT !.monocle = @ /\ ~empty]

toggle_floating(d, w, t) ==
  IF w \in d.full THEN d
  ELSE focus_toplevel(bsp_arrange(
    IF w \in d.floating
    THEN Grown([d EXCEPT !.floating = @ \ {w}], w, t)
    ELSE LET e == PutFloat([Pruned(d, w, t) EXCEPT !.floating = @ \cup {w}],
                           w, d.float[w])
         IN LeaveMonocle(e, Tiled(e) = {})), w)

toggle_fullscreen(d, w) ==
  IF w \notin d.full
  THEN toplevel_set_size(
         Place([d EXCEPT !.full = @ \cup {w}, !.floating = @ \ {w},
                         !.saved_floating =
                            IF w \in d.floating THEN @ \cup {w} ELSE @ \ {w}],
               w, Screen.at), w, Screen.size)
  ELSE LET e == [d EXCEPT !.full = @ \ {w}]
       IN bsp_arrange(
            IF w \in d.saved_floating
            THEN PutFloat([e EXCEPT !.floating = @ \cup {w}], w, d.float[w])
            ELSE e)

toggle_monocle(d) ==
  LET e == [d EXCEPT !.monocle = ~@]
  IN IF e.toplevels = <<>> THEN e ELSE bsp_arrange(e)

----------------------------------------------------------------------------
(* The grab. *)

\* The last size of a drag is sent before the grab is dropped.
reset_cursor_mode_drops(d) ==
  [d EXCEPT !.mode = "passthrough", !.grabbed = None, !.pending = None]
reset_cursor_mode(d) ==
  [IF d.pending # None /\ d.grabbed # None
   THEN [toplevel_set_size(d, d.grabbed, d.pending) EXCEPT !.pending = None]
   ELSE d
   EXCEPT !.mode = "passthrough", !.grabbed = None]

Crosses(d, windows) == [d EXCEPT !.crossed = @ \cup windows]

\* A tile is floated to be moved, and not resized; the size another window
\* was waiting for stays pending.
begin_interactive(d, w, mode, t) ==
  IF w \in d.floating \/ mode = "move"
  THEN [Crosses(IF w \in d.floating THEN d ELSE toggle_floating(d, w, t),
                (IF d.pending # None /\ d.grabbed # w THEN {w, d.grabbed} ELSE {})
                  \cup ({w} \cap d.full))
        EXCEPT !.grabbed = w, !.mode = mode]
  ELSE d

----------------------------------------------------------------------------
(* The handlers. *)

Do(d) == ws' = d

\* xdg_toplevel_map, xwayland_toplevel_map: a tile, ...
MapTiled(w, t) ==
  /\ w \notin ws.mapped
  /\ LET d == bsp_arrange(Grown([ws EXCEPT !.mapped = @ \cup {w}], w, t))
     IN Do(IF d.full = {} THEN focus_toplevel(d, w) ELSE d)

\* ... a window a rule floats, ...
MapByRule(w) ==
  /\ w \notin ws.mapped
  /\ Do(focus_toplevel(
          PutFloat([ws EXCEPT !.mapped = @ \cup {w}, !.floating = @ \cup {w}],
                   w, Default), w))

\* ... or a dialog, which is sized without recording the request.
MapFloating(w) ==
  /\ w \notin ws.mapped
  /\ Do(focus_toplevel(
          Configure(Place([ws EXCEPT !.mapped = @ \cup {w},
                                       !.floating = @ \cup {w}],
                          w, Default.at), w, Default), w))

\* The unmap and destroy handlers; a window mapped later is a new one.  The
\* X11 handler counts fullscreen windows too, and leaves monocle at one.
Unmap(w, t) ==
  /\ w \in ws.mapped
  /\ LET d == IF ws.grabbed = w THEN reset_cursor_mode(ws) ELSE ws
         e == [Pruned(d, w, t) EXCEPT
                 !.mapped = @ \ {w}, !.floating = @ \ {w}, !.full = @ \ {w},
                 !.saved_floating = @ \ {w},
                 !.float[w] = Default, !.drawn[w] = None, !.req[w] = None,
                 !.asked[w] = [at |-> None, size |-> None],
                 !.last = IF @ = w THEN None ELSE @,
                 !.crossed = @ \ {w}]
         next == {v \in e.mapped : v \notin e.full \cap e.saved_floating}
         f == LeaveMonocle([e EXCEPT !.focused = IF @ = w THEN None ELSE @],
                IF w \in X11 THEN Len(e.toplevels) <= 1 ELSE Tiled(e) = {})
     IN IF ws.focused = w /\ next # {}
        THEN \E v \in next : Do(GiveFocus(bsp_arrange([f EXCEPT !.focused = v]), v))
        ELSE Do(bsp_arrange(f))

\* A click, a key binding or a foreign-toplevel request.
Focus(w) == w \in ws.mapped /\ Do(focus_toplevel(ws, w))

Toggled(w, d) == IF ws.grabbed = w THEN Crosses(d, {w}) ELSE d

ToggleFloating(w, t) ==
  /\ w \in ws.mapped \ ws.full
  /\ Do(Toggled(w, toggle_floating(ws, w, t)))

ToggleFullscreen(w) ==
  w \in ws.mapped /\ Do(Toggled(w, toggle_fullscreen(ws, w)))

ToggleMonocle == ws.focused # None /\ Do(toggle_monocle(ws))

\* set_bsp_mode: the focused window back into its tile, and out of monocle.
SetBspMode(t) ==
  /\ ws.focused # None
  /\ LET w == ws.focused
         d == IF w \in ws.full THEN Toggled(w, toggle_fullscreen(ws, w)) ELSE ws
         e == IF w \in d.floating THEN Toggled(w, toggle_floating(d, w, t)) ELSE d
     IN Do(IF e.monocle THEN toggle_monocle(e) ELSE e)

\* A second resize while the last size of the grab is still to be sent.
Overtakes(w, d) ==
  IF ws.grabbed = w /\ ws.pending # None THEN Crosses(d, {w}) ELSE d

\* The keys that swap two tiles, resize one or turn a split.
Rearrange(t) == Do(bsp_arrange(Planted(ws, ws.toplevels, t)))

\* resize_float: the keys move and resize the focused window.
ResizeFloat(b) ==
  /\ ws.focused \in ws.floating
  /\ Do(Overtakes(ws.focused, PutFloat(ws, ws.focused, b)))

\* xwayland_handle_request_configure: a floating X11 window gets what it
\* asks for, a tile is told its leaf's box.
RequestConfigure(w, b) ==
  /\ w \in ws.mapped \cap X11
  /\ \/ /\ w \in ws.floating /\ ws.float[w] # b
        /\ Do(Overtakes(w, Place([Configure(ws, w, b) EXCEPT !.float[w] = b], w, b.at)))
     \/ /\ w \in Tiled(ws) /\ b # ws.tile[w]
        /\ Do(Configure(ws, w, ws.tile[w]))

\* server_cursor_button with the logo key: the left button moves, the right
\* one floats a tile and resizes.
DragMove(w, t) ==
  /\ w \in ws.mapped
  /\ Do(begin_interactive(focus_toplevel(ws, w), w, "move", t))

DragResize(w, t) ==
  /\ w \in ws.mapped
  /\ LET d == focus_toplevel(ws, w)
     IN Do(begin_interactive(
             IF w \in d.floating THEN d ELSE Toggled(w, toggle_floating(d, w, t)),
             w, "resize", t))

\* A client asks to be moved or resized.
RequestGrab(w, mode, t) ==
  w \in ws.mapped /\ Do(begin_interactive(ws, w, mode, t))

\* process_cursor_move, process_cursor_resize: the window follows the pointer,
\* its size waits for the end of the frame.
Motion(b) ==
  LET w == ws.grabbed
      d == Place(ws, w, b.at)
  IN \/ /\ ws.mode = "move"
        /\ Do(IF w \in d.floating THEN [d EXCEPT !.float[w].at = b.at] ELSE d)
     \/ /\ ws.mode = "resize"
        /\ Do([IF w \in d.floating THEN [d EXCEPT !.float[w] = b] ELSE d
               EXCEPT !.pending = b.size])

\* server_cursor_frame
Frame ==
  /\ ws.mode = "resize" /\ ws.pending # None
  /\ Do([toplevel_set_size(ws, ws.grabbed, ws.pending)
         EXCEPT !.pending = None])

\* The button is released, or the pointer moves while the session is locked.
EndGrab == ws.grabbed # None /\ Do(reset_cursor_mode(ws))

Step ==
  \/ \E w \in Window :
       \/ MapByRule(w) \/ MapFloating(w) \/ Focus(w) \/ ToggleFullscreen(w)
       \/ \E b \in FloatBox : RequestConfigure(w, b)
       \/ \E t \in Tilings :
            \/ MapTiled(w, t) \/ ToggleFloating(w, t)
            \/ DragMove(w, t) \/ DragResize(w, t)
            \/ \E mode \in {"move", "resize"} : RequestGrab(w, mode, t)
  \/ \E b \in FloatBox : ResizeFloat(b) \/ Motion(b)
  \/ ToggleMonocle \/ Frame \/ EndGrab
  \/ \E t \in Tilings : SetBspMode(t) \/ Rearrange(t)

\* Bound: while a crossed window is there, windows only go.
Next ==
  \/ ws.crossed = {} /\ Step
  \/ \E w \in Window, t \in Tilings : Unmap(w, t)

Spec == Init /\ [][Next]_ws

----------------------------------------------------------------------------
(* What the clients are asked for. *)

\* A size that waits belongs to a grab.
TypeOK ==
  /\ ws.floating \cup ws.full \cup ToSet(ws.toplevels) \subseteq ws.mapped
  /\ ws.mapped \subseteq Window /\ ws.floating \cap ws.full = {}
  /\ IsInjective(ws.toplevels) /\ DOMAIN ws.tile = ToSet(ws.toplevels)
  /\ ToSet(ws.toplevels) = ws.mapped \ (ws.floating \cup (ws.full \cap ws.saved_floating))
  /\ ws.monocle \in BOOLEAN /\ {ws.focused, ws.last} \subseteq ws.mapped \cup {None}
  /\ \A w \in Window : \E b, c \in FloatBox \cup {Default} :
       ws.float[w] = [at |-> b.at, size |-> c.size]
  /\ ws.mode \in {"passthrough", "move", "resize"}
  /\ ws.grabbed \in ws.mapped \cup {None}
  /\ (ws.mode = "passthrough") = (ws.grabbed = None)
  /\ ws.pending # None => ws.grabbed # None

\* A fullscreen window hides the tiles.
Visible ==
  (ws.mapped \ Tiled(ws)) \cup (IF ws.full = {} THEN Shown(ws) ELSE {})

Wanted(w) ==
  IF w \in ws.full THEN Screen
  ELSE IF w \in ws.floating THEN ws.float[w]
  ELSE Given(ws, w)

\* A window that can be seen is drawn where its state says, and its client has
\* been asked for that size, or will be at the end of the frame or of the grab,
\* whatever other windows, toggles and grabs come in between.  The exceptions:
\* an X11 window that was configured past its cached request, which a later
\* arrangement may take for up to date (bsp_arrange.c:22-33); and the crossed
\* windows, those of a grab that began while another one's size was pending
\* (input.c:34-46) and those that were toggled during their own grab or are
\* moved in fullscreen, which the grab goes on moving (cursor.c:26-96).
SizesAreSent ==
  \A w \in Visible \ ws.crossed :
    /\ ws.drawn[w] = Wanted(w).at
    /\ \/ ws.asked[w].size = Wanted(w).size
       \/ w = ws.grabbed /\ ws.pending = Wanted(w).size
       \/ w \in X11 /\ ws.req[w] # ws.asked[w].size
============================================================================
