----------------------------- MODULE BarScreen -----------------------------
(***************************************************************************)
(* What ubar draws and when (tools/ubar/src: render.c, ubar.c, input.c):   *)
(* the workspaces it is told of event by event, the frames and the buffers *)
(* it shares with the compositor, the places of the items on the bar and   *)
(* the clicks on them.  What the compositor tells is in Bar, how the other *)
(* values are read in Readings and Ubar.                                   *)
(*                                                                         *)
(* Lengths are small numbers in the relation of those in the code.         *)
(* Bounds: one batch of events is on its way at a time; of what is not a   *)
(* workspace only the memory changes its size.  There is always an active  *)
(* workspace: without an output the surface of the bar is closed.          *)
(***************************************************************************)
EXTENDS Integers, Sequences, SequencesExt, FiniteSetsExt

CONSTANTS
  Spaces,     \* workspaces, 9 in the code
  Buffers,    \* 3 in the code
  Widths,     \* of the output
  None

VARIABLE bar

Space == 0..(Spaces - 1)

Told == [active : Space, occupied : SUBSET Space]

Event(id, active, occupied) == [id |-> id, active |-> active, occupied |-> occupied]
Done == Event(None, FALSE, FALSE)

(* The events of a batch, in the order uwm_bar_send_workspace_state sends. *)
Batch(told) ==
  [i \in 1..Spaces |-> Event(i - 1, told.active = i - 1, i - 1 \in told.occupied)]
    \o <<Done>>

Put(set, x, in) == IF in THEN set \cup {x} ELSE set \ {x}

----------------------------------------------------------------------------
(* The listeners. *)

(* The first event of a batch clears all workspaces. *)
ws_workspace(b, e) ==
  LET c == IF b.ws_batch_pending
           THEN [b EXCEPT !.active = {}, !.occupied = {}, !.ws_batch_pending = FALSE]
           ELSE b
  IN [c EXCEPT !.need_redraw = @ \/ (e.id \in c.active) # e.active
                                 \/ (e.id \in c.occupied) # e.occupied,
               !.active = Put(@, e.id, e.active),
               !.occupied = Put(@, e.id, e.occupied)]

(* It draws nothing, though what is drawn depends on ws_count. *)
ws_done(b) ==
  [b EXCEPT !.ws_batch_pending = TRUE,
            !.ws_count = CHOOSE n \in 0..Spaces :
                           /\ b.active \cup b.occupied \subseteq 0..(n - 1)
                           /\ n = 0 \/ n - 1 \in b.active \cup b.occupied]

Heard(b, e) == IF e = Done THEN ws_done(b) ELSE ws_workspace(b, e)

----------------------------------------------------------------------------
(* A frame.  Zones are in the order in which they are tried by a click.    *)

EdgePad == 1
ItemGap == 1
BlockGap == 2
SpaceGap == 1
Label == 2      \* a workspace's number with its padding

CentreWidth == 3
RightItems(detailed) ==    \* from the right
  << [type |-> "network", w |-> 2],
     [type |-> "ram", w |-> IF detailed THEN 3 ELSE 1] >>
Extent(items) == FoldLeft(LAMBDA n, i : n + i.w + ItemGap, 0, items)

Zone(x, w, type, data) == [x |-> x, w |-> w, type |-> type, data |-> data]

LeftZones(shown) ==
  FoldLeft(LAMBDA zones, i :
             IF i \notin shown THEN zones
             ELSE Append(zones, Zone(EdgePad + Len(zones) * (Label + SpaceGap), Label,
                                     "workspace", i)),
           <<>>, [i \in 1..Spaces |-> i - 1])

(* The centre gives way to the right, to the left before that, and pushes  *)
(* the right block out if need be.  Twice its place, which may be a half.  *)
Centre2(width, left, right) ==
  LET min_pos == EdgePad + left + (IF left > 0 THEN BlockGap ELSE 0)
      max_pos == width - EdgePad - right - BlockGap
  IN Max({Min({width, 2 * max_pos - CentreWidth}) - CentreWidth, 2 * min_pos})

RightEdge(width, cx2, right) ==
  Max({2 * (width - EdgePad - right), cx2 + 2 * (CentreWidth + BlockGap)}) \div 2 + right

RightZones(items, edge) ==
  [k \in DOMAIN items |->
     Zone(edge - Extent(SubSeq(items, 1, k)) + ItemGap, items[k].w, items[k].type, None)]

Zones(picture) ==
  LET left == LeftZones(picture.shown)
      items == RightItems(picture.ram_detailed)
      right == Extent(items) - ItemGap
      cx2 == Centre2(picture.width, Len(left) * (Label + SpaceGap), right)
      edge == RightEdge(picture.width, cx2, right)
  IN left \o <<Zone(cx2 \div 2, CentreWidth, "time", None)>> \o RightZones(items, edge)

Picture(active, shown, b) ==
  [active |-> active, shown |-> shown, ram_detailed |-> b.ram_detailed,
   width |-> b.width]

HasBuffer(b) == b.busy < Buffers

(* open is history: drawn in the middle of a batch. *)
render_frame(b) ==
  IF ~ HasBuffer(b) THEN b
  ELSE [b EXCEPT !.busy = @ + 1, !.frame_pending = TRUE, !.open = ~ b.ws_batch_pending,
                 !.screen = Picture(b.active \cap 0..(b.ws_count - 1),
                                    (b.active \cup b.occupied) \cap 0..(b.ws_count - 1),
                                    b)]

----------------------------------------------------------------------------
(* By the time the main loop starts the first batch has been received.     *)
Init ==
  \E told \in Told, width \in Widths :
    bar = FoldLeft(Heard,
      [told |-> told, wire |-> <<>>, active |-> {}, occupied |-> {}, ws_count |-> 0,
       ws_batch_pending |-> FALSE, need_redraw |-> FALSE, configured |-> FALSE,
       width |-> width, ram_detailed |-> FALSE, frame_pending |-> FALSE, busy |-> 0,
       screen |-> None, open |-> FALSE],
      Batch(told))

(* The top of the main loop. *)
Drawn_once(b) == [render_frame(b) EXCEPT !.need_redraw = FALSE]
Drawn(b) ==
  LET r == render_frame(b)
  IN IF r.frame_pending THEN [r EXCEPT !.need_redraw = FALSE] ELSE r

Draw ==
  /\ bar.need_redraw /\ bar.configured /\ ~ bar.frame_pending
  /\ bar' = Drawn(bar)

(* The compositor sends a batch, and its events are received one by one:   *)
(* the loop may draw between any two of them.                              *)
Tell(told) ==
  /\ bar.wire = <<>> /\ told # bar.told
  /\ bar' = [bar EXCEPT !.told = told, !.wire = @ \o Batch(told)]

Receive ==
  /\ bar.wire # <<>>
  /\ bar' = [Heard(bar, Head(bar.wire)) EXCEPT !.wire = Tail(@)]

layer_surface_configure(width) ==
  bar' = [bar EXCEPT !.width = width, !.configured = TRUE, !.need_redraw = TRUE]

frame_done ==
  /\ bar.frame_pending
  /\ bar' = [bar EXCEPT !.frame_pending = FALSE]

buffer_handle_release ==
  /\ bar.busy > 0
  /\ bar' = [bar EXCEPT !.busy = @ - 1]

(* A reading that has changed. *)
Reading == bar' = [bar EXCEPT !.need_redraw = TRUE]

find_zone(zones, x) ==
  LET hit == SelectSeq(zones, LAMBDA z : x >= z.x /\ x < z.x + z.w)
  IN IF hit = <<>> THEN None ELSE Head(hit).type

(* A click on the memory, which is then shown in the other form.  One on   *)
(* the network or the time does the same, the others start a program or    *)
(* press a key, whose effect is a reading.                                 *)
pointer_button ==
  LET zones == IF bar.screen = None THEN <<>> ELSE Zones(bar.screen)
  IN /\ \E x \in 0..(bar.width - 1) : find_zone(zones, x) = "ram"
     /\ bar' = [bar EXCEPT !.ram_detailed = ~ @, !.need_redraw = TRUE]

Next ==
  \/ Draw \/ Receive \/ frame_done \/ buffer_handle_release \/ Reading \/ pointer_button
  \/ \E told \in Told : Tell(told)
  \/ \E width \in Widths : layer_surface_configure(width)

Spec == Init /\ [][Next]_bar

----------------------------------------------------------------------------
(* Type invariant: ws_count and the buffers stay within their arrays.      *)
TypeOK ==
  /\ bar.told \in Told /\ bar.width \in Widths
  /\ bar.active \subseteq Space /\ bar.occupied \subseteq Space
  /\ bar.ws_count \in 0..Spaces /\ bar.busy \in 0..Buffers
  /\ {bar.ws_batch_pending, bar.need_redraw, bar.configured, bar.frame_pending,
      bar.ram_detailed, bar.open} \subseteq BOOLEAN

(* No two items of the bar are in the same place, and all are on the       *)
(* screen if they fit.                                                     *)
ItemsApart(picture) ==
  LET zones == Zones(picture)
      taken == EdgePad + Len(LeftZones(picture.shown)) * (Label + SpaceGap) + BlockGap
               + CentreWidth + BlockGap + Extent(RightItems(picture.ram_detailed))
  IN /\ \A i, j \in DOMAIN zones :
          i # j => \/ zones[i].x + zones[i].w <= zones[j].x
                   \/ zones[j].x + zones[j].w <= zones[i].x
     /\ taken <= picture.width =>
          \A i \in DOMAIN zones : zones[i].x + zones[i].w <= picture.width

(* Once all that was sent has been received and nothing is left to draw,   *)
(* the screen shows the workspaces as the compositor told of them last and *)
(* the values as they are, however events, frames, held buffers and clicks *)
(* interleave, and its items do not overlap.  Excused: a frame drawn in    *)
(* the middle of a batch, since ws_done asks for no other one.             *)
ScreenIsCurrent ==
  /\ bar.configured /\ bar.wire = <<>> /\ ~ bar.need_redraw /\ ~ bar.open =>
       bar.screen = Picture({bar.told.active}, bar.told.occupied \cup {bar.told.active},
                            bar)
  /\ bar.screen # None => ItemsApart(bar.screen)
=============================================================================
