---------------------------- MODULE BspRoundTrip ----------------------------
(***************************************************************************)
(* Floating a window and tiling it again at once.  The variable before     *)
(* remembers the layout that the last step found, if that step floated a   *)
(* window; the trees themselves are BspTree's.                             *)
(***************************************************************************)
EXTENDS BspTree

VARIABLE before

(* The split above the one that t's leaf is in repeats it. *)
NestedAlike(t) ==
  LET l == FindLeaf(bsp, workspace[t], t) IN
  /\ l # NULL /\ bsp.parent[l] # NULL /\ bsp.parent[bsp.parent[l]] # NULL
  /\ bsp.split[bsp.parent[bsp.parent[l]]] = bsp.split[bsp.parent[l]]

RTInit == Init /\ before = NULL

RTNext ==
  \/ \E t \in Window :
       /\ Float(t)
       /\ before' = [window |-> t, layout |-> Layout(workspace[t]),
                     tiled |-> FindLeaf(bsp, workspace[t], t) # NULL,
                     alike |-> NestedAlike(t)]
  \/ /\ Next
     /\ ~ \E t \in Window : Float(t)
     /\ before' = NULL

RTSpec == RTInit /\ [][RTNext]_<<vars, before>>

(* The step tiles the window again that the step before it floated. *)
Undoes(t) ==
  /\ before # NULL /\ before.window = t /\ before.tiled
  /\ t \in floating /\ t \in mapped' \ floating'

(* Floating a window and tiling it again leaves the layout as it was,      *)
(* whenever the window's split was not nested in one of the same direction *)
(* and the window did not have the workspace to itself: sibling subtrees   *)
(* come back whole, on their side, with their own splits.  The first       *)
(* exception is needed: bsp_restore climbs one level more if the split     *)
(* above the saved sibling has the saved direction (bsp.c:226), which it   *)
(* also has if it had it before.                                           *)
RoundTripUnlessNestedAlike ==
  [][\A t \in Window : Undoes(t) /\ ~before.alike =>
       Layout(workspace[t])' = before.layout]_<<vars, before>>
=============================================================================
