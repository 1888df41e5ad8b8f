----------------------------- MODULE LeafOrder -----------------------------
(***************************************************************************)
(* What the tiling trees promise, without the trees: every workspace has a *)
(* sequence of tiled windows, from the first leaf to the last.  A window   *)
(* enters one sequence at some place, leaves it, or trades places with     *)
(* another one; nothing else moves, whatever the tree around it does.      *)
(***************************************************************************)
EXTENDS Integers, Sequences, SequencesExt

CONSTANTS Window, Workspace

VARIABLE order

Tiled(w) == ToSet(order[w])

Init == order = [w \in Workspace |-> <<>>]

Enter(t, w) ==
  /\ \A v \in Workspace : t \notin Tiled(v)
  /\ \E k \in 1 .. Len(order[w]) + 1 :
       order' = [order EXCEPT ![w] = InsertAt(@, k, t)]

Leave(t, w) ==
  \E j \in DOMAIN order[w] :
    /\ order[w][j] = t
    /\ order' = [order EXCEPT ![w] = RemoveAt(@, j)]

Move(t, w, v) ==
  /\ w # v
  /\ \E j \in DOMAIN order[w], k \in 1 .. Len(order[v]) + 1 :
       /\ order[w][j] = t
       /\ order' = [order EXCEPT ![w] = RemoveAt(@, j), ![v] = InsertAt(@, k, t)]

Trade(t, u, w) ==
  /\ t # u /\ {t, u} \subseteq Tiled(w)
  /\ order' = [order EXCEPT ![w] =
       [k \in DOMAIN @ |-> IF @[k] = t THEN u ELSE IF @[k] = u THEN t ELSE @[k]]]

Next ==
  \E t \in Window, w \in Workspace :
    \/ Enter(t, w)
    \/ Leave(t, w)
    \/ \E v \in Workspace : Move(t, w, v)
    \/ \E u \in Window : Trade(t, u, w)

Spec == Init /\ [][Next]_order
=============================================================================
