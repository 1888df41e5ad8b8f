----------------------------- MODULE MCDesktop -----------------------------
EXTENDS Desktop

(* Windows of one type are alike, and so are outputs. *)
Symmetric ==
  Permutations(Window \ XWayland) \cup Permutations(XWayland)
    \cup Permutations(Output)

(* What is never read: whether a window floated before it was fullscreen,  *)
(* once it is not, and what an output showed that is gone.                 *)
UpToUnread ==
  [desk EXCEPT
     !.savedFloating = @ \cap desk.fullscreen,
     !.shows = [o \in Output |-> IF o \in ToSet(desk.outputs) THEN @[o] ELSE 0]]

NoMonocle == desk'.monocle = {}
=============================================================================
