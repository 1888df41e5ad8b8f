----------------------------- MODULE MCBspTree -----------------------------
EXTENDS BspTree

CONSTANT Floaters  \* the windows whose floating state is toggled

(* The head of the free list: any free node, or always the lowest. *)
AnyFree(F) == F
Lowest(F) == {n \in F : \A m \in F : n <= m}

OnlyFloaters == floating' \subseteq Floaters

(* What the cached leaf of t points at, without the number of the node.  A *)
(* freed node is told by the windows that still cache it; its old fields   *)
(* count only if it still names one of them.                               *)
Cached(t) ==
  LET n == bsp.bspLeaf[t]
      owners == {u \in Window : bsp.bspLeaf[u] = n}
  IN IF n = NULL THEN <<>>
     ELSE IF n \in bsp.free
     THEN <<owners, IF bsp.toplevel[n] \in owners
                    THEN <<bsp.toplevel[n], bsp.parent[n]>> ELSE <<>> >>
     ELSE IF Leaf(bsp, n) THEN <<"leaf", bsp.toplevel[n]>>
     ELSE <<"inner", bsp.toplevel[FirstLeaf(bsp, bsp.second[n])]>>

(* States that differ in the numbering of the nodes, or in what a freed    *)
(* node that nothing refers to still holds, have the same future.          *)
UpToNumbering ==
  <<[w \in Workspace |-> Layout(w)], [t \in Window |-> Cached(t)],
    saved, workspace, mapped, floating>>
=============================================================================
