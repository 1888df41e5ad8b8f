--------------------------- MODULE MCBspRoundTrip ---------------------------
EXTENDS BspRoundTrip, MCBspTree

(* The runs float a window only to tile it again in the next step, and let *)
(* windows come but not go.                                                *)
FloatsAreUndone ==
  /\ mapped \subseteq mapped'
  /\ floating' # {} => before' # NULL

(* Lookups find the same leaf whatever is cached (LookupExact), so states  *)
(* that differ in the numbering of the nodes, in the caches or in the      *)
(* saved places of windows that are not floating have the same layouts     *)
(* ahead of them.                                                          *)
UpToNumberingAndCaches ==
  <<[w \in Workspace |-> Layout(w)], [t \in floating |-> saved[t]],
    workspace, mapped, floating, before>>
=============================================================================
