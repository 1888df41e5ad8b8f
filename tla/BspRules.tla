------------------------------ MODULE BspRules ------------------------------
(***************************************************************************)
(* The trees of BspTree when the configuration holds window rules that     *)
(* send a window to a workspace as it is mapped (wm/rules.c).              *)
(***************************************************************************)
EXTENDS BspTree

(* Map of a tiled window that a rule moves from its workspace to v: the    *)
(* rule inserts it if both workspaces have a tree, the map handler always. *)
MapByRule(t, v, f) ==
  LET old == workspace[t]
      moved == bsp_remove(bsp, old, t)
      afterRule == IF bsp.root[old] # NULL /\ moved.root[v] # NULL
                   THEN Inserts(moved, v, t, f) ELSE {moved}
  IN
  /\ Exists(t) /\ t \notin mapped \cup floating /\ v # old
  /\ InsertWalks(moved, v, f)
  /\ \E g \in afterRule :
       InsertWalks(g, v, f) /\ bsp' \in Inserts(g, v, t, f)
  /\ workspace' = [workspace EXCEPT ![t] = v]
  /\ mapped' = mapped \cup {t}
  /\ UNCHANGED <<saved, floating>>

RulesNext ==
  \/ Next
  \/ \E t \in Window, v \in Workspace, f \in mapped \cup {NULL} :
       MapByRule(t, v, f)

RulesSpec == Init /\ [][RulesNext]_vars
=============================================================================
