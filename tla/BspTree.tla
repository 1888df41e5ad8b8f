------------------------------ MODULE BspTree ------------------------------
(***************************************************************************)
(* The tiling trees of the window manager: the pool of BSP nodes, one      *)
(* binary tree of nodes per workspace, and the window operations that edit *)
(* them (wm/bsp.c, wm/bsp_nav.c, wm/floating.c and the map, unmap, destroy *)
(* and move handlers that call them).                                      *)
(*                                                                         *)
(* A leaf of a tree carries a window, an inner node a split direction.     *)
(* Nodes are linked by three pointers (parent, first, second); every       *)
(* window also caches a pointer to its leaf (bsp_leaf) that is checked,    *)
(* not trusted, when it is used.  Nodes come from one fixed pool, so an    *)
(* operation may find it empty and must then leave the trees alone.        *)
(*                                                                         *)
(* The C heap that the operations share is the record bsp; an operator     *)
(* named after a C function maps the heap before the call to the heap      *)
(* after it, so that a handler that makes two calls is one action.         *)
(*                                                                         *)
(* Abstracted: rectangles and ratios (an aspect ratio becomes a free       *)
(* choice of split, "the nearest leaf" a free choice among the other       *)
(* leaves), the focus (an operation that starts from the focused window    *)
(* takes any window or none), the order of the free list (any free node    *)
(* may be handed out) and fullscreen, which edits no tree: here a window   *)
(* stays in floating while toggle_fullscreen keeps the flag saved.  The    *)
(* per-node monocle mode is dead code: no assignment ever sets it.  The    *)
(* child pointers of a freed node, which the free list and the next        *)
(* allocation overwrite, are cleared when it is freed.                     *)
(*                                                                         *)
(* A definition named X_what is X with a plausible mistake in it.  The     *)
(* model never uses one; each shows that a property depends on X.          *)
(***************************************************************************)
EXTENDS Integers, FiniteSets, Sequences

CONSTANTS
  Window,      \* uwm_toplevel objects; an address may be reused after free
  Workspace,   \* the fixed array of workspaces
  Node,        \* the slots of the node pool, BSP_POOL_SIZE of them
  NULL,        \* the null pointer
  Heads(_)     \* of a set of free nodes, those that may head the free list

ASSUME NullAssumption == NULL \notin Window \cup Workspace \cup Node

(* The pool is one fixed array. *)
ASSUME NodeAssumption == IsFiniteSet(Node)

ASSUME HeadsAssumption ==
  \A F \in SUBSET Node : Heads(F) \subseteq F /\ (F # {} => Heads(F) # {})

VARIABLES
  bsp,         \* the heap of nodes, roots and cached leaves
  saved,       \* t->bsp_saved and the bsp_saved_* fields, NULL if not saved
  workspace,   \* t->workspace, NULL while the object does not exist
  mapped,      \* the windows that are mapped
  floating     \* the windows with t->floating

vars == <<bsp, saved, workspace, mapped, floating>>

Split == {"vertical", "horizontal"}

Heap == [
  root : [Workspace -> Node \cup {NULL}],      \* ws->root
  parent : [Node -> Node \cup {NULL}],         \* kept when a node is freed
  first : [Node -> Node \cup {NULL}],          \* NULL in a leaf
  second : [Node -> Node \cup {NULL}],
  toplevel : [Node -> Window \cup {NULL}],     \* kept when a node is freed
  split : [Node -> Split],                     \* read in inner nodes only
  free : SUBSET Node,                          \* the pool's free list
  bspLeaf : [Window -> Node \cup {NULL}] ]     \* t->bsp_leaf

Position ==
  [sibling : Window, depth : Nat, split : Split, second : BOOLEAN]

TypeOK ==
  /\ bsp \in Heap
  /\ saved \in [Window -> Position \cup {NULL}]
  /\ workspace \in [Window -> Workspace \cup {NULL}]
  /\ mapped \in SUBSET Window
  /\ floating \in SUBSET Window

(* bsp_pool_init and workspace_manager_init: all nodes free, no roots. *)
Init ==
  /\ bsp = [root |-> [w \in Workspace |-> NULL],
            parent |-> [n \in Node |-> NULL],
            first |-> [n \in Node |-> NULL],
            second |-> [n \in Node |-> NULL],
            toplevel |-> [n \in Node |-> NULL],
            split |-> [n \in Node |-> "vertical"],
            free |-> Node,
            bspLeaf |-> [t \in Window |-> NULL]]
  /\ saved = [t \in Window |-> NULL]
  /\ workspace = [t \in Window |-> NULL]
  /\ mapped = {}
  /\ floating = {}

----------------------------------------------------------------------------
(* Walking the trees.  A node is on a walk if no set that holds the start  *)
(* and, with a node, those the walk goes on to, misses it.                 *)

(* while (cur && cur != node) cur = cur->parent: the walk up from n meets r. *)
WalkMeets(g, n, r) ==
  ~ \E S \in SUBSET (Node \ {r}) :
      n \in S /\ \A m \in S : g.parent[m] \in S \cup {NULL}

(* The recursion down first and second from the root visits n, which is    *)
(* never a freed node (LinksConsistent).                                   *)
InTree(g, w, n) ==
  /\ g.root[w] # NULL /\ n \in Node \ g.free
  /\ ~ \E S \in SUBSET (Node \ (g.free \cup {n})) :
         /\ g.root[w] \in S
         /\ \A m \in S : {g.first[m], g.second[m]} \subseteq S \cup {NULL}

CacheHit_unchecked(g, w, t) ==
  g.bspLeaf[t] # NULL /\ WalkMeets(g, g.bspLeaf[t], g.root[w])

(* The cached leaf is used if it still carries the window and hangs under *)
(* the root the caller gave.                                              *)
CacheHit(g, w, t) ==
  /\ g.bspLeaf[t] # NULL
  /\ g.toplevel[g.bspLeaf[t]] = t
  /\ WalkMeets(g, g.bspLeaf[t], g.root[w])

FindLeaf(g, w, t) ==
  IF g.root[w] = NULL \/ t = NULL THEN NULL
  ELSE IF CacheHit(g, w, t) THEN g.bspLeaf[t]
  ELSE LET found == {n \in Node : g.toplevel[n] = t /\ InTree(g, w, n)}
       IN IF found = {} THEN NULL ELSE CHOOSE n \in found : TRUE

(* What a lookup leaves behind: the recursion caches the leaf it finds,    *)
(* except when that is the node it was first called with.                  *)
Lookup(g, w, t) ==
  LET l == FindLeaf(g, w, t)
  IN IF l \in {NULL, g.root[w]} THEN g ELSE [g EXCEPT !.bspLeaf[t] = l]

Leaf(g, n) == g.first[n] = NULL

(* bsp_first_leaf and, for toggle_floating, the number of steps it takes. *)
FirstLeaf(g, r) ==
  LET down[n \in Node] == IF Leaf(g, n) THEN n ELSE down[g.first[n]] IN down[r]

FirstLeafDepth(g, r) ==
  LET depth[n \in Node] == IF Leaf(g, n) THEN 0 ELSE 1 + depth[g.first[n]]
  IN depth[r]

Sibling_second(g, n) == g.second[g.parent[n]]

Sibling(g, n) ==
  LET p == g.parent[n] IN IF g.first[p] = n THEN g.second[p] ELSE g.first[p]

----------------------------------------------------------------------------
(* Editing the trees. *)

Allocates_all_but_one(nodes) ==
  IF Cardinality(nodes) <= 1 THEN {NULL} ELSE Heads(nodes)

(* What bsp_node_alloc may return when these nodes are free, and what two  *)
(* calls in a row may.                                                     *)
Allocates(nodes) == IF nodes = {} THEN {NULL} ELSE Heads(nodes)

AllocatesTwo(nodes) ==
  UNION {{n} \X Allocates(nodes \ {n}) : n \in Allocates(nodes)}

Returned_attached(g, n, t) == [g EXCEPT !.toplevel[n] = t]

(* A leaf for t was allocated and given back: it keeps what was written. *)
Returned(g, n, t) ==
  [g EXCEPT !.parent[n] = NULL, !.toplevel[n] = t]

NewRoot(g, w, t, n) ==
  [g EXCEPT !.root[w] = n, !.parent[n] = NULL, !.toplevel[n] = t,
            !.free = @ \ {n}, !.bspLeaf[t] = n]

(* The inner node i takes the place of s and holds s and the new leaf n. *)
Splice(g, w, t, s, n, i, sp, newIsSecond) ==
  LET p == g.parent[s] IN
  [g EXCEPT
     !.root = IF p = NULL THEN [@ EXCEPT ![w] = i] ELSE @,
     !.parent = [@ EXCEPT ![i] = p, ![n] = i, ![s] = i],
     !.first = [m \in Node |->
        IF m = i THEN (IF newIsSecond THEN s ELSE n)
        ELSE IF m = p /\ g.first[m] = s THEN i ELSE g.first[m]],
     !.second = [m \in Node |->
        IF m = i THEN (IF newIsSecond THEN n ELSE s)
        ELSE IF m = p /\ g.first[m] # s THEN i ELSE g.second[m]],
     !.toplevel = [@ EXCEPT ![n] = t, ![i] = NULL],
     !.split = [@ EXCEPT ![i] = sp],
     !.free = @ \ {n, i},
     !.bspLeaf = [@ EXCEPT ![t] = n]]

InsertTarget_focused(g, w, f) == FindLeaf(g, w, f)

(* The leaf that bsp_insert splits: the focused one, else the first. *)
InsertTarget(g, w, f) ==
  LET l == FindLeaf(g, w, f) IN IF l # NULL THEN l ELSE FirstLeaf(g, g.root[w])

bsp_insert_evicting(g, w, t, s, sp, n, i) ==
  IF n = NULL THEN g
  ELSE IF g.root[w] = NULL THEN NewRoot(g, w, t, n)
  ELSE IF i = NULL THEN [g EXCEPT !.toplevel[s] = t, !.bspLeaf[t] = s]
  ELSE Splice(g, w, t, s, n, i, sp, TRUE)

(* s is the leaf to split, n and i the nodes the pool returned. *)
bsp_insert(g, w, t, s, sp, n, i) ==
  IF n = NULL THEN g
  ELSE IF g.root[w] = NULL THEN NewRoot(g, w, t, n)
  ELSE IF i = NULL THEN Returned(g, n, t)
  ELSE Splice(g, w, t, s, n, i, sp, TRUE)

(* The leaf l leaves the tree and its sibling takes its parent's place; a  *)
(* sibling that is an inner node also takes over the parent's split.       *)
Contract(g, w, l) ==
  LET p == g.parent[l]
      s == Sibling(g, l)
      above == g.parent[p]
  IN IF p = NULL THEN [g EXCEPT !.root[w] = NULL, !.free = @ \cup {l}]
     ELSE [g EXCEPT
       !.root = IF above = NULL THEN [@ EXCEPT ![w] = s] ELSE @,
       !.parent = [@ EXCEPT ![s] = above],
       !.first = [m \in Node |->
          IF m = p THEN NULL
          ELSE IF m = above /\ g.first[m] = p THEN s ELSE g.first[m]],
       !.second = [m \in Node |->
          IF m = p THEN NULL
          ELSE IF m = above /\ g.first[m] # p THEN s ELSE g.second[m]],
       !.split = [m \in Node |->
          IF m = s /\ ~Leaf(g, s) THEN g.split[p]
          ELSE IF m = p THEN "vertical" ELSE g.split[m]],
       !.free = @ \cup {p, l}]

bsp_remove_leaf_only(g, w, t) ==
  LET l == FindLeaf(g, w, t)
  IN IF l = NULL THEN g
     ELSE [Contract(g, w, l) EXCEPT !.bspLeaf[t] = NULL, !.free = g.free \cup {l}]

bsp_remove(g, w, t) ==
  LET l == FindLeaf(g, w, t)
  IN IF l = NULL THEN g ELSE [Contract(g, w, l) EXCEPT !.bspLeaf[t] = NULL]

RestoreTarget_leaf(g, w, pos) ==
  LET s == FindLeaf(g, w, pos.sibling)
  IN IF g.parent[s] # NULL /\ g.split[g.parent[s]] = pos.split
     THEN g.parent[s] ELSE s

(* Where bsp_restore splices a window back: from the leaf of the saved     *)
(* sibling up saved_depth levels, and one more if the split above is the   *)
(* saved one.                                                              *)
RestoreTarget(g, w, pos) ==
  LET up(m) == IF g.parent[m] = NULL THEN m ELSE g.parent[m]
      climb[k \in Nat] ==
        IF k = 0 THEN FindLeaf(g, w, pos.sibling) ELSE up(climb[k - 1])
      s == climb[pos.depth]
  IN IF g.parent[s] # NULL /\ g.split[g.parent[s]] = pos.split
     THEN g.parent[s] ELSE s

CanRestore(g, w, pos) == pos # NULL /\ FindLeaf(g, w, pos.sibling) # NULL

(* A failure to allocate the inner node leaves a trace outside the pool:   *)
(* the cached leaf is set before that allocation.                          *)
bsp_restore(g, w, t, s, pos, n, i) ==
  IF n = NULL THEN g
  ELSE IF i = NULL THEN [Returned(g, n, t) EXCEPT !.bspLeaf[t] = n]
  ELSE Splice(g, w, t, s, n, i, pos.split, pos.second)

PositionOf_node(g, l) ==
  [sibling |-> g.toplevel[Sibling(g, l)],
   depth |-> FirstLeafDepth(g, Sibling(g, l)),
   split |-> g.split[g.parent[l]],
   second |-> g.second[g.parent[l]] = l]

(* What toggle_floating remembers of the leaf l before it removes it. *)
PositionOf(g, l) ==
  LET s == Sibling(g, l) IN
  [sibling |-> g.toplevel[FirstLeaf(g, s)],
   depth |-> FirstLeafDepth(g, s),
   split |-> g.split[g.parent[l]],
   second |-> g.second[g.parent[l]] = l]

----------------------------------------------------------------------------
(* The handlers.  f is the focused window of the workspace that is edited. *)

Exists(t) == workspace[t] # NULL

(* server_new_xdg_toplevel and its X11 twin: calloc of the object. *)
Create(t, w) ==
  /\ ~Exists(t)
  /\ workspace' = [workspace EXCEPT ![t] = w]
  /\ bsp' = [bsp EXCEPT !.bspLeaf[t] = NULL]
  /\ saved' = [saved EXCEPT ![t] = NULL]
  /\ UNCHANGED <<mapped, floating>>

(* The walk to the leaf to split, or to the node to restore next to, ends  *)
(* in the tree it started in; WalksStayInTree says that it always does.    *)
InsertWalks(g, w, f) == g.root[w] # NULL => InTree(g, w, InsertTarget(g, w, f))

RestoreWalks(g, w, pos) == InTree(g, w, RestoreTarget(g, w, pos))

(* So does the walk from the sibling of a leaf down to its first leaf. *)
PositionWalks(g, w, l) ==
  LET s == Sibling(g, l) IN
  /\ InTree(g, w, FirstLeaf(g, s)) /\ Leaf(g, FirstLeaf(g, s))
  /\ FirstLeafDepth(g, s) \in Nat

(* bsp_insert and bsp_restore of t in workspace w of the heap g, over all  *)
(* splits and all nodes the pool may return.                               *)
Inserts(g, w, t, f) ==
  LET h == Lookup(g, w, f)
      s == InsertTarget(g, w, f)
  IN {bsp_insert(h, w, t, s, sp, p[1], p[2]) :
        sp \in Split, p \in AllocatesTwo(g.free)}

Restores(g, w, t, pos) ==
  LET h == Lookup(g, w, pos.sibling)
      s == RestoreTarget(g, w, pos)
  IN {bsp_restore(h, w, t, s, pos, p[1], p[2]) : p \in AllocatesTwo(g.free)}

(* Map of a window that is tiled. *)
MapTiled(t, f) ==
  /\ Exists(t) /\ t \notin mapped \cup floating
  /\ InsertWalks(bsp, workspace[t], f)
  /\ bsp' \in Inserts(bsp, workspace[t], t, f)
  /\ mapped' = mapped \cup {t}
  /\ UNCHANGED <<saved, workspace, floating>>

(* Map of a dialog, of a window that a rule floats or that was floating    *)
(* when it was last unmapped.                                              *)
MapFloating(t) ==
  /\ Exists(t) /\ t \notin mapped
  /\ mapped' = mapped \cup {t}
  /\ floating' = floating \cup {t}
  /\ UNCHANGED <<bsp, saved, workspace>>

(* Map of a window that asked for fullscreen before its first map: the     *)
(* handler skips bsp_insert and does not float the window either.          *)
MapFullscreen(t) ==
  /\ Exists(t) /\ t \notin mapped \cup floating
  /\ mapped' = mapped \cup {t}
  /\ UNCHANGED <<bsp, saved, workspace, floating>>

Unmap_keeps_leaf(t) ==
  /\ t \in mapped
  /\ mapped' = mapped \ {t}
  /\ floating' \in {floating, floating \ {t}}
  /\ UNCHANGED <<bsp, saved, workspace>>

(* Unmap; a floating window that is fullscreen at that time loses the flag. *)
Unmap(t) ==
  /\ t \in mapped
  /\ mapped' = mapped \ {t}
  /\ bsp' = bsp_remove(bsp, workspace[t], t)
  /\ floating' \in {floating, floating \ {t}}
  /\ UNCHANGED <<saved, workspace>>

(* Destroy; wlroots has unmapped the window before.  What other windows    *)
(* remember of t is not touched.  The freed object keeps its cached leaf,  *)
(* which is all that is ever read of it again.                             *)
Destroy(t) ==
  /\ Exists(t) /\ t \notin mapped
  /\ workspace' = [workspace EXCEPT ![t] = NULL]
  /\ bsp' = IF t \in floating THEN bsp ELSE bsp_remove(bsp, workspace[t], t)
  /\ saved' = [saved EXCEPT ![t] = NULL]
  /\ floating' = floating \ {t}
  /\ UNCHANGED mapped

(* toggle_floating of a tiled window. *)
Float(t) ==
  LET w == workspace[t]
      l == FindLeaf(bsp, w, t)
      s == Sibling(bsp, l)
      after == bsp_remove(bsp, w, t)
  IN
  /\ t \in mapped \ floating
  /\ IF l # NULL /\ bsp.parent[l] # NULL
     THEN /\ PositionWalks(bsp, w, l)
          /\ saved' = [saved EXCEPT ![t] = PositionOf(bsp, l)]
          /\ bsp' = [after EXCEPT !.split[s] = bsp.split[s]]
     ELSE /\ saved' = [saved EXCEPT ![t] = NULL]
          /\ bsp' = after
  /\ floating' = floating \cup {t}
  /\ UNCHANGED <<workspace, mapped>>

(* toggle_floating of a floating window: bsp_restore, which falls back to  *)
(* bsp_insert when there is no saved place or its sibling is not tiled in  *)
(* this workspace.  A saved sibling that was freed is read as it was left. *)
Unfloat(t, f) ==
  LET w == workspace[t]
      pos == saved[t]
  IN
  /\ t \in mapped \cap floating
  /\ IF CanRestore(bsp, w, pos)
     THEN RestoreWalks(bsp, w, pos) /\ bsp' \in Restores(bsp, w, t, pos)
     ELSE InsertWalks(bsp, w, f) /\ bsp' \in Inserts(bsp, w, t, f)
  /\ floating' = floating \ {t}
  /\ UNCHANGED <<saved, workspace, mapped>>

MoveToWorkspace_new_tree(t, v, f) ==
  LET without == bsp_remove(bsp, v, t) IN
  /\ t \in mapped /\ workspace[t] # v
  /\ workspace' = [workspace EXCEPT ![t] = v]
  /\ IF t \in floating THEN UNCHANGED bsp
     ELSE InsertWalks(without, v, f) /\ bsp' \in Inserts(without, v, t, f)
  /\ UNCHANGED <<saved, mapped, floating>>

(* workspace_move_toplevel: out of one tree and into the other in one step. *)
MoveToWorkspace(t, v, f) ==
  LET without == bsp_remove(bsp, workspace[t], t) IN
  /\ t \in mapped /\ workspace[t] # v
  /\ workspace' = [workspace EXCEPT ![t] = v]
  /\ IF t \in floating THEN UNCHANGED bsp
     ELSE InsertWalks(without, v, f) /\ bsp' \in Inserts(without, v, t, f)
  /\ UNCHANGED <<saved, mapped, floating>>

(* bsp_swap_direction with u the nearest leaf; no cached leaf is updated. *)
Swap(t, u) ==
  LET w == workspace[t]
      l == FindLeaf(bsp, w, t)
  IN
  /\ t \in mapped /\ l # NULL
  /\ \E m \in Node \ {l} :
       /\ Leaf(bsp, m) /\ bsp.toplevel[m] = u /\ InTree(bsp, w, m)
       /\ bsp' = [Lookup(bsp, w, t) EXCEPT !.toplevel[l] = u, !.toplevel[m] = t]
  /\ UNCHANGED <<saved, workspace, mapped, floating>>

(* bsp_rotate_focused_split. *)
Rotate(t) ==
  LET w == workspace[t]
      l == FindLeaf(bsp, w, t)
  IN
  /\ t \in mapped /\ l # NULL /\ bsp.parent[l] # NULL
  /\ \E sp \in Split \ {bsp.split[bsp.parent[l]]} :
       bsp' = [Lookup(bsp, w, t) EXCEPT !.split[bsp.parent[l]] = sp]
  /\ UNCHANGED <<saved, workspace, mapped, floating>>

(* The operations that only look a window up: focus_toplevel, border       *)
(* updates, toggle_fullscreen, bsp_resize, an X11 configure request.       *)
LookUp(t) ==
  /\ t \in mapped
  /\ bsp' = Lookup(bsp, workspace[t], t)
  /\ UNCHANGED <<saved, workspace, mapped, floating>>

Next ==
  \E t \in Window :
    \/ \E w \in Workspace : Create(t, w)
    \/ MapFloating(t) \/ MapFullscreen(t) \/ Unmap(t) \/ Destroy(t)
    \/ Float(t) \/ Rotate(t) \/ LookUp(t)
    \/ \E u \in Window : Swap(t, u)
    \/ \E f \in mapped \cup {NULL} :
         \/ MapTiled(t, f)
         \/ Unfloat(t, f)
         \/ \E v \in Workspace : MoveToWorkspace(t, v, f)

Spec == Init /\ [][Next]_vars

----------------------------------------------------------------------------
(* Properties. *)

(* The pointers form binary trees: an inner node has two distinct children *)
(* that point back at it, a node with a parent is one of its children, a   *)
(* node without one is the root of exactly one workspace, the leaves and   *)
(* only they carry a window, and no live node is linked to a freed one.    *)
RootsLinked(g) ==
  \A w \in Workspace : g.root[w] # NULL =>
    /\ g.root[w] \notin g.free
    /\ g.parent[g.root[w]] = NULL
    /\ \A v \in Workspace : g.root[v] = g.root[w] => v = w

ChildrenLinked(g) ==
  /\ \A n \in g.free : g.first[n] = NULL /\ g.second[n] = NULL
  /\ \A n \in Node \ g.free :
       /\ g.first[n] = NULL <=> g.toplevel[n] # NULL
       /\ g.first[n] = NULL <=> g.second[n] = NULL
       /\ g.first[n] # NULL =>
            /\ g.first[n] # g.second[n]
            /\ \A c \in {g.first[n], g.second[n]} :
                 c \notin g.free /\ g.parent[c] = n

ParentsLinked(g) ==
  \A n \in Node \ g.free :
    IF g.parent[n] = NULL THEN \E w \in Workspace : g.root[w] = n
    ELSE /\ g.parent[n] \notin g.free
         /\ n \in {g.first[g.parent[n]], g.second[g.parent[n]]}

Linked(g) == RootsLinked(g) /\ ChildrenLinked(g) /\ ParentsLinked(g)

LinksConsistent == Linked(bsp)

(* A cached leaf that was freed but still names the window, which a failed *)
(* restore leaves behind, hangs under nothing.                             *)
StaleDetached(g) ==
  \A t \in Window :
    LET n == g.bspLeaf[t] IN
    n \in g.free /\ g.toplevel[n] = t => g.parent[n] = NULL

StaleLeafDetached == StaleDetached(bsp)

(* No node is lost and none is in a cycle: every node that is not on the   *)
(* free list is reached from the root of some workspace.                   *)
NoNodeLeaks ==
  \A n \in Node \ bsp.free : \E w \in Workspace : InTree(bsp, w, n)

(* A window has at most one leaf. *)
OneLeafPerWindow ==
  \A n, m \in Node \ bsp.free :
    bsp.toplevel[n] # NULL /\ bsp.toplevel[n] = bsp.toplevel[m] => n = m

(* That leaf is in the tree of the window's own workspace, and a window    *)
(* that is floating, unmapped or destroyed has none.                       *)
LeafBelongsToWindow ==
  /\ OneLeafPerWindow
  /\ \A n \in Node \ bsp.free : bsp.toplevel[n] # NULL =>
       /\ bsp.toplevel[n] \in mapped \ floating
       /\ InTree(bsp, workspace[bsp.toplevel[n]], n)

(* A lookup is never fooled by a stale cached leaf, be it freed, reused or *)
(* swapped away: what it returns is the window's live leaf, and it fails   *)
(* only when the window has no leaf in that tree.                          *)
LookupExact ==
  \A t \in Window, w \in Workspace :
    LET l == FindLeaf(bsp, w, t) IN
    IF \E n \in Node : bsp.toplevel[n] = t /\ InTree(bsp, w, n)
    THEN InTree(bsp, w, l) /\ bsp.toplevel[l] = t
    ELSE l = NULL

(* The places the tree walks arrive at are in the tree they started in, so *)
(* no guard above ever disables a handler, and a remembered position is    *)
(* one that can be climbed back to.                                        *)
WalksStayInTree ==
  /\ \A w \in Workspace, f \in Window \cup {NULL} : InsertWalks(bsp, w, f)
  /\ \A w \in Workspace, t \in Window :
       CanRestore(bsp, w, saved[t]) => RestoreWalks(bsp, w, saved[t])
  /\ \A t \in mapped \ floating :
       LET l == FindLeaf(bsp, workspace[t], t) IN
       (l # NULL /\ bsp.parent[l] # NULL) =>
         PositionWalks(bsp, workspace[t], l)

(* The layout of a workspace: the splits and windows of its tree, nested. *)
Layout(w) ==
  LET term[n \in Node] ==
        IF Leaf(bsp, n) THEN <<bsp.toplevel[n]>>
        ELSE <<bsp.split[n], term[bsp.first[n]], term[bsp.second[n]]>>
  IN IF bsp.root[w] = NULL THEN <<>> ELSE term[bsp.root[w]]

(* bsp_collect_leaves: the windows of a tree, first leaf to last. *)
InOrder(g, w) ==
  LET windows[n \in Node] ==
        IF Leaf(g, n) THEN <<g.toplevel[n]>>
        ELSE windows[g.first[n]] \o windows[g.second[n]]
  IN IF g.root[w] = NULL THEN <<>> ELSE windows[g.root[w]]

Order == INSTANCE LeafOrder WITH order <- [w \in Workspace |-> InOrder(bsp, w)]

(* Every handler puts in, takes out, moves or trades the window it is      *)
(* about and leaves the order of all others alone, in this workspace and   *)
(* in every other: the trees implement the abstract sequences.             *)
ImplementsLeafOrder == Order!Spec

(* A failed allocation is the only way to lose a tile: an operation that   *)
(* finds two free nodes tiles its window.                                  *)
TilesUnlessPoolExhausted ==
  [][\A t \in Window :
       /\ Cardinality(bsp.free) >= 2
       /\ t \in floating \cap mapped /\ t \in mapped' \ floating'
       => \E n \in Node \ bsp'.free : bsp'.toplevel[n] = t]_vars

(* A window object is not accessed after it was destroyed: the sibling     *)
(* that tiling a floating window again looks up still exists.              *)
SavedSiblingExists ==
  [][\A t \in Window :
       /\ t \in mapped \cap floating /\ t \in mapped' \ floating'
       /\ saved[t] # NULL /\ bsp.root[workspace[t]] # NULL
       => Exists(saved[t].sibling)]_vars
=============================================================================
