--------------------------- MODULE BspTreeProofs ---------------------------
(***************************************************************************)
(* Proofs about the tiling trees, for every number of windows, workspaces  *)
(* and nodes and every order of the free list.                             *)
(***************************************************************************)
EXTENDS BspTree, Lemmas, FiniteSetTheorems, SequenceTheorems, TLAPS

(* What the operators on the heap return.  FindLeaf: a node or NULL. *)
LEMMA FindLeafType ==
  ASSUME NEW g \in Heap, NEW w \in Workspace, NEW t \in Window \cup {NULL}
  PROVE  FindLeaf(g, w, t) \in Node \cup {NULL}
<1> DEFINE found == {n \in Node : g.toplevel[n] = t /\ InTree(g, w, n)}
<1>1. found # {} => (CHOOSE n \in found : TRUE) \in Node
  OBVIOUS
<1>2. t # NULL => g.bspLeaf[t] \in Node \cup {NULL}
  BY DEF Heap
<1> QED BY <1>1, <1>2 DEF FindLeaf

(* A lookup changes a cached leaf only. *)
LEMMA LookupType ==
  ASSUME NEW g \in Heap, NEW w \in Workspace, NEW t \in Window \cup {NULL}
  PROVE  Lookup(g, w, t) \in Heap
<1> DEFINE l == FindLeaf(g, w, t)
<1>1. l \in Node \cup {NULL}
  BY FindLeafType
<1>2. t = NULL => l = NULL
  BY DEF FindLeaf
<1> QED BY <1>1, <1>2 DEF Lookup, Heap

(* Splicing two nodes into a tree gives a heap. *)
LEMMA SpliceType ==
  ASSUME NEW g \in Heap, NEW w \in Workspace, NEW t \in Window,
         NEW s \in Node, NEW n \in Node, NEW i \in Node,
         NEW sp \in Split, NEW b \in BOOLEAN
  PROVE  Splice(g, w, t, s, n, i, sp, b) \in Heap
BY DEF Splice, Heap

(* So does taking a leaf out. *)
LEMMA ContractType ==
  ASSUME NEW g \in Heap, NEW w \in Workspace, NEW l \in Node
  PROVE  Contract(g, w, l) \in Heap
<1> DEFINE p == g.parent[l]
           s == Sibling(g, l)
           above == g.parent[p]
<1>1. CASE p = NULL
  BY <1>1 DEF Contract, Heap
<1>2. CASE p # NULL
  <2>1. p \in Node /\ above \in Node \cup {NULL} /\ s \in Node \cup {NULL}
    BY <1>2 DEF Sibling, Heap
  <2> DEFINE first == [m \in Node |->
                IF m = p THEN NULL
                ELSE IF m = above /\ g.first[m] = p THEN s ELSE g.first[m]]
             second == [m \in Node |->
                IF m = p THEN NULL
                ELSE IF m = above /\ g.first[m] # p THEN s ELSE g.second[m]]
             split == [m \in Node |->
                IF m = s /\ ~Leaf(g, s) THEN g.split[p]
                ELSE IF m = p THEN "vertical" ELSE g.split[m]]
             root == IF above = NULL THEN [g.root EXCEPT ![w] = s] ELSE g.root
             parent == [g.parent EXCEPT ![s] = above]
             free == g.free \cup {p, l}
  <2>2. first \in [Node -> Node \cup {NULL}] /\ second \in [Node -> Node \cup {NULL}]
    BY <2>1 DEF Heap
  <2>3. split \in [Node -> Split]
    BY <2>1 DEF Heap, Split
  <2>4. /\ root \in [Workspace -> Node \cup {NULL}]
        /\ parent \in [Node -> Node \cup {NULL}]
        /\ free \in SUBSET Node
    BY <2>1 DEF Heap
  <2>5. Contract(g, w, l) =
          [g EXCEPT !.root = root, !.parent = parent, !.first = first,
                    !.second = second, !.split = split, !.free = free]
    BY <1>2 DEF Contract
  <2> HIDE DEF first, second, split, root, parent, free
  <2> QED BY <2>2, <2>3, <2>4, <2>5 DEF Heap
<1> QED BY <1>1, <1>2

(* So does bsp_remove. *)
LEMMA RemoveType ==
  ASSUME NEW g \in Heap, NEW w \in Workspace, NEW t \in Window
  PROVE  bsp_remove(g, w, t) \in Heap
<1> DEFINE l == FindLeaf(g, w, t)
<1>1. l \in Node \cup {NULL}
  BY FindLeafType
<1>2. l # NULL => Contract(g, w, l) \in Heap
  BY <1>1, ContractType
<1> HIDE DEF l
<1>3. \A h \in Heap : [h EXCEPT !.bspLeaf[t] = NULL] \in Heap
  BY DEF Heap
<1> QED BY <1>2, <1>3 DEF bsp_remove, l

(* Two allocations in a row return different nodes of the free list. *)
LEMMA AllocatesTwoType ==
  ASSUME NEW F \in SUBSET Node, NEW p \in AllocatesTwo(F)
  PROVE  /\ p[1] \in Node \cup {NULL} /\ p[2] \in Node \cup {NULL}
         /\ p[1] # NULL => p[1] \in F
         /\ p[2] # NULL => p[2] \in F \ {p[1]}
         /\ p[1] = NULL => p[2] = NULL
<1>1. \A G \in SUBSET Node : Allocates(G) \subseteq G \cup {NULL}
  BY HeadsAssumption DEF Allocates
<1>2. F \in SUBSET Node /\ F \ {p[1]} \in SUBSET Node
  OBVIOUS
<1>3. p[1] \in Allocates(F) /\ p[2] \in Allocates(F \ {p[1]})
  <2>1. PICK n \in Allocates(F) : p \in {n} \X Allocates(F \ {n})
    BY DEF AllocatesTwo
  <2>2. p[1] = n /\ p[2] \in Allocates(F \ {n})
    BY <2>1
  <2> QED BY <2>2
<1>4. Allocates(F) \subseteq F \cup {NULL}
  BY <1>1, <1>2
<1>5. Allocates(F \ {p[1]}) \subseteq (F \ {p[1]}) \cup {NULL}
  BY <1>1, <1>2
<1>6. ASSUME p[1] = NULL PROVE p[2] = NULL
  <2>1. NULL \notin F
    BY NullAssumption
  <2>2. F = {}
    BY <2>1, <1>3, <1>6, HeadsAssumption DEF Allocates
  <2>3. F \ {p[1]} = {}
    BY <2>2
  <2> QED BY <2>3, <1>3 DEF Allocates
<1> QED BY <1>3, <1>4, <1>5, <1>6

(* bsp_insert gives a heap, whatever the pool returns. *)
LEMMA InsertType ==
  ASSUME NEW g \in Heap, NEW w \in Workspace, NEW t \in Window,
         NEW f \in Window \cup {NULL}, InsertWalks(g, w, f),
         NEW h \in Inserts(g, w, t, f)
  PROVE  h \in Heap
<1> DEFINE k == Lookup(g, w, f)
           s == InsertTarget(g, w, f)
<1>1. PICK sp \in Split, p \in AllocatesTwo(g.free) :
        h = bsp_insert(k, w, t, s, sp, p[1], p[2])
  BY DEF Inserts
<1>2. k \in Heap /\ k.root = g.root
  BY LookupType DEF Lookup, Heap
<1>3. p[1] \in Node \cup {NULL} /\ p[2] \in Node \cup {NULL}
  BY AllocatesTwoType DEF Heap
<1>4. g.root[w] # NULL => s \in Node
  BY DEF InsertWalks, InTree
<1> HIDE DEF k, s
<1>5. p[1] # NULL => NewRoot(k, w, t, p[1]) \in Heap /\ Returned(k, p[1], t) \in Heap
  BY <1>2, <1>3 DEF NewRoot, Returned, Heap
<1>6. p[1] # NULL /\ p[2] # NULL /\ g.root[w] # NULL =>
        Splice(k, w, t, s, p[1], p[2], sp, TRUE) \in Heap
  BY <1>2, <1>3, <1>4, SpliceType
<1> QED BY <1>1, <1>2, <1>5, <1>6 DEF bsp_insert

(* bsp_restore gives a heap, whatever the pool returns. *)
LEMMA RestoreType ==
  ASSUME NEW g \in Heap, NEW w \in Workspace, NEW t \in Window,
         NEW pos \in Position, RestoreWalks(g, w, pos),
         NEW h \in Restores(g, w, t, pos)
  PROVE  h \in Heap
<1> DEFINE k == Lookup(g, w, pos.sibling)
           s == RestoreTarget(g, w, pos)
<1>1. PICK p \in AllocatesTwo(g.free) :
        h = bsp_restore(k, w, t, s, pos, p[1], p[2])
  BY DEF Restores
<1>2. pos.sibling \in Window /\ pos.split \in Split /\ pos.second \in BOOLEAN
  BY DEF Position
<1>3. k \in Heap
  BY <1>2, LookupType
<1>4. p[1] \in Node \cup {NULL} /\ p[2] \in Node \cup {NULL}
  BY AllocatesTwoType DEF Heap
<1>5. s \in Node
  BY DEF RestoreWalks, InTree
<1> HIDE DEF k, s
<1>6. p[1] # NULL => [Returned(k, p[1], t) EXCEPT !.bspLeaf[t] = p[1]] \in Heap
  BY <1>3, <1>4 DEF Returned, Heap
<1>7. p[1] # NULL /\ p[2] # NULL =>
        Splice(k, w, t, s, p[1], p[2], pos.split, pos.second) \in Heap
  BY <1>2, <1>3, <1>4, <1>5, SpliceType
<1> QED BY <1>1, <1>3, <1>6, <1>7 DEF bsp_restore

----------------------------------------------------------------------------
(* The shape of the trees. *)

(* A set of nodes with their parents, without the root, is out of reach. *)
LEMMA OutOfReach ==
  ASSUME NEW g \in Heap, Linked(g), NEW w \in Workspace, NEW s,
         InTree(g, w, s), NEW C, g.root[w] \notin C,
         \A m \in C : g.parent[m] \in C \cup {NULL}
  PROVE  s \notin C
<1> SUFFICES ASSUME s \in C PROVE FALSE
  OBVIOUS
<1> DEFINE S == Node \ (g.free \cup C)
<1>1. g.root[w] \in S
  BY DEF InTree, Linked, RootsLinked, Heap
<1>2. ASSUME NEW m \in S, NEW c \in {g.first[m], g.second[m]}, c # NULL
      PROVE  c \in S
  <2>1. c \in Node /\ g.first[m] # NULL
    BY <1>2 DEF Heap, Linked, ChildrenLinked
  <2>2. c \notin g.free /\ g.parent[c] = m
    BY <1>2, <2>1 DEF Linked, ChildrenLinked
  <2>3. m # NULL
    BY NullAssumption
  <2> QED BY <2>1, <2>2, <2>3
<1>3. S \in SUBSET (Node \ (g.free \cup {s}))
  OBVIOUS
<1> HIDE DEF S
<1> QED BY <1>1, <1>2, <1>3 DEF InTree

(* A node of a tree that has no parent is the root of that tree. *)
LEMMA RootOfTree ==
  ASSUME NEW g \in Heap, Linked(g), NEW w \in Workspace, NEW s,
         InTree(g, w, s), g.parent[s] = NULL
  PROVE  g.root[w] = s
<1>1. g.root[w] \notin {s} => s \notin {s}
  BY OutOfReach
<1> QED BY <1>1

(* There is no way from a node of a tree back to it in one or two steps. *)
LEMMA NoShortCycle ==
  ASSUME NEW g \in Heap, Linked(g), NEW w \in Workspace, NEW s,
         InTree(g, w, s), g.parent[s] # NULL
  PROVE  g.parent[s] # s /\ g.parent[g.parent[s]] # s
<1>1. s # NULL /\ g.parent[g.root[w]] = NULL
  BY NullAssumption DEF InTree, Linked, RootsLinked
<1>2. g.parent[s] # s
  <2> SUFFICES ASSUME g.parent[s] = s PROVE FALSE
    OBVIOUS
  <2> DEFINE C == {s}
  <2>1. g.root[w] \notin C /\ s \in C
    BY <1>1
  <2>2. \A m \in C : g.parent[m] \in C \cup {NULL}
    OBVIOUS
  <2> HIDE DEF C
  <2> QED BY <2>1, <2>2, OutOfReach
<1>3. g.parent[g.parent[s]] # s
  <2> DEFINE C == {s, g.parent[s]}
  <2> SUFFICES ASSUME g.parent[g.parent[s]] = s PROVE FALSE
    OBVIOUS
  <2>1. g.root[w] \notin C /\ s \in C
    BY <1>1
  <2>2. \A m \in C : g.parent[m] \in C \cup {NULL}
    OBVIOUS
  <2> HIDE DEF C
  <2> QED BY <2>1, <2>2, OutOfReach
<1> QED BY <1>2, <1>3

(* The parent of a node of a tree is in the tree. *)
LEMMA ParentInTree ==
  ASSUME NEW g \in Heap, Linked(g), NEW w \in Workspace, NEW l,
         InTree(g, w, l), g.parent[l] # NULL
  PROVE  InTree(g, w, g.parent[l])
<1> DEFINE p == g.parent[l]
<1>1. l \in Node \ g.free /\ g.root[w] \in Node
  BY DEF InTree, Heap
<1>2. p \in Node \ g.free
  BY <1>1 DEF Heap, Linked, ParentsLinked
<1>3. g.parent[g.root[w]] = NULL
  BY DEF InTree, Linked, RootsLinked
<1>4. ASSUME NEW S \in SUBSET (Node \ (g.free \cup {p})), g.root[w] \in S,
             \A m \in S : {g.first[m], g.second[m]} \subseteq S \cup {NULL}
      PROVE  FALSE
  <2> DEFINE U == S \ {l}
  <2>1. g.root[w] \in U
    BY <1>3, <1>4
  <2>2. ASSUME NEW m \in U, NEW c \in {g.first[m], g.second[m]}, c # NULL
        PROVE  c \in U
    <3>1. c \in S
      BY <1>4, <2>2
    <3>2. g.first[m] # NULL
      BY <2>2 DEF Linked, ChildrenLinked
    <3>3. g.parent[c] = m
      BY <2>2, <3>2 DEF Linked, ChildrenLinked
    <3> QED BY <3>1, <3>3
  <2> HIDE DEF U
  <2>3. U \in SUBSET (Node \ (g.free \cup {l}))
    BY DEF U
  <2> QED BY <2>1, <2>2, <2>3 DEF InTree
<1> QED BY <1>2, <1>4 DEF InTree

(* A live node from which the walk up meets a root is in that tree. *)
LEMMA WalkInTree ==
  ASSUME NEW g \in Heap, Linked(g), NEW w \in Workspace, NEW l \in Node \ g.free,
         g.root[w] # NULL, WalkMeets(g, l, g.root[w])
  PROVE  InTree(g, w, l)
<1> SUFFICES ASSUME NEW S \in SUBSET (Node \ (g.free \cup {l})), g.root[w] \in S,
                    \A m \in S : {g.first[m], g.second[m]} \subseteq S \cup {NULL}
             PROVE  FALSE
  BY DEF InTree
<1> DEFINE U == Node \ (g.free \cup S)
<1>1. l \in U /\ U \in SUBSET (Node \ {g.root[w]})
  OBVIOUS
<1>2. ASSUME NEW m \in U, g.parent[m] # NULL
      PROVE  g.parent[m] \in U
  <2>1. g.parent[m] \in Node \ g.free
    BY <1>2 DEF Heap, Linked, ParentsLinked
  <2>2. m \in {g.first[g.parent[m]], g.second[g.parent[m]]}
    BY <1>2 DEF Linked, ParentsLinked
  <2>3. m # NULL
    BY NullAssumption
  <2> QED BY <2>1, <2>2, <2>3
<1> HIDE DEF U
<1> QED BY <1>1, <1>2 DEF WalkMeets

(* A lookup that finds a leaf finds a live leaf of that tree with the      *)
(* window on it, whether it took the cached one or searched.               *)
LEMMA FindLeafInTree ==
  ASSUME NEW g \in Heap, Linked(g), StaleDetached(g), NEW w \in Workspace,
         NEW t \in Window \cup {NULL}, FindLeaf(g, w, t) # NULL
  PROVE  LET l == FindLeaf(g, w, t)
         IN t \in Window /\ InTree(g, w, l) /\ g.toplevel[l] = t /\ Leaf(g, l)
<1> DEFINE l == FindLeaf(g, w, t)
<1>1. t \in Window /\ g.root[w] # NULL
  BY DEF FindLeaf
<1>2. ASSUME CacheHit(g, w, t)
      PROVE  InTree(g, w, l) /\ g.toplevel[l] = t
  <2>1. l = g.bspLeaf[t] /\ l \in Node /\ g.toplevel[l] = t
    BY <1>1, <1>2 DEF FindLeaf, CacheHit, Heap
  <2>2. l \notin g.free
    <3> SUFFICES ASSUME l \in g.free PROVE FALSE
      OBVIOUS
    <3>1. g.parent[l] = NULL
      BY <1>1, <2>1 DEF StaleDetached
    <3>2. g.root[w] \notin g.free
      BY <1>1 DEF Linked, RootsLinked
    <3>3. {l} \in SUBSET (Node \ {g.root[w]})
      BY <2>1, <3>2
    <3>4. ~WalkMeets(g, l, g.root[w])
      BY <3>1, <3>3 DEF WalkMeets
    <3> QED BY <1>2, <2>1, <3>4 DEF CacheHit
  <2>3. InTree(g, w, l)
    BY <1>1, <1>2, <2>1, <2>2, WalkInTree DEF CacheHit
  <2> QED BY <2>1, <2>3
<1>3. ASSUME ~CacheHit(g, w, t)
      PROVE  InTree(g, w, l) /\ g.toplevel[l] = t
  <2> DEFINE found == {n \in Node : g.toplevel[n] = t /\ InTree(g, w, n)}
  <2>1. l = IF found = {} THEN NULL ELSE CHOOSE n \in found : TRUE
    BY <1>1, <1>3 DEF FindLeaf
  <2>2. l \in found
    BY <2>1
  <2> QED BY <2>2
<1>4. InTree(g, w, l) /\ g.toplevel[l] = t
  BY <1>2, <1>3
<1>5. l \in Node \ g.free /\ t # NULL
  BY <1>1, <1>4, NullAssumption DEF InTree
<1>6. g.first[l] = NULL
  BY <1>4, <1>5 DEF Linked, ChildrenLinked
<1> QED BY <1>1, <1>4, <1>6 DEF Leaf

(* A lookup writes nothing but a cached leaf. *)
SameTrees(g, h) ==
  /\ h.root = g.root /\ h.parent = g.parent /\ h.first = g.first
  /\ h.second = g.second /\ h.toplevel = g.toplevel /\ h.split = g.split
  /\ h.free = g.free

(* What the caches hold says nothing about the links. *)
LEMMA SameTreesLinked ==
  ASSUME NEW g, NEW h, SameTrees(g, h)
  PROVE  /\ Linked(g) <=> Linked(h)
         /\ \A w, n : InTree(g, w, n) <=> InTree(h, w, n)
BY DEF SameTrees, Linked, RootsLinked, ChildrenLinked, ParentsLinked, InTree

(* A lookup caches a live leaf or nothing. *)
LEMMA LookupSound ==
  ASSUME NEW g \in Heap, Linked(g), StaleDetached(g), NEW w \in Workspace,
         NEW t \in Window \cup {NULL}
  PROVE  /\ SameTrees(g, Lookup(g, w, t))
         /\ StaleDetached(Lookup(g, w, t))
<1> DEFINE h == Lookup(g, w, t)
           l == FindLeaf(g, w, t)
<1>1. CASE l \in {NULL, g.root[w]}
  BY <1>1 DEF Lookup, SameTrees
<1>2. CASE l \notin {NULL, g.root[w]}
  <2>1. t \in Window /\ l \notin g.free
    BY <1>2, FindLeafInTree DEF InTree
  <2> HIDE DEF l
  <2>2. h = [g EXCEPT !.bspLeaf[t] = l]
    BY <1>2 DEF Lookup, l
  <2>3. SameTrees(g, h)
    BY <2>2 DEF SameTrees, Heap
  <2>4. h.bspLeaf = [g.bspLeaf EXCEPT ![t] = l]
    BY <2>2 DEF Heap
  <2> HIDE DEF h
  <2>5. StaleDetached(h)
    BY <2>1, <2>3, <2>4 DEF StaleDetached, SameTrees, Heap
  <2> QED BY <2>3, <2>5 DEF h
<1> QED BY <1>1, <1>2

(* Putting a leaf next to a node of a tree keeps the links consistent. *)
LEMMA SpliceSound ==
  ASSUME NEW g \in Heap, Linked(g), StaleDetached(g), NEW w \in Workspace,
         NEW t \in Window, NEW s, InTree(g, w, s), NEW n \in g.free,
         NEW i \in g.free, n # i, NEW sp \in Split, NEW b \in BOOLEAN
  PROVE  /\ Linked(Splice(g, w, t, s, n, i, sp, b))
         /\ StaleDetached(Splice(g, w, t, s, n, i, sp, b))
<1> DEFINE h == Splice(g, w, t, s, n, i, sp, b)
           p == g.parent[s]
<1>1. /\ s \in Node \ g.free /\ n \in Node /\ i \in Node
      /\ p \in Node \cup {NULL}
      /\ p # NULL => p \notin g.free
      /\ NULL \notin Node /\ t # NULL
  BY NullAssumption DEF InTree, Heap, Linked, ParentsLinked
<1>2. p = NULL => g.root[w] = s
  BY RootOfTree
<1>3. p # NULL => s \in {g.first[p], g.second[p]} /\ g.first[p] # g.second[p]
  <2> SUFFICES ASSUME p # NULL
               PROVE  s \in {g.first[p], g.second[p]} /\ g.first[p] # g.second[p]
    OBVIOUS
  <2>1. s \in {g.first[p], g.second[p]}
    BY <1>1 DEF Linked, ParentsLinked
  <2>2. s # NULL /\ p \in Node \ g.free
    BY <1>1
  <2> QED BY <2>1, <2>2 DEF Linked, ChildrenLinked
<1>4. /\ h.root = IF p = NULL THEN [g.root EXCEPT ![w] = i] ELSE g.root
      /\ h.parent = [g.parent EXCEPT ![i] = p, ![n] = i, ![s] = i]
      /\ h.first = [m \in Node |->
            IF m = i THEN (IF b THEN s ELSE n)
            ELSE IF m = p /\ g.first[m] = s THEN i ELSE g.first[m]]
      /\ h.second = [m \in Node |->
            IF m = i THEN (IF b THEN n ELSE s)
            ELSE IF m = p /\ g.first[m] # s THEN i ELSE g.second[m]]
      /\ h.toplevel = [g.toplevel EXCEPT ![n] = t, ![i] = NULL]
      /\ h.free = g.free \ {n, i}
      /\ h.bspLeaf = [g.bspLeaf EXCEPT ![t] = n]
  BY DEF Splice, Heap
<1> HIDE DEF h, p
<1>5. \A m \in Node :
        /\ h.parent[m] = IF m = i THEN p ELSE IF m \in {n, s} THEN i ELSE g.parent[m]
        /\ h.toplevel[m] = IF m = n THEN t ELSE IF m = i THEN NULL ELSE g.toplevel[m]
  BY <1>1, <1>4 DEF Heap
<1>6. \A m \in Node :
        /\ h.first[m] = IF m = i THEN (IF b THEN s ELSE n)
             ELSE IF m = p /\ g.first[m] = s THEN i ELSE g.first[m]
        /\ h.second[m] = IF m = i THEN (IF b THEN n ELSE s)
             ELSE IF m = p /\ g.first[m] # s THEN i ELSE g.second[m]
  BY <1>4
<1>7. \A v \in Workspace : h.root[v] = IF v = w /\ p = NULL THEN i ELSE g.root[v]
  BY <1>4 DEF Heap
<1>8. RootsLinked(h)
  <2> SUFFICES ASSUME NEW v \in Workspace, h.root[v] # NULL
               PROVE  /\ h.root[v] \notin h.free
                      /\ h.parent[h.root[v]] = NULL
                      /\ \A u \in Workspace : h.root[u] = h.root[v] => u = v
    BY DEF RootsLinked
  <2>1. CASE v = w /\ p = NULL
    BY <1>1, <1>4, <1>5, <1>7, <2>1 DEF Linked, RootsLinked
  <2>2. CASE ~(v = w /\ p = NULL)
    <3>1. h.root[v] = g.root[v] /\ g.root[v] \in Node \ g.free
      BY <1>7, <2>2 DEF Linked, RootsLinked, Heap
    <3>2. g.parent[g.root[v]] = NULL /\ g.root[v] # s
      BY <1>2, <2>2, <3>1 DEF Linked, RootsLinked, p
    <3> QED BY <1>1, <1>4, <1>5, <1>7, <3>1, <3>2 DEF Linked, RootsLinked
  <2> QED BY <2>1, <2>2
<1>9. ChildrenLinked(h)
  <2>1. ASSUME NEW m \in h.free PROVE h.first[m] = NULL /\ h.second[m] = NULL
    <3>1. m \in g.free /\ m \in Node /\ m # i /\ m # p
      BY <1>1, <1>4, <2>1 DEF Heap
    <3> QED BY <1>6, <3>1 DEF Linked, ChildrenLinked
  <2>2. ASSUME NEW m \in Node \ h.free
        PROVE  /\ h.first[m] = NULL <=> h.toplevel[m] # NULL
               /\ h.first[m] = NULL <=> h.second[m] = NULL
               /\ h.first[m] # NULL =>
                     /\ h.first[m] # h.second[m]
                     /\ \A c \in {h.first[m], h.second[m]} :
                          c \notin h.free /\ h.parent[c] = m
    <3>1. CASE m = i
      BY <1>1, <1>4, <1>5, <1>6, <3>1
    <3>2. CASE m = n
      BY <1>1, <1>4, <1>5, <1>6, <3>2 DEF Linked, ChildrenLinked
    <3>3. CASE m = p
      <4>1. m \in Node \ g.free /\ m # i /\ m # n /\ m # NULL
        BY <1>1, <3>3
      <4>2. /\ g.first[m] # NULL /\ g.second[m] # NULL /\ g.toplevel[m] = NULL
            /\ g.first[m] \in Node \ g.free /\ g.second[m] \in Node \ g.free
            /\ g.parent[g.first[m]] = m /\ g.parent[g.second[m]] = m
        BY <1>1, <1>3, <3>3, <4>1 DEF Linked, ChildrenLinked, Heap
      <4> QED BY <1>1, <1>3, <1>4, <1>5, <1>6, <3>3, <4>1, <4>2
    <3>4. CASE m \notin {i, n, p}
      <4>1. m \in Node \ g.free
        BY <1>4, <2>2, <3>4
      <4>2. /\ h.first[m] = g.first[m] /\ h.second[m] = g.second[m]
            /\ h.toplevel[m] = g.toplevel[m]
        BY <1>5, <1>6, <3>4
      <4>3. ASSUME g.first[m] # NULL, NEW c \in {g.first[m], g.second[m]}
            PROVE  c \in Node \ g.free /\ g.parent[c] = m /\ c # s
        BY <1>1, <3>4, <4>1, <4>3 DEF Linked, ChildrenLinked, Heap, p
      <4> QED BY <1>1, <1>4, <1>5, <4>1, <4>2, <4>3 DEF Linked, ChildrenLinked
    <3> QED BY <3>1, <3>2, <3>3, <3>4
  <2> QED BY <2>1, <2>2 DEF ChildrenLinked
<1>10. ParentsLinked(h)
  <2> SUFFICES ASSUME NEW m \in Node \ h.free
               PROVE  IF h.parent[m] = NULL
                      THEN \E v \in Workspace : h.root[v] = m
                      ELSE /\ h.parent[m] \notin h.free
                           /\ m \in {h.first[h.parent[m]], h.second[h.parent[m]]}
    BY DEF ParentsLinked
  <2>1. CASE m = i
    <3>1. h.parent[m] = p /\ m \in Node
      BY <1>1, <1>5, <2>1
    <3>2. p = NULL => h.root[w] = m
      BY <1>7, <2>1
    <3>3. p # NULL => p \notin h.free /\ m \in {h.first[p], h.second[p]}
      BY <1>1, <1>3, <1>4, <1>6, <2>1
    <3> QED BY <3>1, <3>2, <3>3
  <2>2. CASE m \in {n, s}
    BY <1>1, <1>4, <1>5, <1>6, <2>2
  <2>3. CASE m \notin {i, n, s}
    <3>1. m \in Node \ g.free /\ h.parent[m] = g.parent[m]
      BY <1>4, <1>5, <2>3
    <3>2. CASE g.parent[m] = NULL
      BY <1>2, <1>7, <2>3, <3>1, <3>2 DEF Linked, ParentsLinked
    <3>3. CASE g.parent[m] # NULL
      <4>1. /\ g.parent[m] \in Node \ g.free
            /\ m \in {g.first[g.parent[m]], g.second[g.parent[m]]}
        BY <3>1, <3>3 DEF Linked, ParentsLinked, Heap
      <4> QED BY <1>1, <1>3, <1>4, <1>6, <2>3, <3>1, <3>3, <4>1
    <3> QED BY <3>2, <3>3
  <2> QED BY <2>1, <2>2, <2>3
<1>11. StaleDetached(h)
  <2> SUFFICES ASSUME NEW u \in Window, h.bspLeaf[u] \in h.free,
                      h.toplevel[h.bspLeaf[u]] = u
               PROVE  h.parent[h.bspLeaf[u]] = NULL
    BY DEF StaleDetached
  <2>1. u # t /\ h.bspLeaf[u] = g.bspLeaf[u]
    BY <1>1, <1>4 DEF Heap
  <2>2. g.bspLeaf[u] \in Node /\ g.bspLeaf[u] \in g.free \ {n, i, s}
    BY <1>1, <1>4, <2>1 DEF Heap
  <2> QED BY <1>5, <2>1, <2>2 DEF StaleDetached
<1> QED BY <1>8, <1>9, <1>10, <1>11 DEF Linked, h

(* Taking a leaf out of its tree keeps the links consistent; the two nodes *)
(* it frees are cached by no window whose name they carry, but perhaps the *)
(* leaf by the window that leaves.                                         *)
LEMMA ContractSound ==
  ASSUME NEW g \in Heap, Linked(g), StaleDetached(g), NEW w \in Workspace,
         NEW t \in Window, NEW l, InTree(g, w, l), g.toplevel[l] = t
  PROVE  LET h == [Contract(g, w, l) EXCEPT !.bspLeaf[t] = NULL]
         IN Linked(h) /\ StaleDetached(h)
<1> DEFINE c == Contract(g, w, l)
           h == [c EXCEPT !.bspLeaf[t] = NULL]
           p == g.parent[l]
           s == Sibling(g, l)
           above == g.parent[p]
<1>1. l \in Node \ g.free /\ NULL \notin Node /\ t # NULL
  BY NullAssumption DEF InTree
<1>2. g.first[l] = NULL /\ g.second[l] = NULL
  BY <1>1 DEF Linked, ChildrenLinked
<1>3. c \in Heap
  BY <1>1, ContractType
<1>4. CASE p = NULL
  <2>1. g.root[w] = l
    BY <1>4, RootOfTree
  <2>2. /\ h.root = [g.root EXCEPT ![w] = NULL] /\ h.free = g.free \cup {l}
        /\ h.parent = g.parent /\ h.first = g.first /\ h.second = g.second
        /\ h.toplevel = g.toplevel
        /\ h.bspLeaf = [g.bspLeaf EXCEPT ![t] = NULL]
    BY <1>4 DEF Contract, Heap
  <2> HIDE DEF h
  <2>3. RootsLinked(h)
    BY <1>1, <2>1, <2>2 DEF Linked, RootsLinked, Heap
  <2>4. ChildrenLinked(h)
    <3> SUFFICES ASSUME NEW m \in Node \ g.free, m # l,
                        NEW d \in {g.first[m], g.second[m]}, d # NULL
                 PROVE  d # l
      BY <1>1, <1>2, <2>2 DEF Linked, ChildrenLinked
    <3>1. g.parent[d] = m
      BY DEF Linked, ChildrenLinked
    <3> QED BY <1>1, <1>4, <3>1
  <2>5. ParentsLinked(h)
    <3> SUFFICES ASSUME NEW m \in Node \ g.free, m # l
                 PROVE  IF g.parent[m] = NULL
                        THEN \E v \in Workspace : h.root[v] = m
                        ELSE /\ g.parent[m] \notin g.free \cup {l}
                             /\ m \in {g.first[g.parent[m]], g.second[g.parent[m]]}
      BY <2>2 DEF ParentsLinked
    <3>1. CASE g.parent[m] = NULL
      <4>1. PICK v \in Workspace : g.root[v] = m
        BY <3>1 DEF Linked, ParentsLinked
      <4> QED BY <2>1, <2>2, <3>1, <4>1 DEF Heap
    <3>2. CASE g.parent[m] # NULL
      BY <1>1, <1>2, <3>2 DEF Linked, ParentsLinked
    <3> QED BY <3>1, <3>2
  <2>6. StaleDetached(h)
    BY <1>1, <2>2 DEF StaleDetached, Heap
  <2> QED BY <2>3, <2>4, <2>5, <2>6 DEF Linked, h
<1>5. CASE p # NULL
  <2>1. /\ p \in Node \ g.free /\ l \in {g.first[p], g.second[p]}
        /\ InTree(g, w, p)
    BY <1>1, <1>5, ParentInTree DEF Linked, ParentsLinked, Heap
  <2>2. /\ g.first[p] # NULL /\ g.first[p] # g.second[p]
        /\ g.first[p] \in Node \ g.free /\ g.second[p] \in Node \ g.free
        /\ g.parent[g.first[p]] = p /\ g.parent[g.second[p]] = p
        /\ g.toplevel[p] = NULL /\ p # l
    BY <1>1, <1>2, <2>1 DEF Linked, ChildrenLinked, Heap
  <2>3. /\ s \in Node \ g.free /\ s # l
        /\ {s, l} = {g.first[p], g.second[p]}
    BY <2>1, <2>2 DEF Sibling
  <2>4. above = NULL => g.root[w] = p
    BY <2>1, RootOfTree
  <2>5. above # NULL =>
          /\ above \in Node \ g.free /\ p \in {g.first[above], g.second[above]}
          /\ g.first[above] # NULL
    BY <1>1, <2>1 DEF Linked, ParentsLinked, ChildrenLinked, Heap
  <2>6. /\ h.root = IF above = NULL THEN [g.root EXCEPT ![w] = s] ELSE g.root
        /\ h.parent = [g.parent EXCEPT ![s] = above]
        /\ h.first = [m \in Node |-> IF m = p THEN NULL
             ELSE IF m = above /\ g.first[m] = p THEN s ELSE g.first[m]]
        /\ h.second = [m \in Node |-> IF m = p THEN NULL
             ELSE IF m = above /\ g.first[m] # p THEN s ELSE g.second[m]]
        /\ h.toplevel = g.toplevel /\ h.free = g.free \cup {p, l}
        /\ h.bspLeaf = [g.bspLeaf EXCEPT ![t] = NULL]
    BY <1>5 DEF Contract, Heap
  <2>7. above \in Node \cup {NULL} /\ above \notin {p, l, s}
    <3>1. above \in Node \cup {NULL}
      BY <2>1 DEF Heap
    <3>2. above # l
      BY <1>1, <1>2, <2>5
    <3>3. p # NULL /\ s # NULL /\ l # NULL /\ g.parent[s] = p
      BY <1>1, <1>5, <2>2, <2>3
    <3>4. above # NULL => above # p /\ g.parent[above] # p
      BY <2>1, NoShortCycle
    <3> QED BY <3>1, <3>2, <3>3, <3>4
  <2>8. p # s
    <3> SUFFICES ASSUME p = s PROVE FALSE
      OBVIOUS
    <3>1. g.parent[p] = p
      BY <2>2, <2>3
    <3> QED BY <2>7, <3>1
  <2> HIDE DEF h, c, p, s, above
  <2>9. \A m \in Node :
          /\ h.parent[m] = IF m = s THEN above ELSE g.parent[m]
          /\ h.first[m] = IF m = p THEN NULL
               ELSE IF m = above /\ g.first[m] = p THEN s ELSE g.first[m]
          /\ h.second[m] = IF m = p THEN NULL
               ELSE IF m = above /\ g.first[m] # p THEN s ELSE g.second[m]
    BY <2>3, <2>6 DEF Heap
  <2>10. RootsLinked(h)
    <3> SUFFICES ASSUME NEW v \in Workspace, h.root[v] # NULL
                 PROVE  /\ h.root[v] \notin h.free
                        /\ h.parent[h.root[v]] = NULL
                        /\ \A u \in Workspace : h.root[u] = h.root[v] => u = v
      BY DEF RootsLinked
    <3>1. \A u \in Workspace :
            h.root[u] = IF u = w /\ above = NULL THEN s ELSE g.root[u]
      BY <2>6 DEF Heap
    <3>2. CASE v = w /\ above = NULL
      <4>1. \A u \in Workspace : g.root[u] # s
        BY <2>1, <2>2, <2>3, <1>1 DEF Linked, RootsLinked
      <4> QED BY <2>3, <2>6, <2>8, <2>9, <3>1, <3>2, <4>1
    <3>3. CASE ~(v = w /\ above = NULL)
      <4>1. h.root[v] = g.root[v] /\ g.root[v] \in Node \ g.free
        BY <3>1, <3>3 DEF Linked, RootsLinked, Heap
      <4>2. /\ g.parent[g.root[v]] = NULL
            /\ \A u \in Workspace : g.root[u] = g.root[v] => u = v
        BY <4>1, <1>1 DEF Linked, RootsLinked
      <4>3. g.root[v] \notin {s, l, p}
        BY <1>5, <2>1, <2>2, <2>3, <2>4, <3>3, <4>2 DEF p, above
      <4> QED BY <2>6, <2>9, <3>1, <4>1, <4>2, <4>3
    <3> QED BY <3>2, <3>3
  <2>11. ChildrenLinked(h)
    <3>1. ASSUME NEW m \in h.free PROVE h.first[m] = NULL /\ h.second[m] = NULL
      <4>1. m \in Node /\ (m \in g.free \/ m \in {p, l})
        BY <1>1, <2>1, <2>6, <3>1 DEF Heap
      <4>2. m # above
        BY <2>5, <2>7, <4>1, <1>1
      <4> QED BY <1>2, <2>9, <4>1, <4>2 DEF Linked, ChildrenLinked
    <3>2. ASSUME NEW m \in Node \ h.free
          PROVE  /\ h.first[m] = NULL <=> h.toplevel[m] # NULL
                 /\ h.first[m] = NULL <=> h.second[m] = NULL
                 /\ h.first[m] # NULL =>
                       /\ h.first[m] # h.second[m]
                       /\ \A d \in {h.first[m], h.second[m]} :
                            d \notin h.free /\ h.parent[d] = m
      <4>1. m \in Node \ g.free /\ m \notin {p, l} /\ m # NULL
        BY <1>1, <2>6, <3>2
      <4>2. \A d \in {g.first[m], g.second[m]} : d # NULL =>
              /\ d \in Node \ g.free /\ g.parent[d] = m /\ d \notin {s, l}
        <5> SUFFICES ASSUME NEW d \in {g.first[m], g.second[m]}, d # NULL
                     PROVE  d \in Node \ g.free /\ g.parent[d] = m
          BY <1>5, <2>2, <2>3, <4>1 DEF p
        <5>1. g.first[m] # NULL /\ d \in Node
          BY <4>1 DEF Linked, ChildrenLinked, Heap
        <5> QED BY <4>1, <5>1 DEF Linked, ChildrenLinked
      <4>3. /\ g.first[m] = NULL <=> g.toplevel[m] # NULL
            /\ g.first[m] = NULL <=> g.second[m] = NULL
            /\ g.first[m] # NULL => g.first[m] # g.second[m]
        BY <4>1 DEF Linked, ChildrenLinked
      <4>4. CASE m = above
        BY <1>1, <2>3, <2>5, <2>6, <2>9, <4>1, <4>2, <4>3, <4>4
      <4>5. CASE m # above
        <5>1. p \notin {g.first[m], g.second[m]}
          BY <1>5, <4>2, <4>5 DEF above
        <5> QED BY <2>6, <2>9, <4>1, <4>2, <4>3, <4>5, <5>1
      <4> QED BY <4>4, <4>5
    <3> QED BY <3>1, <3>2 DEF ChildrenLinked
  <2>12. ParentsLinked(h)
    <3> SUFFICES ASSUME NEW m \in Node \ h.free
                 PROVE  IF h.parent[m] = NULL
                        THEN \E v \in Workspace : h.root[v] = m
                        ELSE /\ h.parent[m] \notin h.free
                             /\ m \in {h.first[h.parent[m]], h.second[h.parent[m]]}
      BY DEF ParentsLinked
    <3>1. m \in Node \ g.free /\ m \notin {p, l} /\ m # NULL
      BY <1>1, <2>6
    <3>2. CASE m = s
      <4>1. h.parent[m] = above
        BY <2>9, <3>1, <3>2
      <4>2. above = NULL => h.root[w] = m
        BY <2>6, <3>2 DEF Heap
      <4>3. above # NULL =>
              above \notin h.free /\ m \in {h.first[above], h.second[above]}
        BY <2>5, <2>6, <2>7, <2>9, <3>2
      <4> QED BY <4>1, <4>2, <4>3
    <3>3. CASE m # s
      <4>1. h.parent[m] = g.parent[m]
        BY <2>9, <3>1, <3>3
      <4>2. CASE g.parent[m] = NULL
        <5>1. PICK v \in Workspace : g.root[v] = m
          BY <3>1, <4>2 DEF Linked, ParentsLinked
        <5>2. v # w \/ above # NULL
          BY <2>4, <3>1, <5>1
        <5> QED BY <2>6, <4>1, <4>2, <5>1, <5>2 DEF Heap
      <4>3. CASE g.parent[m] # NULL
        <5>1. /\ g.parent[m] \in Node \ g.free
              /\ m \in {g.first[g.parent[m]], g.second[g.parent[m]]}
          BY <3>1, <4>3 DEF Linked, ParentsLinked, Heap
        <5>2. g.parent[m] \notin {p, l}
          BY <1>2, <2>3, <3>1, <3>3, <5>1
        <5> QED BY <2>5, <2>6, <2>9, <3>1, <4>1, <4>3, <5>1, <5>2
      <4> QED BY <4>2, <4>3
    <3> QED BY <3>2, <3>3
  <2>13. StaleDetached(h)
    <3> SUFFICES ASSUME NEW u \in Window, h.bspLeaf[u] \in h.free,
                        h.toplevel[h.bspLeaf[u]] = u
                 PROVE  h.parent[h.bspLeaf[u]] = NULL
      BY DEF StaleDetached
    <3>1. u # NULL /\ u # t /\ h.bspLeaf[u] = g.bspLeaf[u]
      BY <1>1, <2>1, <2>6, NullAssumption DEF Heap
    <3>2. g.bspLeaf[u] \in Node /\ g.bspLeaf[u] \in g.free
      BY <2>1, <2>2, <2>6, <3>1 DEF Heap
    <3> QED BY <2>3, <2>6, <2>9, <3>1, <3>2 DEF StaleDetached
  <2> QED BY <2>10, <2>11, <2>12, <2>13 DEF Linked, h, c
<1> QED BY <1>4, <1>5

(* A first leaf is a tree. *)
LEMMA NewRootSound ==
  ASSUME NEW g \in Heap, Linked(g), StaleDetached(g), NEW w \in Workspace,
         NEW t \in Window, NEW n \in g.free, g.root[w] = NULL
  PROVE  Linked(NewRoot(g, w, t, n)) /\ StaleDetached(NewRoot(g, w, t, n))
<1> DEFINE h == NewRoot(g, w, t, n)
<1>1. n \in Node /\ NULL \notin Node /\ t # NULL
  BY NullAssumption DEF Heap
<1>2. /\ h.root = [g.root EXCEPT ![w] = n] /\ h.free = g.free \ {n}
      /\ h.parent = [g.parent EXCEPT ![n] = NULL]
      /\ h.first = g.first /\ h.second = g.second
      /\ h.toplevel = [g.toplevel EXCEPT ![n] = t]
      /\ h.bspLeaf = [g.bspLeaf EXCEPT ![t] = n]
  BY DEF NewRoot, Heap
<1> HIDE DEF h
<1>3. RootsLinked(h)
  BY <1>1, <1>2 DEF Linked, RootsLinked, Heap
<1>4. ChildrenLinked(h)
  <2>1. ASSUME NEW m \in Node \ g.free, g.first[m] # NULL,
               NEW c \in {g.first[m], g.second[m]}
        PROVE  c \in Node \ g.free /\ g.parent[c] = m
    BY <2>1 DEF Linked, ChildrenLinked, Heap
  <2> QED BY <1>1, <1>2, <2>1 DEF Linked, ChildrenLinked, Heap
<1>5. ParentsLinked(h)
  BY <1>1, <1>2 DEF Linked, ParentsLinked, Heap
<1>6. StaleDetached(h)
  BY <1>1, <1>2 DEF StaleDetached, Heap
<1> QED BY <1>3, <1>4, <1>5, <1>6 DEF Linked, h

(* A leaf that is given back hangs under nothing. *)
LEMMA ReturnedSound ==
  ASSUME NEW g \in Heap, Linked(g), StaleDetached(g), NEW t \in Window,
         NEW n \in g.free
  PROVE  LET h == Returned(g, n, t) IN
         /\ Linked(h) /\ StaleDetached(h)
         /\ LET k == [h EXCEPT !.bspLeaf[t] = n] IN Linked(k) /\ StaleDetached(k)
<1> DEFINE h == Returned(g, n, t)
           k == [h EXCEPT !.bspLeaf[t] = n]
<1>1. n \in Node /\ NULL \notin Node
  BY NullAssumption DEF Heap
<1>2. /\ h.root = g.root /\ h.free = g.free
      /\ h.parent = [g.parent EXCEPT ![n] = NULL]
      /\ h.first = g.first /\ h.second = g.second
      /\ h.toplevel = [g.toplevel EXCEPT ![n] = t]
      /\ h.bspLeaf = g.bspLeaf
      /\ k.bspLeaf = [g.bspLeaf EXCEPT ![t] = n]
      /\ SameTrees(h, k)
  BY DEF Returned, Heap, SameTrees
<1> HIDE DEF h, k
<1>3. RootsLinked(h)
  BY <1>1, <1>2 DEF Linked, RootsLinked, Heap
<1>4. ChildrenLinked(h)
  <2>1. ASSUME NEW m \in Node \ g.free, g.first[m] # NULL,
               NEW c \in {g.first[m], g.second[m]}
        PROVE  c \in Node \ g.free /\ g.parent[c] = m
    BY <2>1 DEF Linked, ChildrenLinked, Heap
  <2> QED BY <1>1, <1>2, <2>1 DEF Linked, ChildrenLinked, Heap
<1>5. ParentsLinked(h)
  BY <1>1, <1>2 DEF Linked, ParentsLinked, Heap
<1>6. StaleDetached(h)
  BY <1>1, <1>2 DEF StaleDetached, Heap
<1>7. StaleDetached(k)
  BY <1>1, <1>2 DEF StaleDetached, Heap, SameTrees
<1> QED BY <1>2, <1>3, <1>4, <1>5, <1>6, <1>7, SameTreesLinked DEF Linked, h, k

----------------------------------------------------------------------------
(* The C functions keep the trees sound. *)

Sound(g) == g \in Heap /\ Linked(g) /\ StaleDetached(g)

(* bsp_remove keeps the trees and the caches sound. *)
LEMMA RemoveSound ==
  ASSUME NEW g, Sound(g), NEW w \in Workspace, NEW t \in Window
  PROVE  Sound(bsp_remove(g, w, t))
<1> DEFINE l == FindLeaf(g, w, t)
<1>1. CASE l = NULL
  BY <1>1 DEF bsp_remove
<1>2. CASE l # NULL
  <2>1. InTree(g, w, l) /\ g.toplevel[l] = t
    BY <1>2, FindLeafInTree DEF Sound
  <2> HIDE DEF l
  <2>2. bsp_remove(g, w, t) = [Contract(g, w, l) EXCEPT !.bspLeaf[t] = NULL]
    BY <1>2 DEF bsp_remove, l
  <2> QED BY <2>1, <2>2, ContractSound, RemoveType DEF Sound
<1> QED BY <1>1, <1>2

(* So does a lookup. *)
LEMMA LookupKeepsSound ==
  ASSUME NEW g, Sound(g), NEW w \in Workspace, NEW t \in Window \cup {NULL}
  PROVE  Sound(Lookup(g, w, t)) /\ SameTrees(g, Lookup(g, w, t))
BY LookupSound, LookupType, SameTreesLinked DEF Sound

(* So does bsp_insert, whatever the pool returns. *)
LEMMA InsertSound ==
  ASSUME NEW g, Sound(g), NEW w \in Workspace, NEW t \in Window,
         NEW f \in Window \cup {NULL}, InsertWalks(g, w, f),
         NEW h \in Inserts(g, w, t, f)
  PROVE  Sound(h)
<1> DEFINE k == Lookup(g, w, f)
           s == InsertTarget(g, w, f)
<1>1. PICK sp \in Split, p \in AllocatesTwo(g.free) :
        h = bsp_insert(k, w, t, s, sp, p[1], p[2])
  BY DEF Inserts
<1>2. Sound(k) /\ k.root = g.root /\ k.free = g.free
  BY LookupKeepsSound DEF SameTrees
<1>3. /\ p[1] # NULL => p[1] \in k.free
      /\ p[2] # NULL => p[2] \in k.free \ {p[1]}
  BY <1>2, AllocatesTwoType DEF Sound, Heap
<1>4. g.root[w] # NULL => InTree(k, w, s)
  BY LookupKeepsSound, SameTreesLinked DEF InsertWalks
<1>5. h \in Heap
  BY InsertType DEF Sound
<1> HIDE DEF k, s
<1>6. CASE p[1] = NULL
  BY <1>1, <1>2, <1>6 DEF bsp_insert
<1>7. CASE p[1] # NULL /\ g.root[w] = NULL
  BY <1>1, <1>2, <1>3, <1>5, <1>7, NewRootSound DEF bsp_insert, Sound
<1>8. CASE p[1] # NULL /\ g.root[w] # NULL /\ p[2] = NULL
  BY <1>1, <1>2, <1>3, <1>5, <1>8, ReturnedSound DEF bsp_insert, Sound
<1>9. CASE p[1] # NULL /\ g.root[w] # NULL /\ p[2] # NULL
  <2>1. h = Splice(k, w, t, s, p[1], p[2], sp, TRUE)
    BY <1>1, <1>2, <1>9 DEF bsp_insert
  <2>2. p[1] \in k.free /\ p[2] \in k.free /\ p[1] # p[2] /\ TRUE \in BOOLEAN
    BY <1>3, <1>9
  <2> QED BY <1>2, <1>4, <1>5, <1>9, <2>1, <2>2, SpliceSound DEF Sound
<1> QED BY <1>6, <1>7, <1>8, <1>9

(* So does bsp_restore, whatever the pool returns. *)
LEMMA RestoreSound ==
  ASSUME NEW g, Sound(g), NEW w \in Workspace, NEW t \in Window,
         NEW pos \in Position, RestoreWalks(g, w, pos),
         NEW h \in Restores(g, w, t, pos)
  PROVE  Sound(h)
<1> DEFINE k == Lookup(g, w, pos.sibling)
           s == RestoreTarget(g, w, pos)
<1>1. PICK p \in AllocatesTwo(g.free) :
        h = bsp_restore(k, w, t, s, pos, p[1], p[2])
  BY DEF Restores
<1>2. pos.sibling \in Window /\ pos.split \in Split /\ pos.second \in BOOLEAN
  BY DEF Position
<1>3. Sound(k) /\ k.free = g.free
  BY <1>2, LookupKeepsSound DEF SameTrees
<1>4. /\ p[1] # NULL => p[1] \in k.free
      /\ p[2] # NULL => p[2] \in k.free \ {p[1]}
  BY <1>3, AllocatesTwoType DEF Sound, Heap
<1>5. InTree(k, w, s)
  BY <1>2, LookupKeepsSound, SameTreesLinked DEF RestoreWalks
<1>6. h \in Heap
  BY RestoreType DEF Sound
<1> HIDE DEF k, s
<1>7. CASE p[1] = NULL
  BY <1>1, <1>3, <1>7 DEF bsp_restore
<1>8. CASE p[1] # NULL /\ p[2] = NULL
  <2>1. h = [Returned(k, p[1], t) EXCEPT !.bspLeaf[t] = p[1]]
    BY <1>1, <1>8 DEF bsp_restore
  <2> QED BY <1>3, <1>4, <1>6, <1>8, <2>1, ReturnedSound DEF Sound
<1>9. CASE p[1] # NULL /\ p[2] # NULL
  <2>1. h = Splice(k, w, t, s, p[1], p[2], pos.split, pos.second)
    BY <1>1, <1>9 DEF bsp_restore
  <2>2. p[1] \in k.free /\ p[2] \in k.free /\ p[1] # p[2]
    BY <1>4, <1>9
  <2> QED BY <1>2, <1>3, <1>5, <1>6, <2>1, <2>2, SpliceSound DEF Sound
<1> QED BY <1>7, <1>8, <1>9

(* Only the split of a node changes. *)
LEMMA SplitSound ==
  ASSUME NEW g, Sound(g), NEW h \in Heap, NEW sp, h = [g EXCEPT !.split = sp]
  PROVE  Sound(h)
BY DEF Sound, Heap, Linked, RootsLinked, ChildrenLinked, ParentsLinked,
       StaleDetached

(* Two live leaves trade their windows. *)
LEMMA TradeSound ==
  ASSUME NEW g, Sound(g), NEW l \in Node \ g.free, NEW m \in Node \ g.free,
         g.toplevel[l] # NULL, g.toplevel[m] # NULL,
         NEW t \in Window, NEW u \in Window,
         NEW h \in Heap, h = [g EXCEPT !.toplevel[l] = u, !.toplevel[m] = t]
  PROVE  Sound(h)
<1>1. /\ h.root = g.root /\ h.free = g.free /\ h.parent = g.parent
      /\ h.first = g.first /\ h.second = g.second /\ h.bspLeaf = g.bspLeaf
      /\ h.toplevel = [[g.toplevel EXCEPT ![l] = u] EXCEPT ![m] = t]
  BY DEF Sound, Heap
<1>2. t # NULL /\ u # NULL
  BY NullAssumption
<1>3. \A n \in Node :
        /\ h.toplevel[n] = NULL <=> g.toplevel[n] = NULL
        /\ n \in g.free => h.toplevel[n] = g.toplevel[n]
  BY <1>1, <1>2 DEF Sound, Heap
<1>4. Linked(h)
  BY <1>1, <1>3 DEF Sound, Linked, RootsLinked, ChildrenLinked, ParentsLinked
<1>5. StaleDetached(h)
  BY <1>1, <1>3 DEF Sound, StaleDetached, Heap
<1> QED BY <1>4, <1>5 DEF Sound

----------------------------------------------------------------------------
(* Type correctness.  Besides the types, a mapped window exists: its       *)
(* workspace pointer is not NULL.                                          *)

TypeInv == TypeOK /\ \A t \in mapped : Exists(t)

(* A window object that exists has a workspace. *)
LEMMA ExistsType ==
  ASSUME TypeOK, NEW t \in Window, Exists(t)
  PROVE  workspace[t] \in Workspace
BY DEF TypeOK, Exists

(* Every handler keeps the types. *)
LEMMA TypeInvStep ==
  ASSUME TypeInv, Sound(bsp), [Next]_vars
  PROVE  TypeInv'
<1> USE DEF TypeInv, TypeOK
<1>1. CASE UNCHANGED vars
  BY <1>1 DEF vars, Exists
<1>2. ASSUME NEW t \in Window, NEW w \in Workspace, Create(t, w)
      PROVE  TypeInv'
  BY <1>2 DEF Create, Exists, Heap
<1>3. ASSUME NEW t \in Window, NEW f \in mapped \cup {NULL}, MapTiled(t, f)
      PROVE  TypeInv'
  <2>1. bsp' \in Heap
    BY <1>3, ExistsType, InsertType DEF MapTiled
  <2> QED BY <1>3, <2>1 DEF MapTiled, Exists
<1>4. ASSUME NEW t \in Window, MapFloating(t) PROVE TypeInv'
  BY <1>4 DEF MapFloating, Exists
<1>5. ASSUME NEW t \in Window, MapFullscreen(t) PROVE TypeInv'
  BY <1>5 DEF MapFullscreen, Exists
<1>6. ASSUME NEW t \in Window, Unmap(t) PROVE TypeInv'
  <2>1. bsp' \in Heap
    BY <1>6, ExistsType, RemoveType DEF Unmap
  <2> QED BY <1>6, <2>1 DEF Unmap, Exists
<1>7. ASSUME NEW t \in Window, Destroy(t) PROVE TypeInv'
  <2>1. bsp' \in Heap
    BY <1>7, ExistsType, RemoveType DEF Destroy
  <2> QED BY <1>7, <2>1 DEF Destroy, Exists
<1>8. ASSUME NEW t \in Window, Float(t) PROVE TypeInv'
  <2> DEFINE l == FindLeaf(bsp, workspace[t], t)
             s == Sibling(bsp, l)
             after == bsp_remove(bsp, workspace[t], t)
  <2>1. workspace[t] \in Workspace
    BY <1>8, ExistsType DEF Float
  <2>2. after \in Heap
    BY <2>1, RemoveType
  <2>3. l # NULL /\ bsp.parent[l] # NULL => s \in Node \cup {NULL}
    BY <2>1, FindLeafType DEF Sibling, Heap
  <2> DEFINE first == FirstLeaf(bsp, s)
  <2>8. l # NULL /\ bsp.parent[l] # NULL => PositionOf(bsp, l) \in Position
    <3> SUFFICES ASSUME l # NULL, bsp.parent[l] # NULL
                 PROVE  PositionOf(bsp, l) \in Position
      OBVIOUS
    <3>1. /\ InTree(bsp, workspace[t], first) /\ Leaf(bsp, first)
          /\ FirstLeafDepth(bsp, s) \in Nat
      BY <1>8 DEF Float, PositionWalks
    <3>2. first \in Node \ bsp.free /\ bsp.first[first] = NULL
      BY <3>1 DEF InTree, Leaf
    <3>3. bsp.toplevel[first] \in Window
      BY <3>2 DEF Sound, Heap, Linked, ChildrenLinked
    <3>4. bsp.split[bsp.parent[l]] \in Split
      BY <2>1, FindLeafType DEF Heap
    <3> HIDE DEF first, s, l
    <3> QED BY <3>1, <3>3, <3>4 DEF PositionOf, Position, first, s
  <2> HIDE DEF s, after, l
  <2>4. s \in Node => bsp.split[s] \in Split
    BY DEF Heap
  <2>5. bsp.split[s] \in Split \/ s \notin Node
    BY <2>4
  <2>6. [after EXCEPT !.split[s] = bsp.split[s]] \in Heap
    BY <2>2, <2>5 DEF Heap
  <2>7. bsp' \in Heap /\ saved' \in [Window -> Position \cup {NULL}]
    BY <1>8, <2>2, <2>6, <2>8 DEF Float, l, s, after
  <2> QED BY <1>8, <2>7 DEF Float, Exists
<1>9. ASSUME NEW t \in Window, NEW f \in mapped \cup {NULL}, Unfloat(t, f)
      PROVE  TypeInv'
  <2>1. workspace[t] \in Workspace
    BY <1>9, ExistsType DEF Unfloat
  <2>2. CASE CanRestore(bsp, workspace[t], saved[t])
    <3>1. saved[t] \in Position
      BY <2>2 DEF CanRestore
    <3>2. bsp' \in Heap
      BY <1>9, <2>1, <2>2, <3>1, RestoreType DEF Unfloat
    <3> QED BY <1>9, <3>2 DEF Unfloat, Exists
  <2>3. CASE ~CanRestore(bsp, workspace[t], saved[t])
    <3>1. bsp' \in Heap
      BY <1>9, <2>1, <2>3, InsertType DEF Unfloat
    <3> QED BY <1>9, <3>1 DEF Unfloat, Exists
  <2> QED BY <2>2, <2>3
<1>10. ASSUME NEW t \in Window, NEW v \in Workspace,
              NEW f \in mapped \cup {NULL}, MoveToWorkspace(t, v, f)
       PROVE  TypeInv'
  <2>1. workspace[t] \in Workspace
    BY <1>10, ExistsType DEF MoveToWorkspace
  <2> DEFINE without == bsp_remove(bsp, workspace[t], t)
  <2>2. without \in Heap
    BY <2>1, RemoveType
  <2>3. t \notin floating => InsertWalks(without, v, f) /\ bsp' \in Inserts(without, v, t, f)
    BY <1>10 DEF MoveToWorkspace
  <2> HIDE DEF without
  <2>4. t \notin floating => bsp' \in Heap
    BY <2>2, <2>3, InsertType
  <2>5. bsp' \in Heap
    BY <1>10, <2>4 DEF MoveToWorkspace
  <2>6. v # NULL
    BY NullAssumption
  <2> QED BY <1>10, <2>5, <2>6 DEF MoveToWorkspace, Exists
<1>11. ASSUME NEW t \in Window, NEW u \in Window, Swap(t, u) PROVE TypeInv'
  <2>1. workspace[t] \in Workspace
    BY <1>11, ExistsType DEF Swap
  <2> DEFINE h == Lookup(bsp, workspace[t], t)
             l == FindLeaf(bsp, workspace[t], t)
  <2>2. h \in Heap
    BY <2>1, LookupType
  <2>3. PICK m \in Node :
          bsp' = [h EXCEPT !.toplevel[l] = u, !.toplevel[m] = t]
    BY <1>11 DEF Swap
  <2> HIDE DEF h, l
  <2>4. bsp' = [h EXCEPT !.toplevel = [[h.toplevel EXCEPT ![l] = u] EXCEPT ![m] = t]]
    BY <2>2, <2>3 DEF Heap
  <2>5. bsp' \in Heap
    BY <2>2, <2>4 DEF Heap
  <2> QED BY <1>11, <2>5 DEF Swap, Exists
<1>12. ASSUME NEW t \in Window, Rotate(t) PROVE TypeInv'
  <2>1. workspace[t] \in Workspace
    BY <1>12, ExistsType DEF Rotate
  <2> DEFINE h == Lookup(bsp, workspace[t], t)
             p == bsp.parent[FindLeaf(bsp, workspace[t], t)]
  <2>2. h \in Heap
    BY <2>1, LookupType
  <2>4. PICK sp \in Split : bsp' = [h EXCEPT !.split[p] = sp]
    BY <1>12 DEF Rotate
  <2> HIDE DEF h, p
  <2>3. bsp' \in Heap
    BY <2>2, <2>4 DEF Heap
  <2> QED BY <1>12, <2>3 DEF Rotate, Exists
<1>13. ASSUME NEW t \in Window, LookUp(t) PROVE TypeInv'
  <2>1. bsp' \in Heap
    BY <1>13, ExistsType, LookupType DEF LookUp
  <2> QED BY <1>13, <2>1 DEF LookUp, Exists
<1> QED
  BY <1>1, <1>2, <1>3, <1>4, <1>5, <1>6, <1>7, <1>8, <1>9, <1>10, <1>11,
     <1>12, <1>13 DEF Next

----------------------------------------------------------------------------
(* The theorems. *)

(* Every handler keeps the trees and the caches sound. *)
LEMMA SoundStep ==
  ASSUME TypeInv, Sound(bsp), [Next]_vars
  PROVE  Sound(bsp)'
<1> USE DEF TypeInv
<1>0. bsp' \in Heap
  BY TypeInvStep DEF TypeOK
<1>1. CASE UNCHANGED vars
  BY <1>1 DEF vars, Sound, Linked, RootsLinked, ChildrenLinked,
              ParentsLinked, StaleDetached
<1>2. ASSUME NEW t \in Window, NEW w \in Workspace, Create(t, w)
      PROVE  Sound(bsp')
  <2>1. bsp' = [bsp EXCEPT !.bspLeaf[t] = NULL] /\ NULL \notin Node
    BY <1>2, NullAssumption DEF Create
  <2>2. SameTrees(bsp, bsp') /\ bsp'.bspLeaf = [bsp.bspLeaf EXCEPT ![t] = NULL]
    BY <2>1 DEF SameTrees, Sound, Heap
  <2>3. StaleDetached(bsp')
    BY <2>1, <2>2 DEF SameTrees, StaleDetached, Sound, Heap
  <2> QED BY <1>0, <2>2, <2>3, SameTreesLinked DEF Sound
<1>3. ASSUME NEW t \in Window, NEW f \in mapped \cup {NULL}, MapTiled(t, f)
      PROVE  Sound(bsp')
  BY <1>3, ExistsType, InsertSound DEF MapTiled, TypeOK
<1>4. ASSUME NEW t \in Window, Unmap(t) PROVE Sound(bsp')
  BY <1>4, ExistsType, RemoveSound DEF Unmap
<1>5. ASSUME NEW t \in Window, Destroy(t) PROVE Sound(bsp')
  BY <1>5, ExistsType, RemoveSound DEF Destroy
<1>6. ASSUME NEW t \in Window, Float(t) PROVE Sound(bsp')
  <2> DEFINE after == bsp_remove(bsp, workspace[t], t)
             s == Sibling(bsp, FindLeaf(bsp, workspace[t], t))
  <2>1. Sound(after)
    BY <1>6, ExistsType, RemoveSound DEF Float
  <2>2. bsp' = after \/ bsp' = [after EXCEPT !.split[s] = bsp.split[s]]
    BY <1>6 DEF Float
  <2> HIDE DEF after, s
  <2>3. bsp' = after \/ bsp' = [after EXCEPT !.split = [after.split EXCEPT ![s] = bsp.split[s]]]
    BY <2>1, <2>2 DEF Sound, Heap
  <2> QED BY <1>0, <2>1, <2>3, SplitSound
<1>7. ASSUME NEW t \in Window, NEW f \in mapped \cup {NULL}, Unfloat(t, f)
      PROVE  Sound(bsp')
  <2>1. workspace[t] \in Workspace
    BY <1>7, ExistsType DEF Unfloat
  <2>2. CASE CanRestore(bsp, workspace[t], saved[t])
    <3>1. saved[t] \in Position
      BY <2>2 DEF CanRestore, TypeOK
    <3> QED BY <1>7, <2>1, <2>2, <3>1, RestoreSound DEF Unfloat
  <2>3. CASE ~CanRestore(bsp, workspace[t], saved[t])
    <3>1. f \in Window \cup {NULL}
      BY DEF TypeOK
    <3> QED BY <1>7, <2>1, <2>3, <3>1, InsertSound DEF Unfloat
  <2> QED BY <2>2, <2>3
<1>8. ASSUME NEW t \in Window, NEW v \in Workspace,
             NEW f \in mapped \cup {NULL}, MoveToWorkspace(t, v, f)
      PROVE  Sound(bsp')
  <2> DEFINE without == bsp_remove(bsp, workspace[t], t)
  <2>1. Sound(without)
    BY <1>8, ExistsType, RemoveSound DEF MoveToWorkspace
  <2>2. f \in Window \cup {NULL}
    BY DEF TypeOK
  <2>3. \/ bsp' = bsp
        \/ InsertWalks(without, v, f) /\ bsp' \in Inserts(without, v, t, f)
    BY <1>8 DEF MoveToWorkspace
  <2> HIDE DEF without
  <2> QED BY <2>1, <2>2, <2>3, InsertSound
<1>9. ASSUME NEW t \in Window, NEW u \in Window, Swap(t, u) PROVE Sound(bsp')
  <2> DEFINE h == Lookup(bsp, workspace[t], t)
             l == FindLeaf(bsp, workspace[t], t)
  <2>1. workspace[t] \in Workspace /\ l # NULL
    BY <1>9, ExistsType DEF Swap
  <2>2. Sound(h) /\ SameTrees(bsp, h)
    BY <2>1, LookupKeepsSound
  <2>3. InTree(bsp, workspace[t], l) /\ bsp.toplevel[l] = t
    BY <2>1, FindLeafInTree DEF Sound
  <2>4. PICK m \in Node : /\ bsp.toplevel[m] = u /\ InTree(bsp, workspace[t], m)
                          /\ bsp' = [h EXCEPT !.toplevel[l] = u, !.toplevel[m] = t]
    BY <1>9 DEF Swap
  <2>5. l \in Node \ bsp.free /\ m \in Node \ bsp.free
    BY <2>3, <2>4 DEF InTree
  <2> HIDE DEF h, l
  <2>6. h.free = bsp.free /\ h.toplevel[l] # NULL /\ h.toplevel[m] # NULL
    BY <2>2, <2>3, <2>4, NullAssumption DEF SameTrees
  <2> QED BY <1>0, <2>2, <2>4, <2>5, <2>6, TradeSound
<1>10. ASSUME NEW t \in Window, Rotate(t) PROVE Sound(bsp')
  <2> DEFINE h == Lookup(bsp, workspace[t], t)
             p == bsp.parent[FindLeaf(bsp, workspace[t], t)]
  <2>1. Sound(h)
    BY <1>10, ExistsType, LookupKeepsSound DEF Rotate
  <2>2. PICK sp : bsp' = [h EXCEPT !.split[p] = sp]
    BY <1>10 DEF Rotate
  <2> HIDE DEF h, p
  <2>3. bsp' = [h EXCEPT !.split = [h.split EXCEPT ![p] = sp]]
    BY <2>1, <2>2 DEF Sound, Heap
  <2> QED BY <1>0, <2>1, <2>3, SplitSound
<1>11. ASSUME NEW t \in Window, LookUp(t) PROVE Sound(bsp')
  BY <1>11, ExistsType, LookupKeepsSound DEF LookUp
<1>12. ASSUME NEW t \in Window, MapFloating(t) \/ MapFullscreen(t)
       PROVE  Sound(bsp')
  BY <1>12 DEF MapFloating, MapFullscreen
<1>13. Sound(bsp')
  BY <1>1, <1>2, <1>3, <1>4, <1>5, <1>6, <1>7, <1>8, <1>9, <1>10, <1>11,
     <1>12 DEF Next
<1> QED BY <1>13

(* The initial state, without any tree. *)
LEMMA SoundInit == Init => TypeInv /\ Sound(bsp)
<1>1. Init => TypeInv
  BY DEF Init, TypeInv, TypeOK, Heap, Split
<1>2. Init => Sound(bsp)
  BY <1>1 DEF Init, TypeInv, TypeOK, Sound, Linked, RootsLinked,
              ChildrenLinked, ParentsLinked, StaleDetached
<1> QED BY <1>1, <1>2

(* The heap of nodes, the windows' saved places and their flags keep their *)
(* types in every run of the window manager.                               *)
THEOREM TypeCorrect == Spec => []TypeOK
<1> DEFINE Inv == TypeInv /\ Sound(bsp)
<1>1. Inv /\ [Next]_vars => Inv'
  BY TypeInvStep, SoundStep
<1>2. Inv => TypeOK
  BY DEF TypeInv
<1> QED BY SoundInit, <1>1, <1>2, PTL DEF Spec

(* In every run the pointers of the live nodes form binary trees and no    *)
(* live node is linked to a freed one, whichever of the handlers ran and   *)
(* whenever the pool was exhausted.                                        *)
THEOREM TreesAlwaysLinked == Spec => []LinksConsistent
<1> DEFINE Inv == TypeInv /\ Sound(bsp)
<1>1. Inv /\ [Next]_vars => Inv'
  BY TypeInvStep, SoundStep
<1>2. Inv => LinksConsistent
  BY DEF Sound, LinksConsistent
<1> QED BY SoundInit, <1>1, <1>2, PTL DEF Spec

(* A window's cached pointer to a node that was freed, and that still      *)
(* names the window, never passes the check that a lookup makes.           *)
THEOREM StaleLeafNeverUsed == Spec => []StaleLeafDetached
<1> DEFINE Inv == TypeInv /\ Sound(bsp)
<1>1. Inv /\ [Next]_vars => Inv'
  BY TypeInvStep, SoundStep
<1>2. Inv => StaleLeafDetached
  BY DEF Sound, StaleLeafDetached
<1> QED BY SoundInit, <1>1, <1>2, PTL DEF Spec

(* A lookup is exact whatever the caches hold: it returns the live leaf of *)
(* the window in that tree, and NULL only if there is none.                *)
THEOREM LookupsAlwaysExact == Spec => []LookupExact
<1> DEFINE Inv == TypeInv /\ Sound(bsp)
<1>1. Inv /\ [Next]_vars => Inv'
  BY TypeInvStep, SoundStep
<1>2. ASSUME Inv PROVE LookupExact
  <2> SUFFICES ASSUME NEW t \in Window, NEW w \in Workspace
               PROVE  LET l == FindLeaf(bsp, w, t) IN
                      IF \E n \in Node : bsp.toplevel[n] = t /\ InTree(bsp, w, n)
                      THEN InTree(bsp, w, l) /\ bsp.toplevel[l] = t
                      ELSE l = NULL
    BY DEF LookupExact
  <2> DEFINE l == FindLeaf(bsp, w, t)
             found == {n \in Node : bsp.toplevel[n] = t /\ InTree(bsp, w, n)}
  <2>1. l # NULL => InTree(bsp, w, l) /\ bsp.toplevel[l] = t
    BY <1>2, FindLeafInTree DEF Sound
  <2>2. l \in Node \cup {NULL}
    BY <1>2, FindLeafType DEF Sound
  <2>3. ASSUME NEW n \in found PROVE l # NULL
    <3>1. bsp.root[w] # NULL /\ t # NULL
      BY <2>3, NullAssumption DEF InTree
    <3>2. (CHOOSE m \in found : TRUE) \in Node
      BY <2>3
    <3> QED BY <2>3, <3>1, <3>2, NullAssumption DEF FindLeaf, CacheHit
  <2> HIDE DEF l
  <2> QED BY <2>1, <2>2, <2>3 DEF l, InTree
<1> QED BY SoundInit, <1>1, <1>2, PTL DEF Spec

----------------------------------------------------------------------------
(* What is reached from the roots. *)

(* The root of a workspace is in its tree. *)
LEMMA RootInTree ==
  ASSUME NEW g \in Heap, Linked(g), NEW w \in Workspace, g.root[w] # NULL
  PROVE  InTree(g, w, g.root[w])
<1>1. g.root[w] \in Node \ g.free
  BY DEF Heap, Linked, RootsLinked
<1> QED BY <1>1 DEF InTree

(* With a node, its children are. *)
LEMMA ChildInTree ==
  ASSUME NEW g \in Heap, Linked(g), NEW w \in Workspace, NEW p, InTree(g, w, p),
         NEW c \in {g.first[p], g.second[p]}, c # NULL
  PROVE  InTree(g, w, c)
<1>1. p \in Node \ g.free
  BY DEF InTree
<1>2. g.first[p] # NULL
  BY <1>1 DEF Linked, ChildrenLinked
<1>3. c \in Node \ g.free
  BY <1>1, <1>2 DEF Heap, Linked, ChildrenLinked
<1>4. ASSUME NEW S \in SUBSET (Node \ (g.free \cup {c})), g.root[w] \in S,
             \A m \in S : {g.first[m], g.second[m]} \subseteq S \cup {NULL}
      PROVE  FALSE
  <2>1. p \in S
    BY <1>4 DEF InTree
  <2> QED BY <1>4, <2>1
<1> QED BY <1>3, <1>4 DEF InTree

(* The nodes that were in the trees stay there, and the two new ones are    *)
(* in the tree of w.                                                       *)
LEMMA SpliceReaches ==
  ASSUME NEW g \in Heap, Linked(g), StaleDetached(g), NEW w \in Workspace,
         NEW t \in Window, NEW s, InTree(g, w, s), NEW n \in g.free,
         NEW i \in g.free, n # i, NEW sp \in Split, NEW b \in BOOLEAN
  PROVE  LET h == Splice(g, w, t, s, n, i, sp, b) IN
         /\ \A v \in Workspace : \A m : InTree(g, v, m) => InTree(h, v, m)
         /\ InTree(h, w, n) /\ InTree(h, w, i)
<1> DEFINE h == Splice(g, w, t, s, n, i, sp, b)
           p == g.parent[s]
<1>1. /\ s \in Node \ g.free /\ n \in Node /\ i \in Node
      /\ p \in Node \cup {NULL}
      /\ p # NULL => p \notin g.free
      /\ NULL \notin Node
  BY NullAssumption DEF InTree, Heap, Linked, ParentsLinked
<1>2. p = NULL => g.root[w] = s
  BY RootOfTree
<1>3. p # NULL => s \in {g.first[p], g.second[p]} /\ InTree(g, w, p)
  BY <1>1, ParentInTree DEF Linked, ParentsLinked
<1>4. /\ h.root = IF p = NULL THEN [g.root EXCEPT ![w] = i] ELSE g.root
      /\ h.first = [m \in Node |->
            IF m = i THEN (IF b THEN s ELSE n)
            ELSE IF m = p /\ g.first[m] = s THEN i ELSE g.first[m]]
      /\ h.second = [m \in Node |->
            IF m = i THEN (IF b THEN n ELSE s)
            ELSE IF m = p /\ g.first[m] # s THEN i ELSE g.second[m]]
      /\ h.free = g.free \ {n, i}
  BY DEF Splice, Heap
<1>5. h \in Heap /\ Linked(h)
  BY <1>1, SpliceType, SpliceSound
<1> HIDE DEF h, p
<1>6. \A m \in Node :
        /\ h.first[m] = IF m = i THEN (IF b THEN s ELSE n)
             ELSE IF m = p /\ g.first[m] = s THEN i ELSE g.first[m]
        /\ h.second[m] = IF m = i THEN (IF b THEN n ELSE s)
             ELSE IF m = p /\ g.first[m] # s THEN i ELSE g.second[m]
  BY <1>4
<1>7. \A v \in Workspace : h.root[v] = IF v = w /\ p = NULL THEN i ELSE g.root[v]
  BY <1>4 DEF Heap
<1>8. ASSUME NEW v \in Workspace, NEW m, InTree(g, v, m)
      PROVE  InTree(h, v, m)
  <2>1. m \in Node \ g.free /\ g.root[v] \in Node \ g.free
    BY <1>8 DEF InTree, Heap, Linked, RootsLinked
  <2>2. m \in Node \ h.free /\ h.root[v] # NULL
    BY <1>1, <1>4, <1>7, <2>1
  <2>3. ASSUME NEW S \in SUBSET (Node \ (h.free \cup {m})), h.root[v] \in S,
               \A q \in S : {h.first[q], h.second[q]} \subseteq S \cup {NULL}
        PROVE  FALSE
    <3> DEFINE U == S \ {n, i}
    <3>1. U \in SUBSET (Node \ (g.free \cup {m}))
      BY <1>4
    <3>2. i \in S => s \in U
      BY <1>1, <1>6, <2>3
    <3>3. g.root[v] \in U
      BY <1>2, <1>7, <2>1, <2>3, <3>2
    <3>4. ASSUME NEW q \in U, NEW c \in {g.first[q], g.second[q]}, c # NULL
          PROVE  c \in U
      <4>1. q \in Node \ g.free /\ q \in S /\ q # i
        BY <3>1
      <4>2. c \in Node \ g.free
        BY <3>4, <4>1 DEF Heap, Linked, ChildrenLinked
      <4>3. c \in {h.first[q], h.second[q]} \/ (c = s /\ i \in {h.first[q], h.second[q]})
        BY <1>1, <1>3, <1>6, <3>4, <4>1
      <4> QED BY <1>1, <2>3, <3>2, <4>1, <4>2, <4>3
    <3> HIDE DEF U
    <3> QED BY <1>8, <3>1, <3>3, <3>4 DEF InTree
  <2> QED BY <2>2, <2>3 DEF InTree
<1>9. InTree(h, w, i)
  <2>1. CASE p = NULL
    BY <1>1, <1>5, <1>7, <2>1, RootInTree
  <2>2. CASE p # NULL
    <3>1. InTree(h, w, p)
      BY <1>3, <1>8, <2>2
    <3>2. i \in {h.first[p], h.second[p]}
      BY <1>1, <1>3, <1>6, <2>2
    <3> QED BY <1>1, <1>5, <3>1, <3>2, ChildInTree
  <2> QED BY <2>1, <2>2
<1>10. InTree(h, w, n)
  <2>1. n \in {h.first[i], h.second[i]} /\ n # NULL
    BY <1>1, <1>6
  <2> QED BY <1>5, <1>9, <2>1, ChildInTree
<1> QED BY <1>8, <1>9, <1>10 DEF h

(* The nodes that are not freed stay in their trees. *)
LEMMA ContractReaches ==
  ASSUME NEW g \in Heap, Linked(g), StaleDetached(g), NEW w \in Workspace,
         NEW l, InTree(g, w, l), g.first[l] = NULL,
         NEW v \in Workspace, NEW m, InTree(g, v, m), m \notin Contract(g, w, l).free
  PROVE  InTree(Contract(g, w, l), v, m)
<1> DEFINE h == Contract(g, w, l)
           p == g.parent[l]
           s == Sibling(g, l)
           above == g.parent[p]
<1>1. l \in Node \ g.free /\ NULL \notin Node
  BY NullAssumption DEF InTree
<1>2. g.second[l] = NULL
  BY <1>1 DEF Linked, ChildrenLinked
<1>3. m \in Node \ g.free /\ g.root[v] \in Node \ g.free
  BY DEF InTree, Heap, Linked, RootsLinked
<1>4. CASE p = NULL
  <2>1. g.root[w] = l
    BY <1>4, RootOfTree
  <2>2. /\ h.root = [g.root EXCEPT ![w] = NULL] /\ h.free = g.free \cup {l}
        /\ h.first = g.first /\ h.second = g.second
    BY <1>4 DEF Contract, Heap
  <2> HIDE DEF h
  <2>3. v # w
    <3> SUFFICES ASSUME v = w PROVE FALSE
      OBVIOUS
    <3>1. m # l
      BY <2>2 DEF h
    <3>2. {l} \in SUBSET (Node \ (g.free \cup {m})) /\ g.root[v] \in {l}
      BY <1>1, <2>1, <3>1
    <3>3. \A q \in {l} : {g.first[q], g.second[q]} \subseteq {l} \cup {NULL}
      BY <1>2
    <3> QED BY <3>2, <3>3 DEF InTree
  <2>4. h.root[v] = g.root[v]
    BY <2>2, <2>3 DEF Heap
  <2>5. m \notin h.free
    BY DEF h
  <2> QED BY <1>3, <2>2, <2>4, <2>5 DEF InTree, h
<1>5. CASE p # NULL
  <2>1. /\ p \in Node \ g.free /\ l \in {g.first[p], g.second[p]}
        /\ InTree(g, w, p)
    BY <1>1, <1>5, ParentInTree DEF Linked, ParentsLinked, Heap
  <2>2. /\ g.first[p] # NULL /\ g.first[p] # g.second[p]
        /\ g.first[p] \in Node \ g.free /\ g.second[p] \in Node \ g.free
    BY <1>1, <1>2, <2>1 DEF Linked, ChildrenLinked, Heap
  <2>3. /\ s \in Node \ g.free /\ s # l
        /\ {s, l} = {g.first[p], g.second[p]}
    BY <2>1, <2>2 DEF Sibling
  <2>4. above = NULL => g.root[w] = p
    BY <2>1, RootOfTree
  <2>5. /\ h.root = IF above = NULL THEN [g.root EXCEPT ![w] = s] ELSE g.root
        /\ h.first = [q \in Node |-> IF q = p THEN NULL
             ELSE IF q = above /\ g.first[q] = p THEN s ELSE g.first[q]]
        /\ h.second = [q \in Node |-> IF q = p THEN NULL
             ELSE IF q = above /\ g.first[q] # p THEN s ELSE g.second[q]]
        /\ h.free = g.free \cup {p, l}
    BY <1>5 DEF Contract, Heap
  <2>6. \A q \in Node : q \notin g.free =>
          \A c \in {g.first[q], g.second[q]} : c # NULL => c \in Node \ g.free /\ g.parent[c] = q
    BY DEF Heap, Linked, ChildrenLinked
  <2>7. above \in Node \cup {NULL} /\ (above # NULL => p \in {g.first[above], g.second[above]})
    BY <1>1, <2>1 DEF Linked, ParentsLinked, Heap
  <2> HIDE DEF h, s, p
  <2>8. \A u \in Workspace :
          h.root[u] = IF u = w /\ above = NULL THEN s ELSE g.root[u]
    BY <2>5 DEF Heap
  <2>9. \A q \in Node : q # p =>
          \A c \in {g.first[q], g.second[q]} :
             c \in {h.first[q], h.second[q]} \/ (q = above /\ c = p)
    BY <1>1, <2>5, <2>7
  <2>10. above # NULL /\ above # p => s \in {h.first[above], h.second[above]}
    BY <1>1, <2>5, <2>7
  <2>11. above # p
    BY <2>1, NoShortCycle, <1>1
  <2>12. m \in Node \ h.free /\ h.root[v] # NULL
    BY <1>1, <1>3, <2>3, <2>8 DEF h
  <2>13. ASSUME NEW S \in SUBSET (Node \ (h.free \cup {m})), h.root[v] \in S,
                \A q \in S : {h.first[q], h.second[q]} \subseteq S \cup {NULL}
         PROVE  FALSE
    <3> DEFINE U == IF s \in S THEN S \cup {p, l} ELSE S
    <3>1. U \in SUBSET (Node \ (g.free \cup {m}))
      BY <1>1, <2>1, <2>5, <2>12
    <3>2. g.root[v] \in U
      <4>1. CASE v = w /\ above = NULL
        BY <2>4, <2>8, <2>13, <4>1
      <4>2. CASE ~(v = w /\ above = NULL)
        BY <2>8, <2>13, <4>2
      <4> QED BY <4>1, <4>2
    <3>3. ASSUME NEW q \in U, NEW c \in {g.first[q], g.second[q]}, c # NULL
          PROVE  c \in U
      <4>1. CASE q \in {p, l}
        <5>1. s \in S
          BY <2>5, <4>1
        <5>2. q = p
          BY <1>2, <3>3, <4>1
        <5> QED BY <2>3, <3>3, <5>1, <5>2
      <4>2. CASE q \notin {p, l}
        <5>1. q \in S /\ q \in Node
          BY <4>2
        <5>2. CASE c \in {h.first[q], h.second[q]}
          BY <2>13, <3>3, <5>1, <5>2
        <5>3. CASE q = above /\ c = p
          <6>1. s \in {h.first[q], h.second[q]}
            BY <1>1, <2>10, <2>11, <5>1, <5>3
          <6>2. s \in S
            BY <1>1, <2>3, <2>13, <5>1, <6>1
          <6> QED BY <5>3, <6>2
        <5> QED BY <2>9, <4>2, <5>1, <5>2, <5>3
      <4> QED BY <4>1, <4>2
    <3> HIDE DEF U
    <3> QED BY <3>1, <3>2, <3>3 DEF InTree
  <2> QED BY <2>12, <2>13 DEF InTree, h
<1> QED BY <1>4, <1>5

(* A window that is put into the tree of w gets one leaf at most, which is  *)
(* reached there, as is the inner node that holds it; nothing else changes. *)
Grown(g, h, w, t) ==
  /\ h.free \subseteq g.free
  /\ \A v \in Workspace : \A m : InTree(g, v, m) => InTree(h, v, m)
  /\ \A m \in Node \ g.free : h.toplevel[m] = g.toplevel[m]
  /\ \A m \in g.free \ h.free : InTree(h, w, m) /\ h.toplevel[m] \in {t, NULL}
  /\ \A m, n \in g.free \ h.free :
       h.toplevel[m] = t /\ h.toplevel[n] = t => m = n

(* A lookup before an insertion does not change what the insertion does. *)
LEMMA SameTreesGrown ==
  ASSUME NEW g \in Heap, NEW k, NEW h, SameTrees(g, k), NEW w \in Workspace, NEW t,
         Grown(k, h, w, t)
  PROVE  Grown(g, h, w, t)
BY SameTreesLinked DEF Grown, SameTrees

(* A splice adds a leaf for its window and loses no node. *)
LEMMA SpliceGrows ==
  ASSUME NEW g, Sound(g), NEW w \in Workspace,
         NEW t \in Window, NEW s, InTree(g, w, s), NEW n \in g.free,
         NEW i \in g.free, n # i, NEW sp \in Split, NEW b \in BOOLEAN
  PROVE  Grown(g, Splice(g, w, t, s, n, i, sp, b), w, t)
<1> DEFINE h == Splice(g, w, t, s, n, i, sp, b)
<1>1. /\ h.toplevel = [g.toplevel EXCEPT ![n] = t, ![i] = NULL]
      /\ h.free = g.free \ {n, i}
  BY DEF Splice, Sound, Heap
<1>2. n \in Node /\ i \in Node /\ t # NULL
  BY NullAssumption DEF Sound, Heap
<1>3. /\ \A v \in Workspace : \A m : InTree(g, v, m) => InTree(h, v, m)
      /\ InTree(h, w, n) /\ InTree(h, w, i)
  BY SpliceReaches DEF Sound
<1> HIDE DEF h
<1>4. /\ \A m \in Node \ {n, i} : h.toplevel[m] = g.toplevel[m]
      /\ h.toplevel[n] = t /\ h.toplevel[i] = NULL
  BY <1>1, <1>2 DEF Sound, Heap
<1> QED BY <1>1, <1>2, <1>3, <1>4 DEF Grown, h

(* So does a first leaf. *)
LEMMA NewRootGrows ==
  ASSUME NEW g, Sound(g), NEW w \in Workspace, g.root[w] = NULL,
         NEW t \in Window, NEW n \in g.free
  PROVE  Grown(g, NewRoot(g, w, t, n), w, t)
<1> DEFINE h == NewRoot(g, w, t, n)
<1>1. /\ h.root = [g.root EXCEPT ![w] = n] /\ h.free = g.free \ {n}
      /\ h.first = g.first /\ h.second = g.second
      /\ h.toplevel = [g.toplevel EXCEPT ![n] = t]
  BY DEF NewRoot, Sound, Heap
<1>2. n \in Node /\ t # NULL /\ n # NULL
  BY NullAssumption DEF Sound, Heap
<1>3. Linked(h)
  BY NewRootSound DEF Sound
<1>4. h \in Heap
  BY <1>2 DEF NewRoot, Sound, Heap
<1> HIDE DEF h
<1>5. h.root[w] = n /\ InTree(h, w, n)
  BY <1>1, <1>2, <1>3, <1>4, RootInTree DEF Sound, Heap
<1>6. ASSUME NEW v \in Workspace, NEW m, InTree(g, v, m)
      PROVE  InTree(h, v, m)
  <2>1. v # w /\ h.root[v] = g.root[v] /\ m \in Node \ g.free /\ g.root[v] # NULL
    BY <1>1, <1>6 DEF Sound, Heap, InTree
  <2>2. ASSUME NEW S \in SUBSET (Node \ (h.free \cup {m})), h.root[v] \in S,
               \A q \in S : {h.first[q], h.second[q]} \subseteq S \cup {NULL}
        PROVE  FALSE
    <3> DEFINE U == S \ {n}
    <3>1. U \in SUBSET (Node \ (g.free \cup {m}))
      BY <1>1
    <3>2. g.root[v] \in U
      BY <2>1, <2>2 DEF Sound, Linked, RootsLinked
    <3>3. ASSUME NEW q \in U, NEW c \in {g.first[q], g.second[q]}, c # NULL
          PROVE  c \in U
      <4>1. q \in Node \ g.free
        BY <3>1
      <4>2. c \notin g.free
        BY <3>3, <4>1 DEF Sound, Linked, ChildrenLinked
      <4> QED BY <1>1, <2>2, <3>3, <4>2
    <3> HIDE DEF U
    <3> QED BY <1>6, <3>1, <3>2, <3>3 DEF InTree
  <2> QED BY <1>1, <2>1, <2>2 DEF InTree
<1>7. \A m \in Node \ {n} : h.toplevel[m] = g.toplevel[m]
  BY <1>1 DEF Sound, Heap
<1>8. h.toplevel[n] = t
  BY <1>1, <1>2 DEF Sound, Heap
<1> QED BY <1>1, <1>2, <1>5, <1>6, <1>7, <1>8 DEF Grown, h

(* A leaf that is given back adds nothing and loses nothing. *)
LEMMA ReturnedGrows ==
  ASSUME NEW g, Sound(g), NEW w \in Workspace, NEW t \in Window, NEW n \in g.free,
         NEW h, h = Returned(g, n, t) \/ h = [Returned(g, n, t) EXCEPT !.bspLeaf[t] = n]
  PROVE  Grown(g, h, w, t)
<1>1. /\ h.root = g.root /\ h.first = g.first /\ h.second = g.second
      /\ h.free = g.free /\ h.toplevel = [g.toplevel EXCEPT ![n] = t]
  BY DEF Returned, Sound, Heap
<1>2. \A v, m : InTree(g, v, m) => InTree(h, v, m)
  BY <1>1 DEF InTree
<1> QED BY <1>1, <1>2 DEF Grown, Sound, Heap

(* bsp_insert adds at most one leaf, for its window, and loses no node. *)
LEMMA InsertGrows ==
  ASSUME NEW g, Sound(g), NEW w \in Workspace, NEW t \in Window,
         NEW f \in Window \cup {NULL}, InsertWalks(g, w, f),
         NEW h \in Inserts(g, w, t, f)
  PROVE  Grown(g, h, w, t)
<1> DEFINE k == Lookup(g, w, f)
           s == InsertTarget(g, w, f)
<1>1. PICK sp \in Split, p \in AllocatesTwo(g.free) :
        h = bsp_insert(k, w, t, s, sp, p[1], p[2])
  BY DEF Inserts
<1>2. Sound(k) /\ SameTrees(g, k) /\ k.root = g.root /\ k.free = g.free
  BY LookupKeepsSound DEF SameTrees
<1>3. /\ p[1] # NULL => p[1] \in k.free
      /\ p[2] # NULL => p[2] \in k.free \ {p[1]}
  BY <1>2, AllocatesTwoType DEF Sound, Heap
<1>4. g.root[w] # NULL => InTree(k, w, s)
  BY LookupKeepsSound, SameTreesLinked DEF InsertWalks
<1> HIDE DEF k, s
<1>5. Grown(k, h, w, t)
  <2>1. CASE p[1] = NULL
    BY <1>1, <2>1 DEF bsp_insert, Grown
  <2>2. CASE p[1] # NULL /\ g.root[w] = NULL
    BY <1>1, <1>2, <1>3, <2>2, NewRootGrows DEF bsp_insert
  <2>3. CASE p[1] # NULL /\ g.root[w] # NULL /\ p[2] = NULL
    BY <1>1, <1>2, <1>3, <2>3, ReturnedGrows DEF bsp_insert
  <2>4. CASE p[1] # NULL /\ g.root[w] # NULL /\ p[2] # NULL
    <3>1. h = Splice(k, w, t, s, p[1], p[2], sp, TRUE)
      BY <1>1, <1>2, <2>4 DEF bsp_insert
    <3>2. p[1] \in k.free /\ p[2] \in k.free /\ p[1] # p[2] /\ TRUE \in BOOLEAN
      BY <1>3, <2>4
    <3> QED BY <1>2, <1>4, <2>4, <3>1, <3>2, SpliceGrows
  <2> QED BY <2>1, <2>2, <2>3, <2>4
<1> QED BY <1>2, <1>5, SameTreesGrown DEF Sound

(* bsp_restore does the same. *)
LEMMA RestoreGrows ==
  ASSUME NEW g, Sound(g), NEW w \in Workspace, NEW t \in Window,
         NEW pos \in Position, RestoreWalks(g, w, pos),
         NEW h \in Restores(g, w, t, pos)
  PROVE  Grown(g, h, w, t)
<1> DEFINE k == Lookup(g, w, pos.sibling)
           s == RestoreTarget(g, w, pos)
<1>1. PICK p \in AllocatesTwo(g.free) :
        h = bsp_restore(k, w, t, s, pos, p[1], p[2])
  BY DEF Restores
<1>2. pos.sibling \in Window /\ pos.split \in Split /\ pos.second \in BOOLEAN
  BY DEF Position
<1>3. Sound(k) /\ SameTrees(g, k) /\ k.free = g.free
  BY <1>2, LookupKeepsSound DEF SameTrees
<1>4. /\ p[1] # NULL => p[1] \in k.free
      /\ p[2] # NULL => p[2] \in k.free \ {p[1]}
  BY <1>3, AllocatesTwoType DEF Sound, Heap
<1>5. InTree(k, w, s)
  BY <1>2, LookupKeepsSound, SameTreesLinked DEF RestoreWalks
<1> HIDE DEF k, s
<1>6. Grown(k, h, w, t)
  <2>1. CASE p[1] = NULL
    BY <1>1, <2>1 DEF bsp_restore, Grown
  <2>2. CASE p[1] # NULL /\ p[2] = NULL
    BY <1>1, <1>3, <1>4, <2>2, ReturnedGrows DEF bsp_restore
  <2>3. CASE p[1] # NULL /\ p[2] # NULL
    <3>1. h = Splice(k, w, t, s, p[1], p[2], pos.split, pos.second)
      BY <1>1, <2>3 DEF bsp_restore
    <3>2. p[1] \in k.free /\ p[2] \in k.free /\ p[1] # p[2]
      BY <1>4, <2>3
    <3> QED BY <1>2, <1>3, <1>5, <3>1, <3>2, SpliceGrows
  <2> QED BY <2>1, <2>2, <2>3
<1> QED BY <1>3, <1>6, SameTreesGrown DEF Sound

(* A window that is taken out of the tree of w leaves no leaf there, and   *)
(* what is not freed is reached as before.                                 *)
Shrunk(g, h, w, t) ==
  /\ g.free \subseteq h.free
  /\ \A v \in Workspace : \A m : InTree(g, v, m) /\ m \notin h.free => InTree(h, v, m)
  /\ h.toplevel = g.toplevel
  /\ \/ \E l \in h.free : InTree(g, w, l) /\ g.toplevel[l] = t
     \/ \A n \in Node : ~ (InTree(g, w, n) /\ g.toplevel[n] = t)

(* A search finds a leaf that is there. *)
LEMMA FindLeafFinds ==
  ASSUME NEW g \in Heap, NEW w \in Workspace, NEW t \in Window,
         NEW n \in Node, g.toplevel[n] = t, InTree(g, w, n)
  PROVE  FindLeaf(g, w, t) # NULL
<1> DEFINE found == {m \in Node : g.toplevel[m] = t /\ InTree(g, w, m)}
<1>1. g.root[w] # NULL /\ t # NULL /\ NULL \notin Node
  BY NullAssumption DEF InTree
<1>2. found # {} /\ (CHOOSE m \in found : TRUE) \in Node
  <2>1. n \in found
    OBVIOUS
  <2>2. (CHOOSE m \in found : TRUE) \in found
    BY <2>1
  <2> QED BY <2>1, <2>2
<1> QED BY <1>1, <1>2 DEF FindLeaf, CacheHit

(* bsp_remove frees what it takes out of the tree and loses no other node. *)
LEMMA RemoveShrinks ==
  ASSUME NEW g, Sound(g), NEW w \in Workspace, NEW t \in Window
  PROVE  Shrunk(g, bsp_remove(g, w, t), w, t)
<1> DEFINE l == FindLeaf(g, w, t)
<1>1. CASE l = NULL
  <2>1. \A n \in Node : ~ (InTree(g, w, n) /\ g.toplevel[n] = t)
    BY <1>1, FindLeafFinds DEF Sound
  <2> QED BY <1>1, <2>1 DEF bsp_remove, Shrunk
<1>2. CASE l # NULL
  <2>1. InTree(g, w, l) /\ g.toplevel[l] = t /\ g.first[l] = NULL
    BY <1>2, FindLeafInTree DEF Sound, Leaf
  <2> DEFINE c == Contract(g, w, l)
             h == [c EXCEPT !.bspLeaf[t] = NULL]
  <2>2. bsp_remove(g, w, t) = h
    BY <1>2 DEF bsp_remove
  <2>3. \A v \in Workspace : \A m : InTree(g, v, m) /\ m \notin c.free => InTree(c, v, m)
    BY <2>1, ContractReaches DEF Sound
  <2>4. SameTrees(c, h)
    <3>1. c \in Heap
      BY <2>1, ContractType DEF Sound, InTree
    <3> HIDE DEF c
    <3> QED BY <3>1 DEF SameTrees, Heap
  <2>5. g.free \subseteq c.free /\ l \in c.free /\ c.toplevel = g.toplevel
    BY DEF Contract, Sound, Heap
  <2> HIDE DEF l, c, h
  <2> QED BY <2>1, <2>2, <2>3, <2>4, <2>5, SameTreesLinked DEF Shrunk, SameTrees
<1> QED BY <1>1, <1>2

----------------------------------------------------------------------------
(* No node is in the trees of two workspaces. *)
LEMMA TreesDisjoint ==
  ASSUME NEW g \in Heap, Linked(g), NEW v \in Workspace, NEW w \in Workspace,
         NEW m, InTree(g, v, m), InTree(g, w, m)
  PROVE  v = w
<1> SUFFICES ASSUME v # w PROVE FALSE
  OBVIOUS
<1> DEFINE C == {n \in Node : InTree(g, v, n)}
<1>1. \A n \in C : g.parent[n] \in C \cup {NULL}
  BY ParentInTree DEF Heap
<1>2. g.root[w] \notin C
  <2> SUFFICES ASSUME InTree(g, v, g.root[w]) PROVE FALSE
    OBVIOUS
  <2>1. g.root[w] # NULL /\ g.parent[g.root[w]] = NULL
    BY DEF InTree, Linked, RootsLinked
  <2>2. g.root[v] = g.root[w]
    BY <2>1, RootOfTree
  <2> QED BY <2>1, <2>2 DEF Linked, RootsLinked
<1>3. m \in C
  BY DEF InTree
<1> HIDE DEF C
<1> QED BY <1>1, <1>2, <1>3, OutOfReach

(* No live node is lost, no window is on two of them, and a window that is *)
(* on one is among the tiled windows T and the node is in the tree of the  *)
(* workspace at[t] of the window.                                          *)
Reached(g) == \A n \in Node \ g.free : \E w \in Workspace : InTree(g, w, n)

OneLeaf(g) ==
  \A n, m \in Node \ g.free :
    g.toplevel[n] # NULL /\ g.toplevel[n] = g.toplevel[m] => n = m

Placed(g, T, at) ==
  \A n \in Node \ g.free : g.toplevel[n] # NULL =>
    g.toplevel[n] \in T /\ InTree(g, at[g.toplevel[n]], n)

Owned(g, T, at) == Reached(g) /\ OneLeaf(g) /\ Placed(g, T, at)

(* What a handler that edits no tree leaves as it was. *)
LEMMA SameTreesOwned ==
  ASSUME NEW g, NEW h, SameTrees(g, h), NEW T, NEW U, NEW at, NEW bt,
         Owned(g, T, at), T \subseteq U, \A t \in T : at[t] = bt[t]
  PROVE  Owned(h, U, bt)
<1>1. \A v, m : InTree(g, v, m) => InTree(h, v, m)
  BY SameTreesLinked
<1>2. g.free = h.free /\ g.toplevel = h.toplevel
  BY DEF SameTrees
<1> QED BY <1>1, <1>2 DEF Owned, Reached, OneLeaf, Placed

(* Splits matter to none of this. *)
LEMMA SplitOwned ==
  ASSUME NEW g, Sound(g), NEW sp, NEW h, h = [g EXCEPT !.split = sp],
         NEW T, NEW at, Owned(g, T, at)
  PROVE  Owned(h, T, at)
<1>1. /\ h.root = g.root /\ h.first = g.first /\ h.second = g.second
      /\ h.free = g.free /\ h.toplevel = g.toplevel
  BY DEF Sound, Heap
<1>2. \A v, m : InTree(g, v, m) <=> InTree(h, v, m)
  BY <1>1 DEF InTree
<1> QED BY <1>1, <1>2 DEF Owned, Reached, OneLeaf, Placed

(* t is tiled in w and nothing else changes owner. *)
LEMMA GrownOwned ==
  ASSUME NEW g, Sound(g), NEW h \in Heap, NEW w \in Workspace, NEW t \in Window,
         Grown(g, h, w, t), NEW T, NEW at, \A u \in T : at[u] \in Workspace,
         NEW bt, Owned(g, T, at), t \notin T, \A u \in T : at[u] = bt[u], bt[t] = w
  PROVE  Owned(h, T \cup {t}, bt)
<1>1. \A m \in Node \ h.free :
        \/ /\ m \in Node \ g.free /\ h.toplevel[m] = g.toplevel[m]
        \/ /\ m \in g.free \ h.free /\ InTree(h, w, m) /\ h.toplevel[m] \in {t, NULL}
  BY DEF Grown
<1>2. Reached(h)
  BY <1>1 DEF Grown, Owned, Reached
<1>3. OneLeaf(h)
  BY <1>1, NullAssumption DEF Grown, Owned, OneLeaf, Placed
<1>4. ASSUME NEW m \in Node \ h.free, h.toplevel[m] # NULL
      PROVE  h.toplevel[m] \in T \cup {t} /\ InTree(h, bt[h.toplevel[m]], m)
  <2>1. CASE m \in Node \ g.free /\ h.toplevel[m] = g.toplevel[m]
    <3>1. g.toplevel[m] \in T /\ InTree(g, at[g.toplevel[m]], m)
      BY <1>4, <2>1 DEF Owned, Placed
    <3> QED BY <2>1, <3>1 DEF Grown
  <2>2. CASE m \in g.free \ h.free /\ InTree(h, w, m) /\ h.toplevel[m] \in {t, NULL}
    BY <1>4, <2>2
  <2> QED BY <1>1, <2>1, <2>2
<1> QED BY <1>2, <1>3, <1>4 DEF Owned, Placed

(* t is no longer tiled once its leaf is gone. *)
LEMMA ShrunkOwned ==
  ASSUME NEW g, NEW h, NEW w \in Workspace, NEW t,
         Shrunk(g, h, w, t), NEW T, NEW at, \A u \in T : at[u] \in Workspace,
         Owned(g, T, at), t \in T => at[t] = w, g.free \subseteq Node, h.free \subseteq Node
  PROVE  Owned(h, T \ {t}, at)
<1>1. \A m \in Node \ h.free : m \in Node \ g.free /\ h.toplevel[m] = g.toplevel[m]
  BY DEF Shrunk
<1>2. Reached(h)
  BY <1>1 DEF Shrunk, Owned, Reached
<1>3. OneLeaf(h)
  BY <1>1 DEF Owned, OneLeaf
<1>4. ASSUME NEW m \in Node \ h.free, h.toplevel[m] # NULL
      PROVE  h.toplevel[m] \in T \ {t} /\ InTree(h, at[h.toplevel[m]], m)
  <2>1. g.toplevel[m] \in T /\ InTree(g, at[g.toplevel[m]], m)
    BY <1>1, <1>4 DEF Owned, Placed
  <2>2. g.toplevel[m] # t
    <3> SUFFICES ASSUME g.toplevel[m] = t PROVE FALSE
      OBVIOUS
    <3>1. InTree(g, w, m)
      BY <2>1
    <3>2. PICK l \in h.free : InTree(g, w, l) /\ g.toplevel[l] = t
      BY <3>1 DEF Shrunk
    <3>3. l \in Node \ g.free
      BY <3>2 DEF InTree
    <3>4. l = m
      BY <1>1, <1>4, <3>2, <3>3 DEF Owned, OneLeaf
    <3> QED BY <3>2, <3>4
  <2>3. InTree(h, at[g.toplevel[m]], m)
    BY <1>1, <2>1 DEF Shrunk
  <2> QED BY <1>1, <2>1, <2>2, <2>3
<1> QED BY <1>2, <1>3, <1>4 DEF Owned, Placed

SameLinks(g, h) ==
  /\ h.root = g.root /\ h.first = g.first /\ h.second = g.second
  /\ h.free = g.free

(* Two windows that trade leaves stay in the tree of both. *)
LEMMA TradeOwned ==
  ASSUME NEW g, Sound(g), NEW w \in Workspace, NEW l, InTree(g, w, l),
         NEW m, InTree(g, w, m), l # m, NEW t \in Window, NEW u \in Window,
         g.toplevel[l] = t, g.toplevel[m] = u,
         NEW h, SameLinks(g, h),
         h.toplevel = [[g.toplevel EXCEPT ![l] = u] EXCEPT ![m] = t],
         NEW T, NEW at, \A v \in T : at[v] \in Workspace, Owned(g, T, at)
  PROVE  Owned(h, T, at)
<1>1. /\ h.root = g.root /\ h.first = g.first /\ h.second = g.second
      /\ h.free = g.free
      /\ h.toplevel = [[g.toplevel EXCEPT ![l] = u] EXCEPT ![m] = t]
  BY DEF SameLinks
<1>2. \A v, n : InTree(g, v, n) <=> InTree(h, v, n)
  BY <1>1 DEF InTree
<1>3. l \in Node \ g.free /\ m \in Node \ g.free /\ t # NULL /\ u # NULL
  BY NullAssumption DEF InTree
<1>4. /\ h.toplevel[l] = u /\ h.toplevel[m] = t
      /\ \A n \in Node \ {l, m} : h.toplevel[n] = g.toplevel[n]
  BY <1>1, <1>3 DEF Sound, Heap
<1>5. t \in T /\ InTree(g, at[t], l) /\ u \in T /\ InTree(g, at[u], m)
  BY <1>3 DEF Owned, Placed
<1>6. at[t] = w /\ at[u] = w
  BY <1>5, TreesDisjoint DEF Sound
<1>7. Reached(h)
  BY <1>1, <1>2 DEF Owned, Reached
<1>8. \A n \in Node \ g.free : /\ g.toplevel[n] = t => n = l
                               /\ g.toplevel[n] = u => n = m
  BY <1>3 DEF Owned, OneLeaf
<1>9. OneLeaf(h)
  <2> SUFFICES ASSUME NEW n \in Node \ g.free, NEW k \in Node \ g.free,
                      h.toplevel[n] # NULL, h.toplevel[n] = h.toplevel[k]
               PROVE  n = k
    BY <1>1 DEF OneLeaf
  <2>1. CASE n \in {l, m} \/ k \in {l, m}
    BY <1>3, <1>4, <1>8, <2>1
  <2>2. CASE n \notin {l, m} /\ k \notin {l, m}
    BY <1>4, <2>2 DEF Owned, OneLeaf
  <2> QED BY <2>1, <2>2
<1>10. Placed(h, T, at)
  <2> SUFFICES ASSUME NEW n \in Node \ g.free, h.toplevel[n] # NULL
               PROVE  h.toplevel[n] \in T /\ InTree(h, at[h.toplevel[n]], n)
    BY <1>1 DEF Placed
  <2>1. CASE n \in {l, m}
    BY <1>2, <1>4, <1>5, <1>6, <2>1
  <2>2. CASE n \notin {l, m}
    BY <1>2, <1>4, <2>2 DEF Owned, Placed
  <2> QED BY <2>1, <2>2
<1> QED BY <1>7, <1>9, <1>10 DEF Owned

(* The windows that are tiled, each in the tree of its workspace. *)
AllOwned == Owned(bsp, mapped \ floating, workspace)

(* bsp_insert keeps every leaf with its window, the new one included. *)
LEMMA InsertOwned ==
  ASSUME NEW g, Sound(g), NEW w \in Workspace, NEW t \in Window,
         NEW f \in Window \cup {NULL}, InsertWalks(g, w, f),
         NEW h \in Inserts(g, w, t, f), NEW T, NEW at,
         \A u \in T : at[u] \in Workspace, NEW bt, Owned(g, T, at), t \notin T,
         \A u \in T : at[u] = bt[u], bt[t] = w
  PROVE  Owned(h, T \cup {t}, bt)
<1>1. h \in Heap
  BY InsertType DEF Sound
<1>2. Grown(g, h, w, t)
  BY InsertGrows
<1> QED BY <1>1, <1>2, GrownOwned

(* bsp_remove keeps every leaf with its window, but for the one it frees. *)
LEMMA RemoveOwned ==
  ASSUME NEW g, Sound(g), NEW w \in Workspace, NEW t \in Window,
         NEW T, NEW at, \A u \in T : at[u] \in Workspace, Owned(g, T, at),
         t \in T => at[t] = w
  PROVE  Owned(bsp_remove(g, w, t), T \ {t}, at)
<1>1. bsp_remove(g, w, t) \in Heap /\ g \in Heap
  BY RemoveType DEF Sound
<1>2. g.free \subseteq Node /\ bsp_remove(g, w, t).free \subseteq Node
  BY <1>1 DEF Heap
<1>3. Shrunk(g, bsp_remove(g, w, t), w, t)
  BY RemoveShrinks
<1> QED BY <1>2, <1>3, ShrunkOwned

(* No handler breaks it. *)
LEMMA OwnedStep ==
  ASSUME TypeInv, Sound(bsp), AllOwned, [Next]_vars
  PROVE  AllOwned'
<1> DEFINE T == mapped \ floating
<1>0. /\ \A u \in mapped : workspace[u] \in Workspace
      /\ \A u \in T : workspace[u] \in Workspace
      /\ mapped \subseteq Window /\ bsp \in Heap /\ bsp' \in Heap
      /\ workspace \in [Window -> Workspace \cup {NULL}]
  BY ExistsType, TypeInvStep DEF TypeInv, TypeOK
<1>T. Owned(bsp, T, workspace)
  BY DEF AllOwned
<1>1. CASE UNCHANGED vars
  BY <1>1 DEF vars, AllOwned
<1>2. ASSUME NEW t \in Window, NEW w \in Workspace, Create(t, w)
      PROVE  AllOwned'
  <2>1. SameTrees(bsp, bsp')
    BY <1>0, <1>2 DEF Create, SameTrees, Heap
  <2>2. t \notin T
    BY <1>2 DEF Create, TypeInv
  <2>3. \A u \in T : workspace[u] = workspace'[u]
    BY <1>0, <1>2, <2>2 DEF Create
  <2>4. Owned(bsp', T, workspace')
    BY <1>T, <2>1, <2>3, SameTreesOwned
  <2> QED BY <1>2, <2>4 DEF Create, AllOwned
<1>3. ASSUME NEW t \in Window, NEW f \in mapped \cup {NULL}, MapTiled(t, f)
      PROVE  AllOwned'
  <2>1. f \in Window \cup {NULL} /\ workspace[t] \in Workspace /\ t \notin T
    BY <1>0, <1>3, ExistsType DEF MapTiled, TypeInv
  <2>2. /\ InsertWalks(bsp, workspace[t], f)
        /\ bsp' \in Inserts(bsp, workspace[t], t, f)
    BY <1>3 DEF MapTiled
  <2> HIDE DEF T
  <2>3. Owned(bsp', T \cup {t}, workspace)
    BY <1>0, <1>T, <2>1, <2>2, InsertOwned
  <2>4. mapped' \ floating' = T \cup {t} /\ workspace' = workspace
    BY <1>3 DEF MapTiled, T
  <2> QED BY <2>3, <2>4 DEF AllOwned
<1>4. ASSUME NEW t \in Window, MapFloating(t) PROVE AllOwned'
  <2>1. mapped' \ floating' = T /\ workspace' = workspace /\ bsp' = bsp
    BY <1>4 DEF MapFloating
  <2> QED BY <1>T, <2>1 DEF AllOwned
<1>5. ASSUME NEW t \in Window, MapFullscreen(t) PROVE AllOwned'
  <2>1. T \subseteq mapped' \ floating' /\ workspace' = workspace /\ bsp' = bsp
    BY <1>5 DEF MapFullscreen
  <2>2. Owned(bsp, mapped' \ floating', workspace)
    BY <1>T, <2>1 DEF Owned, Placed
  <2> QED BY <2>1, <2>2 DEF AllOwned
<1>6. ASSUME NEW t \in Window, Unmap(t) PROVE AllOwned'
  <2>1. mapped' \ floating' = T \ {t} /\ workspace' = workspace
    BY <1>6 DEF Unmap
  <2>2. Owned(bsp', T \ {t}, workspace)
    BY <1>0, <1>6, <1>T, RemoveOwned DEF Unmap
  <2> QED BY <2>1, <2>2 DEF AllOwned
<1>7. ASSUME NEW t \in Window, Destroy(t) PROVE AllOwned'
  <2>1. t \notin mapped /\ mapped' \ floating' = T /\ T \ {t} = T
    BY <1>7 DEF Destroy
  <2>2. \A u \in T : workspace[u] = workspace'[u]
    BY <1>0, <1>7, <2>1 DEF Destroy
  <2>3. Owned(bsp', T, workspace)
    <3>1. CASE t \in floating
      BY <1>7, <1>T, <3>1 DEF Destroy
    <3>2. CASE t \notin floating
      <4>1. workspace[t] \in Workspace /\ bsp' = bsp_remove(bsp, workspace[t], t)
        BY <1>7, <3>2, ExistsType DEF Destroy, TypeInv
      <4> QED BY <1>0, <1>T, <2>1, <4>1, RemoveOwned
    <3> QED BY <3>1, <3>2
  <2>4. Owned(bsp', T, workspace')
    BY <2>2, <2>3, SameTreesOwned DEF SameTrees
  <2> QED BY <2>1, <2>4 DEF AllOwned
<1>8. ASSUME NEW t \in Window, Float(t) PROVE AllOwned'
  <2> DEFINE after == bsp_remove(bsp, workspace[t], t)
             s == Sibling(bsp, FindLeaf(bsp, workspace[t], t))
  <2>1. workspace[t] \in Workspace /\ mapped' \ floating' = T \ {t}
        /\ workspace' = workspace
    BY <1>0, <1>8 DEF Float
  <2>2. Sound(after)
    BY <2>1, RemoveSound
  <2>3. Owned(after, T \ {t}, workspace)
    BY <1>0, <1>T, <2>1, RemoveOwned
  <2>4. bsp' = after \/ bsp' = [after EXCEPT !.split[s] = bsp.split[s]]
    BY <1>8 DEF Float
  <2> HIDE DEF after, s, T
  <2>5. bsp' = after \/ bsp' = [after EXCEPT !.split = [after.split EXCEPT ![s] = bsp.split[s]]]
    BY <2>2, <2>4 DEF Sound, Heap
  <2>6. Owned(bsp', T \ {t}, workspace)
    BY <2>2, <2>3, <2>5, SplitOwned
  <2> QED BY <2>1, <2>6 DEF AllOwned
<1>9. ASSUME NEW t \in Window, NEW f \in mapped \cup {NULL}, Unfloat(t, f)
      PROVE  AllOwned'
  <2>1. /\ f \in Window \cup {NULL} /\ workspace[t] \in Workspace /\ t \notin T
        /\ mapped' \ floating' = T \cup {t} /\ workspace' = workspace
    BY <1>0, <1>9 DEF Unfloat
  <2> HIDE DEF T
  <2>2. CASE CanRestore(bsp, workspace[t], saved[t])
    <3>1. saved[t] \in Position
      BY <2>2 DEF CanRestore, TypeInv, TypeOK
    <3>2. /\ RestoreWalks(bsp, workspace[t], saved[t])
          /\ bsp' \in Restores(bsp, workspace[t], t, saved[t])
      BY <1>9, <2>2 DEF Unfloat
    <3>3. Grown(bsp, bsp', workspace[t], t)
      BY <2>1, <3>1, <3>2, RestoreGrows
    <3>4. Owned(bsp', T \cup {t}, workspace)
      BY <1>0, <1>T, <2>1, <3>3, GrownOwned
    <3> QED BY <2>1, <3>4 DEF AllOwned
  <2>3. CASE ~CanRestore(bsp, workspace[t], saved[t])
    <3>1. /\ InsertWalks(bsp, workspace[t], f)
          /\ bsp' \in Inserts(bsp, workspace[t], t, f)
      BY <1>9, <2>3 DEF Unfloat
    <3>2. Owned(bsp', T \cup {t}, workspace)
      BY <1>0, <1>T, <2>1, <3>1, InsertOwned
    <3> QED BY <2>1, <3>2 DEF AllOwned
  <2> QED BY <2>2, <2>3
<1>10. ASSUME NEW t \in Window, NEW v \in Workspace,
              NEW f \in mapped \cup {NULL}, MoveToWorkspace(t, v, f)
       PROVE  AllOwned'
  <2> DEFINE without == bsp_remove(bsp, workspace[t], t)
  <2>1. /\ f \in Window \cup {NULL} /\ workspace[t] \in Workspace
        /\ mapped' \ floating' = T /\ workspace'[t] = v
        /\ \A u \in T \ {t} : workspace[u] = workspace'[u]
    BY <1>0, <1>10 DEF MoveToWorkspace
  <2>2. CASE t \in floating
    <3>1. bsp' = bsp /\ T \ {t} = T
      BY <1>10, <2>2 DEF MoveToWorkspace
    <3>2. Owned(bsp', T, workspace')
      BY <1>T, <2>1, <3>1, SameTreesOwned DEF SameTrees
    <3> QED BY <2>1, <3>2 DEF AllOwned
  <2>3. CASE t \notin floating
    <3>1. /\ InsertWalks(without, v, f) /\ bsp' \in Inserts(without, v, t, f)
          /\ t \in T
      BY <1>10, <2>3 DEF MoveToWorkspace
    <3>2. Sound(without) /\ Owned(without, T \ {t}, workspace)
      BY <1>0, <1>T, <2>1, RemoveSound, RemoveOwned
    <3> HIDE DEF without, T
    <3>3. Owned(bsp', (T \ {t}) \cup {t}, workspace')
      BY <1>0, <2>1, <3>1, <3>2, InsertOwned
    <3>4. (T \ {t}) \cup {t} = T
      BY <3>1
    <3> QED BY <2>1, <3>3, <3>4 DEF AllOwned
  <2> QED BY <2>2, <2>3
<1>11. ASSUME NEW t \in Window, NEW u \in Window, Swap(t, u) PROVE AllOwned'
  <2> DEFINE h == Lookup(bsp, workspace[t], t)
             l == FindLeaf(bsp, workspace[t], t)
  <2>1. workspace[t] \in Workspace /\ l # NULL
    BY <1>0, <1>11 DEF Swap
  <2>2. Sound(h) /\ SameTrees(bsp, h)
    BY <2>1, LookupKeepsSound
  <2>3. InTree(bsp, workspace[t], l) /\ bsp.toplevel[l] = t
    BY <2>1, FindLeafInTree DEF Sound
  <2>4. PICK m \in Node \ {l} :
          /\ bsp.toplevel[m] = u /\ InTree(bsp, workspace[t], m)
          /\ bsp' = [h EXCEPT !.toplevel[l] = u, !.toplevel[m] = t]
    BY <1>11 DEF Swap
  <2> HIDE DEF h, l, T
  <2>5. /\ InTree(h, workspace[t], l) /\ InTree(h, workspace[t], m)
        /\ h.toplevel[l] = t /\ h.toplevel[m] = u
    BY <2>2, <2>3, <2>4, SameTreesLinked DEF SameTrees
  <2>6. Owned(h, T, workspace)
    BY <1>T, <2>2, SameTreesOwned
  <2>7. l # m /\ bsp' \in Heap /\ \A v \in T : workspace[v] \in Workspace
    BY <1>0, <2>4
  <2>8. Owned(bsp', T, workspace)
    <3> DEFINE w == workspace[t]
    <3>1. w \in Workspace /\ InTree(h, w, l) /\ InTree(h, w, m)
      BY <2>1, <2>5
    <3>2. /\ SameLinks(h, bsp')
          /\ bsp'.toplevel = [[h.toplevel EXCEPT ![l] = u] EXCEPT ![m] = t]
      BY <2>2, <2>4 DEF SameLinks, Sound, Heap
    <3>3. Sound(h) /\ l # m /\ h.toplevel[l] = t /\ h.toplevel[m] = u
      BY <2>2, <2>5, <2>7
    <3>4. \A v \in T : workspace[v] \in Workspace
      BY <2>7
    <3> HIDE DEF w
    <3> QED BY <2>6, <3>1, <3>2, <3>3, <3>4, TradeOwned
  <2> QED BY <1>11, <2>8 DEF Swap, AllOwned, T
<1>12. ASSUME NEW t \in Window, Rotate(t) PROVE AllOwned'
  <2> DEFINE h == Lookup(bsp, workspace[t], t)
             p == bsp.parent[FindLeaf(bsp, workspace[t], t)]
  <2>1. Sound(h) /\ SameTrees(bsp, h)
    BY <1>0, <1>12, LookupKeepsSound DEF Rotate
  <2>2. PICK sp : bsp' = [h EXCEPT !.split[p] = sp]
    BY <1>12 DEF Rotate
  <2> HIDE DEF h, p, T
  <2>3. bsp' = [h EXCEPT !.split = [h.split EXCEPT ![p] = sp]]
    BY <2>1, <2>2 DEF Sound, Heap
  <2>4. Owned(h, T, workspace)
    BY <1>T, <2>1, SameTreesOwned
  <2>5. Owned(bsp', T, workspace)
    BY <2>1, <2>3, <2>4, SplitOwned
  <2> QED BY <1>12, <2>5 DEF Rotate, AllOwned, T
<1>13. ASSUME NEW t \in Window, LookUp(t) PROVE AllOwned'
  <2>1. SameTrees(bsp, bsp')
    BY <1>0, <1>13, LookupKeepsSound DEF LookUp
  <2>2. Owned(bsp', T, workspace)
    BY <1>T, <2>1, SameTreesOwned
  <2> QED BY <1>13, <2>2 DEF LookUp, AllOwned
<1> QED
  BY <1>1, <1>2, <1>3, <1>4, <1>5, <1>6, <1>7, <1>8, <1>9, <1>10, <1>11,
     <1>12, <1>13 DEF Next

TreeInv == TypeInv /\ Sound(bsp) /\ AllOwned

(* The inductive invariant of the theorems below. *)
LEMMA TreeInvHolds == Spec => []TreeInv
<1>1. Init => AllOwned
  BY DEF Init, AllOwned, Owned, Reached, OneLeaf, Placed
<1>2. TreeInv /\ [Next]_vars => TreeInv'
  BY TypeInvStep, SoundStep, OwnedStep DEF TreeInv
<1> QED BY SoundInit, <1>1, <1>2, PTL DEF Spec, TreeInv

(* In every run the nodes that are not on the free list are all in the tree *)
(* of some workspace: no handler loses one, whatever the pool returned.     *)
THEOREM NoNodeIsLost == Spec => []NoNodeLeaks
<1>1. TreeInv => NoNodeLeaks
  BY DEF TreeInv, AllOwned, Owned, Reached, NoNodeLeaks
<1> QED BY TreeInvHolds, <1>1, PTL

(* In every run a window has at most one leaf; a leaf's window is mapped,   *)
(* tiled, and the leaf is in the tree of the window's own workspace.       *)
THEOREM LeavesBelongToWindows == Spec => []LeafBelongsToWindow
<1>1. TreeInv => LeafBelongsToWindow
  BY DEF TreeInv, AllOwned, Owned, OneLeaf, Placed, LeafBelongsToWindow, OneLeafPerWindow
<1> QED BY TreeInvHolds, <1>1, PTL

(* Two free nodes suffice for two allocations. *)
LEMMA TwoAllocated ==
  ASSUME NEW F \in SUBSET Node, Cardinality(F) >= 2, NEW p \in AllocatesTwo(F)
  PROVE  p[1] \in F /\ p[2] \in F \ {p[1]}
<1>1. PICK n \in Allocates(F) : p \in {n} \X Allocates(F \ {n})
  BY DEF AllocatesTwo
<1>2. p[1] = n /\ p[2] \in Allocates(F \ {n})
  BY <1>1
<1>3. F # {}
  BY FS_EmptySet
<1>4. n \in F
  BY <1>1, <1>3, HeadsAssumption DEF Allocates
<1>5. F \ {n} # {}
  <2> SUFFICES ASSUME F = {n} PROVE FALSE
    BY <1>4
  <2> QED BY FS_Singleton
<1>6. F \ {n} \in SUBSET Node
  OBVIOUS
<1>7. p[2] \in F \ {n}
  BY <1>2, <1>5, <1>6, HeadsAssumption DEF Allocates
<1> QED BY <1>2, <1>4, <1>7

(* With them an insertion gives the window a leaf, and so does a restore. *)
LEMMA InsertTiles ==
  ASSUME NEW g, Sound(g), Cardinality(g.free) >= 2, NEW w \in Workspace,
         NEW t \in Window, NEW f \in Window \cup {NULL}, InsertWalks(g, w, f),
         NEW h \in Inserts(g, w, t, f)
  PROVE  \E n \in Node \ h.free : h.toplevel[n] = t
<1> DEFINE k == Lookup(g, w, f)
           s == InsertTarget(g, w, f)
<1>1. PICK sp \in Split, p \in AllocatesTwo(g.free) :
        h = bsp_insert(k, w, t, s, sp, p[1], p[2])
  BY DEF Inserts
<1>2. k \in Heap
  BY LookupType DEF Sound
<1>3. p[1] \in Node /\ p[2] \in Node /\ p[1] # p[2]
  BY TwoAllocated DEF Sound, Heap
<1>4. p[1] # NULL /\ p[2] # NULL
  BY <1>3, NullAssumption
<1> HIDE DEF k, s
<1>5. \/ h = NewRoot(k, w, t, p[1])
      \/ h = Splice(k, w, t, s, p[1], p[2], sp, TRUE)
  BY <1>1, <1>4 DEF bsp_insert
<1>6. CASE h = NewRoot(k, w, t, p[1])
  <2>1. h.toplevel[p[1]] = t /\ p[1] \notin h.free
    BY <1>2, <1>3, <1>6 DEF NewRoot, Heap
  <2> QED BY <1>3, <2>1
<1>7. CASE h = Splice(k, w, t, s, p[1], p[2], sp, TRUE)
  <2>1. /\ h.toplevel = [k.toplevel EXCEPT ![p[1]] = t, ![p[2]] = NULL]
        /\ h.free = k.free \ {p[1], p[2]}
    BY <1>2, <1>7 DEF Splice, Heap
  <2>2. h.toplevel[p[1]] = t /\ p[1] \notin h.free
    BY <1>2, <1>3, <2>1 DEF Heap
  <2> QED BY <1>3, <2>2
<1> QED BY <1>5, <1>6, <1>7

(* With two free nodes bsp_restore tiles its window. *)
LEMMA RestoreTiles ==
  ASSUME NEW g, Sound(g), Cardinality(g.free) >= 2, NEW w \in Workspace,
         NEW t \in Window, NEW pos \in Position, RestoreWalks(g, w, pos),
         NEW h \in Restores(g, w, t, pos)
  PROVE  \E n \in Node \ h.free : h.toplevel[n] = t
<1> DEFINE k == Lookup(g, w, pos.sibling)
           s == RestoreTarget(g, w, pos)
<1>1. PICK p \in AllocatesTwo(g.free) :
        h = bsp_restore(k, w, t, s, pos, p[1], p[2])
  BY DEF Restores
<1>2. k \in Heap
  BY LookupType DEF Sound, Position
<1>3. p[1] \in Node /\ p[2] \in Node /\ p[1] # p[2]
  BY TwoAllocated DEF Sound, Heap
<1>4. p[1] # NULL /\ p[2] # NULL
  BY <1>3, NullAssumption
<1> HIDE DEF k, s
<1>5. h = Splice(k, w, t, s, p[1], p[2], pos.split, pos.second)
  BY <1>1, <1>4 DEF bsp_restore
<1>6. /\ h.toplevel = [k.toplevel EXCEPT ![p[1]] = t, ![p[2]] = NULL]
      /\ h.free = k.free \ {p[1], p[2]}
  BY <1>2, <1>5 DEF Splice, Heap
<1>7. h.toplevel[p[1]] = t /\ p[1] \notin h.free
  BY <1>2, <1>3, <1>6 DEF Heap
<1> QED BY <1>3, <1>7

(* toggle_floating that finds two free nodes gives its window a leaf. *)
THEOREM OnlyExhaustionLosesTiles == Spec => TilesUnlessPoolExhausted
<1> DEFINE Tiles == \A t \in Window :
              /\ Cardinality(bsp.free) >= 2
              /\ t \in floating \cap mapped /\ t \in mapped' \ floating'
              => \E n \in Node \ bsp'.free : bsp'.toplevel[n] = t
<1>1. ASSUME TreeInv, [Next]_vars PROVE [Tiles]_vars
  <2> SUFFICES ASSUME NEW t \in Window, Cardinality(bsp.free) >= 2,
                      t \in floating \cap mapped, t \in mapped' \ floating'
               PROVE  \E n \in Node \ bsp'.free : bsp'.toplevel[n] = t
    OBVIOUS
  <2>1. PICK f \in mapped \cup {NULL} : Unfloat(t, f)
    BY <1>1 DEF Next, vars, Create, MapFloating, MapFullscreen, Unmap, Destroy,
                Float, Rotate, LookUp, Swap, MapTiled, Unfloat, MoveToWorkspace
  <2>2. /\ f \in Window \cup {NULL} /\ workspace[t] \in Workspace /\ Sound(bsp)
    BY <1>1, <2>1, ExistsType DEF TreeInv, TypeInv, TypeOK, Unfloat
  <2>3. CASE CanRestore(bsp, workspace[t], saved[t])
    <3>1. saved[t] \in Position
      BY <1>1, <2>3 DEF CanRestore, TreeInv, TypeInv, TypeOK
    <3>2. /\ RestoreWalks(bsp, workspace[t], saved[t])
          /\ bsp' \in Restores(bsp, workspace[t], t, saved[t])
      BY <2>1, <2>3 DEF Unfloat
    <3> QED BY <2>2, <3>1, <3>2, RestoreTiles
  <2>4. CASE ~CanRestore(bsp, workspace[t], saved[t])
    <3>1. /\ InsertWalks(bsp, workspace[t], f)
          /\ bsp' \in Inserts(bsp, workspace[t], t, f)
      BY <2>1, <2>4 DEF Unfloat
    <3> QED BY <2>2, <3>1, InsertTiles
  <2> QED BY <2>3, <2>4
<1> QED BY <1>1, TreeInvHolds, PTL DEF Spec, TilesUnlessPoolExhausted

----------------------------------------------------------------------------
(* Where the walks through a tree end. *)

(* Down the first children there is an end: the nodes of an endless descent *)
(* would be closed under parents, because first is one to one and the pool *)
(* is finite, and so out of reach of every root.                           *)
LEMMA DescentEnds ==
  ASSUME NEW g \in Heap, Linked(g), Reached(g)
  PROVE  Grounded(Node, {n \in Node : Leaf(g, n)}, g.first)
<1> SUFFICES ASSUME NEW B \in SUBSET (Node \ {n \in Node : Leaf(g, n)}),
                    \A a \in B : g.first[a] \in B, NEW b \in B
             PROVE  FALSE
  BY DEF Grounded
<1>1. \A a \in B : /\ a \in Node \ g.free /\ g.first[a] # NULL
                   /\ g.parent[g.first[a]] = a
  BY DEF Leaf, Linked, ChildrenLinked
<1> DEFINE f == [a \in B |-> g.first[a]]
<1>2. f \in Injection(B, B)
  BY <1>1 DEF Injection, IsInjective
<1>3. IsFiniteSet(B)
  BY NodeAssumption, FS_Subset
<1>4. f \in Surjection(B, B)
  BY <1>2, <1>3, FS_Injection
<1>5. \A a \in B : \E c \in B : g.first[c] = a
  BY <1>4 DEF Surjection
<1>6. \A a \in B : g.parent[a] \in B
  BY <1>1, <1>5
<1>7. PICK w \in Workspace : InTree(g, w, b)
  BY <1>1 DEF Reached
<1>8. g.root[w] \notin B
  <2>1. g.parent[g.root[w]] = NULL /\ NULL \notin B
    BY <1>7, NullAssumption DEF InTree, Linked, RootsLinked
  <2> QED BY <1>6, <2>1
<1> QED BY <1>6, <1>7, <1>8, OutOfReach

(* bsp_first_leaf returns a leaf of the tree it started in. *)
LEMMA FirstLeafInTree ==
  ASSUME NEW g \in Heap, Linked(g), Reached(g), NEW w \in Workspace, NEW r,
         InTree(g, w, r)
  PROVE  InTree(g, w, FirstLeaf(g, r)) /\ Leaf(g, FirstLeaf(g, r))
<1> DEFINE Z == {n \in Node : Leaf(g, n)}
           Down(d) == d = [n \in Node |-> IF Leaf(g, n) THEN n ELSE d[g.first[n]]]
           down == CHOOSE d : Down(d)
<1>1. \A n \in Node \ Z : g.first[n] \in Node
  BY DEF Heap, Leaf
<1>2. Grounded(Node, Z, g.first)
  BY DescentEnds
<1>3. \E d : Down(d)
  <2> DEFINE base == [n \in Node |-> n]
             step == [n \in Node |-> [v \in Node |-> v]]
  <2>1. PICK d \in [Node -> Node] : Solves(d, Node, Z, g.first, base, step)
    <3>1. \A n \in Node \cap Z : base[n] \in Node
      OBVIOUS
    <3>2. \A n \in Node \ Z : g.first[n] \in Node /\ \A v \in Node : step[n][v] \in Node
      BY <1>1
    <3> HIDE DEF base, step, Z
    <3> QED BY <1>2, <3>1, <3>2, Recursion
  <2>2. \A n \in Node : d[n] = IF Leaf(g, n) THEN n ELSE d[g.first[n]]
    BY <1>1, <2>1 DEF Solves
  <2>3. Down(d)
    BY <2>1, <2>2
  <2> QED BY <2>3
<1>4. Down(down)
  BY <1>3
<1>5. FirstLeaf(g, r) = down[r]
  BY DEF FirstLeaf
<1> HIDE DEF down
<1>6. \A n \in Node : down[n] = IF Leaf(g, n) THEN n ELSE down[g.first[n]]
  BY <1>4
<1> DEFINE B == {n \in Node : InTree(g, w, n) /\
                              ~ (InTree(g, w, down[n]) /\ Leaf(g, down[n]))}
<1>7. B \in SUBSET (Node \ Z)
  BY <1>6
<1>8. \A n \in B : g.first[n] \in B
  <2> SUFFICES ASSUME NEW n \in B PROVE g.first[n] \in B
    OBVIOUS
  <2>1. g.first[n] \in Node /\ down[n] = down[g.first[n]] /\ g.first[n] # NULL
    BY <1>1, <1>6, <1>7 DEF Leaf
  <2>2. InTree(g, w, g.first[n])
    BY <2>1, ChildInTree
  <2> QED BY <2>1, <2>2
<1>9. B = {}
  BY <1>2, <1>7, <1>8 DEF Grounded
<1>10. r \in Node
  BY DEF InTree
<1> QED BY <1>5, <1>9, <1>10

(* The number of steps that toggle_floating counts on the same way. *)
LEMMA FirstLeafDepthType ==
  ASSUME NEW g \in Heap, Linked(g), Reached(g), NEW r \in Node
  PROVE  FirstLeafDepth(g, r) \in Nat
<1> DEFINE Z == {n \in Node : Leaf(g, n)}
           Depth(d) == d = [n \in Node |-> IF Leaf(g, n) THEN 0 ELSE 1 + d[g.first[n]]]
           depth == CHOOSE d : Depth(d)
<1>1. \A n \in Node \ Z : g.first[n] \in Node
  BY DEF Heap, Leaf
<1>2. Grounded(Node, Z, g.first)
  BY DescentEnds
<1>3. \E d : Depth(d)
  <2> DEFINE base == [n \in Node |-> 0]
             step == [n \in Node |-> [v \in Nat |-> 1 + v]]
  <2>1. PICK d \in [Node -> Nat] : Solves(d, Node, Z, g.first, base, step)
    <3>1. \A n \in Node \cap Z : base[n] \in Nat
      OBVIOUS
    <3>2. \A n \in Node \ Z : g.first[n] \in Node /\ \A v \in Nat : step[n][v] \in Nat
      BY <1>1
    <3> HIDE DEF base, step, Z
    <3> QED BY <1>2, <3>1, <3>2, Recursion
  <2>2. \A n \in Node : d[n] = IF Leaf(g, n) THEN 0 ELSE 1 + d[g.first[n]]
    BY <1>1, <2>1 DEF Solves
  <2>3. Depth(d)
    BY <2>1, <2>2
  <2> QED BY <2>3
<1>4. Depth(depth)
  BY <1>3
<1>5. FirstLeafDepth(g, r) = depth[r]
  BY DEF FirstLeafDepth
<1> HIDE DEF depth
<1>6. \A n \in Node : depth[n] = IF Leaf(g, n) THEN 0 ELSE 1 + depth[g.first[n]]
  BY <1>4
<1> DEFINE B == {n \in Node : depth[n] \notin Nat}
<1>7. B \in SUBSET (Node \ Z)
  BY <1>6
<1>8. \A n \in B : g.first[n] \in B
  BY <1>1, <1>6, <1>7
<1>9. B = {}
  BY <1>2, <1>7, <1>8 DEF Grounded
<1> QED BY <1>5, <1>9

(* However far it climbs, bsp_restore stays in the tree. *)
LEMMA RestoreTargetInTree ==
  ASSUME NEW g, Sound(g), NEW w \in Workspace, NEW pos \in Position,
         CanRestore(g, w, pos)
  PROVE  RestoreWalks(g, w, pos)
<1> DEFINE up(m) == IF g.parent[m] = NULL THEN m ELSE g.parent[m]
           l == FindLeaf(g, w, pos.sibling)
           Climb(c) == c = [k \in Nat |-> IF k = 0 THEN l ELSE up(c[k - 1])]
           climb == CHOOSE c : Climb(c)
           s == climb[pos.depth]
<1>1. InTree(g, w, l) /\ l \in Node
  BY FindLeafInTree DEF Sound, CanRestore, Position, InTree
<1>2. \A m : InTree(g, w, m) => InTree(g, w, up(m))
  BY ParentInTree DEF Sound
<1>3. \A m \in Node : up(m) \in Node
  BY DEF Sound, Heap
<1>4. \E c : Climb(c)
  <2> DEFINE pre == [k \in Nat |-> k - 1]
             base == [k \in Nat |-> l]
             step == [k \in Nat |-> [m \in Node |-> up(m)]]
  <2>1. Grounded(Nat, {0}, pre)
    BY NumbersGrounded
  <2>2. PICK c \in [Nat -> Node] : Solves(c, Nat, {0}, pre, base, step)
    <3>1. \A k \in Nat \cap {0} : base[k] \in Node
      BY <1>1
    <3>2. \A k \in Nat \ {0} : pre[k] \in Nat /\ \A m \in Node : step[k][m] \in Node
      BY <1>3
    <3> HIDE DEF pre, base, step
    <3> QED BY <2>1, <3>1, <3>2, Recursion
  <2> HIDE DEF l, up
  <2>3. \A k \in Nat : c[k] = IF k = 0 THEN l ELSE up(c[k - 1])
    BY <2>2 DEF Solves
  <2>4. Climb(c)
    BY <2>2, <2>3
  <2> QED BY <2>4
<1>5. Climb(climb)
  BY <1>4
<1>6. RestoreTarget(g, w, pos) =
        IF g.parent[s] # NULL /\ g.split[g.parent[s]] = pos.split
        THEN g.parent[s] ELSE s
  BY DEF RestoreTarget
<1> HIDE DEF climb, l, up
<1>7. \A k \in Nat : climb[k] = IF k = 0 THEN l ELSE up(climb[k - 1])
  BY <1>5
<1> DEFINE S == {k \in Nat : InTree(g, w, climb[k])}
<1>8. Nat \subseteq S
  <2>1. 0 \in S
    BY <1>1, <1>7
  <2>2. \A k \in S \cap Nat : k + 1 \in S
    <3> SUFFICES ASSUME NEW k \in Nat, InTree(g, w, climb[k])
                 PROVE  InTree(g, w, climb[k + 1])
      OBVIOUS
    <3>1. climb[k + 1] = up(climb[k])
      BY <1>7
    <3> QED BY <1>2, <3>1
  <2> HIDE DEF S
  <2> QED BY <2>1, <2>2, Induction
<1>9. InTree(g, w, s)
  BY <1>8 DEF Position
<1> HIDE DEF s
<1> QED BY <1>6, <1>9, ParentInTree DEF RestoreWalks, Sound

(* bsp_insert finds a leaf of its tree to split. *)
LEMMA InsertTargetInTree ==
  ASSUME NEW g, Sound(g), Reached(g), NEW w \in Workspace,
         NEW f \in Window \cup {NULL}
  PROVE  InsertWalks(g, w, f)
<1> SUFFICES ASSUME g.root[w] # NULL
             PROVE  InTree(g, w, InsertTarget(g, w, f))
  BY DEF InsertWalks
<1>1. InTree(g, w, FirstLeaf(g, g.root[w]))
  BY RootInTree, FirstLeafInTree DEF Sound
<1>2. FindLeaf(g, w, f) # NULL => InTree(g, w, FindLeaf(g, w, f))
  BY FindLeafInTree DEF Sound
<1> QED BY <1>1, <1>2 DEF InsertTarget

(* The walk of toggle_floating starts from the sibling, in the same tree. *)
LEMMA SiblingWalks ==
  ASSUME NEW g, Sound(g), Reached(g), NEW w \in Workspace, NEW l,
         InTree(g, w, l), g.parent[l] # NULL
  PROVE  PositionWalks(g, w, l)
<1> DEFINE p == g.parent[l]
           s == Sibling(g, l)
<1>1. InTree(g, w, p)
  BY ParentInTree DEF Sound
<1>2. p \in Node \ g.free /\ l \in Node \ g.free /\ l \in {g.first[p], g.second[p]}
  BY <1>1 DEF InTree, Sound, Linked, ParentsLinked
<1>3. g.first[p] # NULL /\ g.second[p] # NULL
  BY <1>2, NullAssumption DEF Sound, Linked, ChildrenLinked
<1>4. s \in {g.first[p], g.second[p]} /\ s # NULL
  BY <1>3 DEF Sibling
<1> HIDE DEF s
<1>5. InTree(g, w, s)
  BY <1>1, <1>4, ChildInTree DEF Sound
<1>6. InTree(g, w, FirstLeaf(g, s)) /\ Leaf(g, FirstLeaf(g, s))
  BY <1>5, FirstLeafInTree DEF Sound
<1>7. FirstLeafDepth(g, s) \in Nat
  BY <1>5, FirstLeafDepthType DEF Sound, InTree
<1> QED BY <1>6, <1>7 DEF PositionWalks, s

(* In every run the leaf to split, the node to restore next to and the leaf *)
(* a position is saved from are found in the tree they are looked for in.   *)
THEOREM WalksAlwaysStayInTree == Spec => []WalksStayInTree
<1>1. ASSUME TreeInv PROVE WalksStayInTree
  <2>1. Sound(bsp) /\ Reached(bsp) /\ TypeInv
    BY <1>1 DEF TreeInv, AllOwned, Owned
  <2>2. \A w \in Workspace, f \in Window \cup {NULL} : InsertWalks(bsp, w, f)
    BY <2>1, InsertTargetInTree
  <2>3. \A w \in Workspace, t \in Window :
          CanRestore(bsp, w, saved[t]) => RestoreWalks(bsp, w, saved[t])
    <3> SUFFICES ASSUME NEW w \in Workspace, NEW t \in Window,
                        CanRestore(bsp, w, saved[t])
                 PROVE  RestoreWalks(bsp, w, saved[t])
      OBVIOUS
    <3>1. saved[t] \in Position
      BY <2>1 DEF CanRestore, TypeInv, TypeOK
    <3> QED BY <2>1, <3>1, RestoreTargetInTree
  <2>4. ASSUME NEW t \in mapped \ floating,
               FindLeaf(bsp, workspace[t], t) # NULL,
               bsp.parent[FindLeaf(bsp, workspace[t], t)] # NULL
        PROVE  PositionWalks(bsp, workspace[t], FindLeaf(bsp, workspace[t], t))
    <3>1. t \in Window /\ workspace[t] \in Workspace
      BY <2>1, ExistsType DEF TypeInv, TypeOK
    <3>2. InTree(bsp, workspace[t], FindLeaf(bsp, workspace[t], t))
      BY <2>1, <2>4, <3>1, FindLeafInTree DEF Sound
    <3> QED BY <2>1, <2>4, <3>1, <3>2, SiblingWalks
  <2> QED BY <2>2, <2>3, <2>4 DEF WalksStayInTree
<1> QED BY TreeInvHolds, <1>1, PTL

----------------------------------------------------------------------------
(***************************************************************************)
(* The trees implement the sequences of LeafOrder: a proof of the          *)
(* refinement.  The mapping, InOrder, is a recursive function on the trees. *)
(***************************************************************************)

(* y is x with t put in at some place. *)
Inserted(x, y, t) ==
  \E a, b \in Seq(Window \cup {NULL}) : x = a \o b /\ y = a \o <<t>> \o b

(* A window that entered a sequence entered every longer one. *)
LEMMA InsertedLeft ==
  ASSUME NEW x, NEW y, NEW t \in Window, Inserted(x, y, t),
         NEW z \in Seq(Window \cup {NULL})
  PROVE  Inserted(x \o z, y \o z, t)
<1> DEFINE S == Window \cup {NULL}
<1>1. PICK a \in Seq(S), b \in Seq(S) : x = a \o b /\ y = a \o <<t>> \o b
  BY DEF Inserted
<1>2. <<t>> \in Seq(S) /\ z \in Seq(S)
  OBVIOUS
<1> HIDE DEF S
<1>3. b \o z \in Seq(S) /\ a \o <<t>> \in Seq(S)
  BY <1>1, <1>2, ConcatProperties
<1>4. x \o z = a \o (b \o z)
  <2>1. (a \o b) \o z = a \o (b \o z)
    BY <1>2, ConcatAssociative
  <2> QED BY <1>1, <2>1
<1>5. y \o z = a \o <<t>> \o (b \o z)
  <2>1. ((a \o <<t>>) \o b) \o z = (a \o <<t>>) \o (b \o z)
    <3>1. a \o <<t>> \in Seq(S) /\ b \in Seq(S) /\ z \in Seq(S)
      BY <1>2, <1>3
    <3> DEFINE c == a \o <<t>>
    <3> HIDE DEF c
    <3>2. (c \o b) \o z = c \o (b \o z)
      BY <3>1, ConcatAssociative DEF c
    <3> QED BY <3>2 DEF c
  <2> QED BY <1>1, <2>1
<1> QED BY <1>3, <1>4, <1>5 DEF Inserted, S

(* The same with the longer sequence put in front. *)
LEMMA InsertedRight ==
  ASSUME NEW x, NEW y, NEW t \in Window, Inserted(x, y, t),
         NEW z \in Seq(Window \cup {NULL})
  PROVE  Inserted(z \o x, z \o y, t)
<1> DEFINE S == Window \cup {NULL}
<1>1. PICK a \in Seq(S), b \in Seq(S) : x = a \o b /\ y = a \o <<t>> \o b
  BY DEF Inserted
<1>2. <<t>> \in Seq(S) /\ z \in Seq(S)
  OBVIOUS
<1> HIDE DEF S
<1>3. z \o a \in Seq(S) /\ a \o <<t>> \in Seq(S)
  BY <1>1, <1>2, ConcatProperties
<1>4. z \o x = (z \o a) \o b
  <2>1. (z \o a) \o b = z \o (a \o b)
    BY <1>2, ConcatAssociative
  <2> QED BY <1>1, <2>1
<1>5. z \o (a \o <<t>>) = (z \o a) \o <<t>>
  BY <1>2, ConcatAssociative
<1>6. z \o y = (z \o a) \o <<t>> \o b
  <2>1. (z \o (a \o <<t>>)) \o b = z \o ((a \o <<t>>) \o b)
    BY <1>2, <1>3, ConcatAssociative
  <2> QED BY <1>1, <1>5, <2>1
<1> QED BY <1>1, <1>3, <1>4, <1>6 DEF Inserted, S

(* A window put before or after a whole sequence entered it. *)
LEMMA InsertedNext ==
  ASSUME NEW x \in Seq(Window \cup {NULL}), NEW t \in Window
  PROVE  Inserted(x, x \o <<t>>, t) /\ Inserted(x, <<t>> \o x, t)
<1> DEFINE S == Window \cup {NULL}
<1>1. <<t>> \in Seq(S) /\ << >> \in Seq(S)
  OBVIOUS
<1> HIDE DEF S
<1>2. x \in Seq(S)
  BY DEF S
<1>3. x \o << >> = x /\ << >> \o x = x /\ << >> \o <<t>> = <<t>>
  BY <1>1, <1>2, ConcatEmptySeq
<1>4. x \o <<t>> \in Seq(S) /\ <<t>> \o x \in Seq(S)
  BY <1>1, <1>2, ConcatProperties
<1>5. x \o <<t>> \o << >> = x \o <<t>>
  BY <1>1, <1>4, ConcatEmptySeq
<1> QED BY <1>1, <1>2, <1>3, <1>5 DEF Inserted, S

(* The two parts a concatenation was made of. *)
LEMMA ConcatParts ==
  ASSUME NEW S, NEW s \in Seq(S), NEW t \in Seq(S)
  PROVE  /\ SubSeq(s \o t, 1, Len(s)) = s
         /\ SubSeq(s \o t, Len(s) + 1, Len(s) + Len(t)) = t
<1> DEFINE m == Len(s)
           n == Len(t)
           st == s \o t
<1>1. m \in Nat /\ n \in Nat /\ st \in Seq(S) /\ Len(st) = m + n
  BY ConcatProperties, LenProperties
<1>2. \A i \in 1 .. m + n : st[i] = IF i <= m THEN s[i] ELSE t[i - m]
  BY ConcatProperties
<1>3. \A i \in 1 .. m + n : st[i] \in S
  BY <1>1, ElementOfSeq
<1> HIDE DEF st, m, n
<1>4. SubSeq(st, 1, m) = s
  <2> DEFINE u == SubSeq(st, 1, m)
  <2>1. \A i \in 1 .. m : st[i] \in S
    BY <1>1, <1>3
  <2>2. u \in Seq(S) /\ Len(u) = (IF 1 <= m THEN m - 1 + 1 ELSE 0)
        /\ \A i \in 1 .. m - 1 + 1 : u[i] = st[1 + i - 1]
    BY <1>1, <2>1, SubSeqProperties
  <2>3. Len(u) = Len(s) /\ \A i \in 1 .. Len(u) : u[i] = s[i]
    BY <1>1, <1>2, <2>2 DEF m
  <2> HIDE DEF u
  <2> QED BY <2>2, <2>3, SeqEqual DEF u
<1>5. SubSeq(st, m + 1, m + n) = t
  <2> DEFINE u == SubSeq(st, m + 1, m + n)
  <2>1. \A i \in m + 1 .. m + n : st[i] \in S
    BY <1>1, <1>3
  <2>2. u \in Seq(S) /\ Len(u) = (IF m + 1 <= m + n THEN (m + n) - (m + 1) + 1 ELSE 0)
        /\ \A i \in 1 .. (m + n) - (m + 1) + 1 : u[i] = st[(m + 1) + i - 1]
    BY <1>1, <2>1, SubSeqProperties
  <2> HIDE DEF u
  <2>3. Len(u) = n
    BY <1>1, <2>2
  <2>4. \A i \in 1 .. n : u[i] = t[i]
    <3> SUFFICES ASSUME NEW i \in 1 .. n PROVE u[i] = t[i]
      OBVIOUS
    <3> DEFINE j == m + i
    <3>1. /\ (m + 1) + i - 1 = j /\ j \in 1 .. m + n /\ ~ (j <= m)
          /\ j - m = i /\ i \in 1 .. (m + n) - (m + 1) + 1
      BY <1>1
    <3> HIDE DEF j
    <3>2. u[i] = st[j]
      BY <2>2, <3>1
    <3>3. st[j] = t[j - m]
      BY <1>2, <3>1
    <3> QED BY <3>1, <3>2, <3>3
  <2> QED BY <2>2, <2>3, <2>4, SeqEqual DEF u, n
<1> QED BY <1>4, <1>5 DEF st, m, n

(* The ways LeafOrder says that y is x with t. *)
PutIn(x, y, t) ==
  \E k \in 1 .. Len(x) + 1 : y = SubSeq(x, 1, k - 1) \o <<t>> \o SubSeq(x, k, Len(x))
TakenOut(x, y, t) ==
  \E k \in DOMAIN y : y[k] = t /\ x = SubSeq(y, 1, k - 1) \o SubSeq(y, k + 1, Len(y))

(* In the words of LeafOrder. *)
LEMMA InsertedAt ==
  ASSUME NEW x, NEW y, NEW t \in Window, Inserted(x, y, t)
  PROVE  PutIn(x, y, t) /\ TakenOut(x, y, t)
<1> DEFINE S == Window \cup {NULL}
<1>1. PICK a \in Seq(S), b \in Seq(S) : x = a \o b /\ y = a \o <<t>> \o b
  BY DEF Inserted
<1>2. <<t>> \in Seq(S) /\ Len(<<t>>) = 1 /\ <<t>>[1] = t
  OBVIOUS
<1> HIDE DEF S
<1> DEFINE m == Len(a)
           n == Len(b)
           at == a \o <<t>>
           tb == <<t>> \o b
<1>3. /\ m \in Nat /\ n \in Nat /\ at \in Seq(S) /\ Len(at) = m + 1
      /\ at[m + 1] = t /\ tb \in Seq(S) /\ y = a \o tb
  BY <1>1, <1>2, ConcatProperties, LenProperties, ConcatAssociative
<1>4. /\ Len(x) = m + n /\ Len(y) = m + 1 + n /\ x \in Seq(S) /\ y \in Seq(S)
      /\ y[m + 1] = t /\ DOMAIN y = 1 .. Len(y)
  BY <1>1, <1>3, ConcatProperties, LenProperties
<1>5. SubSeq(x, 1, m) = a /\ SubSeq(y, 1, m) = a
  BY <1>1, <1>3, ConcatParts
<1>6. SubSeq(x, m + 1, m + n) = b /\ SubSeq(y, m + 2, m + 1 + n) = b
  <2>1. SubSeq(x, m + 1, m + n) = b
    BY <1>1, ConcatParts
  <2>2. SubSeq(at \o b, Len(at) + 1, Len(at) + n) = b
    BY <1>1, <1>3, ConcatParts
  <2>3. Len(at) + 1 = m + 2 /\ Len(at) + n = m + 1 + n
    BY <1>3
  <2> QED BY <1>1, <2>1, <2>2, <2>3
<1> DEFINE k == m + 1
<1>7. /\ k \in 1 .. Len(x) + 1 /\ k \in DOMAIN y /\ y[k] = t
      /\ k - 1 = m /\ k = m + 1 /\ k + 1 = m + 2
  BY <1>3, <1>4
<1> HIDE DEF k, m, n, at, tb
<1>8. y = SubSeq(x, 1, k - 1) \o <<t>> \o SubSeq(x, k, Len(x))
  <2>1. SubSeq(x, 1, k - 1) = a /\ SubSeq(x, k, Len(x)) = b
    BY <1>4, <1>5, <1>6, <1>7
  <2> QED BY <1>1, <2>1
<1>9. x = SubSeq(y, 1, k - 1) \o SubSeq(y, k + 1, Len(y))
  <2>1. SubSeq(y, 1, k - 1) = a /\ SubSeq(y, k + 1, Len(y)) = b
    BY <1>4, <1>5, <1>6, <1>7
  <2> QED BY <1>1, <2>1
<1>10. PutIn(x, y, t)
  BY <1>7, <1>8 DEF PutIn
<1>11. TakenOut(x, y, t)
  BY <1>7, <1>9 DEF TakenOut
<1> QED BY <1>10, <1>11

----------------------------------------------------------------------------
(* The windows below each node, as bsp_collect_leaves lists them. *)

Below(g) == [n \in Node |-> IF Leaf(g, n) THEN {} ELSE {g.first[n], g.second[n]}]

Collects(f, g) ==
  f = [n \in Node |-> IF Leaf(g, n) THEN <<g.toplevel[n]>>
                      ELSE f[g.first[n]] \o f[g.second[n]]]

Windows(g) == CHOOSE f : Collects(f, g)

Whole(g) == Sound(g) /\ Reached(g)

(* Both children of an inner node are live and point back at it. *)
LEMMA InnerNode ==
  ASSUME NEW g \in Heap, Linked(g), NEW n \in Node, ~ Leaf(g, n)
  PROVE  /\ n \notin g.free
         /\ g.first[n] \in Node \ g.free /\ g.second[n] \in Node \ g.free
         /\ g.first[n] # g.second[n]
         /\ g.parent[g.first[n]] = n /\ g.parent[g.second[n]] = n
BY DEF Heap, Linked, ChildrenLinked, Leaf

(* No tree has a cycle: every way down ends in a leaf. *)
LEMMA TreesEnd ==
  ASSUME NEW g, Whole(g)
  PROVE  Founded(Node, Below(g))
<1> SUFFICES ASSUME NEW B \in SUBSET Node,
                    \A a \in B : \E b \in Below(g)[a] : b \in B, NEW b \in B
             PROVE  FALSE
  BY DEF Founded
<1>0. g \in Heap /\ Linked(g) /\ Reached(g)
  BY DEF Whole, Sound
<1>1. \A a \in B : \E c \in B : ~ Leaf(g, a) /\ c \in {g.first[a], g.second[a]}
  BY DEF Below
<1> DEFINE f == [a \in B |-> CHOOSE c \in B : c \in {g.first[a], g.second[a]}]
<1>2. \A a \in B : f[a] \in B /\ ~ Leaf(g, a) /\ f[a] \in {g.first[a], g.second[a]}
  BY <1>1
<1> HIDE DEF f
<1>3. \A a \in B : a \notin g.free /\ g.parent[f[a]] = a
  BY <1>0, <1>2, InnerNode
<1>4. f \in Injection(B, B)
  <2>1. f \in [B -> B]
    BY <1>2 DEF f
  <2> QED BY <1>3, <2>1 DEF Injection, IsInjective
<1>5. IsFiniteSet(B)
  BY NodeAssumption, FS_Subset
<1>6. f \in Surjection(B, B)
  BY <1>4, <1>5, FS_Injection
<1>7. \A a \in B : \E c \in B : f[c] = a
  BY <1>6 DEF Surjection
<1>8. \A a \in B : g.parent[a] \in B
  BY <1>3, <1>7
<1>9. PICK w \in Workspace : InTree(g, w, b)
  BY <1>0, <1>3 DEF Reached
<1>10. g.root[w] \notin B
  <2>1. g.parent[g.root[w]] = NULL /\ NULL \notin B
    BY <1>0, <1>9, NullAssumption DEF InTree, Linked, RootsLinked
  <2> QED BY <1>8, <2>1
<1> QED BY <1>0, <1>8, <1>9, <1>10, OutOfReach

(* What the recursion of bsp_collect_leaves returns for each node. *)
LEMMA WindowsOf ==
  ASSUME NEW g, Whole(g)
  PROVE  /\ Windows(g) \in [Node -> Seq(Window \cup {NULL})]
         /\ \A n \in Node : Leaf(g, n) => Windows(g)[n] = <<g.toplevel[n]>>
         /\ \A n \in Node : ~ Leaf(g, n) =>
              Windows(g)[n] = Windows(g)[g.first[n]] \o Windows(g)[g.second[n]]
<1> DEFINE S == Window \cup {NULL}
           b == Below(g)
           step == [n \in Node |-> [v \in [b[n] -> Seq(S)] |->
             IF Leaf(g, n) THEN <<g.toplevel[n]>> ELSE v[g.first[n]] \o v[g.second[n]]]]
<1>0. g \in Heap /\ Linked(g)
  BY DEF Whole, Sound
<1>1. Founded(Node, b)
  BY TreesEnd
<1>2. \A n \in Node : b[n] = IF Leaf(g, n) THEN {} ELSE {g.first[n], g.second[n]}
  BY DEF Below
<1>3. \A n \in Node : \A v \in [b[n] -> Seq(S)] :
        step[n][v] = IF Leaf(g, n) THEN <<g.toplevel[n]>>
                     ELSE v[g.first[n]] \o v[g.second[n]]
  OBVIOUS
<1>4. \A n \in Node : b[n] \subseteq Node
  <2> SUFFICES ASSUME NEW n \in Node, ~ Leaf(g, n) PROVE b[n] \subseteq Node
    BY <1>2
  <2>1. g.first[n] \in Node /\ g.second[n] \in Node
    BY <1>0, InnerNode
  <2> HIDE DEF b
  <2> QED BY <1>2, <2>1
<1>5. \A n \in Node : <<g.toplevel[n]>> \in Seq(S)
  BY <1>0 DEF Heap
<1> HIDE DEF b, step, S
<1>6. ASSUME NEW n \in Node, NEW v \in [b[n] -> Seq(S)]
      PROVE  step[n][v] \in Seq(S)
  <2>1. CASE Leaf(g, n)
    BY <1>3, <1>5, <2>1
  <2>2. CASE ~ Leaf(g, n)
    <3>1. v[g.first[n]] \in Seq(S) /\ v[g.second[n]] \in Seq(S)
      BY <1>2, <2>2
    <3>2. step[n][v] = v[g.first[n]] \o v[g.second[n]]
      BY <1>3, <2>2
    <3> QED BY <3>1, <3>2, ConcatProperties
  <2> QED BY <2>1, <2>2
<1>7. PICK f \in [Node -> Seq(S)] : Obeys(f, Node, b, step)
  BY <1>1, <1>4, <1>6, TreeRecursion
<1>8. \A n \in Node : f[n] = IF Leaf(g, n) THEN <<g.toplevel[n]>>
                             ELSE f[g.first[n]] \o f[g.second[n]]
  <2> SUFFICES ASSUME NEW n \in Node
               PROVE  f[n] = IF Leaf(g, n) THEN <<g.toplevel[n]>>
                             ELSE f[g.first[n]] \o f[g.second[n]]
    OBVIOUS
  <2> DEFINE v == [m \in b[n] |-> f[m]]
  <2>1. v \in [b[n] -> Seq(S)] /\ f[n] = step[n][v]
    BY <1>4, <1>7 DEF Obeys
  <2>2. ~ Leaf(g, n) => v[g.first[n]] = f[g.first[n]] /\ v[g.second[n]] = f[g.second[n]]
    BY <1>2
  <2> HIDE DEF v
  <2> QED BY <1>3, <2>1, <2>2
<1>9. Collects(f, g)
  BY <1>7, <1>8 DEF Collects
<1> DEFINE h == Windows(g)
<1>10. Collects(h, g)
  BY <1>9 DEF Windows
<1> HIDE DEF h
<1>11. \A n \in Node : h[n] = IF Leaf(g, n) THEN <<g.toplevel[n]>>
                              ELSE h[g.first[n]] \o h[g.second[n]]
  BY <1>10 DEF Collects
<1>12. DOMAIN h = Node
  BY <1>10 DEF Collects
<1>13. \A n \in Node : h[n] \in Seq(S)
  <2> DEFINE B == {n \in Node : h[n] \notin Seq(S)}
  <2>1. \A a \in B : \E c \in b[a] : c \in B
    <3> SUFFICES ASSUME NEW a \in Node, \A c \in b[a] : h[c] \in Seq(S)
                 PROVE  h[a] \in Seq(S)
      BY <1>4
    <3>1. CASE Leaf(g, a)
      BY <1>5, <1>11, <3>1
    <3>2. CASE ~ Leaf(g, a)
      <4>1. h[g.first[a]] \in Seq(S) /\ h[g.second[a]] \in Seq(S)
        BY <1>2, <3>2
      <4>2. h[g.first[a]] \o h[g.second[a]] \in Seq(S)
        BY <4>1, ConcatProperties
      <4>3. h[a] = h[g.first[a]] \o h[g.second[a]]
        BY <1>11, <3>2
      <4> QED BY <4>2, <4>3
    <3> QED BY <3>1, <3>2
  <2>2. B \in SUBSET Node
    OBVIOUS
  <2> HIDE DEF B
  <2>3. B = {}
    BY <1>1, <2>1, <2>2 DEF Founded
  <2> QED BY <2>3 DEF B
<1>14. h \in [Node -> Seq(S)]
  <2>1. h = [n \in Node |-> h[n]]
    BY <1>10, <1>12 DEF Collects
  <2> QED BY <1>13, <2>1
<1> QED BY <1>11, <1>14 DEF h, S

(* bsp_collect_leaves starts at the root of a workspace. *)
LEMMA InOrderOf ==
  ASSUME NEW g, NEW w
  PROVE  InOrder(g, w) = IF g.root[w] = NULL THEN << >> ELSE Windows(g)[g.root[w]]
BY DEF InOrder, Windows, Collects
----------------------------------------------------------------------------
(* The way up from a node: WalkMeets(g, s, n) says that n is on it. *)

(* A walk that meets a node goes on to its parent. *)
LEMMA WalkUp ==
  ASSUME NEW g, NEW s, NEW n \in Node, WalkMeets(g, s, n), g.parent[n] # NULL
  PROVE  WalkMeets(g, s, g.parent[n])
BY DEF WalkMeets

(* A walk that does not meet its goal at once meets it from the parent. *)
LEMMA WalkOn ==
  ASSUME NEW g \in Heap, NEW s \in Node, NEW n, WalkMeets(g, s, n), s # n
  PROVE  g.parent[s] \in Node /\ WalkMeets(g, g.parent[s], n)
<1>1. g.parent[s] # NULL
  <2> SUFFICES ASSUME g.parent[s] = NULL PROVE FALSE
    OBVIOUS
  <2>1. {s} \in SUBSET (Node \ {n})
    OBVIOUS
  <2> QED BY <2>1 DEF WalkMeets
<1>2. g.parent[s] \in Node
  BY <1>1 DEF Heap
<1>3. ASSUME NEW S \in SUBSET (Node \ {n}), g.parent[s] \in S,
             \A m \in S : g.parent[m] \in S \cup {NULL}
      PROVE  FALSE
  <2>1. S \cup {s} \in SUBSET (Node \ {n})
    OBVIOUS
  <2>2. \A m \in S \cup {s} : g.parent[m] \in (S \cup {s}) \cup {NULL}
    BY <1>3
  <2> QED BY <2>1, <2>2 DEF WalkMeets
<1> QED BY <1>2, <1>3 DEF WalkMeets

(* A walk up never leaves the tree it started in. *)
LEMMA WalkWithin ==
  ASSUME NEW g \in Heap, Linked(g), NEW w \in Workspace, NEW s, InTree(g, w, s),
         NEW n \in Node, WalkMeets(g, s, n)
  PROVE  InTree(g, w, n)
<1> DEFINE S == {m \in Node : InTree(g, w, m)}
<1>1. s \in S /\ \A m \in S : g.parent[m] \in S \cup {NULL}
  BY ParentInTree DEF InTree, Heap
<1> HIDE DEF S
<1>2. ASSUME n \notin S PROVE FALSE
  <2>1. S \in SUBSET (Node \ {n})
    BY <1>2 DEF S
  <2> QED BY <1>1, <2>1 DEF WalkMeets
<1> QED BY <1>2 DEF S

(* The walk up from a node of a tree ends at its root. *)
LEMMA WalkToRoot ==
  ASSUME NEW g \in Heap, Linked(g), NEW w \in Workspace, NEW s, InTree(g, w, s)
  PROVE  WalkMeets(g, s, g.root[w])
BY OutOfReach DEF WalkMeets

(* The walk up from a parent does not come back to the child. *)
LEMMA NoWayBack ==
  ASSUME NEW g \in Heap, Linked(g), NEW w \in Workspace, NEW m, InTree(g, w, m),
         g.parent[m] # NULL
  PROVE  ~ WalkMeets(g, g.parent[m], m)
<1> SUFFICES ASSUME WalkMeets(g, g.parent[m], m) PROVE FALSE
  OBVIOUS
<1> DEFINE p == g.parent[m]
           B == {x \in Node : WalkMeets(g, x, m) /\ WalkMeets(g, p, x)}
<1>1. m \in Node /\ p \in Node
  BY DEF InTree, Heap
<1>2. WalkMeets(g, p, p) /\ WalkMeets(g, m, m)
  BY DEF WalkMeets
<1> HIDE DEF p
<1>3. ASSUME NEW x \in B PROVE g.parent[x] \in B
  <2>1. CASE x = m
    BY <1>1, <1>2, <2>1 DEF p
  <2>2. CASE x # m
    <3>1. g.parent[x] \in Node /\ WalkMeets(g, g.parent[x], m)
      BY <2>2, WalkOn
    <3>2. WalkMeets(g, p, g.parent[x])
      BY <3>1, NullAssumption, WalkUp
    <3> QED BY <3>1, <3>2
  <2> QED BY <2>1, <2>2
<1>4. m \in B
  BY <1>1, <1>2 DEF p
<1>5. g.root[w] \notin B
  <2>1. g.parent[g.root[w]] = NULL /\ NULL \notin B
    BY NullAssumption DEF InTree, Linked, RootsLinked
  <2> QED BY <1>3, <2>1
<1> HIDE DEF B
<1> QED BY <1>3, <1>4, <1>5, OutOfReach

(* A walk up passes through one of two siblings only. *)
LEMMA SiblingsApart ==
  ASSUME NEW g \in Heap, Linked(g), NEW w \in Workspace, NEW s, InTree(g, w, s),
         NEW c \in Node, NEW d \in Node, c # d,
         g.parent[c] # NULL, g.parent[c] = g.parent[d], WalkMeets(g, s, c)
  PROVE  ~ WalkMeets(g, s, d)
<1> SUFFICES ASSUME WalkMeets(g, s, d) PROVE FALSE
  OBVIOUS
<1>1. InTree(g, w, c) /\ InTree(g, w, d) /\ s \in Node
  BY WalkWithin DEF InTree
<1>2. ~ WalkMeets(g, g.parent[c], c) /\ ~ WalkMeets(g, g.parent[d], d)
  BY <1>1, NoWayBack
<1> DEFINE B == {x \in Node : WalkMeets(g, x, c) /\ WalkMeets(g, x, d)}
<1>3. c \notin B /\ d \notin B
  BY <1>2, WalkOn
<1>4. \A x \in B : g.parent[x] \in B
  BY <1>3, WalkOn
<1>5. g.root[w] \notin B
  <2>1. g.parent[g.root[w]] = NULL /\ NULL \notin B
    BY NullAssumption DEF InTree, Linked, RootsLinked
  <2> QED BY <1>4, <2>1
<1>6. s \in B
  BY <1>1
<1> HIDE DEF B
<1> QED BY <1>4, <1>5, <1>6, OutOfReach

(* A walk up to an inner node comes through one of its children. *)
LEMMA WalkThroughChild ==
  ASSUME NEW g \in Heap, Linked(g), NEW w \in Workspace, NEW s, InTree(g, w, s),
         NEW n \in Node, n # s, WalkMeets(g, s, n)
  PROVE  /\ ~ Leaf(g, n)
         /\ \E c \in {g.first[n], g.second[n]} : WalkMeets(g, s, c)
<1> DEFINE S == {m \in Node : WalkMeets(g, s, m)} \ {n}
<1>1. s \in S
  BY DEF WalkMeets, InTree
<1>2. PICK m \in S : g.parent[m] \notin S \cup {NULL}
  <2>1. S \in SUBSET (Node \ {n})
    OBVIOUS
  <2> HIDE DEF S
  <2> QED BY <1>1, <2>1 DEF WalkMeets
<1>3. m \in Node /\ WalkMeets(g, s, m) /\ g.parent[m] \in Node /\ g.parent[m] # NULL
  BY <1>2, NullAssumption DEF Heap
<1>4. WalkMeets(g, s, g.parent[m])
  BY <1>3, WalkUp
<1>5. g.parent[m] = n
  BY <1>2, <1>3, <1>4
<1>6. m \in Node \ g.free
  BY <1>3, WalkWithin DEF InTree
<1>7. m \in {g.first[n], g.second[n]} /\ n \in Node \ g.free
  BY <1>3, <1>5, <1>6 DEF Linked, ParentsLinked
<1>8. g.first[n] # NULL
  BY <1>3, <1>7, NullAssumption DEF Linked, ChildrenLinked
<1> QED BY <1>3, <1>7, <1>8 DEF Leaf
----------------------------------------------------------------------------
(* Putting in a leaf. *)

(* h is g with a leaf n for t spliced in next to s, under the inner node i; *)
(* read backwards, g is h with that leaf taken out.                         *)
Extends(g, h, w, s, n, i, t) ==
  LET p == g.parent[s] IN
  /\ \A v \in Workspace : h.root[v] = IF v = w /\ p = NULL THEN i ELSE g.root[v]
  /\ \A m \in Node \ g.free :
       /\ h.toplevel[m] = g.toplevel[m]
       /\ h.first[m] = IF m = p /\ g.first[m] = s THEN i ELSE g.first[m]
       /\ h.second[m] = IF m = p /\ g.first[m] # s THEN i ELSE g.second[m]
  /\ \/ h.first[i] = s /\ h.second[i] = n
     \/ h.first[i] = n /\ h.second[i] = s
  /\ h.first[n] = NULL /\ h.toplevel[n] = t

(* A leaf spliced in next to any node s enters the order of its workspace:  *)
(* each node above s collects its old windows and the new one among them.   *)
LEMMA OrderExtends ==
  ASSUME NEW g, Whole(g), NEW h, Whole(h), NEW w \in Workspace,
         NEW s, InTree(g, w, s), NEW n \in g.free, NEW i \in g.free,
         NEW t \in Window, Extends(g, h, w, s, n, i, t)
  PROVE  /\ Inserted(InOrder(g, w), InOrder(h, w), t)
         /\ \A v \in Workspace \ {w} : InOrder(h, v) = InOrder(g, v)
<1> DEFINE p == g.parent[s]
           W == Windows(g)
           X == Windows(h)
           S == Window \cup {NULL}
           On(m) == WalkMeets(g, s, m)
           Q(m) == IF On(m) /\ m # s THEN Inserted(W[m], X[m], t) ELSE X[m] = W[m]
           B == {m \in Node \ g.free : ~ Q(m)}
<1>0. /\ g \in Heap /\ Linked(g) /\ h \in Heap /\ Linked(h)
      /\ n \in Node /\ i \in Node /\ s \in Node \ g.free /\ NULL \notin Node
      /\ p \in Node \cup {NULL}
  BY NullAssumption DEF Whole, Sound, Heap, InTree
<1>1. /\ W \in [Node -> Seq(S)]
      /\ \A m \in Node : Leaf(g, m) => W[m] = <<g.toplevel[m]>>
      /\ \A m \in Node : ~ Leaf(g, m) => W[m] = W[g.first[m]] \o W[g.second[m]]
  BY WindowsOf
<1>2. /\ X \in [Node -> Seq(S)]
      /\ \A m \in Node : Leaf(h, m) => X[m] = <<h.toplevel[m]>>
      /\ \A m \in Node : ~ Leaf(h, m) => X[m] = X[h.first[m]] \o X[h.second[m]]
  BY WindowsOf
<1> HIDE DEF W, X, Q, On, S
<1>3. On(s) /\ (p # NULL => On(p) /\ InTree(g, w, p) /\ p # s)
  BY <1>0, WalkUp, ParentInTree, NoShortCycle DEF On, WalkMeets
<1>4. X[i] = X[s] \o <<t>> \/ X[i] = <<t>> \o X[s]
  <2>1. ~ Leaf(h, i) /\ Leaf(h, n) /\ X[n] = <<t>>
    BY <1>0, <1>2 DEF Leaf, Extends
  <2>2. X[i] = X[h.first[i]] \o X[h.second[i]]
    BY <1>0, <1>2, <2>1
  <2>3. \/ h.first[i] = s /\ h.second[i] = n
        \/ h.first[i] = n /\ h.second[i] = s
    BY DEF Extends
  <2>4. CASE h.first[i] = s /\ h.second[i] = n
    BY <2>1, <2>2, <2>4
  <2>5. CASE h.first[i] = n /\ h.second[i] = s
    BY <2>1, <2>2, <2>5
  <2> QED BY <2>3, <2>4, <2>5
<1>5. ASSUME NEW m \in Node \ g.free, Leaf(g, m) PROVE Q(m)
  <2>1. ~ (On(m) /\ m # s)
    BY <1>0, <1>5, WalkThroughChild DEF On
  <2>2. m # p
    <3> SUFFICES ASSUME m = p PROVE FALSE
      OBVIOUS
    <3>1. p # NULL /\ s \in {g.first[p], g.second[p]}
      BY <1>0 DEF Linked, ParentsLinked
    <3> QED BY <1>0, <1>5, <3>1 DEF Linked, ChildrenLinked, Leaf
  <2>3. Leaf(h, m) /\ h.toplevel[m] = g.toplevel[m]
    BY <1>5, <2>2 DEF Leaf, Extends
  <2> QED BY <1>1, <1>2, <1>5, <2>1, <2>3 DEF Q
<1>6. ASSUME NEW m \in Node \ g.free, ~ Leaf(g, m), Q(g.first[m]), Q(g.second[m])
      PROVE  Q(m)
  <2> DEFINE c == g.first[m]
             d == g.second[m]
  <2>1. /\ c \in Node \ g.free /\ d \in Node \ g.free /\ c # d
        /\ g.parent[c] = m /\ g.parent[d] = m /\ m # NULL
    BY <1>0, <1>6, InnerNode
  <2>2. W[m] = W[c] \o W[d] /\ W[c] \in Seq(S) /\ W[d] \in Seq(S)
        /\ X[c] \in Seq(S) /\ X[d] \in Seq(S)
    BY <1>1, <1>2, <1>6, <2>1
  <2>3. (On(c) \/ On(d)) => On(m)
    BY <2>1, WalkUp DEF On
  <2>4. ~ (On(c) /\ On(d))
    BY <1>0, <2>1, SiblingsApart DEF On
  <2>5. m = s => ~ On(c) /\ ~ On(d)
    <3> SUFFICES ASSUME m = s, NEW e \in {c, d}, On(e) PROVE FALSE
      OBVIOUS
    <3>1. InTree(g, w, e) /\ g.parent[e] = s /\ s # NULL
      BY <1>0, <2>1, WalkWithin DEF On
    <3>2. ~ WalkMeets(g, s, e)
      BY <1>0, <3>1, NoWayBack
    <3> QED BY <3>2 DEF On
  <2>6. On(m) /\ m # s => On(c) \/ On(d)
    BY <1>0, WalkThroughChild DEF On
  <2>7. Q(c) /\ Q(d)
    BY <1>6
  <2>8. CASE m = p
    <3>1. /\ p # NULL /\ On(m) /\ m # s /\ s \in {c, d}
      BY <1>0, <1>3, <2>1, <2>8 DEF Linked, ParentsLinked
    <3>2. X[s] = W[s] /\ W[s] \in Seq(S)
      BY <1>0, <1>1, <2>7, <3>1 DEF Q
    <3>3. Inserted(W[s], X[i], t)
      BY <1>4, <3>2, InsertedNext DEF S
    <3>4. CASE s = c
      <4>1. h.first[m] = i /\ h.second[m] = d
        BY <2>8, <3>4 DEF Extends
      <4>2. ~ Leaf(h, m)
        BY <1>0, <4>1 DEF Leaf
      <4>3. X[m] = X[i] \o X[d]
        BY <1>2, <4>1, <4>2
      <4>4. ~ On(d)
        BY <1>3, <2>4, <3>4
      <4>5. X[d] = W[d]
        BY <2>7, <4>4 DEF Q
      <4>6. Inserted(W[s] \o W[d], X[i] \o W[d], t)
        BY <2>2, <3>3, InsertedLeft DEF S
      <4> QED BY <2>2, <3>1, <3>4, <4>3, <4>5, <4>6 DEF Q
    <3>5. CASE s = d
      <4>1. h.first[m] = c /\ h.second[m] = i
        BY <2>1, <2>8, <3>5 DEF Extends
      <4>2. ~ Leaf(h, m)
        BY <1>0, <2>1, <4>1 DEF Leaf
      <4>3. X[m] = X[c] \o X[i]
        BY <1>2, <4>1, <4>2
      <4>4. ~ On(c)
        BY <1>3, <2>4, <3>5
      <4>5. X[c] = W[c]
        BY <2>7, <4>4 DEF Q
      <4>6. Inserted(W[c] \o W[s], W[c] \o X[i], t)
        BY <2>2, <3>3, InsertedRight DEF S
      <4> QED BY <2>2, <3>1, <3>5, <4>3, <4>5, <4>6 DEF Q
    <3> QED BY <3>1, <3>4, <3>5
  <2>9. CASE m # p
    <3>1. h.first[m] = c /\ h.second[m] = d
      BY <2>9 DEF Extends
    <3>2. ~ Leaf(h, m)
      BY <1>0, <2>1, <3>1 DEF Leaf
    <3>3. X[m] = X[c] \o X[d]
      BY <1>2, <3>1, <3>2
    <3>4. c # s /\ d # s
      BY <2>1, <2>9
    <3>5. CASE ~ (On(m) /\ m # s)
      <4>1. ~ On(c) /\ ~ On(d)
        BY <2>3, <2>5, <3>5
      <4>2. X[c] = W[c] /\ X[d] = W[d]
        BY <2>7, <4>1 DEF Q
      <4> QED BY <2>2, <3>3, <3>5, <4>2 DEF Q
    <3>6. CASE On(m) /\ m # s /\ On(c)
      <4>1. Inserted(W[c], X[c], t) /\ X[d] = W[d]
        BY <2>4, <2>7, <3>4, <3>6 DEF Q
      <4>2. Inserted(W[c] \o W[d], X[c] \o W[d], t)
        BY <2>2, <4>1, InsertedLeft DEF S
      <4> QED BY <2>2, <3>3, <3>6, <4>1, <4>2 DEF Q
    <3>7. CASE On(m) /\ m # s /\ On(d)
      <4>1. Inserted(W[d], X[d], t) /\ X[c] = W[c]
        BY <2>4, <2>7, <3>4, <3>7 DEF Q
      <4>2. Inserted(W[c] \o W[d], W[c] \o X[d], t)
        BY <2>2, <4>1, InsertedRight DEF S
      <4> QED BY <2>2, <3>3, <3>7, <4>1, <4>2 DEF Q
    <3> QED BY <2>6, <3>5, <3>6, <3>7
  <2> QED BY <2>8, <2>9
<1>7. \A m \in Node \ g.free : Q(m)
  <2>1. \A a \in B : \E b \in Below(g)[a] : b \in B
    <3> SUFFICES ASSUME NEW a \in B PROVE \E b \in Below(g)[a] : b \in B
      OBVIOUS
    <3>1. a \in Node \ g.free /\ ~ Leaf(g, a)
      BY <1>5
    <3>2. g.first[a] \in Node \ g.free /\ g.second[a] \in Node \ g.free
      BY <1>0, <3>1, InnerNode
    <3>3. g.first[a] \in B \/ g.second[a] \in B
      BY <1>6, <3>1, <3>2
    <3> QED BY <3>1, <3>3 DEF Below
  <2>2. B \in SUBSET Node
    OBVIOUS
  <2>3. Founded(Node, Below(g))
    BY TreesEnd
  <2> HIDE DEF B
  <2>4. B = {}
    BY <2>1, <2>2, <2>3 DEF Founded
  <2> QED BY <2>4 DEF B
<1>8. \A v \in Workspace : g.root[v] # NULL => g.root[v] \in Node \ g.free
  BY <1>0 DEF Heap, Linked, RootsLinked
<1>9. \A v \in Workspace : /\ InOrder(g, v) = IF g.root[v] = NULL THEN << >> ELSE W[g.root[v]]
                           /\ InOrder(h, v) = IF h.root[v] = NULL THEN << >> ELSE X[h.root[v]]
  BY InOrderOf DEF W, X
<1>10. Inserted(InOrder(g, w), InOrder(h, w), t)
  <2>1. g.root[w] # NULL /\ On(g.root[w])
    BY <1>0, WalkToRoot DEF InTree, On
  <2>2. CASE p = NULL
    <3>1. g.root[w] = s /\ h.root[w] = i
      BY <1>0, <2>2, RootOfTree DEF Extends
    <3>2. X[s] = W[s] /\ W[s] \in Seq(S)
      BY <1>0, <1>1, <1>7 DEF Q
    <3>3. Inserted(W[s], X[i], t)
      BY <1>4, <3>2, InsertedNext DEF S
    <3> QED BY <1>0, <1>9, <3>1, <3>3
  <2>3. CASE p # NULL
    <3>1. h.root[w] = g.root[w] /\ g.root[w] # s
      BY <1>0, <2>1, <2>3 DEF Extends, Linked, RootsLinked
    <3>2. Inserted(W[g.root[w]], X[g.root[w]], t)
      BY <1>7, <1>8, <2>1, <3>1 DEF Q
    <3> QED BY <1>9, <2>1, <3>1, <3>2
  <2> QED BY <2>2, <2>3
<1>11. ASSUME NEW v \in Workspace \ {w} PROVE InOrder(h, v) = InOrder(g, v)
  <2>1. h.root[v] = g.root[v]
    BY DEF Extends
  <2>2. CASE g.root[v] = NULL
    BY <1>9, <2>1, <2>2
  <2>3. CASE g.root[v] # NULL
    <3>1. ~ On(g.root[v])
      <4> SUFFICES ASSUME On(g.root[v]) PROVE FALSE
        OBVIOUS
      <4>1. InTree(g, w, g.root[v])
        BY <1>0, <1>8, <2>3, WalkWithin DEF On
      <4>2. InTree(g, v, g.root[v])
        BY <1>0, <2>3, RootInTree
      <4> QED BY <1>0, <4>1, <4>2, TreesDisjoint
    <3>2. X[g.root[v]] = W[g.root[v]]
      BY <1>7, <1>8, <2>3, <3>1 DEF Q
    <3> QED BY <1>9, <2>1, <2>3, <3>2
  <2> QED BY <2>2, <2>3
<1> QED BY <1>10, <1>11
----------------------------------------------------------------------------
(* What the operations do to the orders. *)

(* The live nodes of g are in h as they were. *)
SameBelow(g, h) ==
  \A m \in Node \ g.free :
    /\ h.first[m] = g.first[m] /\ h.second[m] = g.second[m]
    /\ h.toplevel[m] = g.toplevel[m]

(* The order of a workspace depends on the nodes of its own tree only. *)
LEMMA TreeSame ==
  ASSUME NEW g, Whole(g), NEW h, Whole(h),
         NEW v \in Workspace, h.root[v] = g.root[v],
         \A m \in Node : InTree(g, v, m) =>
           /\ h.first[m] = g.first[m] /\ h.second[m] = g.second[m]
           /\ h.toplevel[m] = g.toplevel[m]
  PROVE  InOrder(h, v) = InOrder(g, v)
<1> DEFINE W == Windows(g)
           X == Windows(h)
           B == {m \in Node : InTree(g, v, m) /\ X[m] # W[m]}
<1>0. g \in Heap /\ Linked(g)
  BY DEF Whole, Sound
<1>1. /\ \A m \in Node : Leaf(g, m) => W[m] = <<g.toplevel[m]>>
      /\ \A m \in Node : ~ Leaf(g, m) => W[m] = W[g.first[m]] \o W[g.second[m]]
  BY WindowsOf
<1>2. /\ \A m \in Node : Leaf(h, m) => X[m] = <<h.toplevel[m]>>
      /\ \A m \in Node : ~ Leaf(h, m) => X[m] = X[h.first[m]] \o X[h.second[m]]
  BY WindowsOf
<1> HIDE DEF W, X
<1>3. \A a \in B : \E b \in Below(g)[a] : b \in B
  <2> SUFFICES ASSUME NEW a \in Node, InTree(g, v, a), X[a] # W[a]
               PROVE  \E b \in Below(g)[a] : b \in B
    OBVIOUS
  <2>1. ~ Leaf(g, a)
    BY <1>1, <1>2 DEF Leaf
  <2>2. /\ g.first[a] \in Node /\ InTree(g, v, g.first[a])
        /\ g.second[a] \in Node /\ InTree(g, v, g.second[a])
    BY <1>0, <2>1, InnerNode, ChildInTree, NullAssumption
  <2>3. ~ Leaf(h, a) /\ h.first[a] = g.first[a] /\ h.second[a] = g.second[a]
    BY <2>1 DEF Leaf
  <2>4. g.first[a] \in B \/ g.second[a] \in B
    <3>1. W[a] = W[g.first[a]] \o W[g.second[a]]
      BY <1>1, <2>1
    <3>2. X[a] = X[h.first[a]] \o X[h.second[a]]
      BY <1>2, <2>3
    <3>3. X[g.first[a]] # W[g.first[a]] \/ X[g.second[a]] # W[g.second[a]]
      BY <2>3, <3>1, <3>2
    <3> QED BY <2>2, <3>3
  <2>5. Below(g)[a] = {g.first[a], g.second[a]}
    BY <2>1 DEF Below
  <2> QED BY <2>4, <2>5
<1>4. B \in SUBSET Node
  OBVIOUS
<1>5. Founded(Node, Below(g))
  BY TreesEnd
<1> HIDE DEF B
<1>6. B = {}
  BY <1>3, <1>4, <1>5 DEF Founded
<1>7. g.root[v] # NULL => g.root[v] \in Node /\ InTree(g, v, g.root[v])
  BY <1>0, RootInTree DEF Heap
<1> QED BY <1>6, <1>7, InOrderOf DEF B, W, X

(* The same for an edit that leaves all live nodes as they are. *)
LEMMA OrderSame ==
  ASSUME NEW g, Whole(g), NEW h, Whole(h), SameBelow(g, h),
         NEW v \in Workspace, h.root[v] = g.root[v]
  PROVE  InOrder(h, v) = InOrder(g, v)
BY TreeSame DEF SameBelow, InTree

(* The windows of the workspaces before and after: t entered w, or not. *)
Enters(g, h, w, t) ==
  /\ Inserted(InOrder(g, w), InOrder(h, w), t)
  /\ \A v \in Workspace \ {w} : InOrder(h, v) = InOrder(g, v)

Stays(g, h) == \A v \in Workspace : InOrder(h, v) = InOrder(g, v)

(* An edit of the caches changes no order. *)
LEMMA SameTreesStay ==
  ASSUME NEW g, Whole(g), NEW h, Whole(h), SameTrees(g, h)
  PROVE  Stays(g, h)
BY OrderSame DEF SameTrees, SameBelow, Stays

(* An edit of the split directions changes no order. *)
LEMMA SplitStays ==
  ASSUME NEW g, Whole(g), NEW h, Whole(h), NEW sp, h = [g EXCEPT !.split = sp]
  PROVE  Stays(g, h)
<1>1. /\ h.root = g.root /\ h.first = g.first /\ h.second = g.second
      /\ h.toplevel = g.toplevel
  BY DEF Whole, Sound, Heap
<1> QED BY <1>1, OrderSame DEF SameBelow, Stays

(* A tree of one leaf. *)
LEMMA LoneLeaf ==
  ASSUME NEW g, Whole(g), NEW h, Whole(h), SameBelow(g, h), NEW w \in Workspace,
         g.root[w] = NULL, NEW n \in Node, h.root[w] = n, h.first[n] = NULL,
         NEW t \in Window, h.toplevel[n] = t,
         \A v \in Workspace \ {w} : h.root[v] = g.root[v]
  PROVE  Enters(g, h, w, t)
<1>1. InOrder(g, w) = << >>
  BY InOrderOf
<1>2. InOrder(h, w) = <<t>>
  <2>1. Windows(h)[n] = <<t>>
    BY WindowsOf DEF Leaf
  <2> QED BY <2>1, NullAssumption, InOrderOf
<1>3. Inserted(<< >>, << >> \o <<t>>, t)
  <2>1. << >> \in Seq(Window \cup {NULL})
    OBVIOUS
  <2> QED BY <2>1, InsertedNext
<1>4. << >> \o <<t>> = <<t>>
  OBVIOUS
<1>5. \A v \in Workspace \ {w} : InOrder(h, v) = InOrder(g, v)
  BY OrderSame
<1> QED BY <1>1, <1>2, <1>3, <1>4, <1>5 DEF Enters

(* A lookup leaves the trees, and so the orders, as they are. *)
LEMMA LookupWhole ==
  ASSUME NEW g, Whole(g), NEW w \in Workspace, NEW t \in Window \cup {NULL}
  PROVE  /\ Whole(Lookup(g, w, t)) /\ SameTrees(g, Lookup(g, w, t))
         /\ Stays(g, Lookup(g, w, t))
<1>1. Sound(Lookup(g, w, t)) /\ SameTrees(g, Lookup(g, w, t))
  BY LookupKeepsSound DEF Whole
<1>2. Whole(Lookup(g, w, t))
  BY <1>1, SameTreesLinked DEF Whole, Reached, SameTrees
<1> QED BY <1>1, <1>2, SameTreesStay

(* The splice of bsp_insert and bsp_restore puts its window in. *)
LEMMA SpliceEnters ==
  ASSUME NEW g, Whole(g), NEW w \in Workspace, NEW t \in Window, NEW s,
         InTree(g, w, s), NEW n \in g.free, NEW i \in g.free, n # i,
         NEW sp \in Split, NEW b \in BOOLEAN, Whole(Splice(g, w, t, s, n, i, sp, b))
  PROVE  Enters(g, Splice(g, w, t, s, n, i, sp, b), w, t)
<1> DEFINE h == Splice(g, w, t, s, n, i, sp, b)
           p == g.parent[s]
<1>1. /\ g \in Heap /\ Linked(g) /\ n \in Node /\ i \in Node
      /\ s \in Node \ g.free /\ NULL \notin Node
  BY NullAssumption DEF Whole, Sound, Heap, InTree
<1>2. /\ h.root = IF p = NULL THEN [g.root EXCEPT ![w] = i] ELSE g.root
      /\ h.first = [m \in Node |->
            IF m = i THEN (IF b THEN s ELSE n)
            ELSE IF m = p /\ g.first[m] = s THEN i ELSE g.first[m]]
      /\ h.second = [m \in Node |->
            IF m = i THEN (IF b THEN n ELSE s)
            ELSE IF m = p /\ g.first[m] # s THEN i ELSE g.second[m]]
      /\ h.toplevel = [g.toplevel EXCEPT ![n] = t, ![i] = NULL]
  BY <1>1 DEF Splice, Heap
<1> HIDE DEF h, p
<1>3. \A v \in Workspace : h.root[v] = IF v = w /\ p = NULL THEN i ELSE g.root[v]
  BY <1>1, <1>2 DEF Heap
<1>4. \A m \in Node \ g.free :
       /\ h.toplevel[m] = g.toplevel[m]
       /\ h.first[m] = IF m = p /\ g.first[m] = s THEN i ELSE g.first[m]
       /\ h.second[m] = IF m = p /\ g.first[m] # s THEN i ELSE g.second[m]
  BY <1>1, <1>2 DEF Heap
<1>5. \/ h.first[i] = s /\ h.second[i] = n
      \/ h.first[i] = n /\ h.second[i] = s
  BY <1>1, <1>2
<1>6. h.toplevel[n] = t
  BY <1>1, <1>2 DEF Heap
<1>7. h.first[n] = NULL
  <2>1. g.first[n] = NULL
    BY <1>1 DEF Linked, ChildrenLinked
  <2>2. s # NULL
    BY <1>1
  <2> QED BY <1>1, <1>2, <2>1, <2>2
<1>8. Extends(g, h, w, s, n, i, t)
  BY <1>3, <1>4, <1>5, <1>6, <1>7 DEF Extends, p
<1>9. Whole(h)
  BY DEF h
<1> QED BY <1>8, <1>9, OrderExtends DEF Enters, h

(* So does the first leaf of an empty workspace. *)
LEMMA NewRootEnters ==
  ASSUME NEW g, Whole(g), NEW w \in Workspace, g.root[w] = NULL,
         NEW t \in Window, NEW n \in g.free, Whole(NewRoot(g, w, t, n))
  PROVE  Enters(g, NewRoot(g, w, t, n), w, t)
<1> DEFINE h == NewRoot(g, w, t, n)
<1>1. /\ h.root = [g.root EXCEPT ![w] = n]
      /\ h.first = g.first /\ h.second = g.second
      /\ h.toplevel = [g.toplevel EXCEPT ![n] = t]
  BY DEF NewRoot, Whole, Sound, Heap
<1>2. g \in Heap /\ n \in Node /\ h.first[n] = NULL
  BY <1>1 DEF Whole, Sound, Heap, Linked, ChildrenLinked
<1>3. Whole(h)
  OBVIOUS
<1> HIDE DEF h
<1>4. SameBelow(g, h)
  BY <1>1, <1>2 DEF SameBelow, Heap
<1>5. h.root[w] = n /\ \A v \in Workspace \ {w} : h.root[v] = g.root[v]
  BY <1>1, <1>2 DEF Heap
<1>6. h.toplevel[n] = t
  BY <1>1, <1>2 DEF Heap
<1> QED BY <1>2, <1>3, <1>4, <1>5, <1>6, LoneLeaf DEF h

(* A leaf that is given back to the pool leaves no trace in the orders. *)
LEMMA ReturnedStays ==
  ASSUME NEW g, Whole(g), NEW t \in Window, NEW n \in g.free,
         NEW h, h = Returned(g, n, t) \/ h = [Returned(g, n, t) EXCEPT !.bspLeaf[t] = n],
         Whole(h)
  PROVE  Stays(g, h)
<1>1. /\ h.root = g.root /\ h.first = g.first /\ h.second = g.second
      /\ h.toplevel = [g.toplevel EXCEPT ![n] = t]
  BY DEF Returned, Whole, Sound, Heap
<1>2. SameBelow(g, h)
  BY <1>1 DEF SameBelow, Whole, Sound, Heap
<1> QED BY <1>1, <1>2, OrderSame DEF Stays

(* A lookup before an edit does not change what the edit does. *)
LEMMA StaysFirst ==
  ASSUME NEW g, NEW k, NEW h, Stays(g, k), NEW w \in Workspace, NEW t
  PROVE  /\ Stays(k, h) => Stays(g, h)
         /\ Enters(k, h, w, t) => Enters(g, h, w, t)
BY DEF Stays, Enters

(* bsp_insert puts the window into one order or, without nodes, into none. *)
LEMMA InsertEnters ==
  ASSUME NEW g, Whole(g), NEW w \in Workspace, NEW t \in Window,
         NEW f \in Window \cup {NULL}, InsertWalks(g, w, f),
         NEW h \in Inserts(g, w, t, f), Whole(h)
  PROVE  Stays(g, h) \/ Enters(g, h, w, t)
<1> DEFINE k == Lookup(g, w, f)
           s == InsertTarget(g, w, f)
<1>1. PICK sp \in Split, p \in AllocatesTwo(g.free) :
        h = bsp_insert(k, w, t, s, sp, p[1], p[2])
  BY DEF Inserts
<1>2. Whole(k) /\ SameTrees(g, k) /\ Stays(g, k) /\ k.root = g.root /\ k.free = g.free
  BY LookupWhole DEF SameTrees
<1>3. /\ p[1] # NULL => p[1] \in k.free
      /\ p[2] # NULL => p[2] \in k.free \ {p[1]}
  BY <1>2, AllocatesTwoType DEF Whole, Sound, Heap
<1>4. g.root[w] # NULL => InTree(k, w, s)
  BY <1>2, SameTreesLinked DEF InsertWalks
<1> HIDE DEF k, s
<1>5. Stays(k, h) \/ Enters(k, h, w, t)
  <2>1. CASE p[1] = NULL
    BY <1>1, <2>1 DEF bsp_insert, Stays
  <2>2. CASE p[1] # NULL /\ g.root[w] = NULL
    <3>1. h = NewRoot(k, w, t, p[1])
      BY <1>1, <1>2, <2>2 DEF bsp_insert
    <3> QED BY <1>2, <1>3, <2>2, <3>1, NewRootEnters
  <2>3. CASE p[1] # NULL /\ g.root[w] # NULL /\ p[2] = NULL
    <3>1. h = Returned(k, p[1], t)
      BY <1>1, <1>2, <2>3 DEF bsp_insert
    <3> QED BY <1>2, <1>3, <2>3, <3>1, ReturnedStays
  <2>4. CASE p[1] # NULL /\ g.root[w] # NULL /\ p[2] # NULL
    <3>1. h = Splice(k, w, t, s, p[1], p[2], sp, TRUE)
      BY <1>1, <1>2, <2>4 DEF bsp_insert
    <3>2. p[1] \in k.free /\ p[2] \in k.free /\ p[1] # p[2] /\ TRUE \in BOOLEAN
      BY <1>3, <2>4
    <3> QED BY <1>2, <1>4, <2>4, <3>1, <3>2, SpliceEnters
  <2> QED BY <2>1, <2>2, <2>3, <2>4
<1> QED BY <1>2, <1>5, StaysFirst

(* bsp_restore does the same. *)
LEMMA RestoreEnters ==
  ASSUME NEW g, Whole(g), NEW w \in Workspace, NEW t \in Window,
         NEW pos \in Position, RestoreWalks(g, w, pos),
         NEW h \in Restores(g, w, t, pos), Whole(h)
  PROVE  Stays(g, h) \/ Enters(g, h, w, t)
<1> DEFINE k == Lookup(g, w, pos.sibling)
           s == RestoreTarget(g, w, pos)
<1>1. PICK p \in AllocatesTwo(g.free) :
        h = bsp_restore(k, w, t, s, pos, p[1], p[2])
  BY DEF Restores
<1>2. pos.sibling \in Window /\ pos.split \in Split /\ pos.second \in BOOLEAN
  BY DEF Position
<1>3. Whole(k) /\ SameTrees(g, k) /\ Stays(g, k) /\ k.free = g.free
  BY <1>2, LookupWhole DEF SameTrees
<1>4. /\ p[1] # NULL => p[1] \in k.free
      /\ p[2] # NULL => p[2] \in k.free \ {p[1]}
  BY <1>3, AllocatesTwoType DEF Whole, Sound, Heap
<1>5. InTree(k, w, s)
  BY <1>3, SameTreesLinked DEF RestoreWalks
<1> HIDE DEF k, s
<1>6. Stays(k, h) \/ Enters(k, h, w, t)
  <2>1. CASE p[1] = NULL
    BY <1>1, <2>1 DEF bsp_restore, Stays
  <2>2. CASE p[1] # NULL /\ p[2] = NULL
    <3>1. h = [Returned(k, p[1], t) EXCEPT !.bspLeaf[t] = p[1]]
      BY <1>1, <2>2 DEF bsp_restore
    <3> QED BY <1>3, <1>4, <2>2, <3>1, ReturnedStays
  <2>3. CASE p[1] # NULL /\ p[2] # NULL
    <3>1. h = Splice(k, w, t, s, p[1], p[2], pos.split, pos.second)
      BY <1>1, <2>3 DEF bsp_restore
    <3>2. p[1] \in k.free /\ p[2] \in k.free /\ p[1] # p[2]
      BY <1>4, <2>3
    <3> QED BY <1>2, <1>3, <1>5, <3>1, <3>2, SpliceEnters
  <2> QED BY <2>1, <2>2, <2>3
<1> QED BY <1>3, <1>6, StaysFirst

(* bsp_remove takes the window out of one order: the converse of a splice. *)
LEMMA RemoveLeaves ==
  ASSUME NEW g, Whole(g), NEW w \in Workspace, NEW t \in Window,
         Whole(bsp_remove(g, w, t))
  PROVE  Stays(g, bsp_remove(g, w, t)) \/ Enters(bsp_remove(g, w, t), g, w, t)
<1> DEFINE l == FindLeaf(g, w, t)
           p == g.parent[l]
           s == Sibling(g, l)
           above == g.parent[p]
           c == Contract(g, w, l)
           h == bsp_remove(g, w, t)
<1>0. /\ g \in Heap /\ Linked(g) /\ Sound(g) /\ Whole(h) /\ NULL \notin Node
      /\ h \in Heap /\ Linked(h)
  BY NullAssumption DEF Whole, Sound
<1>1. CASE l = NULL
  BY <1>1 DEF bsp_remove, Stays
<1>2. CASE l # NULL
  <2>1. /\ InTree(g, w, l) /\ g.toplevel[l] = t /\ g.first[l] = NULL
        /\ l \in Node \ g.free /\ l # NULL
    BY <1>0, <1>2, FindLeafInTree DEF Sound, Leaf, InTree
  <2>2. h = [c EXCEPT !.bspLeaf[t] = NULL]
    BY <1>2 DEF bsp_remove
  <2>3. CASE p = NULL
    <3>1. g.root[w] = l
      BY <1>0, <2>1, <2>3, RootOfTree
    <3>2. /\ h.root = [g.root EXCEPT ![w] = NULL] /\ h.free = g.free \cup {l}
          /\ h.first = g.first /\ h.second = g.second /\ h.toplevel = g.toplevel
      BY <1>0, <2>2, <2>3 DEF Contract, Heap
    <3> HIDE DEF h, c, p, s, l
    <3>3. SameBelow(h, g)
      BY <3>2 DEF SameBelow
    <3>4. h.root[w] = NULL /\ \A v \in Workspace \ {w} : g.root[v] = h.root[v]
      BY <1>0, <3>2 DEF Heap
    <3>5. Enters(h, g, w, t)
      BY <1>0, <2>1, <3>1, <3>3, <3>4, LoneLeaf
    <3> QED BY <3>5 DEF h
  <2>4. CASE p # NULL
    <3>1. /\ p \in Node \ g.free /\ l \in {g.first[p], g.second[p]}
          /\ InTree(g, w, p)
      <4>1. InTree(g, w, p)
        BY <1>0, <2>1, <2>4, ParentInTree
      <4>2. p \in Node \ g.free /\ l \in {g.first[p], g.second[p]}
        BY <1>0, <2>1, <2>4 DEF Linked, ParentsLinked, Heap
      <4> QED BY <4>1, <4>2
    <3>2. /\ g.first[p] # NULL /\ g.first[p] # g.second[p]
          /\ g.first[p] \in Node \ g.free /\ g.second[p] \in Node \ g.free
          /\ g.parent[g.first[p]] = p /\ g.parent[g.second[p]] = p
      BY <1>0, <2>1, <3>1 DEF Linked, ChildrenLinked, Heap
    <3>3. /\ s \in Node \ g.free /\ s # l /\ g.parent[s] = p
          /\ \/ g.first[p] = s /\ g.second[p] = l
             \/ g.first[p] = l /\ g.second[p] = s
      BY <3>1, <3>2 DEF Sibling
    <3>4. above # p /\ (above = NULL => g.root[w] = p)
          /\ above \in Node \cup {NULL} /\ (above # NULL => p \in {g.first[above], g.second[above]})
      <4>1. above = NULL => g.root[w] = p
        BY <1>0, <3>1, RootOfTree
      <4>2. above # NULL => above # p
        BY <1>0, <3>1, NoShortCycle
      <4>3. p # NULL /\ above \in Node \cup {NULL}
        BY <1>0, <3>1 DEF Heap
      <4>4. above # NULL => p \in {g.first[above], g.second[above]}
        BY <1>0, <3>1 DEF Linked, ParentsLinked
      <4> QED BY <4>1, <4>2, <4>3, <4>4
    <3>5. /\ h.root = IF above = NULL THEN [g.root EXCEPT ![w] = s] ELSE g.root
          /\ h.parent = [g.parent EXCEPT ![s] = above]
          /\ h.first = [q \in Node |-> IF q = p THEN NULL
               ELSE IF q = above /\ g.first[q] = p THEN s ELSE g.first[q]]
          /\ h.second = [q \in Node |-> IF q = p THEN NULL
               ELSE IF q = above /\ g.first[q] # p THEN s ELSE g.second[q]]
          /\ h.free = g.free \cup {p, l} /\ h.toplevel = g.toplevel
      BY <1>0, <2>2, <2>4 DEF Contract, Heap
    <3> HIDE DEF h, c, p, s, l, above
    <3>6. s \in Node \ h.free /\ h.parent[s] = above /\ l \in h.free /\ p \in h.free
      BY <1>0, <2>1, <3>1, <3>3, <3>5, NoShortCycle DEF Heap, l, p
    <3>7. \A v \in Workspace : h.root[v] = IF v = w /\ above = NULL THEN s ELSE g.root[v]
      BY <1>0, <3>5 DEF Heap
    <3>8. \A v \in Workspace : g.root[v] = IF v = w /\ above = NULL THEN p ELSE h.root[v]
      BY <3>4, <3>7
    <3>9. \A m \in Node \ h.free :
            /\ g.toplevel[m] = h.toplevel[m]
            /\ g.first[m] = IF m = above /\ h.first[m] = s THEN p ELSE h.first[m]
            /\ g.second[m] = IF m = above /\ h.first[m] # s THEN p ELSE h.second[m]
      <4> SUFFICES ASSUME NEW m \in Node \ h.free
                   PROVE  /\ g.first[m] = IF m = above /\ h.first[m] = s THEN p ELSE h.first[m]
                          /\ g.second[m] = IF m = above /\ h.first[m] # s THEN p ELSE h.second[m]
        BY <3>5
      <4>1. m # p /\ m \notin g.free
        BY <3>5
      <4>2. g.first[m] # s
        BY <1>0, <3>3, <4>1 DEF Linked, ChildrenLinked
      <4> QED BY <1>0, <3>4, <3>5, <4>1, <4>2
    <3>10. Extends(h, g, w, s, l, p, t)
      BY <2>1, <3>3, <3>6, <3>8, <3>9 DEF Extends
    <3>11. InTree(h, w, s)
      <4>1. InTree(g, w, s)
        BY <1>0, <3>1, <3>3, ChildInTree
      <4>2. Shrunk(g, h, w, t)
        BY <1>0, RemoveShrinks DEF h
      <4> QED BY <3>6, <4>1, <4>2 DEF Shrunk
    <3>12. Enters(h, g, w, t)
      BY <1>0, <3>6, <3>10, <3>11, OrderExtends DEF Enters
    <3> QED BY <3>12 DEF h
  <2> QED BY <2>3, <2>4
<1> QED BY <1>1, <1>2
----------------------------------------------------------------------------
(* What the sequences hold. *)

Joins(s, q, r) == s = q \o r

Lists(q, x) == \E i \in DOMAIN q : q[i] = x

(* A concatenation lists what its two parts list. *)
LEMMA JoinLists ==
  ASSUME NEW S, NEW q \in Seq(S), NEW r \in Seq(S), NEW s, Joins(s, q, r), NEW x
  PROVE  Lists(s, x) <=> Lists(q, x) \/ Lists(r, x)
<1> DEFINE n == Len(q)
           m == Len(r)
<1>1. /\ n \in Nat /\ m \in Nat /\ DOMAIN q = 1 .. n /\ DOMAIN r = 1 .. m
  BY LenProperties
<1>2. /\ s \in Seq(S) /\ Len(s) = n + m
      /\ \A j \in 1 .. n + m : s[j] = IF j <= n THEN q[j] ELSE r[j - n]
  BY ConcatProperties DEF Joins
<1>3. DOMAIN s = 1 .. n + m
  BY <1>2, LenProperties
<1> HIDE DEF n, m
<1>4. ASSUME NEW j \in DOMAIN s, s[j] = x PROVE Lists(q, x) \/ Lists(r, x)
  <2>1. CASE j <= n
    <3>1. j \in 1 .. n
      BY <1>1, <1>3, <1>4, <2>1
    <3> QED BY <1>1, <1>2, <1>3, <1>4, <2>1, <3>1 DEF Lists
  <2>2. CASE ~ (j <= n)
    <3> DEFINE i == j - n
    <3>1. i \in 1 .. m
      BY <1>1, <1>3, <1>4, <2>2
    <3>2. r[i] = x
      BY <1>2, <1>3, <1>4, <2>2
    <3> HIDE DEF i
    <3> QED BY <1>1, <3>1, <3>2 DEF Lists
  <2> QED BY <2>1, <2>2
<1>5. ASSUME NEW i \in DOMAIN q, q[i] = x PROVE Lists(s, x)
  <2>1. i \in 1 .. n + m /\ i <= n
    BY <1>1
  <2> QED BY <1>2, <1>3, <1>5, <2>1 DEF Lists
<1>6. ASSUME NEW i \in DOMAIN r, r[i] = x PROVE Lists(s, x)
  <2> DEFINE j == i + n
  <2>1. j \in 1 .. n + m /\ ~ (j <= n) /\ j - n = i
    BY <1>1
  <2> HIDE DEF j
  <2>2. s[j] = x
    BY <1>2, <1>6, <2>1
  <2> QED BY <1>3, <2>1, <2>2 DEF Lists
<1> QED BY <1>4, <1>5, <1>6 DEF Lists

(* Every window in the order of a workspace is on a leaf of its tree. *)
LEMMA ListedAreLeaves ==
  ASSUME NEW g, Whole(g), NEW v \in Workspace, NEW x, Lists(InOrder(g, v), x)
  PROVE  \E m \in Node : InTree(g, v, m) /\ g.toplevel[m] = x
<1> DEFINE W == Windows(g)
           S == Window \cup {NULL}
           B == {n \in Node : InTree(g, v, n) /\ Lists(W[n], x)}
<1>0. g \in Heap /\ Linked(g)
  BY DEF Whole, Sound
<1>1. /\ W \in [Node -> Seq(S)]
      /\ \A m \in Node : Leaf(g, m) => W[m] = <<g.toplevel[m]>>
      /\ \A m \in Node : ~ Leaf(g, m) => W[m] = W[g.first[m]] \o W[g.second[m]]
  BY WindowsOf
<1> HIDE DEF W
<1> SUFFICES ASSUME ~ \E m \in Node : InTree(g, v, m) /\ g.toplevel[m] = x
             PROVE  FALSE
  OBVIOUS
<1>2. \A a \in B : \E b \in Below(g)[a] : b \in B
  <2> SUFFICES ASSUME NEW a \in Node, InTree(g, v, a), Lists(W[a], x)
               PROVE  \E b \in Below(g)[a] : b \in B
    OBVIOUS
  <2>1. ~ Leaf(g, a)
    <3> SUFFICES ASSUME Leaf(g, a) PROVE FALSE
      OBVIOUS
    <3>1. W[a] = <<g.toplevel[a]>>
      BY <1>1
    <3>2. \A j \in DOMAIN W[a] : W[a][j] = g.toplevel[a]
      BY <3>1
    <3> QED BY <3>2 DEF Lists
  <2> DEFINE c == g.first[a]
             d == g.second[a]
  <2>2. c \in Node /\ InTree(g, v, c) /\ d \in Node /\ InTree(g, v, d)
    BY <1>0, <2>1, InnerNode, ChildInTree, NullAssumption
  <2>3. Below(g)[a] = {c, d}
    BY <2>1 DEF Below
  <2>4. Joins(W[a], W[c], W[d]) /\ W[c] \in Seq(S) /\ W[d] \in Seq(S)
    BY <1>1, <2>1, <2>2 DEF Joins
  <2> HIDE DEF S
  <2>5. Lists(W[c], x) \/ Lists(W[d], x)
    BY <2>4, JoinLists
  <2> QED BY <2>2, <2>3, <2>5
<1>3. B \in SUBSET Node
  OBVIOUS
<1>4. Founded(Node, Below(g))
  BY TreesEnd
<1> HIDE DEF B
<1>5. B = {}
  BY <1>2, <1>3, <1>4 DEF Founded
<1>6. g.root[v] # NULL => g.root[v] \in Node /\ InTree(g, v, g.root[v])
  BY <1>0, RootInTree DEF Heap
<1>7. g.root[v] # NULL
  BY InOrderOf DEF Lists
<1>8. InOrder(g, v) = W[g.root[v]]
  BY <1>7, InOrderOf DEF W
<1> QED BY <1>5, <1>6, <1>7, <1>8 DEF B

(* The window on every leaf of a tree is in the order of its workspace. *)
LEMMA LeavesAreListed ==
  ASSUME NEW g, Whole(g), NEW v \in Workspace, NEW m, InTree(g, v, m), Leaf(g, m)
  PROVE  Lists(InOrder(g, v), g.toplevel[m])
<1> DEFINE W == Windows(g)
           S == Window \cup {NULL}
           x == g.toplevel[m]
           C == {n \in Node : InTree(g, v, n) /\ Lists(W[n], x)}
<1>0. g \in Heap /\ Linked(g) /\ NULL \notin Node
  BY NullAssumption DEF Whole, Sound
<1>1. /\ W \in [Node -> Seq(S)]
      /\ \A n \in Node : Leaf(g, n) => W[n] = <<g.toplevel[n]>>
      /\ \A n \in Node : ~ Leaf(g, n) => W[n] = W[g.first[n]] \o W[g.second[n]]
  BY WindowsOf
<1> HIDE DEF W
<1>2. m \in C
  <2>1. m \in Node
    BY DEF InTree
  <2>2. W[m] = <<x>>
    BY <1>1, <2>1
  <2>3. 1 \in DOMAIN W[m] /\ W[m][1] = x
    BY <2>2
  <2> QED BY <2>1, <2>3 DEF Lists
<1>3. \A n \in C : g.parent[n] \in C \cup {NULL}
  <2> SUFFICES ASSUME NEW n \in C, g.parent[n] # NULL PROVE g.parent[n] \in C
    OBVIOUS
  <2> DEFINE p == g.parent[n]
             c == g.first[p]
             d == g.second[p]
  <2>1. n \in Node \ g.free /\ InTree(g, v, p) /\ p \in Node
    <3>1. InTree(g, v, n)
      OBVIOUS
    <3>2. n \in Node \ g.free
      BY <3>1 DEF InTree
    <3>3. p \in Node
      BY <1>0, <3>2 DEF Heap
    <3> QED BY <1>0, <3>1, <3>2, <3>3, ParentInTree
  <2>2. n \in {c, d} /\ ~ Leaf(g, p)
    BY <1>0, <2>1 DEF Linked, ParentsLinked, ChildrenLinked, Leaf
  <2>3. c \in Node /\ d \in Node
    BY <1>0, <2>1, <2>2, InnerNode
  <2>4. Joins(W[p], W[c], W[d]) /\ W[c] \in Seq(S) /\ W[d] \in Seq(S)
    BY <1>1, <2>1, <2>2, <2>3 DEF Joins
  <2> HIDE DEF c, d, p, S, x
  <2>5. Lists(W[p], x)
    BY <2>2, <2>4, JoinLists
  <2> QED BY <2>1, <2>5 DEF p
<1> HIDE DEF C
<1>4. g.root[v] \in C
  BY <1>0, <1>2, <1>3, OutOfReach
<1>5. InOrder(g, v) = W[g.root[v]]
  BY InOrderOf DEF W, InTree
<1> QED BY <1>4, <1>5 DEF C

----------------------------------------------------------------------------
(* Trading two windows. *)

Traded(q, t, u) ==
  [k \in DOMAIN q |-> IF q[k] = t THEN u ELSE IF q[k] = u THEN t ELSE q[k]]

(* Trading two windows in a concatenation trades them in both parts. *)
LEMMA TradedConcat ==
  ASSUME NEW S, NEW q \in Seq(S), NEW r \in Seq(S), NEW s, Joins(s, q, r),
         NEW t \in S, NEW u \in S
  PROVE  Traded(s, t, u) = Traded(q, t, u) \o Traded(r, t, u)
<1> DEFINE F(x) == IF x = t THEN u ELSE IF x = u THEN t ELSE x
<1>1. \A x \in S : F(x) \in S
  OBVIOUS
<1>2. ASSUME NEW z \in Seq(S)
      PROVE  /\ Traded(z, t, u) \in Seq(S) /\ Len(Traded(z, t, u)) = Len(z)
             /\ Len(z) \in Nat
             /\ \A k \in 1 .. Len(z) : Traded(z, t, u)[k] = F(z[k])
  <2>1. Len(z) \in Nat /\ DOMAIN z = 1 .. Len(z) /\ \A k \in 1 .. Len(z) : z[k] \in S
    BY LenProperties, ElementOfSeq
  <2>2. Traded(z, t, u) = [k \in 1 .. Len(z) |-> F(z[k])]
    BY <2>1 DEF Traded
  <2>3. \A k \in 1 .. Len(z) : F(z[k]) \in S
    BY <1>1, <2>1
  <2> HIDE DEF F
  <2>4. Traded(z, t, u) \in [1 .. Len(z) -> S]
    BY <2>2, <2>3
  <2> QED BY <2>1, <2>2, <2>4
<1> HIDE DEF F
<1> DEFINE n == Len(q)
           m == Len(r)
           a == Traded(q, t, u)
           b == Traded(r, t, u)
           c == Traded(s, t, u)
<1>3. /\ s \in Seq(S) /\ Len(s) = n + m /\ n \in Nat /\ m \in Nat
      /\ \A k \in 1 .. n + m : s[k] = IF k <= n THEN q[k] ELSE r[k - n]
  BY ConcatProperties, LenProperties DEF Joins
<1>4. /\ a \in Seq(S) /\ Len(a) = n /\ \A k \in 1 .. n : a[k] = F(q[k])
      /\ b \in Seq(S) /\ Len(b) = m /\ \A k \in 1 .. m : b[k] = F(r[k])
      /\ c \in Seq(S) /\ Len(c) = n + m
      /\ \A k \in 1 .. n + m : c[k] = F(s[k])
  BY <1>2, <1>3
<1>5. /\ a \o b \in Seq(S) /\ Len(a \o b) = n + m
      /\ \A k \in 1 .. n + m : (a \o b)[k] = IF k <= n THEN a[k] ELSE b[k - n]
  <2>1. a \in Seq(S) /\ b \in Seq(S)
    BY <1>4
  <2>2. Len(a) = n /\ Len(b) = m
    BY <1>4
  <2> HIDE DEF a, b, n, m
  <2> QED BY <2>1, <2>2, ConcatProperties
<1> DEFINE ab == a \o b
<1> HIDE DEF a, b, c, n, m
<1>6. \A k \in 1 .. n + m : c[k] = ab[k]
  <2> SUFFICES ASSUME NEW k \in 1 .. n + m PROVE c[k] = ab[k]
    OBVIOUS
  <2>1. CASE k <= n
    <3>1. k \in 1 .. n
      BY <1>3, <2>1
    <3> QED BY <1>3, <1>4, <1>5, <2>1, <3>1
  <2>2. CASE ~ (k <= n)
    <3> DEFINE j == k - n
    <3>1. j \in 1 .. m
      BY <1>3, <2>2
    <3>2. s[k] = r[j] /\ ab[k] = b[j]
      BY <1>3, <1>5, <2>2
    <3> HIDE DEF j
    <3> QED BY <1>4, <3>1, <3>2
  <2> QED BY <2>1, <2>2
<1>7. ab \in Seq(S) /\ Len(ab) = n + m
  BY <1>5
<1> HIDE DEF ab
<1>8. c = ab
  BY <1>4, <1>6, <1>7, SeqEqual
<1> QED BY <1>4, <1>8 DEF a, b, c, ab

(* Two leaves of one tree that trade windows trade them in its order. *)
LEMMA TradeOrder ==
  ASSUME NEW g, Whole(g), NEW h, Whole(h), OneLeaf(g), NEW w \in Workspace,
         NEW l, InTree(g, w, l), NEW m, InTree(g, w, m), l # m,
         NEW t \in Window, NEW u \in Window, g.toplevel[l] = t, g.toplevel[m] = u,
         SameLinks(g, h), h.toplevel = [[g.toplevel EXCEPT ![l] = u] EXCEPT ![m] = t]
  PROVE  /\ t # u
         /\ InOrder(h, w) = Traded(InOrder(g, w), t, u)
         /\ Lists(InOrder(g, w), t) /\ Lists(InOrder(g, w), u)
         /\ \A v \in Workspace \ {w} : InOrder(h, v) = InOrder(g, v)
<1> DEFINE W == Windows(g)
           X == Windows(h)
           S == Window \cup {NULL}
           B == {n \in Node \ g.free : X[n] # Traded(W[n], t, u)}
<1>0. /\ g \in Heap /\ Linked(g) /\ l \in Node \ g.free /\ m \in Node \ g.free
      /\ t # NULL /\ u # NULL
  BY NullAssumption DEF Whole, Sound, InTree
<1>1. /\ W \in [Node -> Seq(S)]
      /\ \A n \in Node : Leaf(g, n) => W[n] = <<g.toplevel[n]>>
      /\ \A n \in Node : ~ Leaf(g, n) => W[n] = W[g.first[n]] \o W[g.second[n]]
  BY WindowsOf
<1>2. /\ \A n \in Node : Leaf(h, n) => X[n] = <<h.toplevel[n]>>
      /\ \A n \in Node : ~ Leaf(h, n) => X[n] = X[h.first[n]] \o X[h.second[n]]
  BY WindowsOf
<1> HIDE DEF W, X
<1>3. \A n \in Node \ g.free : /\ g.toplevel[n] = t => n = l
                               /\ g.toplevel[n] = u => n = m
  BY <1>0 DEF OneLeaf
<1>4. t # u
  BY <1>0, <1>3
<1>5. /\ h.toplevel[l] = u /\ h.toplevel[m] = t
      /\ \A n \in Node \ {l, m} : h.toplevel[n] = g.toplevel[n]
  BY <1>0 DEF Heap
<1>6. h.first = g.first /\ h.second = g.second /\ h.root = g.root
  BY DEF SameLinks
<1>7. \A a \in B : \E b \in Below(g)[a] : b \in B
  <2> SUFFICES ASSUME NEW a \in Node \ g.free, X[a] # Traded(W[a], t, u)
               PROVE  \E b \in Below(g)[a] : b \in B
    OBVIOUS
  <2>1. ~ Leaf(g, a)
    <3> SUFFICES ASSUME Leaf(g, a) PROVE FALSE
      OBVIOUS
    <3>1. W[a] = <<g.toplevel[a]>> /\ X[a] = <<h.toplevel[a]>>
      BY <1>1, <1>2, <1>6 DEF Leaf
    <3>2. Traded(<<g.toplevel[a]>>, t, u) =
            << IF g.toplevel[a] = t THEN u ELSE IF g.toplevel[a] = u THEN t
               ELSE g.toplevel[a] >>
      BY DEF Traded
    <3>3. h.toplevel[a] = IF g.toplevel[a] = t THEN u ELSE
                          IF g.toplevel[a] = u THEN t ELSE g.toplevel[a]
      BY <1>3, <1>4, <1>5
    <3> QED BY <3>1, <3>2, <3>3
  <2> DEFINE c == g.first[a]
             d == g.second[a]
  <2>2. c \in Node \ g.free /\ d \in Node \ g.free
    BY <1>0, <2>1, InnerNode
  <2>3. Below(g)[a] = {c, d}
    BY <2>1 DEF Below
  <2>4. W[a] = W[c] \o W[d] /\ W[c] \in Seq(S) /\ W[d] \in Seq(S)
    BY <1>1, <2>1, <2>2
  <2>5. X[a] = X[c] \o X[d]
    BY <1>2, <1>6, <2>1 DEF Leaf
  <2>6. Traded(W[a], t, u) = Traded(W[c], t, u) \o Traded(W[d], t, u)
    <3>1. t \in S /\ u \in S
      OBVIOUS
    <3> DEFINE x == W[c]
               y == W[d]
               z == W[a]
    <3>2. x \in Seq(S) /\ y \in Seq(S) /\ Joins(z, x, y)
      BY <2>4 DEF Joins
    <3> HIDE DEF S, x, y, z
    <3>3. Traded(z, t, u) = Traded(x, t, u) \o Traded(y, t, u)
      BY <3>1, <3>2, TradedConcat
    <3> QED BY <3>3 DEF x, y, z
  <2>7. c \in B \/ d \in B
    BY <2>2, <2>4, <2>5, <2>6
  <2> QED BY <2>3, <2>7
<1>8. B \in SUBSET Node
  OBVIOUS
<1>9. Founded(Node, Below(g))
  BY TreesEnd
<1> HIDE DEF B
<1>10. B = {}
  BY <1>7, <1>8, <1>9 DEF Founded
<1>11. g.root[w] \in Node \ g.free /\ g.root[w] # NULL
  BY <1>0 DEF InTree, Heap, Linked, RootsLinked
<1>12. InOrder(h, w) = Traded(InOrder(g, w), t, u)
  BY <1>6, <1>10, <1>11, InOrderOf DEF B, W, X
<1>13. Leaf(g, l) /\ Leaf(g, m)
  BY <1>0 DEF Linked, ChildrenLinked, Leaf
<1>14. ASSUME NEW v \in Workspace \ {w} PROVE InOrder(h, v) = InOrder(g, v)
  <2>1. \A n \in Node : InTree(g, v, n) => n # l /\ n # m
    <3> SUFFICES ASSUME NEW n \in Node, InTree(g, v, n), n = l \/ n = m
                 PROVE  FALSE
      OBVIOUS
    <3>1. InTree(g, w, n)
      OBVIOUS
    <3>2. v = w
      BY <1>0, <3>1, TreesDisjoint
    <3> QED BY <3>2
  <2>2. \A n \in Node : InTree(g, v, n) =>
          /\ h.first[n] = g.first[n] /\ h.second[n] = g.second[n]
          /\ h.toplevel[n] = g.toplevel[n]
    BY <1>5, <1>6, <2>1
  <2>3. h.root[v] = g.root[v]
    BY <1>6
  <2> QED BY <2>2, <2>3, TreeSame
<1> QED BY <1>4, <1>12, <1>13, <1>14, LeavesAreListed
----------------------------------------------------------------------------
(* The steps of the sequences. *)

OrderOf(g) == [v \in Workspace |-> InOrder(g, v)]

Entered(o, p, t, w) ==
  /\ \A v \in Workspace : ~ Lists(o[v], t)
  /\ \E k \in 1 .. Len(o[w]) + 1 :
       p = [o EXCEPT ![w] = SubSeq(o[w], 1, k - 1) \o <<t>> \o SubSeq(o[w], k, Len(o[w]))]

Left(o, p, t, w) ==
  \E j \in DOMAIN o[w] :
    /\ o[w][j] = t
    /\ p = [o EXCEPT ![w] = SubSeq(o[w], 1, j - 1) \o SubSeq(o[w], j + 1, Len(o[w]))]

Moved(o, p, t, w, v) ==
  /\ w # v
  /\ \E j \in DOMAIN o[w], k \in 1 .. Len(o[v]) + 1 :
       /\ o[w][j] = t
       /\ p = [o EXCEPT
                 ![w] = SubSeq(o[w], 1, j - 1) \o SubSeq(o[w], j + 1, Len(o[w])),
                 ![v] = SubSeq(o[v], 1, k - 1) \o <<t>> \o SubSeq(o[v], k, Len(o[v]))]

Swapped(o, p, t, u, w) ==
  /\ t # u /\ Lists(o[w], t) /\ Lists(o[w], u)
  /\ p = [o EXCEPT ![w] = Traded(o[w], t, u)]

StepsTo(o, p) ==
  \/ p = o
  \/ \E t \in Window, w \in Workspace :
       \/ Entered(o, p, t, w)
       \/ Left(o, p, t, w)
       \/ \E v \in Workspace : Moved(o, p, t, w, v)
       \/ \E u \in Window : Swapped(o, p, t, u, w)

(* The four kinds of edits are the four kinds of steps of LeafOrder. *)
LEMMA StaysStep ==
  ASSUME NEW g, NEW h, Stays(g, h)
  PROVE  StepsTo(OrderOf(g), OrderOf(h))
<1>1. OrderOf(h) = OrderOf(g)
  BY DEF Stays, OrderOf
<1> QED BY <1>1 DEF StepsTo

(* A window that was in no order and entered one. *)
LEMMA EntersStep ==
  ASSUME NEW g, NEW h, NEW w \in Workspace, NEW t \in Window, Enters(g, h, w, t),
         \A v \in Workspace : ~ Lists(InOrder(g, v), t)
  PROVE  StepsTo(OrderOf(g), OrderOf(h))
<1> DEFINE o == OrderOf(g)
           p == OrderOf(h)
           x == InOrder(g, w)
<1>1. o[w] = x /\ \A v \in Workspace : o[v] = InOrder(g, v)
  BY DEF OrderOf
<1>2. PutIn(x, InOrder(h, w), t)
  BY InsertedAt DEF Enters
<1> HIDE DEF x
<1>3. PICK k \in 1 .. Len(x) + 1 :
        InOrder(h, w) = SubSeq(x, 1, k - 1) \o <<t>> \o SubSeq(x, k, Len(x))
  BY <1>2 DEF PutIn
<1> DEFINE y == SubSeq(x, 1, k - 1) \o <<t>> \o SubSeq(x, k, Len(x))
<1> HIDE DEF y
<1>4. p = [o EXCEPT ![w] = y]
  BY <1>3 DEF Enters, OrderOf, y
<1>5. Entered(o, p, t, w)
  BY <1>1, <1>3, <1>4 DEF Entered, y
<1> QED BY <1>5 DEF StepsTo

(* A window that left its order. *)
LEMMA LeavesStep ==
  ASSUME NEW g, NEW h, NEW w \in Workspace, NEW t \in Window, Enters(h, g, w, t)
  PROVE  StepsTo(OrderOf(g), OrderOf(h))
<1> DEFINE o == OrderOf(g)
           p == OrderOf(h)
           x == InOrder(g, w)
<1>1. o[w] = x
  BY DEF OrderOf
<1>2. TakenOut(InOrder(h, w), x, t)
  BY InsertedAt DEF Enters
<1> HIDE DEF x
<1>3. PICK j \in DOMAIN x :
        x[j] = t /\ InOrder(h, w) = SubSeq(x, 1, j - 1) \o SubSeq(x, j + 1, Len(x))
  BY <1>2 DEF TakenOut
<1> DEFINE y == SubSeq(x, 1, j - 1) \o SubSeq(x, j + 1, Len(x))
<1> HIDE DEF y
<1>4. p = [o EXCEPT ![w] = y]
  BY <1>3 DEF Enters, OrderOf, y
<1>5. Left(o, p, t, w)
  BY <1>1, <1>3, <1>4 DEF Left, y
<1> QED BY <1>5 DEF StepsTo

(* A window that left one order and entered another one. *)
LEMMA MovesStep ==
  ASSUME NEW g, NEW e, NEW h, NEW w \in Workspace, NEW v \in Workspace, v # w,
         NEW t \in Window, Enters(e, g, w, t), Enters(e, h, v, t)
  PROVE  StepsTo(OrderOf(g), OrderOf(h))
<1> DEFINE o == OrderOf(g)
           p == OrderOf(h)
           x == InOrder(g, w)
           z == InOrder(e, v)
<1>1. o[w] = x /\ o[v] = z
  BY DEF OrderOf, Enters
<1>2. TakenOut(InOrder(e, w), x, t) /\ PutIn(z, InOrder(h, v), t)
  BY InsertedAt DEF Enters
<1>3. InOrder(h, w) = InOrder(e, w)
  BY DEF Enters
<1>4. \A q \in Workspace \ {w, v} : InOrder(h, q) = InOrder(g, q)
  BY DEF Enters
<1> HIDE DEF x, z
<1>5. PICK j \in DOMAIN x :
        x[j] = t /\ InOrder(e, w) = SubSeq(x, 1, j - 1) \o SubSeq(x, j + 1, Len(x))
  BY <1>2 DEF TakenOut
<1>6. PICK k \in 1 .. Len(z) + 1 :
        InOrder(h, v) = SubSeq(z, 1, k - 1) \o <<t>> \o SubSeq(z, k, Len(z))
  BY <1>2 DEF PutIn
<1> DEFINE a == SubSeq(x, 1, j - 1) \o SubSeq(x, j + 1, Len(x))
           b == SubSeq(z, 1, k - 1) \o <<t>> \o SubSeq(z, k, Len(z))
<1>7. InOrder(h, w) = a /\ InOrder(h, v) = b
  BY <1>5, <1>6, <1>3
<1> HIDE DEF a, b
<1>8. p = [o EXCEPT ![w] = a, ![v] = b]
  BY <1>4, <1>7 DEF OrderOf
<1> HIDE DEF o, p
<1>9. Moved(o, p, t, w, v)
  <2>1. j \in DOMAIN o[w] /\ k \in 1 .. Len(o[v]) + 1 /\ o[w][j] = t
    BY <1>1, <1>5, <1>6
  <2>2. /\ a = SubSeq(o[w], 1, j - 1) \o SubSeq(o[w], j + 1, Len(o[w]))
        /\ b = SubSeq(o[v], 1, k - 1) \o <<t>> \o SubSeq(o[v], k, Len(o[v]))
    BY <1>1 DEF a, b
  <2> HIDE DEF a, b
  <2>3. p = [o EXCEPT
               ![w] = SubSeq(o[w], 1, j - 1) \o SubSeq(o[w], j + 1, Len(o[w])),
               ![v] = SubSeq(o[v], 1, k - 1) \o <<t>> \o SubSeq(o[v], k, Len(o[v]))]
    BY <1>8, <2>2
  <2> QED BY <2>1, <2>3 DEF Moved
<1> QED BY <1>9 DEF StepsTo, o, p
----------------------------------------------------------------------------
(* Every handler is a step of the sequences. *)

(* A window without a leaf is in no order. *)
LEMMA NotListed ==
  ASSUME NEW g, Whole(g), NEW T, NEW at, Placed(g, T, at), NEW t, t \notin T, t # NULL,
         NEW v \in Workspace
  PROVE  ~ Lists(InOrder(g, v), t)
<1> SUFFICES ASSUME Lists(InOrder(g, v), t) PROVE FALSE
  OBVIOUS
<1>1. PICK m \in Node : InTree(g, v, m) /\ g.toplevel[m] = t
  BY ListedAreLeaves
<1>2. m \in Node \ g.free
  BY <1>1 DEF InTree
<1> QED BY <1>1, <1>2 DEF Placed

(* Each handler, in a state the invariant allows, is one of those steps. *)
LEMMA OrderStep ==
  ASSUME TreeInv, TreeInv', [Next]_vars
  PROVE  StepsTo(OrderOf(bsp), OrderOf(bsp'))
<1> DEFINE T == mapped \ floating
           G == StepsTo(OrderOf(bsp), OrderOf(bsp'))
<1>0. /\ \A u \in mapped : workspace[u] \in Workspace
      /\ \A u \in T : workspace[u] \in Workspace
      /\ mapped \subseteq Window /\ bsp \in Heap /\ bsp' \in Heap
      /\ workspace \in [Window -> Workspace \cup {NULL}]
      /\ NULL \notin Window
  BY ExistsType, NullAssumption DEF TreeInv, TypeInv, TypeOK
<1>W. Whole(bsp) /\ Whole(bsp') /\ Sound(bsp)
  BY DEF TreeInv, AllOwned, Owned, Whole, Sound, Reached
<1>T. Owned(bsp, T, workspace)
  BY DEF TreeInv, AllOwned
<1>S. ASSUME SameTrees(bsp, bsp') PROVE G
  BY <1>W, <1>S, SameTreesStay, StaysStep
<1>E. ASSUME NEW t \in Window \ T, Stays(bsp, bsp') \/ Enters(bsp, bsp', workspace[t], t),
             workspace[t] \in Workspace
      PROVE  G
  <2>1. \A v \in Workspace : ~ Lists(InOrder(bsp, v), t)
    BY <1>0, <1>W, <1>T, <1>E, NotListed DEF Owned
  <2> QED BY <1>E, <2>1, StaysStep, EntersStep
<1>R. ASSUME NEW t \in Window, workspace[t] \in Workspace,
             bsp' = bsp_remove(bsp, workspace[t], t)
      PROVE  G
  <2>1. Stays(bsp, bsp') \/ Enters(bsp', bsp, workspace[t], t)
    BY <1>W, <1>R, RemoveLeaves
  <2> QED BY <1>R, <2>1, StaysStep, LeavesStep
<1> HIDE DEF G
<1>1. ASSUME bsp' = bsp PROVE G
  <2>1. SameTrees(bsp, bsp')
    BY <1>1 DEF SameTrees
  <2> QED BY <2>1, <1>S
<1>2. ASSUME NEW t \in Window, NEW w \in Workspace, Create(t, w) PROVE G
  <2>1. SameTrees(bsp, bsp')
    BY <1>0, <1>2 DEF Create, SameTrees, Heap
  <2> QED BY <2>1, <1>S
<1>3. ASSUME NEW t \in Window, NEW f \in mapped \cup {NULL}, MapTiled(t, f) PROVE G
  <2>1. f \in Window \cup {NULL} /\ workspace[t] \in Workspace /\ t \notin T
    BY <1>0, <1>3, ExistsType DEF MapTiled, TreeInv, TypeInv
  <2>2. /\ InsertWalks(bsp, workspace[t], f)
        /\ bsp' \in Inserts(bsp, workspace[t], t, f)
    BY <1>3 DEF MapTiled
  <2>3. Stays(bsp, bsp') \/ Enters(bsp, bsp', workspace[t], t)
    BY <1>W, <2>1, <2>2, InsertEnters
  <2> QED BY <1>E, <2>1, <2>3
<1>6. ASSUME NEW t \in Window, Unmap(t) PROVE G
  BY <1>0, <1>6, <1>R DEF Unmap
<1>7. ASSUME NEW t \in Window, Destroy(t) PROVE G
  <2>1. workspace[t] \in Workspace /\ (bsp' = bsp \/ bsp' = bsp_remove(bsp, workspace[t], t))
    BY <1>7, ExistsType DEF Destroy, TreeInv, TypeInv
  <2> QED BY <2>1, <1>1, <1>R
<1>8. ASSUME NEW t \in Window, Float(t) PROVE G
  <2> DEFINE w == workspace[t]
             after == bsp_remove(bsp, w, t)
             s == Sibling(bsp, FindLeaf(bsp, w, t))
  <2>1. w \in Workspace
    BY <1>0, <1>8 DEF Float
  <2>2. Whole(after)
    <3>1. Sound(after) /\ Owned(after, T \ {t}, workspace)
      BY <1>0, <1>W, <1>T, <2>1, RemoveSound, RemoveOwned
    <3> QED BY <3>1 DEF Owned, Whole
  <2>3. Stays(bsp, after) \/ Enters(after, bsp, w, t)
    BY <1>W, <2>1, <2>2, RemoveLeaves
  <2>4. bsp' = after \/ bsp' = [after EXCEPT !.split[s] = bsp.split[s]]
    BY <1>8 DEF Float
  <2> HIDE DEF after, s, T, w
  <2>5. bsp' = after \/ bsp' = [after EXCEPT !.split = [after.split EXCEPT ![s] = bsp.split[s]]]
    BY <2>2, <2>4 DEF Whole, Sound, Heap
  <2>6. Stays(after, bsp')
    <3>1. CASE bsp' = after
      BY <3>1 DEF Stays
    <3>2. CASE bsp' # after
      BY <1>W, <2>2, <2>5, <3>2, SplitStays
    <3> QED BY <3>1, <3>2
  <2>7. Stays(bsp, bsp') \/ Enters(bsp', bsp, w, t)
    BY <2>1, <2>3, <2>6 DEF Stays, Enters
  <2> QED BY <2>1, <2>7, StaysStep, LeavesStep DEF G
<1>9. ASSUME NEW t \in Window, NEW f \in mapped \cup {NULL}, Unfloat(t, f) PROVE G
  <2>1. /\ f \in Window \cup {NULL} /\ workspace[t] \in Workspace /\ t \notin T
    BY <1>0, <1>9 DEF Unfloat
  <2>2. CASE CanRestore(bsp, workspace[t], saved[t])
    <3>1. saved[t] \in Position
      BY <2>2 DEF CanRestore, TreeInv, TypeInv, TypeOK
    <3>2. /\ RestoreWalks(bsp, workspace[t], saved[t])
          /\ bsp' \in Restores(bsp, workspace[t], t, saved[t])
      BY <1>9, <2>2 DEF Unfloat
    <3>3. Stays(bsp, bsp') \/ Enters(bsp, bsp', workspace[t], t)
      BY <1>W, <2>1, <3>1, <3>2, RestoreEnters
    <3> QED BY <1>E, <2>1, <3>3
  <2>3. CASE ~CanRestore(bsp, workspace[t], saved[t])
    <3>1. /\ InsertWalks(bsp, workspace[t], f)
          /\ bsp' \in Inserts(bsp, workspace[t], t, f)
      BY <1>9, <2>3 DEF Unfloat
    <3>2. Stays(bsp, bsp') \/ Enters(bsp, bsp', workspace[t], t)
      BY <1>W, <2>1, <3>1, InsertEnters
    <3> QED BY <1>E, <2>1, <3>2
  <2> QED BY <2>2, <2>3
<1>10. ASSUME NEW t \in Window, NEW v \in Workspace,
              NEW f \in mapped \cup {NULL}, MoveToWorkspace(t, v, f)
       PROVE  G
  <2> DEFINE w == workspace[t]
             without == bsp_remove(bsp, w, t)
  <2>1. /\ f \in Window \cup {NULL} /\ w \in Workspace /\ v # w
    BY <1>0, <1>10 DEF MoveToWorkspace
  <2>2. CASE t \in floating
    BY <1>1, <1>10, <2>2 DEF MoveToWorkspace
  <2>3. CASE t \notin floating
    <3>1. /\ InsertWalks(without, v, f) /\ bsp' \in Inserts(without, v, t, f)
      BY <1>10, <2>3 DEF MoveToWorkspace
    <3>2. Sound(without) /\ Owned(without, T \ {t}, workspace)
      BY <1>0, <1>W, <1>T, <2>1, RemoveSound, RemoveOwned
    <3>3. Whole(without)
      BY <3>2 DEF Owned, Whole
    <3>4. Stays(bsp, without) \/ Enters(without, bsp, w, t)
      BY <1>W, <2>1, <3>3, RemoveLeaves
    <3> HIDE DEF without, T, w
    <3>5. \A q \in Workspace : ~ Lists(InOrder(without, q), t)
      <4>1. Placed(without, T \ {t}, workspace) /\ t \notin T \ {t} /\ t # NULL
        BY <1>0, <3>2 DEF Owned
      <4> QED BY <3>3, <4>1, NotListed
    <3>6. Stays(without, bsp') \/ Enters(without, bsp', v, t)
      BY <1>W, <2>1, <3>1, <3>3, InsertEnters
    <3>7. CASE Stays(bsp, without)
      <4>1. Stays(bsp, bsp') \/ Enters(bsp, bsp', v, t)
        BY <3>6, <3>7, StaysFirst
      <4>2. \A q \in Workspace : ~ Lists(InOrder(bsp, q), t)
        BY <3>5, <3>7 DEF Stays
      <4> QED BY <4>1, <4>2, StaysStep, EntersStep DEF G
    <3>8. CASE Enters(without, bsp, w, t)
      <4>1. CASE Stays(without, bsp')
        <5>1. Enters(bsp', bsp, w, t)
          BY <2>1, <3>8, <4>1 DEF Stays, Enters
        <5> QED BY <2>1, <5>1, LeavesStep DEF G
      <4>2. CASE Enters(without, bsp', v, t)
        BY <2>1, <3>8, <4>2, MovesStep DEF G
      <4> QED BY <3>6, <4>1, <4>2
    <3> QED BY <3>4, <3>7, <3>8
  <2> QED BY <2>2, <2>3
<1>11. ASSUME NEW t \in Window, NEW u \in Window, Swap(t, u) PROVE G
  <2> DEFINE w == workspace[t]
             h == Lookup(bsp, w, t)
             l == FindLeaf(bsp, w, t)
  <2>1. w \in Workspace /\ l # NULL
    BY <1>0, <1>11 DEF Swap
  <2>2. Whole(h) /\ SameTrees(bsp, h) /\ Stays(bsp, h)
    BY <1>W, <2>1, LookupWhole
  <2>3. InTree(bsp, w, l) /\ bsp.toplevel[l] = t
    BY <1>W, <2>1, FindLeafInTree DEF Sound
  <2>4. PICK m \in Node \ {l} :
          /\ bsp.toplevel[m] = u /\ InTree(bsp, w, m)
          /\ bsp' = [h EXCEPT !.toplevel[l] = u, !.toplevel[m] = t]
    BY <1>11 DEF Swap
  <2> HIDE DEF h, l, T, w
  <2>5. /\ InTree(h, w, l) /\ InTree(h, w, m)
        /\ h.toplevel[l] = t /\ h.toplevel[m] = u
    BY <2>2, <2>3, <2>4, SameTreesLinked DEF SameTrees
  <2>6. OneLeaf(h)
    BY <1>T, <2>2, SameTreesOwned DEF Owned
  <2>7. /\ SameLinks(h, bsp')
        /\ bsp'.toplevel = [[h.toplevel EXCEPT ![l] = u] EXCEPT ![m] = t]
    BY <2>2, <2>4 DEF SameLinks, Whole, Sound, Heap
  <2>8. /\ t # u
        /\ InOrder(bsp', w) = Traded(InOrder(h, w), t, u)
        /\ Lists(InOrder(h, w), t) /\ Lists(InOrder(h, w), u)
        /\ \A v \in Workspace \ {w} : InOrder(bsp', v) = InOrder(h, v)
    <3>1. l # m /\ Whole(bsp') /\ Whole(h)
      BY <1>W, <2>2, <2>4
    <3> DEFINE k == bsp'
    <3>2. Whole(k) /\ SameLinks(h, k)
          /\ k.toplevel = [[h.toplevel EXCEPT ![l] = u] EXCEPT ![m] = t]
      BY <2>7, <3>1
    <3> HIDE DEF k
    <3>3. /\ t # u
          /\ InOrder(k, w) = Traded(InOrder(h, w), t, u)
          /\ Lists(InOrder(h, w), t) /\ Lists(InOrder(h, w), u)
          /\ \A v \in Workspace \ {w} : InOrder(k, v) = InOrder(h, v)
      BY <2>1, <2>5, <2>6, <3>1, <3>2, TradeOrder
    <3> QED BY <3>3 DEF k
  <2> DEFINE o == OrderOf(bsp)
             p == OrderOf(bsp')
  <2>9. o[w] = InOrder(h, w) /\ p = [o EXCEPT ![w] = Traded(o[w], t, u)]
    BY <2>1, <2>2, <2>8 DEF OrderOf, Stays
  <2>10. Swapped(o, p, t, u, w)
    BY <2>8, <2>9 DEF Swapped
  <2> QED BY <2>1, <2>10 DEF StepsTo, G
<1>12. ASSUME NEW t \in Window, Rotate(t) PROVE G
  <2> DEFINE w == workspace[t]
             h == Lookup(bsp, w, t)
             p == bsp.parent[FindLeaf(bsp, w, t)]
  <2>1. Whole(h) /\ Stays(bsp, h)
    BY <1>0, <1>W, <1>12, LookupWhole DEF Rotate
  <2>2. PICK sp : bsp' = [h EXCEPT !.split[p] = sp]
    BY <1>12 DEF Rotate
  <2> HIDE DEF h, p, T
  <2>3. bsp' = [h EXCEPT !.split = [h.split EXCEPT ![p] = sp]]
    BY <2>1, <2>2 DEF Whole, Sound, Heap
  <2>4. Stays(h, bsp')
    BY <1>W, <2>1, <2>3, SplitStays
  <2>5. Stays(bsp, bsp')
    BY <2>1, <2>4 DEF Stays
  <2> QED BY <2>5, StaysStep DEF G
<1>13. ASSUME NEW t \in Window, LookUp(t) PROVE G
  <2>1. SameTrees(bsp, bsp')
    BY <1>0, <1>W, <1>13, LookupKeepsSound DEF LookUp
  <2> QED BY <2>1, <1>S
<1> QED
  BY <1>1, <1>2, <1>3, <1>6, <1>7, <1>8, <1>9, <1>10, <1>11, <1>12, <1>13
  DEF G, Next, vars, MapFloating, MapFullscreen

(* Every run of the trees is a run of the sequences: a handler enters,     *)
(* takes out, moves or trades the window it is about, and the order of all  *)
(* other windows, there and in every other workspace, is what it was.       *)
THEOREM TreesImplementLeafOrder == Spec => ImplementsLeafOrder
<1>1. Init => Order!Init
  <2> SUFFICES ASSUME Init PROVE [w \in Workspace |-> InOrder(bsp, w)] = [w \in Workspace |-> << >>]
    BY DEF Order!Init
  <2>1. \A w \in Workspace : bsp.root[w] = NULL
    BY DEF Init
  <2> QED BY <2>1, InOrderOf
<1>2. TreeInv /\ TreeInv' /\ [Next]_vars => [Order!Next]_[w \in Workspace |-> InOrder(bsp, w)]
  <2> SUFFICES ASSUME TreeInv, TreeInv', [Next]_vars
               PROVE  [Order!Next]_[w \in Workspace |-> InOrder(bsp, w)]
    OBVIOUS
  <2> DEFINE o == [w \in Workspace |-> InOrder(bsp, w)]
             p == [w \in Workspace |-> InOrder(bsp', w)]
  <2>1. StepsTo(o, p)
    BY OrderStep DEF OrderOf
  <2>2. o' = p
    OBVIOUS
  <2>3. ASSUME NEW t \in Window, NEW w \in Workspace, Entered(o, p, t, w)
        PROVE  Order!Enter(t, w)
    <3> HIDE DEF p
    <3> QED BY <2>2, <2>3 DEF Entered, Lists, Order!Enter, Order!Tiled, Order!ToSet, Order!InsertAt
  <2>4. ASSUME NEW t \in Window, NEW w \in Workspace, Left(o, p, t, w)
        PROVE  Order!Leave(t, w)
    BY <2>2, <2>4 DEF Left, Order!Leave, Order!RemoveAt
  <2>5. ASSUME NEW t \in Window, NEW w \in Workspace, NEW v \in Workspace,
               Moved(o, p, t, w, v)
        PROVE  Order!Move(t, w, v)
    BY <2>2, <2>5 DEF Moved, Order!Move, Order!InsertAt, Order!RemoveAt
  <2>6. ASSUME NEW t \in Window, NEW w \in Workspace, NEW u \in Window,
               Swapped(o, p, t, u, w)
        PROVE  Order!Trade(t, u, w)
    BY <2>2, <2>6 DEF Swapped, Traded, Lists, Order!Trade, Order!Tiled, Order!ToSet
  <2> QED
    BY <2>1, <2>2, <2>3, <2>4, <2>5, <2>6, Zenon DEF StepsTo, Order!Next
<1> QED BY TreeInvHolds, <1>1, <1>2, PTL DEF Spec, ImplementsLeafOrder, Order!Spec
=============================================================================
