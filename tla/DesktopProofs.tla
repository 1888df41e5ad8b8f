---------------------------- MODULE DesktopProofs ----------------------------
(***************************************************************************)
(* Proofs about Desktop, for any numbers of windows, workspaces and        *)
(* outputs: the lists, the pointers to windows, the workspaces of the      *)
(* outputs and the active output stay consistent, and the end of an output *)
(* evacuates its windows.  Then about Desktop with one output: the trees,  *)
(* the keyboard and what is visible.                                       *)
(*                                                                         *)
(* The inductive invariant, Good, has three parts: Windows (exactly the    *)
(* placed windows are listed, each once, by its own workspace), Pointers   *)
(* (a workspace points at its own mapped windows) and Screens (of outputs  *)
(* and workspaces).  The handlers call each other, so each operator of the *)
(* model has a lemma of its own: it keeps Good, and it changes no more     *)
(* than one of the relations Alike, Refocused, Relinked, Keeps, Thins or   *)
(* Carries allows.  Between two calls Good holds but for an output on its  *)
(* way out (the O of Good) or a window on its way from one workspace to    *)
(* another (Loose).                                                        *)
(***************************************************************************)
EXTENDS Desktop, Lemmas, SequenceTheorems, FiniteSetTheorems, TLAPS

(* SelectInSeq finds a place where the test holds, if there is one. *)
LEMMA FirstInIs ==
  ASSUME NEW T, NEW s \in Seq(T), NEW S
  PROVE  \/ FirstIn(s, S) = NULL /\ ToSet(s) \cap S = {}
         \/ FirstIn(s, S) \in ToSet(s) \cap S
<1> DEFINE I == {i \in 1 .. Len(s) : s[i] \in S}
<1>1. DOMAIN s = 1 .. Len(s) /\ Len(s) \in Nat /\ I \in SUBSET Nat
  BY LenProperties
<1>2. CASE I = {}
  BY <1>1, <1>2 DEF FirstIn, SelectInSeq, ToSet
<1>3. CASE I # {}
  <2>1. Min(I) \in I
    BY <1>1, <1>3, MinIsIn
  <2>2. SelectInSeq(s, LAMBDA t : t \in S) = Min(I)
    BY <1>3 DEF SelectInSeq
  <2>3. FirstIn(s, S) = s[Min(I)]
    BY <1>1, <2>1, <2>2 DEF FirstIn
  <2> QED BY <1>1, <2>1, <2>3 DEF ToSet
<1> QED BY <1>2, <1>3

(* What FirstOf finds is a member, unless all members are NULL. *)
LEMMA FirstOfIs ==
  ASSUME NEW T, NEW s \in Seq(T)
  PROVE  \/ FirstOf(s) = NULL /\ ToSet(s) \subseteq {NULL}
         \/ FirstOf(s) \in ToSet(s) \ {NULL}
<1>1. \/ FirstIn(s, ToSet(s) \ {NULL}) = NULL
           /\ ToSet(s) \cap (ToSet(s) \ {NULL}) = {}
      \/ FirstIn(s, ToSet(s) \ {NULL}) \in ToSet(s) \cap (ToSet(s) \ {NULL})
  BY FirstInIs, Zenon
<1> QED BY <1>1 DEF FirstOf

(***************************************************************************)
(* The invariant, one part per group of the record's fields.               *)
(***************************************************************************)

(* Exactly the windows of L are listed, each once and by its own workspace. *)
Lists(d, L) ==
  /\ \A t \in L : d.workspace[t] \in Workspace
  /\ \A w \in Workspace :
       /\ IsInjective(d.toplevels[w]) /\ IsInjective(d.floats[w])
       /\ ToSet(d.toplevels[w]) \cap ToSet(d.floats[w]) = {}
       /\ Listed(d, w) = {t \in L : d.workspace[t] = w}

(* The windows that belong in a list. *)
Placed(d) == {t \in d.mapped : ~ (t \in d.fullscreen /\ t \in d.savedFloating)}

Windows(d) ==
  /\ \A t \in d.mapped : d.workspace[t] \in Workspace
  /\ d.leaf \subseteq d.mapped /\ d.fullscreen \subseteq d.mapped
  /\ d.floating \cap d.fullscreen = {}
  /\ Lists(d, Placed(d))

(* The windows that w may point at. *)
Here(d, w) == {t \in d.mapped : d.workspace[t] = w}

Pointers(d) ==
  \A w \in Workspace :
    /\ d.focused[w] \in Here(d, w) \cup {NULL}
    /\ d.lastFocused[w] \in Here(d, w) \cup {NULL}
    /\ d.fullscreenWindow[w] \in (Here(d, w) \cap d.fullscreen) \cup {NULL}

(* The outputs of O are on their way out and may still be the active one. *)
Screens(d, O) ==
  /\ IsInjective(d.outputs) /\ d.powered \subseteq ToSet(d.outputs)
  /\ \A w \in Workspace : d.output[w] # NULL =>
       d.output[w] \in ToSet(d.outputs) /\ d.shows[d.output[w]] = w
  /\ d.activeOutput # NULL => d.activeOutput \in ToSet(d.outputs) \cup O
  /\ d.activeOutput = NULL => d.powered = {}

Good(d, O) == d \in Desk /\ Windows(d) /\ Pointers(d) /\ Screens(d, O)

(* e differs from d in what is visible and stacked only. *)
Alike(d, e) ==
  /\ e \in Desk
  /\ e.workspace = d.workspace /\ e.mapped = d.mapped /\ e.leaf = d.leaf
  /\ e.floating = d.floating /\ e.fullscreen = d.fullscreen
  /\ e.savedFloating = d.savedFloating
  /\ e.toplevels = d.toplevels /\ e.floats = d.floats
  /\ e.focused = d.focused /\ e.lastFocused = d.lastFocused
  /\ e.fullscreenWindow = d.fullscreenWindow
  /\ e.output = d.output /\ e.shows = d.shows /\ e.outputs = d.outputs
  /\ e.powered = d.powered /\ e.activeOutput = d.activeOutput
  /\ e.current = d.current /\ e.keyboard = d.keyboard

(* e may differ from d in what the outputs show and in what is visible.     *)
SameWindows(d, e) ==
  /\ e \in Desk
  /\ e.workspace = d.workspace /\ e.mapped = d.mapped /\ e.leaf = d.leaf
  /\ e.floating = d.floating /\ e.fullscreen = d.fullscreen
  /\ e.savedFloating = d.savedFloating
  /\ e.toplevels = d.toplevels /\ e.floats = d.floats
  /\ e.focused = d.focused /\ e.lastFocused = d.lastFocused
  /\ e.fullscreenWindow = d.fullscreenWindow /\ e.keyboard = d.keyboard

(* The tiled lists got no other windows. *)
NoneEnter(d, e, W) ==
  \A w \in W : ToSet(e.toplevels[w]) \subseteq ToSet(d.toplevels[w])

(* e may have another focus and active output than d, too. *)
Refocused(d, e) ==
  /\ e \in Desk /\ NoneEnter(d, e, Workspace)
  /\ e.workspace = d.workspace /\ e.mapped = d.mapped /\ e.leaf = d.leaf
  /\ e.floating = d.floating /\ e.fullscreen = d.fullscreen
  /\ e.savedFloating = d.savedFloating
  /\ e.fullscreenWindow = d.fullscreenWindow
  /\ e.output = d.output /\ e.shows = d.shows /\ e.outputs = d.outputs
  /\ e.powered = d.powered /\ e.current = d.current

(* e differs from d in its lists only. *)
Relinked(d, e) ==
  /\ e \in Desk
  /\ e.workspace = d.workspace /\ e.mapped = d.mapped /\ e.leaf = d.leaf
  /\ e.floating = d.floating /\ e.fullscreen = d.fullscreen
  /\ e.savedFloating = d.savedFloating
  /\ e.enabled = d.enabled /\ e.monocle = d.monocle /\ e.keyboard = d.keyboard
  /\ e.focused = d.focused /\ e.lastFocused = d.lastFocused
  /\ e.fullscreenWindow = d.fullscreenWindow
  /\ e.output = d.output /\ e.shows = d.shows /\ e.outputs = d.outputs
  /\ e.powered = d.powered /\ e.activeOutput = d.activeOutput
  /\ e.current = d.current

(* What is alike is as consistent. *)
LEMMA AlikeGood ==
  ASSUME NEW d, NEW e, NEW O, Good(d, O), Alike(d, e)
  PROVE  Good(e, O)
<1>1. Windows(e)
  BY DEF Good, Alike, Windows, Lists, Listed, Placed
<1>2. Pointers(e)
  BY DEF Good, Alike, Pointers, Here
<1>3. Screens(e, O)
  BY DEF Good, Alike, Screens
<1> QED BY <1>1, <1>2, <1>3 DEF Good, Alike

(* Two such steps in a row are one. *)
LEMMA AlikeTrans ==
  ASSUME NEW d, NEW e, NEW f, Alike(d, e), Alike(e, f)
  PROVE  Alike(d, f)
BY DEF Alike

(* So is no step at all. *)
LEMMA AlikeSelf ==
  ASSUME NEW d \in Desk
  PROVE  Alike(d, d)
BY DEF Alike

(* It composes, and what is alike has the same windows. *)
LEMMA SameWindowsTrans ==
  ASSUME NEW d, NEW e, NEW f, SameWindows(d, e), SameWindows(e, f) \/ Alike(e, f)
  PROVE  SameWindows(d, f)
BY DEF SameWindows, Alike

(* The same windows are as consistent as they were. *)
LEMMA SameWindowsGood ==
  ASSUME NEW d, NEW e, NEW O, Good(d, O), SameWindows(d, e)
  PROVE  Windows(e) /\ Pointers(e)
<1>1. Windows(e)
  BY DEF Good, SameWindows, Windows, Lists, Listed, Placed
<1>2. Pointers(e)
  BY DEF Good, SameWindows, Pointers, Here
<1> QED BY <1>1, <1>2

(* Two changes of the focus in a row are one. *)
LEMMA RefocusedTrans ==
  ASSUME NEW d, NEW e, NEW f, Refocused(d, e), Refocused(e, f)
  PROVE  Refocused(d, f)
BY DEF Refocused, NoneEnter

(* A step that changes what is visible only is one of them. *)
LEMMA AlikeRefocused ==
  ASSUME NEW d, NEW e, Alike(d, e)
  PROVE  Refocused(d, e)
BY DEF Alike, Refocused, NoneEnter

----------------------------------------------------------------------------
(* Lists. *)

(* A list holds windows. *)
LEMMA ListedIn ==
  ASSUME NEW d \in Desk, NEW w \in Workspace
  PROVE  /\ d.toplevels[w] \in Seq(Window) /\ d.floats[w] \in Seq(Window)
         /\ ToSet(d.toplevels[w]) \subseteq Window
         /\ ToSet(d.floats[w]) \subseteq Window
         /\ Listed(d, w) \subseteq Window
<1>1. d.toplevels[w] \in Seq(Window) /\ d.floats[w] \in Seq(Window)
  BY DEF Desk
<1> QED BY <1>1, MembersIn DEF Listed

(* Its only link out: a window is in no list. *)
LEMMA UnlinkLists ==
  ASSUME NEW d \in Desk, NEW L, Lists(d, L), NEW t
  PROVE  /\ Relinked(d, Unlink(d, t)) /\ Lists(Unlink(d, t), L \ {t})
         /\ NoneEnter(d, Unlink(d, t), Workspace)
<1> DEFINE e == Unlink(d, t)
<1>1. \A w \in Workspace :
        /\ RemoveFirst(d.toplevels[w], t) \in Seq(Window)
        /\ IsInjective(RemoveFirst(d.toplevels[w], t))
        /\ ToSet(RemoveFirst(d.toplevels[w], t)) = ToSet(d.toplevels[w]) \ {t}
        /\ RemoveFirst(d.floats[w], t) \in Seq(Window)
        /\ IsInjective(RemoveFirst(d.floats[w], t))
        /\ ToSet(RemoveFirst(d.floats[w], t)) = ToSet(d.floats[w]) \ {t}
  BY ListedIn, TakeOut DEF Lists
<1>2. e = [d EXCEPT !.toplevels = [w \in Workspace |-> RemoveFirst(d.toplevels[w], t)],
                    !.floats = [w \in Workspace |-> RemoveFirst(d.floats[w], t)]]
  BY DEF Unlink
<1>3. e \in Desk
  <2>1. [w \in Workspace |-> RemoveFirst(d.toplevels[w], t)] \in [Workspace -> Seq(Window)]
    BY <1>1
  <2>2. [w \in Workspace |-> RemoveFirst(d.floats[w], t)] \in [Workspace -> Seq(Window)]
    BY <1>1
  <2> QED BY <1>2, <2>1, <2>2 DEF Desk
<1>4. /\ e.workspace = d.workspace
      /\ \A w \in Workspace : e.toplevels[w] = RemoveFirst(d.toplevels[w], t)
                              /\ e.floats[w] = RemoveFirst(d.floats[w], t)
  BY <1>2 DEF Desk
<1> HIDE DEF e
<1>5. \A w \in Workspace :
        /\ IsInjective(e.toplevels[w]) /\ IsInjective(e.floats[w])
        /\ ToSet(e.toplevels[w]) \cap ToSet(e.floats[w]) = {}
        /\ Listed(e, w) = Listed(d, w) \ {t}
  BY <1>1, <1>4 DEF Lists, Listed
<1>6. Lists(e, L \ {t})
  BY <1>4, <1>5 DEF Lists
<1>7. Relinked(d, e)
  BY <1>2, <1>3 DEF Relinked, Desk
<1>8. NoneEnter(d, e, Workspace)
  BY <1>1, <1>4 DEF NoneEnter
<1> QED BY <1>6, <1>7, <1>8 DEF e

(* Its link into the tiled list. *)
LEMMA LinkTiledLists ==
  ASSUME NEW d \in Desk, NEW L, Lists(d, L), NEW t \in Window \ L,
         d.workspace[t] \in Workspace
  PROVE  Relinked(d, LinkTiled(d, t)) /\ Lists(LinkTiled(d, t), L \cup {t})
<1> DEFINE e == LinkTiled(d, t)
           v == d.workspace[t]
           s == d.toplevels[v]
           r == <<t>> \o s
<1> HIDE DEF v
<1>1. v \in Workspace /\ v = d.workspace[t]
  BY DEF v
<1>2. t \notin Listed(d, v)
  BY <1>1 DEF Lists
<1>3. r \in Seq(Window) /\ IsInjective(r) /\ ToSet(r) = ToSet(s) \cup {t}
  <2>1. s \in Seq(Window) /\ IsInjective(s) /\ t \notin ToSet(s)
    BY <1>1, <1>2, ListedIn DEF Lists, Listed
  <2> QED BY <2>1, PutInFront
<1>4. e = [d EXCEPT !.toplevels[v] = r]
  BY DEF LinkTiled, v
<1> HIDE DEF r
<1>5. e \in Desk
  <2>1. [d.toplevels EXCEPT ![v] = r] \in [Workspace -> Seq(Window)]
    BY <1>3 DEF Desk
  <2> QED BY <1>4, <2>1 DEF Desk
<1>6. /\ e.workspace = d.workspace /\ e.floats = d.floats
      /\ e.toplevels[v] = r
      /\ \A w \in Workspace : w # v => e.toplevels[w] = d.toplevels[w]
  BY <1>1, <1>4 DEF Desk
<1> HIDE DEF e
<1>7. ASSUME NEW w \in Workspace
      PROVE  /\ IsInjective(e.toplevels[w]) /\ IsInjective(e.floats[w])
             /\ ToSet(e.toplevels[w]) \cap ToSet(e.floats[w]) = {}
             /\ Listed(e, w) = {u \in L \cup {t} : d.workspace[u] = w}
  <2>1. CASE w = v
    BY <1>1, <1>2, <1>3, <1>6, <2>1 DEF Lists, Listed
  <2>2. CASE w # v
    BY <1>1, <1>6, <2>2 DEF Lists, Listed
  <2> QED BY <2>1, <2>2
<1>8. Lists(e, L \cup {t})
  BY <1>1, <1>6, <1>7 DEF Lists
<1>9. Relinked(d, e)
  BY <1>1, <1>4, <1>5 DEF Relinked, Desk
<1> QED BY <1>8, <1>9 DEF e

(* Its link into the floating list. *)
LEMMA LinkFloatingLists ==
  ASSUME NEW d \in Desk, NEW L, Lists(d, L), NEW t \in Window \ L,
         d.workspace[t] \in Workspace
  PROVE  /\ Relinked(d, LinkFloating(d, t)) /\ Lists(LinkFloating(d, t), L \cup {t})
         /\ LinkFloating(d, t).toplevels = d.toplevels
<1> DEFINE e == LinkFloating(d, t)
           v == d.workspace[t]
           s == d.floats[v]
           r == <<t>> \o s
<1> HIDE DEF v
<1>1. v \in Workspace /\ v = d.workspace[t]
  BY DEF v
<1>2. t \notin Listed(d, v)
  BY <1>1 DEF Lists
<1>3. r \in Seq(Window) /\ IsInjective(r) /\ ToSet(r) = ToSet(s) \cup {t}
  <2>1. s \in Seq(Window) /\ IsInjective(s) /\ t \notin ToSet(s)
    BY <1>1, <1>2, ListedIn DEF Lists, Listed
  <2> QED BY <2>1, PutInFront
<1>4. e = [d EXCEPT !.floats[v] = r]
  BY DEF LinkFloating, v
<1> HIDE DEF r
<1>5. e \in Desk
  <2>1. [d.floats EXCEPT ![v] = r] \in [Workspace -> Seq(Window)]
    BY <1>3 DEF Desk
  <2> QED BY <1>4, <2>1 DEF Desk
<1>6. /\ e.workspace = d.workspace /\ e.toplevels = d.toplevels
      /\ e.floats[v] = r
      /\ \A w \in Workspace : w # v => e.floats[w] = d.floats[w]
  BY <1>1, <1>4 DEF Desk
<1> HIDE DEF e
<1>7. ASSUME NEW w \in Workspace
      PROVE  /\ IsInjective(e.toplevels[w]) /\ IsInjective(e.floats[w])
             /\ ToSet(e.toplevels[w]) \cap ToSet(e.floats[w]) = {}
             /\ Listed(e, w) = {u \in L \cup {t} : d.workspace[u] = w}
  <2>1. CASE w = v
    <3>1. e.toplevels[w] = d.toplevels[w] /\ e.floats[w] = r
      BY <1>6, <2>1
    <3>2. /\ IsInjective(d.toplevels[w]) /\ ToSet(d.toplevels[w]) \cap ToSet(s) = {}
          /\ Listed(d, w) = {u \in L : d.workspace[u] = w}
          /\ t \notin Listed(d, w) /\ d.workspace[t] = w
      BY <1>1, <1>2, <2>1 DEF Lists
    <3>3. Listed(d, w) = ToSet(d.toplevels[w]) \cup ToSet(s)
      BY <2>1 DEF Listed
    <3>4. Listed(e, w) = ToSet(d.toplevels[w]) \cup ToSet(r)
      BY <3>1 DEF Listed
    <3> HIDE DEF s
    <3> QED BY <1>3, <3>1, <3>2, <3>3, <3>4
  <2>2. CASE w # v
    BY <1>1, <1>6, <2>2 DEF Lists, Listed
  <2> QED BY <2>1, <2>2
<1>8. Lists(e, L \cup {t})
  BY <1>1, <1>6, <1>7 DEF Lists
<1>9. Relinked(d, e)
  BY <1>1, <1>4, <1>5 DEF Relinked, Desk
<1> QED BY <1>6, <1>8, <1>9 DEF e

(* Lists changed, but not what they hold. *)
LEMMA RelinkedGood ==
  ASSUME NEW d, NEW e, NEW O, Good(d, O), Relinked(d, e), Lists(e, Placed(d))
  PROVE  Good(e, O)
<1>1. Windows(e)
  BY DEF Good, Relinked, Windows, Placed
<1>2. Pointers(e)
  BY DEF Good, Relinked, Pointers, Here
<1>3. Screens(e, O)
  BY DEF Good, Relinked, Screens
<1> QED BY <1>1, <1>2, <1>3 DEF Good, Relinked

(* So is one that changes the lists only and brings no window in. *)
LEMMA RelinkedRefocused ==
  ASSUME NEW d, NEW e, Relinked(d, e), NoneEnter(d, e, Workspace)
  PROVE  Refocused(d, e)
BY DEF Relinked, Refocused

(* Two changes of the lists in a row are one. *)
LEMMA RelinkedTrans ==
  ASSUME NEW d, NEW e, NEW f, Relinked(d, e), Relinked(e, f)
  PROVE  Relinked(d, f)
BY DEF Relinked

(* What a workspace lists are windows it may point at. *)
LEMMA ListedHere ==
  ASSUME NEW d, d \in Desk, Windows(d), NEW w \in Workspace
  PROVE  Listed(d, w) \subseteq Here(d, w) /\ Here(d, w) \subseteq Window
BY DEF Windows, Lists, Placed, Here, Desk

----------------------------------------------------------------------------
(* What is shown and hidden. *)

(* Showing and hiding scene nodes is such a step. *)
LEMMA EnableAlike ==
  ASSUME NEW d \in Desk, NEW S \in SUBSET Window
  PROVE  Alike(d, Enable(d, S)) /\ Alike(d, Disable(d, S))
BY DEF Alike, Enable, Disable, Desk

(* The window that monocle shows is one of the workspace's, if any. *)
LEMMA ActiveTiledIs ==
  ASSUME NEW d \in Desk, NEW w \in Workspace
  PROVE  ActiveTiled(d, w) \in Window \cup {NULL}
<1> DEFINE S == Window \cup {NULL}
           p == <<d.focused[w], d.lastFocused[w]>>
           q == p \o d.toplevels[w]
           V == {t \in Window : Tiled(d, t)}
<1>1. d.focused[w] \in S /\ d.lastFocused[w] \in S /\ d.toplevels[w] \in Seq(S)
  BY DEF Desk
<1>2. p \in Seq(S)
  BY <1>1
<1> HIDE DEF p, S
<1>3. q \in Seq(S)
  BY <1>1, <1>2, MembersConcat
<1> HIDE DEF q
<1>4. FirstIn(q, V) = NULL \/ FirstIn(q, V) \in V
  BY <1>3, FirstInIs
<1>5. ActiveTiled(d, w) = FirstIn(q, V)
  BY DEF ActiveTiled, q, p
<1> QED BY <1>4, <1>5

(* Tiles and leaves are windows. *)
LEMMA TilesIn ==
  ASSUME NEW d \in Desk, NEW w \in Workspace
  PROVE  TilesOf(d, w) \subseteq Window /\ LeavesOf(d, w) \subseteq Window
<1>1. LeavesOf(d, w) \subseteq Window
  BY DEF LeavesOf, Desk
<1> QED BY <1>1, ListedIn DEF TilesOf

(* The layout of a workspace shows and hides only. *)
LEMMA ArrangeAlike ==
  ASSUME NEW d \in Desk, NEW w \in Workspace
  PROVE  Alike(d, Arrange(d, w)) /\ Alike(d, ArrangeIfTree(d, w))
<1>1. ToSet(d.floats[w]) \in SUBSET Window /\ TilesOf(d, w) \in SUBSET Window
  BY ListedIn, TilesIn
<1>2. ({ActiveTiled(d, w)} \ {NULL}) \cup ToSet(d.floats[w]) \in SUBSET Window
  BY <1>1, ActiveTiledIs
<1> DEFINE e == Disable(d, TilesOf(d, w))
<1>3. Alike(d, e) /\ e \in Desk
  BY <1>1, EnableAlike DEF Alike
<1> HIDE DEF e
<1>4. Alike(d, Enable(e, ({ActiveTiled(d, w)} \ {NULL}) \cup ToSet(d.floats[w])))
  BY <1>2, <1>3, EnableAlike, AlikeTrans
<1>5. Alike(d, Enable(d, ToSet(d.floats[w])))
  BY <1>1, EnableAlike
<1>6. Alike(d, Arrange(d, w))
  BY <1>4, <1>5, AlikeSelf DEF Arrange, e
<1> QED BY <1>6, AlikeSelf DEF ArrangeIfTree

(* So does monocle, switched on or off. *)
LEMMA MonocleAlike ==
  ASSUME NEW d \in Desk, NEW w \in Workspace
  PROVE  /\ Alike(d, [d EXCEPT !.monocle = @ \ {w}])
         /\ Alike(d, [d EXCEPT !.monocle = @ \cup {w}])
<1>1. ASSUME NEW M \in SUBSET Workspace PROVE Alike(d, [d EXCEPT !.monocle = M])
  <2> DEFINE e == [d EXCEPT !.monocle = M]
  <2>1. e \in Desk
    BY <1>1 DEF Desk
  <2> QED BY <2>1 DEF Alike, Desk
<1>2. d.monocle \ {w} \in SUBSET Workspace /\ d.monocle \cup {w} \in SUBSET Workspace
  BY DEF Desk
<1> QED BY <1>1, <1>2

(* Monocle switched off, with the layout that follows. *)
LEMMA OffAlike ==
  ASSUME NEW d \in Desk, NEW w \in Workspace, NEW S \in SUBSET Window
  PROVE  Alike(d, Enable(ArrangeIfTree([d EXCEPT !.monocle = @ \ {w}], w), S))
<1> DEFINE e == [d EXCEPT !.monocle = @ \ {w}]
           f == ArrangeIfTree(e, w)
<1>1. Alike(d, e) /\ e \in Desk
  <2>1. Alike(d, e)
    BY MonocleAlike
  <2> HIDE DEF e
  <2> QED BY <2>1 DEF Alike
<1> HIDE DEF e
<1>2. Alike(d, f) /\ f \in Desk
  BY <1>1, ArrangeAlike, AlikeTrans DEF Alike
<1> HIDE DEF f
<1>3. Alike(d, Enable(f, S))
  BY <1>2, EnableAlike, AlikeTrans
<1> QED BY <1>3 DEF f, e

(* So does its end when nothing is left to stack. *)
LEMMA ExitMonocleAlike ==
  ASSUME NEW d \in Desk, NEW w \in Workspace
  PROVE  Alike(d, ExitMonocleIfEmpty(d, w))
<1>1. LeavesOf(d, w) \in SUBSET Window
  BY TilesIn
<1>2. Alike(d, Enable(ArrangeIfTree([d EXCEPT !.monocle = @ \ {w}], w), LeavesOf(d, w)))
  BY <1>1, OffAlike
<1> QED BY <1>2, AlikeSelf DEF ExitMonocleIfEmpty

(* workspace_hide hides only. *)
LEMMA HideAlike ==
  ASSUME NEW d \in Desk, NEW w \in Workspace
  PROVE  Alike(d, workspace_hide(d, w))
<1>1. Listed(d, w) \in SUBSET Window
  BY ListedIn
<1>2. d.fullscreenWindow[w] # NULL => {d.fullscreenWindow[w]} \in SUBSET Window
  BY DEF Desk
<1> QED BY <1>1, <1>2, EnableAlike DEF workspace_hide

(* workspace_show shows and hides only. *)
LEMMA ShowAlike ==
  ASSUME NEW d \in Desk, NEW w \in Workspace
  PROVE  Alike(d, workspace_show(d, w))
<1> DEFINE T == ToSet(d.toplevels[w])
           S == (T \cap {ActiveTiled(d, w)}) \cup ToSet(d.floats[w])
           e == Disable(d, T)
<1>1. T \in SUBSET Window /\ S \in SUBSET Window /\ Listed(d, w) \in SUBSET Window
  BY ListedIn
<1>2. Alike(d, e) /\ e \in Desk
  BY <1>1, EnableAlike DEF Alike
<1> HIDE DEF e
<1>3. Alike(d, Enable(e, S))
  BY <1>1, <1>2, EnableAlike, AlikeTrans
<1>4. Alike(d, Enable(d, Listed(d, w)))
  BY <1>1, EnableAlike
<1>5. d.fullscreenWindow[w] # NULL => Alike(d, Enable(d, {d.fullscreenWindow[w]}))
  <2>1. d.fullscreenWindow[w] # NULL => {d.fullscreenWindow[w]} \in SUBSET Window
    BY DEF Desk
  <2> QED BY <2>1, EnableAlike
<1> QED BY <1>3, <1>4, <1>5 DEF workspace_show, e

(* So does all that a workspace that comes on an output does. *)
LEMMA DisplayAlike ==
  ASSUME NEW d \in Desk, NEW w \in Workspace
  PROVE  Alike(d, Display(d, w))
<1> DEFINE e == ArrangeIfTree(d, w)
<1>1. Alike(d, e) /\ e \in Desk
  BY ArrangeAlike DEF Alike
<1> HIDE DEF e
<1>2. Alike(d, workspace_show(e, w))
  BY <1>1, ShowAlike, AlikeTrans
<1> QED BY <1>2 DEF Display, e

----------------------------------------------------------------------------
(* Focus. *)

(* Whoever has the keyboard, the rest is as consistent. *)
LEMMA KeyboardGood ==
  ASSUME NEW d, NEW O, Good(d, O), NEW k \in Window \cup {NULL}
  PROVE  /\ Good([d EXCEPT !.keyboard = k], O)
         /\ Refocused(d, [d EXCEPT !.keyboard = k])
<1> DEFINE e == [d EXCEPT !.keyboard = k]
<1>1. d \in Desk
  BY DEF Good
<1>2. /\ e \in Desk
      /\ e.workspace = d.workspace /\ e.mapped = d.mapped /\ e.leaf = d.leaf
      /\ e.floating = d.floating /\ e.fullscreen = d.fullscreen
      /\ e.savedFloating = d.savedFloating
      /\ e.toplevels = d.toplevels /\ e.floats = d.floats
      /\ e.focused = d.focused /\ e.lastFocused = d.lastFocused
      /\ e.fullscreenWindow = d.fullscreenWindow
      /\ e.output = d.output /\ e.shows = d.shows /\ e.outputs = d.outputs
      /\ e.powered = d.powered /\ e.activeOutput = d.activeOutput
      /\ e.current = d.current
  BY <1>1 DEF Desk
<1> HIDE DEF e
<1>3. Good(e, O)
  BY <1>2 DEF Good, Windows, Lists, Listed, Placed, Pointers, Here, Screens
<1>4. Refocused(d, e)
  BY <1>2 DEF Refocused, NoneEnter
<1> QED BY <1>3, <1>4 DEF e

(* In particular, nobody. *)
LEMMA ClearGood ==
  ASSUME NEW d, NEW O, Good(d, O)
  PROVE  Good(clear_focus(d), O) /\ Refocused(d, clear_focus(d))
BY KeyboardGood DEF clear_focus

(* To raise a floating window keeps every list. *)
LEMMA RaiseGood ==
  ASSUME NEW d, NEW O, Good(d, O), NEW t \in d.mapped
  PROVE  Good(raise_floating(d, t), O) /\ Refocused(d, raise_floating(d, t))
<1>1. d \in Desk /\ t \in Window /\ d.workspace[t] \in Workspace /\ Lists(d, Placed(d))
  BY DEF Good, Windows, Desk
<1>2. CASE t \notin d.floating
  BY <1>1, <1>2 DEF raise_floating, Refocused, NoneEnter
<1>3. CASE t \in d.floating
  <2> DEFINE e == Unlink(d, t)
             f == LinkFloating(e, t)
             L == Placed(d)
  <2>1. t \in L
    BY <1>3 DEF Placed, Good, Windows
  <2> HIDE DEF L
  <2>2. Relinked(d, e) /\ Lists(e, L \ {t}) /\ NoneEnter(d, e, Workspace)
    BY <1>1, UnlinkLists DEF L
  <2> HIDE DEF e
  <2>3. e \in Desk /\ e.workspace[t] \in Workspace
    BY <1>1, <2>2 DEF Relinked
  <2>4. Relinked(e, f) /\ Lists(f, (L \ {t}) \cup {t}) /\ f.toplevels = e.toplevels
    BY <1>1, <2>2, <2>3, LinkFloatingLists
  <2>5. (L \ {t}) \cup {t} = L
    BY <2>1
  <2> HIDE DEF f
  <2>6. Relinked(d, f) /\ Lists(f, L)
    BY <2>2, <2>4, <2>5, RelinkedTrans
  <2>7. Good(f, O)
    BY <2>6, RelinkedGood DEF L
  <2>8. Refocused(d, f)
    <3>1. NoneEnter(d, f, Workspace)
      BY <2>2, <2>4 DEF NoneEnter
    <3> QED BY <2>6, <3>1, RelinkedRefocused
  <2> QED BY <1>3, <2>7, <2>8 DEF raise_floating, e, f
<1> QED BY <1>2, <1>3

(* The parts of focus_toplevel: its workspace and output learn of the focus, *)
(* and a stack shows another window.                                       *)
Aim(d, t) ==
  LET w == d.workspace[t]
  IN [d EXCEPT !.lastFocused[w] = d.focused[w], !.focused[w] = t,
               !.activeOutput = IF d.output[w] = NULL THEN @ ELSE d.output[w]]

Restack(d, w) ==
  LET hidden == TilesOf(d, w) \ {ActiveTiled(d, w)}
      shown == (TilesOf(d, w) \cap {ActiveTiled(d, w)}) \cup ToSet(d.floats[w])
  IN IF w \in d.monocle THEN Enable(Disable(d, hidden), shown) ELSE d

Take(d, t) == [d EXCEPT !.keyboard = t]

LEMMA FocusIs ==
  ASSUME NEW d, NEW t
  PROVE  focus_toplevel(d, t)
         = IF d.keyboard = t THEN d
           ELSE Take(raise_floating(Restack(Aim(d, t), d.workspace[t]), t), t)
<1> DEFINE w == d.workspace[t]
<1>1. Aim(d, t).monocle = d.monocle
  BY DEF Aim
<1> QED BY <1>1 DEF focus_toplevel, Take, Aim, Restack

(* All that the first part changes. *)
LEMMA AimGood ==
  ASSUME NEW d, NEW O, Good(d, O), NEW t \in d.mapped
  PROVE  /\ Good(Aim(d, t), O) /\ Refocused(d, Aim(d, t))
         /\ Aim(d, t).focused = [d.focused EXCEPT ![d.workspace[t]] = t]
         /\ Aim(d, t).toplevels = d.toplevels /\ Aim(d, t).floats = d.floats
         /\ Aim(d, t).keyboard = d.keyboard
         /\ Aim(d, t).enabled = d.enabled /\ Aim(d, t).monocle = d.monocle
<1> DEFINE w == d.workspace[t]
           f == Aim(d, t)
<1>0. f = [d EXCEPT !.lastFocused[w] = d.focused[w], !.focused[w] = t,
               !.activeOutput = IF d.output[w] = NULL THEN @ ELSE d.output[w]]
  BY DEF Aim
<1>1. d \in Desk /\ t \in Window /\ w \in Workspace /\ w = d.workspace[t]
  BY DEF Good, Windows, Desk
<1> HIDE DEF w, f
<1>2. d.focused[w] \in Window \cup {NULL} /\ d.output[w] \in Output \cup {NULL}
  BY <1>1 DEF Desk
<1>3. /\ f \in Desk
      /\ f.lastFocused = [d.lastFocused EXCEPT ![w] = d.focused[w]]
      /\ f.focused = [d.focused EXCEPT ![w] = t]
      /\ f.activeOutput = IF d.output[w] = NULL THEN d.activeOutput ELSE d.output[w]
      /\ f.fullscreenWindow = d.fullscreenWindow /\ f.workspace = d.workspace
      /\ f.toplevels = d.toplevels /\ f.floats = d.floats
      /\ f.keyboard = d.keyboard /\ f.enabled = d.enabled /\ f.monocle = d.monocle
      /\ Refocused(d, f)
  BY <1>0, <1>1, <1>2 DEF Desk, Refocused, NoneEnter
<1>4. Good(f, O)
  <2>1. Windows(f)
    BY <1>3 DEF Good, Refocused, Windows, Lists, Listed, Placed
  <2>2. \A v \in Workspace : Here(f, v) = Here(d, v)
    BY <1>3 DEF Refocused, Here
  <2>3. t \in Here(d, w)
    BY <1>1 DEF Here
  <2>4. \A v \in Workspace : /\ f.focused[v] = IF v = w THEN t ELSE d.focused[v]
                             /\ f.lastFocused[v] = IF v = w THEN d.focused[w]
                                                   ELSE d.lastFocused[v]
    BY <1>1, <1>3 DEF Desk
  <2>5. Pointers(f)
    BY <1>3, <2>2, <2>3, <2>4 DEF Good, Refocused, Pointers
  <2>6. Screens(f, O)
    BY <1>1, <1>3 DEF Good, Refocused, Screens
  <2> QED BY <1>3, <2>1, <2>5, <2>6 DEF Good
<1> QED BY <1>1, <1>3, <1>4 DEF f, w

(* The second shows and hides only. *)
LEMMA RestackAlike ==
  ASSUME NEW d \in Desk, NEW w \in Workspace
  PROVE  Alike(d, Restack(d, w))
<1> DEFINE T == TilesOf(d, w)
           hidden == T \ {ActiveTiled(d, w)}
           shown == (T \cap {ActiveTiled(d, w)}) \cup ToSet(d.floats[w])
           h == Disable(d, hidden)
<1>1. T \in SUBSET Window /\ ToSet(d.floats[w]) \in SUBSET Window
  BY TilesIn, ListedIn
<1> HIDE DEF T
<1>2. hidden \in SUBSET Window /\ shown \in SUBSET Window
  BY <1>1
<1> HIDE DEF hidden, shown
<1>3. Alike(d, h) /\ h \in Desk
  BY <1>2, EnableAlike DEF Alike
<1> HIDE DEF h
<1>4. Alike(d, Enable(h, shown))
  BY <1>2, <1>3, EnableAlike, AlikeTrans
<1> QED BY <1>4, AlikeSelf DEF Restack, h, shown, hidden, T

(* Any mapped window can be focused. *)
LEMMA FocusGood ==
  ASSUME NEW d, NEW O, Good(d, O), NEW t \in d.mapped
  PROVE  Good(focus_toplevel(d, t), O) /\ Refocused(d, focus_toplevel(d, t))
<1> DEFINE w == d.workspace[t]
           f == Aim(d, t)
           seen == Restack(f, w)
           r == raise_floating(seen, t)
<1>1. d \in Desk /\ t \in Window /\ w \in Workspace
  BY DEF Good, Windows, Desk
<1>2. Good(f, O) /\ Refocused(d, f) /\ f \in Desk
  BY AimGood DEF Good
<1> HIDE DEF f, w
<1>3. Alike(f, seen)
  BY <1>1, <1>2, RestackAlike
<1> HIDE DEF seen
<1>4. Good(seen, O) /\ t \in seen.mapped /\ Refocused(d, seen)
  BY <1>2, <1>3, AlikeGood, AlikeRefocused, RefocusedTrans DEF Alike, Refocused
<1>5. Good(r, O) /\ Refocused(d, r)
  BY <1>4, RaiseGood, RefocusedTrans
<1> HIDE DEF r
<1>6. Good(Take(r, t), O) /\ Refocused(r, Take(r, t))
  BY <1>1, <1>5, KeyboardGood DEF Take
<1>7. Refocused(d, Take(r, t))
  BY <1>5, <1>6, RefocusedTrans
<1>8. focus_toplevel(d, t) = IF d.keyboard = t THEN d ELSE Take(r, t)
  BY FocusIs DEF r, seen, f, w
<1>9. Refocused(d, d)
  BY <1>1 DEF Refocused, NoneEnter
<1> QED BY <1>6, <1>7, <1>8, <1>9

(* A window taken out and linked anew is listed. *)
LEMMA RelistLists ==
  ASSUME NEW d \in Desk, NEW L, Lists(d, L), NEW t \in Window,
         d.workspace[t] \in Workspace
  PROVE  /\ Relinked(d, LinkFloating(Unlink(d, t), t))
         /\ Lists(LinkFloating(Unlink(d, t), t), L \cup {t})
         /\ NoneEnter(d, LinkFloating(Unlink(d, t), t), Workspace)
         /\ Relinked(d, LinkTiled(Unlink(d, t), t))
         /\ Lists(LinkTiled(Unlink(d, t), t), L \cup {t})
<1> DEFINE e == Unlink(d, t)
<1>1. Relinked(d, e) /\ Lists(e, L \ {t}) /\ NoneEnter(d, e, Workspace)
  BY UnlinkLists
<1> HIDE DEF e
<1>2. e \in Desk /\ e.workspace[t] \in Workspace
  BY <1>1 DEF Relinked
<1>3. (L \ {t}) \cup {t} = L \cup {t}
  OBVIOUS
<1>4. /\ Relinked(e, LinkFloating(e, t)) /\ Lists(LinkFloating(e, t), L \cup {t})
      /\ LinkFloating(e, t).toplevels = e.toplevels
      /\ Relinked(e, LinkTiled(e, t)) /\ Lists(LinkTiled(e, t), L \cup {t})
  BY <1>1, <1>2, <1>3, LinkFloatingLists, LinkTiledLists
<1>5. NoneEnter(d, LinkFloating(e, t), Workspace)
  BY <1>1, <1>4 DEF NoneEnter
<1> QED BY <1>1, <1>4, <1>5, RelinkedTrans DEF e

(* e has the windows and the outputs of d. *)
Keeps(d, e) ==
  /\ e.workspace = d.workspace /\ e.mapped = d.mapped
  /\ e.output = d.output /\ e.shows = d.shows /\ e.outputs = d.outputs
  /\ e.powered = d.powered /\ e.current = d.current

(* It composes. *)
LEMMA KeepsTrans ==
  ASSUME NEW d, NEW e, NEW f, Keeps(d, e), Keeps(e, f)
  PROVE  Keeps(d, f)
BY DEF Keeps

(* A change of the focus is such a step. *)
LEMMA RefocusedKeeps ==
  ASSUME NEW d, NEW e, Refocused(d, e)
  PROVE  Keeps(d, e)
BY DEF Refocused, Keeps

(* A change of what is visible is. *)
LEMMA AlikeKeeps ==
  ASSUME NEW d, NEW e, Alike(d, e)
  PROVE  Keeps(d, e)
BY DEF Alike, Keeps

(* A change of the lists is. *)
LEMMA RelinkedKeeps ==
  ASSUME NEW d, NEW e, Relinked(d, e)
  PROVE  Keeps(d, e)
BY DEF Relinked, Keeps

(* What a preference and the lists of a workspace find. *)
LEMMA FirstListed ==
  ASSUME NEW d \in Desk, NEW w \in Workspace, NEW p \in Seq(Window \cup {NULL})
  PROVE  /\ FirstOf(p \o d.toplevels[w] \o d.floats[w])
              \in ToSet(p) \cup Listed(d, w) \cup {NULL}
         /\ FirstOf(p \o d.toplevels[w]) \in ToSet(p) \cup Listed(d, w) \cup {NULL}
         /\ FirstOf(d.toplevels[w] \o d.floats[w]) \in Listed(d, w) \cup {NULL}
<1> DEFINE S == Window \cup {NULL}
           a == d.toplevels[w]
           b == d.floats[w]
<1>1. p \in Seq(S) /\ a \in Seq(S) /\ b \in Seq(S)
  BY DEF Desk
<1> HIDE DEF S, a, b
<1>2. p \o a \in Seq(S) /\ ToSet(p \o a) = ToSet(p) \cup ToSet(a)
  BY <1>1, MembersConcat
<1>3. p \o a \o b \in Seq(S) /\ ToSet(p \o a \o b) = ToSet(p \o a) \cup ToSet(b)
  <2> DEFINE q == p \o a
  <2>1. q \in Seq(S)
    BY <1>2
  <2> HIDE DEF q
  <2>2. q \o b \in Seq(S) /\ ToSet(q \o b) = ToSet(q) \cup ToSet(b)
    BY <1>1, <2>1, MembersConcat
  <2> QED BY <2>2 DEF q
<1>4. a \o b \in Seq(S) /\ ToSet(a \o b) = ToSet(a) \cup ToSet(b)
  BY <1>1, MembersConcat
<1>5. \A s \in Seq(S) : FirstOf(s) \in ToSet(s) \cup {NULL}
  BY FirstOfIs
<1> QED BY <1>2, <1>3, <1>4, <1>5 DEF Listed, a, b

----------------------------------------------------------------------------
(* Floating, fullscreen and monocle. *)

(* A tiled window floats. *)
LEMMA FloatOutGood ==
  ASSUME NEW d, NEW O, Good(d, O), NEW t \in d.mapped \ d.fullscreen
  PROVE  Good(FloatOut(d, t), O) /\ Keeps(d, FloatOut(d, t))
<1> DEFINE e == [d EXCEPT !.leaf = @ \ {t}, !.floating = @ \cup {t}]
           f == LinkFloating(Unlink(e, t), t)
           w == d.workspace[t]
<1>1. d \in Desk /\ t \in Window /\ w \in Workspace
  BY DEF Good, Windows, Desk
<1> HIDE DEF w
<1>2. /\ e \in Desk /\ e.leaf = d.leaf \ {t} /\ e.floating = d.floating \cup {t}
      /\ e.fullscreen = d.fullscreen /\ e.savedFloating = d.savedFloating
      /\ e.toplevels = d.toplevels /\ e.floats = d.floats
      /\ e.focused = d.focused /\ e.lastFocused = d.lastFocused
      /\ e.fullscreenWindow = d.fullscreenWindow /\ e.activeOutput = d.activeOutput
      /\ Keeps(d, e)
  BY <1>1 DEF Desk, Keeps
<1> HIDE DEF e
<1>3. Good(e, O)
  BY <1>1, <1>2 DEF Good, Windows, Lists, Listed, Placed, Pointers, Here, Screens, Keeps
<1>4. e.workspace[t] = w /\ t \in Placed(e)
  BY <1>2 DEF Placed, Keeps, w
<1>5. Relinked(e, f) /\ Lists(f, Placed(e) \cup {t})
  BY <1>1, <1>2, <1>3, <1>4, RelistLists DEF Good, Windows
<1>6. Placed(e) \cup {t} = Placed(e)
  BY <1>4
<1> HIDE DEF f
<1>7. Good(f, O) /\ f \in Desk
  BY <1>3, <1>5, <1>6, RelinkedGood DEF Good
<1>8. Alike(f, ExitMonocleIfEmpty(f, w))
  BY <1>1, <1>7, ExitMonocleAlike
<1>9. Good(ExitMonocleIfEmpty(f, w), O)
  BY <1>7, <1>8, AlikeGood
<1>10. Keeps(d, ExitMonocleIfEmpty(f, w))
  BY <1>2, <1>5, <1>8, RelinkedKeeps, AlikeKeeps, KeepsTrans
<1> QED BY <1>9, <1>10 DEF FloatOut, f, e, w

(* A floating window becomes a tile. *)
LEMMA TileBackGood ==
  ASSUME NEW d, NEW O, Good(d, O), NEW t \in d.mapped \ d.fullscreen
  PROVE  Good(TileBack(d, t), O) /\ Keeps(d, TileBack(d, t))
<1> DEFINE e == [d EXCEPT !.leaf = @ \cup {t}, !.floating = @ \ {t}]
           f == LinkTiled(Unlink(e, t), t)
           w == d.workspace[t]
<1>1. d \in Desk /\ t \in Window /\ w \in Workspace
  BY DEF Good, Windows, Desk
<1> HIDE DEF w
<1>2. /\ e \in Desk /\ e.leaf = d.leaf \cup {t} /\ e.floating = d.floating \ {t}
      /\ e.fullscreen = d.fullscreen /\ e.savedFloating = d.savedFloating
      /\ e.toplevels = d.toplevels /\ e.floats = d.floats
      /\ e.focused = d.focused /\ e.lastFocused = d.lastFocused
      /\ e.fullscreenWindow = d.fullscreenWindow /\ e.activeOutput = d.activeOutput
      /\ Keeps(d, e)
  BY <1>1 DEF Desk, Keeps
<1> HIDE DEF e
<1>3. Good(e, O)
  BY <1>1, <1>2 DEF Good, Windows, Lists, Listed, Placed, Pointers, Here, Screens, Keeps
<1>4. e.workspace[t] = w /\ t \in Placed(e)
  BY <1>2 DEF Placed, Keeps, w
<1>5. Relinked(e, f) /\ Lists(f, Placed(e) \cup {t})
  BY <1>1, <1>2, <1>3, <1>4, RelistLists DEF Good, Windows
<1>6. Placed(e) \cup {t} = Placed(e)
  BY <1>4
<1> HIDE DEF f
<1>7. Good(f, O)
  BY <1>3, <1>5, <1>6, RelinkedGood
<1>8. Keeps(d, f)
  BY <1>2, <1>5, RelinkedKeeps, KeepsTrans
<1> QED BY <1>7, <1>8 DEF TileBack, f, e

(* toggle_floating, either way, with the layout and the focus after it. *)
LEMMA ToggleFloatingGood ==
  ASSUME NEW d, NEW O, Good(d, O), NEW t \in d.mapped
  PROVE  Good(toggle_floating(d, t), O) /\ Keeps(d, toggle_floating(d, t))
<1> DEFINE e == IF t \in d.floating THEN TileBack(d, t) ELSE FloatOut(d, t)
           f == Arrange(e, d.workspace[t])
<1>1. CASE t \in d.fullscreen
  BY <1>1 DEF toggle_floating, Keeps
<1>2. CASE t \notin d.fullscreen
  <2>1. Good(e, O) /\ Keeps(d, e) /\ d.workspace[t] \in Workspace
    BY <1>2, TileBackGood, FloatOutGood DEF Good, Windows
  <2> HIDE DEF e
  <2>2. Alike(e, f)
    BY <2>1, ArrangeAlike DEF Good
  <2> HIDE DEF f
  <2>3. Good(f, O) /\ Keeps(d, f) /\ t \in f.mapped
    <3>1. Good(f, O) /\ Keeps(d, f)
      BY <2>1, <2>2, AlikeGood, AlikeKeeps, KeepsTrans
    <3> QED BY <3>1 DEF Keeps
  <2>4. Good(focus_toplevel(f, t), O) /\ Keeps(d, focus_toplevel(f, t))
    BY <2>3, FocusGood, RefocusedKeeps, KeepsTrans
  <2> QED BY <1>2, <2>4 DEF toggle_floating, f, e
<1> QED BY <1>1, <1>2

(* A window covers its workspace; a floating one leaves its list. *)
LEMMA EnterFullscreenGood ==
  ASSUME NEW d, NEW O, Good(d, O), NEW t \in d.mapped \ d.fullscreen
  PROVE  Good(EnterFullscreen(d, t), O) /\ Keeps(d, EnterFullscreen(d, t))
<1> DEFINE w == d.workspace[t]
           h == Disable(d, Listed(d, w) \ {t})
           f == [h EXCEPT
              !.savedFloating = IF t \in d.floating THEN @ \cup {t} ELSE @ \ {t},
              !.floating = @ \ {t}, !.fullscreen = @ \cup {t},
              !.fullscreenWindow[w] = t]
           e == IF t \in d.floating THEN Unlink(f, t) ELSE f
<1>1. d \in Desk /\ t \in Window /\ w \in Workspace /\ t \in Here(d, w) /\ t \in Placed(d)
  BY DEF Good, Windows, Desk, Here, Placed
<1> HIDE DEF w
<1>2. Alike(d, h)
  <2>1. Listed(d, w) \ {t} \in SUBSET Window
    BY <1>1, ListedIn
  <2> QED BY <1>1, <2>1, EnableAlike
<1> HIDE DEF h
<1>3. Good(h, O)
  BY <1>2, AlikeGood
<1>4. /\ f.leaf = h.leaf /\ f.floating = h.floating \ {t}
      /\ f.fullscreen = h.fullscreen \cup {t}
      /\ f.savedFloating = IF t \in d.floating THEN h.savedFloating \cup {t}
                           ELSE h.savedFloating \ {t}
      /\ f.toplevels = h.toplevels /\ f.floats = h.floats
      /\ f.focused = h.focused /\ f.lastFocused = h.lastFocused
      /\ \A v \in Workspace :
           f.fullscreenWindow[v] = IF v = w THEN t ELSE h.fullscreenWindow[v]
      /\ f.activeOutput = h.activeOutput
      /\ Keeps(h, f)
  <2>1. h \in Desk
    BY <1>3 DEF Good
  <2> QED BY <1>1, <2>1 DEF Desk, Keeps
<1>5. f \in Desk
  <2>1. h \in Desk
    BY <1>3 DEF Good
  <2>2. /\ (IF t \in d.floating THEN h.savedFloating \cup {t} ELSE h.savedFloating \ {t})
             \in SUBSET Window
        /\ [h.fullscreenWindow EXCEPT ![w] = t] \in [Workspace -> Window \cup {NULL}]
    BY <1>1, <2>1 DEF Desk
  <2> DEFINE saved == IF t \in d.floating THEN h.savedFloating \cup {t}
                      ELSE h.savedFloating \ {t}
             full == [h.fullscreenWindow EXCEPT ![w] = t]
  <2>3. f = [h EXCEPT !.savedFloating = saved, !.floating = @ \ {t},
                      !.fullscreen = @ \cup {t}, !.fullscreenWindow = full]
    BY <2>1 DEF Desk
  <2> HIDE DEF saved, full, f
  <2>4. saved \in SUBSET Window /\ full \in [Workspace -> Window \cup {NULL}]
    BY <2>2 DEF saved, full
  <2> QED BY <1>1, <2>1, <2>3, <2>4 DEF Desk
<1> HIDE DEF f
<1>6. Pointers(f) /\ Screens(f, O) /\ Lists(f, Placed(h))
  <2>1. t \in Here(h, w)
    BY <1>1, <1>2 DEF Alike, Here
  <2>2. Pointers(f)
    BY <1>3, <1>4, <2>1 DEF Good, Pointers, Here, Keeps
  <2>3. Screens(f, O)
    BY <1>3, <1>4 DEF Good, Screens, Keeps
  <2>4. Lists(f, Placed(h))
    BY <1>3, <1>4 DEF Good, Windows, Lists, Listed, Keeps
  <2> QED BY <2>2, <2>3, <2>4
<1>7. Placed(f) = IF t \in d.floating THEN Placed(h) \ {t} ELSE Placed(h)
  <2>1. t \in Placed(h)
    BY <1>1, <1>2 DEF Alike, Placed
  <2> QED BY <1>4, <2>1 DEF Placed, Keeps
<1>8. /\ \A u \in f.mapped : f.workspace[u] \in Workspace
      /\ f.leaf \subseteq f.mapped /\ f.fullscreen \subseteq f.mapped
      /\ f.floating \cap f.fullscreen = {}
  BY <1>2, <1>3, <1>4 DEF Good, Windows, Keeps, Alike
<1>9. CASE t \notin d.floating
  <2>1. Good(f, O)
    BY <1>5, <1>6, <1>7, <1>8, <1>9 DEF Good, Windows
  <2>2. Keeps(d, f)
    BY <1>2, <1>4, AlikeKeeps, KeepsTrans
  <2> QED BY <1>9, <2>1, <2>2 DEF EnterFullscreen, f, h, w
<1>10. CASE t \in d.floating
  <2> DEFINE u == Unlink(f, t)
  <2>1. Relinked(f, u) /\ Lists(u, Placed(f))
    BY <1>5, <1>6, <1>7, <1>10, UnlinkLists
  <2> HIDE DEF u
  <2>2. Good(u, O)
    <3>1. Windows(u)
      BY <1>8, <2>1 DEF Relinked, Windows, Placed
    <3>2. Pointers(u)
      BY <1>6, <2>1 DEF Relinked, Pointers, Here
    <3>3. Screens(u, O)
      BY <1>6, <2>1 DEF Relinked, Screens
    <3> QED BY <2>1, <3>1, <3>2, <3>3 DEF Good, Relinked
  <2>3. Keeps(d, u)
    BY <1>2, <1>4, <2>1, AlikeKeeps, RelinkedKeeps, KeepsTrans
  <2> QED BY <1>10, <2>2, <2>3 DEF EnterFullscreen, u, f, h, w
<1> QED BY <1>9, <1>10

(* The focus goes to a mapped window or nowhere. *)
LEMMA FocusIfAnyGood ==
  ASSUME NEW d, NEW O, Good(d, O), NEW t \in d.mapped \cup {NULL}
  PROVE  Good(FocusIfAny(d, t), O) /\ Refocused(d, FocusIfAny(d, t))
<1>1. Refocused(d, d)
  BY DEF Good, Refocused, NoneEnter
<1> QED BY <1>1, FocusGood DEF FocusIfAny

(* Fewer windows are fullscreen, and none are new in the lists of W. *)
Thins(d, e, W) ==
  /\ e.savedFloating = d.savedFloating /\ e.fullscreen \subseteq d.fullscreen
  /\ NoneEnter(d, e, W)

(* It composes. *)
LEMMA ThinsTrans ==
  ASSUME NEW d, NEW e, NEW f, NEW W, Thins(d, e, W), Thins(e, f, W)
  PROVE  Thins(d, f, W)
BY DEF Thins, NoneEnter

(* A change of the focus brings no window in. *)
LEMMA RefocusedThins ==
  ASSUME NEW d, NEW e, Refocused(d, e)
  PROVE  Thins(d, e, Workspace)
BY DEF Thins, Refocused

(* A change of what is visible does not. *)
LEMMA AlikeThins ==
  ASSUME NEW d, NEW e, NEW W, Alike(d, e)
  PROVE  Thins(d, e, W)
BY DEF Thins, Alike, NoneEnter

(* A window that gives its workspace back; one that floated before is       *)
(* listed.                                                                 *)
Uncover(d, t) ==
  LET w == d.workspace[t]
      f == [d EXCEPT !.fullscreen = @ \ {t}, !.fullscreenWindow[w] = NULL]
  IN IF t \in d.savedFloating
     THEN LinkFloating(Unlink([f EXCEPT !.floating = @ \cup {t}], t), t)
     ELSE f

LEMMA UncoverGood ==
  ASSUME NEW d, NEW O, Good(d, O), NEW t \in d.fullscreen
  PROVE  /\ Good(Uncover(d, t), O) /\ Keeps(d, Uncover(d, t))
         /\ Uncover(d, t).fullscreen = d.fullscreen \ {t}
         /\ Thins(d, Uncover(d, t), Workspace)
<1> DEFINE w == d.workspace[t]
           f == [d EXCEPT !.fullscreen = @ \ {t}, !.fullscreenWindow[w] = NULL]
           g == [f EXCEPT !.floating = @ \cup {t}]
           l == LinkFloating(Unlink(g, t), t)
           back == IF t \in d.savedFloating THEN l ELSE f
<1>1. d \in Desk /\ t \in Window /\ w \in Workspace /\ t \in d.mapped
      /\ t \notin d.floating /\ w = d.workspace[t]
  BY DEF Good, Windows, Desk
<1> HIDE DEF w
<1>2. /\ f \in Desk /\ f.leaf = d.leaf /\ f.floating = d.floating
      /\ f.fullscreen = d.fullscreen \ {t} /\ f.savedFloating = d.savedFloating
      /\ f.toplevels = d.toplevels /\ f.floats = d.floats
      /\ f.focused = d.focused /\ f.lastFocused = d.lastFocused
      /\ \A v \in Workspace :
           f.fullscreenWindow[v] = IF v = w THEN NULL ELSE d.fullscreenWindow[v]
      /\ f.activeOutput = d.activeOutput /\ Keeps(d, f)
  BY <1>1 DEF Desk, Keeps
<1> HIDE DEF f
<1>3. Pointers(f) /\ Screens(f, O) /\ Lists(f, Placed(d))
  <2>1. \A v \in Workspace \ {w} : t \notin Here(d, v)
    BY <1>1 DEF Here
  <2>2. Pointers(f)
    BY <1>2, <2>1 DEF Good, Pointers, Here, Keeps
  <2>3. Screens(f, O)
    BY <1>2 DEF Good, Screens, Keeps
  <2>4. Lists(f, Placed(d))
    BY <1>2 DEF Good, Windows, Lists, Listed, Keeps
  <2> QED BY <2>2, <2>3, <2>4
<1>4. /\ \A u \in f.mapped : f.workspace[u] \in Workspace
      /\ f.leaf \subseteq f.mapped /\ f.fullscreen \subseteq f.mapped
      /\ f.floating \cap f.fullscreen = {}
  BY <1>2 DEF Good, Windows, Keeps
<1>5. Placed(f) = Placed(d) \cup {t}
  BY <1>1, <1>2 DEF Placed, Keeps
<1>6. Good(back, O) /\ Keeps(d, back) /\ back.fullscreen = f.fullscreen
      /\ Thins(d, back, Workspace)
  <2>1. CASE t \notin d.savedFloating
    <3>1. Placed(d) = Placed(f)
      BY <1>1, <1>5, <2>1 DEF Placed
    <3>2. Good(f, O)
      BY <1>2, <1>3, <1>4, <3>1 DEF Good, Windows
    <3>3. Thins(d, f, Workspace)
      BY <1>2 DEF Thins, NoneEnter
    <3> QED BY <1>2, <2>1, <3>2, <3>3
  <2>2. CASE t \in d.savedFloating
    <3>1. /\ g \in Desk /\ g.leaf = f.leaf /\ g.floating = f.floating \cup {t}
          /\ g.fullscreen = f.fullscreen /\ g.savedFloating = f.savedFloating
          /\ g.toplevels = f.toplevels /\ g.floats = f.floats
          /\ g.focused = f.focused /\ g.lastFocused = f.lastFocused
          /\ g.fullscreenWindow = f.fullscreenWindow
          /\ g.activeOutput = f.activeOutput /\ Keeps(f, g)
      BY <1>1, <1>2 DEF Desk, Keeps
    <3> HIDE DEF g
    <3>2. Lists(g, Placed(d)) /\ Placed(g) = Placed(d) \cup {t}
      BY <1>3, <1>5, <3>1 DEF Lists, Listed, Placed, Keeps
    <3>3. g.workspace[t] \in Workspace
      BY <1>1, <1>2, <3>1 DEF Keeps
    <3>4. Relinked(g, l) /\ Lists(l, Placed(g)) /\ NoneEnter(g, l, Workspace)
      BY <1>1, <3>1, <3>2, <3>3, RelistLists
    <3> HIDE DEF l
    <3>5. Windows(l)
      BY <1>2, <1>4, <3>1, <3>4 DEF Relinked, Windows, Placed, Keeps
    <3>6. Pointers(l)
      BY <1>3, <3>1, <3>4 DEF Relinked, Pointers, Here, Keeps
    <3>7. Screens(l, O)
      BY <1>3, <3>1, <3>4 DEF Relinked, Screens, Keeps
    <3>8. Good(l, O) /\ l.fullscreen = f.fullscreen
      BY <3>1, <3>4, <3>5, <3>6, <3>7 DEF Good, Relinked
    <3>9. Keeps(d, l)
      BY <1>2, <3>1, <3>4, RelinkedKeeps, KeepsTrans
    <3>10. Thins(d, l, Workspace)
      BY <1>2, <3>1, <3>4 DEF Relinked, Thins, NoneEnter
    <3> QED BY <2>2, <3>8, <3>9, <3>10
  <2> QED BY <2>1, <2>2
<1> QED BY <1>2, <1>6 DEF Uncover, back, l, g, f, w

(* The layout and the focus follow. *)
LEMMA LeaveFullscreenGood ==
  ASSUME NEW d, NEW O, Good(d, O), NEW t \in d.fullscreen
  PROVE  /\ Good(LeaveFullscreen(d, t), O) /\ Keeps(d, LeaveFullscreen(d, t))
         /\ LeaveFullscreen(d, t).fullscreen = d.fullscreen \ {t}
         /\ Thins(d, LeaveFullscreen(d, t), Workspace)
<1> DEFINE w == d.workspace[t]
           back == Uncover(d, t)
           shown == Enable(back, Listed(back, w))
           a == Arrange(shown, w)
           next == IF d.focused[w] = t THEN t ELSE NULL
<1>1. w \in Workspace /\ t \in d.mapped
  BY DEF Good, Windows, Desk
<1> HIDE DEF w
<1>2. /\ Good(back, O) /\ Keeps(d, back) /\ back.fullscreen = d.fullscreen \ {t}
      /\ Thins(d, back, Workspace)
  BY UncoverGood
<1> HIDE DEF back
<1>3. Alike(back, shown) /\ shown \in Desk
  <2>1. back \in Desk /\ Listed(back, w) \in SUBSET Window
    BY <1>1, <1>2, ListedIn DEF Good
  <2> QED BY <2>1, EnableAlike DEF Alike
<1> HIDE DEF shown
<1>4. Alike(back, a)
  BY <1>1, <1>3, ArrangeAlike, AlikeTrans
<1> HIDE DEF a
<1>5. Good(a, O) /\ Keeps(d, a) /\ a.fullscreen = d.fullscreen \ {t}
  BY <1>2, <1>4, AlikeGood, AlikeKeeps, KeepsTrans DEF Alike
<1>6. next \in a.mapped \cup {NULL}
  BY <1>1, <1>5 DEF Keeps
<1> HIDE DEF next
<1>7. Good(FocusIfAny(a, next), O) /\ Refocused(a, FocusIfAny(a, next))
  BY <1>5, <1>6, FocusIfAnyGood
<1>8. Keeps(d, FocusIfAny(a, next))
  BY <1>5, <1>7, RefocusedKeeps, KeepsTrans
<1>9. LeaveFullscreen(d, t) = FocusIfAny(a, next)
  BY DEF LeaveFullscreen, Uncover, next, a, shown, back, w
<1>10. Thins(d, FocusIfAny(a, next), Workspace)
  BY <1>2, <1>4, <1>7, AlikeThins, RefocusedThins, ThinsTrans
<1> QED BY <1>5, <1>7, <1>8, <1>9, <1>10 DEF Refocused

(* toggle_fullscreen, either way. *)
LEMMA ToggleFullscreenGood ==
  ASSUME NEW d, NEW O, Good(d, O), NEW t \in d.mapped
  PROVE  Good(toggle_fullscreen(d, t), O) /\ Keeps(d, toggle_fullscreen(d, t))
BY EnterFullscreenGood, LeaveFullscreenGood DEF toggle_fullscreen

(* What is about to be moved or tiled leaves fullscreen first. *)
LEMMA NotFullscreenGood ==
  ASSUME NEW d, NEW O, Good(d, O), NEW t \in d.mapped
  PROVE  /\ Good(NotFullscreen(d, t), O) /\ Keeps(d, NotFullscreen(d, t))
         /\ t \notin NotFullscreen(d, t).fullscreen
         /\ Thins(d, NotFullscreen(d, t), Workspace)
<1> DEFINE n == LeaveFullscreen(d, t)
<1>1. CASE t \in d.fullscreen
  <2>1. NotFullscreen(d, t) = n
    BY <1>1 DEF NotFullscreen
  <2>2. /\ Good(n, O) /\ Keeps(d, n) /\ n.fullscreen = d.fullscreen \ {t}
        /\ Thins(d, n, Workspace)
    BY <1>1, LeaveFullscreenGood
  <2> HIDE DEF n
  <2> QED BY <2>1, <2>2
<1>2. CASE t \notin d.fullscreen
  <2>1. NotFullscreen(d, t) = d
    BY <1>2 DEF NotFullscreen
  <2>2. Keeps(d, d) /\ Thins(d, d, Workspace)
    BY DEF Keeps, Thins, NoneEnter
  <2> QED BY <1>2, <2>1, <2>2
<1> QED BY <1>1, <1>2

(* Monocle off; or on, which focuses the focused window. *)
LEMMA ToggleMonocleGood ==
  ASSUME NEW d, NEW O, Good(d, O), NEW w \in Workspace,
         w \in d.monocle \/ d.focused[w] # NULL
  PROVE  Good(toggle_monocle(d, w), O) /\ Keeps(d, toggle_monocle(d, w))
<1> DEFINE on == [d EXCEPT !.monocle = @ \cup {w}]
           S == LeavesOf(d, w) \cup ToSet(d.floats[w])
           a == Arrange(on, w)
           f == focus_toplevel(a, d.focused[w])
<1>1. d \in Desk /\ S \in SUBSET Window /\ ToSet(d.floats[w]) \in SUBSET Window
  BY TilesIn, ListedIn DEF Good
<1>2. Alike(d, on) /\ on \in Desk
  <2>1. Alike(d, on)
    BY <1>1, MonocleAlike
  <2> HIDE DEF on
  <2> QED BY <2>1 DEF Alike
<1>3. CASE w \in d.monocle
  <2>1. Alike(d, Enable(ArrangeIfTree([d EXCEPT !.monocle = @ \ {w}], w), S))
    BY <1>1, OffAlike
  <2> QED BY <1>3, <2>1, AlikeGood, AlikeKeeps DEF toggle_monocle
<1>4. CASE w \notin d.monocle /\ LeavesOf(d, w) = {}
  BY <1>2, <1>4, AlikeGood, AlikeKeeps DEF toggle_monocle
<1>5. CASE w \notin d.monocle /\ LeavesOf(d, w) # {}
  <2> HIDE DEF on
  <2>1. Alike(d, a)
    BY <1>2, ArrangeAlike, AlikeTrans
  <2> HIDE DEF a
  <2>2. Good(a, O) /\ d.focused[w] \in a.mapped
    <3>1. d.focused[w] \in d.mapped
      BY <1>5 DEF Good, Pointers, Here
    <3> QED BY <2>1, <3>1, AlikeGood DEF Alike
  <2>3. Good(f, O) /\ Refocused(a, f)
    BY <2>2, FocusGood
  <2> HIDE DEF f
  <2>4. Alike(f, Enable(f, ToSet(d.floats[w])))
    BY <1>1, <2>3, EnableAlike DEF Good
  <2>5. Good(Enable(f, ToSet(d.floats[w])), O)
    BY <2>3, <2>4, AlikeGood
  <2>6. Keeps(d, Enable(f, ToSet(d.floats[w])))
    BY <2>1, <2>3, <2>4, AlikeKeeps, RefocusedKeeps, KeepsTrans
  <2> QED BY <1>5, <2>5, <2>6 DEF toggle_monocle, f, a, on
<1> QED BY <1>3, <1>4, <1>5

(* set_bsp_mode undoes fullscreen, floating and monocle in turn. *)
LEMMA SetBspGood ==
  ASSUME NEW d, NEW O, Good(d, O), NEW w \in Workspace, d.focused[w] # NULL
  PROVE  Good(set_bsp_mode(d, w), O) /\ Keeps(d, set_bsp_mode(d, w))
<1> DEFINE t == d.focused[w]
           e == NotFullscreen(d, t)
           f == NotFloating(e, t)
<1>1. t \in d.mapped
  BY DEF Good, Pointers, Here
<1> HIDE DEF t
<1>2. Good(e, O) /\ t \in e.mapped /\ Keeps(d, e)
  BY <1>1, NotFullscreenGood DEF Keeps
<1> HIDE DEF e
<1>3. Good(f, O) /\ Keeps(e, f)
  BY <1>2, ToggleFloatingGood DEF NotFloating, Keeps
<1> HIDE DEF f
<1>4. Good(NotMonocle(f, w), O) /\ Keeps(f, NotMonocle(f, w))
  BY <1>3, ToggleMonocleGood DEF NotMonocle, Keeps
<1> QED BY <1>2, <1>3, <1>4, KeepsTrans DEF set_bsp_mode, f, e, t

----------------------------------------------------------------------------
(* Moves between workspaces. *)

(* e is consistent but that t is on its way: nothing lists it or points at  *)
(* it.                                                                     *)
Loose(e, t, O) ==
  /\ e \in Desk /\ Screens(e, O)
  /\ t \in e.mapped \ (e.fullscreen \cup e.leaf)
  /\ \A u \in e.mapped : e.workspace[u] \in Workspace
  /\ e.leaf \subseteq e.mapped /\ e.fullscreen \subseteq e.mapped
  /\ e.floating \cap e.fullscreen = {}
  /\ Lists(e, Placed(e) \ {t})
  /\ \A w \in Workspace :
       /\ e.focused[w] \in (Here(e, w) \ {t}) \cup {NULL}
       /\ e.lastFocused[w] \in (Here(e, w) \ {t}) \cup {NULL}
       /\ e.fullscreenWindow[w] \in (Here(e, w) \cap e.fullscreen) \cup {NULL}

(* Out of its list and tree, and out of the focus. *)
LEMMA LeavesWorkspace ==
  ASSUME NEW d, NEW O, Good(d, O), NEW t \in d.mapped \ d.fullscreen
  PROVE  /\ Loose(PassFocus(MoveOut(d, t), t), t, O)
         /\ Keeps(d, PassFocus(MoveOut(d, t), t))
         /\ Thins(d, PassFocus(MoveOut(d, t), t), Workspace)
<1> DEFINE v == d.workspace[t]
           l == ForgetLast(d, t)
           n == [l EXCEPT !.leaf = @ \ {t}]
           e == Unlink(n, t)
           m == MoveOut(d, t)
           p == PassFocus(m, t)
<1>1. d \in Desk /\ t \in Window /\ v \in Workspace /\ v = d.workspace[t]
  BY DEF Good, Windows, Desk
<1> HIDE DEF v
<1>2. /\ n \in Desk /\ n.leaf = d.leaf \ {t} /\ n.floating = d.floating
      /\ n.fullscreen = d.fullscreen /\ n.savedFloating = d.savedFloating
      /\ n.toplevels = d.toplevels /\ n.floats = d.floats
      /\ n.focused = d.focused
      /\ \A w \in Workspace : n.lastFocused[w] =
           IF w = v /\ d.lastFocused[w] = t THEN NULL ELSE d.lastFocused[w]
      /\ n.fullscreenWindow = d.fullscreenWindow
      /\ n.activeOutput = d.activeOutput /\ Keeps(d, n)
  BY <1>1 DEF Desk, Keeps, ForgetLast
<1> HIDE DEF n
<1>3. Relinked(n, e) /\ Lists(e, Placed(d) \ {t}) /\ NoneEnter(n, e, Workspace)
  <2>1. Lists(n, Placed(d))
    BY <1>2 DEF Good, Windows, Lists, Listed, Keeps
  <2> QED BY <1>2, <2>1, UnlinkLists
<1> HIDE DEF e
<1>4. Alike(e, m)
  <2>1. e \in Desk
    BY <1>3 DEF Relinked
  <2>2. m = IF t \in d.floating THEN e ELSE ExitMonocleIfEmpty(e, v)
    BY DEF MoveOut, e, n, l, v
  <2> QED BY <1>1, <2>1, <2>2, AlikeSelf, ExitMonocleAlike
<1> HIDE DEF m
<1>5. /\ m \in Desk /\ m.leaf = d.leaf \ {t} /\ m.floating = d.floating
      /\ m.fullscreen = d.fullscreen /\ m.savedFloating = d.savedFloating
      /\ m.focused = d.focused
      /\ \A w \in Workspace : m.lastFocused[w] =
           IF w = v /\ d.lastFocused[w] = t THEN NULL ELSE d.lastFocused[w]
      /\ m.fullscreenWindow = d.fullscreenWindow
      /\ m.activeOutput = d.activeOutput /\ Keeps(d, m)
  <2>1. Keeps(d, m)
    BY <1>2, <1>3, <1>4, RelinkedKeeps, AlikeKeeps, KeepsTrans
  <2> QED BY <1>2, <1>3, <1>4, <2>1 DEF Relinked, Alike
<1>6. Lists(m, Placed(m) \ {t}) /\ Screens(m, O)
  <2>1. Placed(m) = Placed(d)
    BY <1>5 DEF Placed, Keeps
  <2>2. Lists(m, Placed(d) \ {t})
    BY <1>3, <1>4 DEF Lists, Listed, Alike
  <2>3. Screens(m, O)
    BY <1>5 DEF Good, Screens, Keeps
  <2> QED BY <2>1, <2>2, <2>3
<1> DEFINE u == FirstOf(m.toplevels[v] \o m.floats[v])
<1>7. u \in (Here(m, v) \ {t}) \cup {NULL}
  <2>1. u \in Listed(m, v) \cup {NULL}
    BY <1>1, <1>5, FirstListed, MembersOne
  <2>2. Listed(m, v) \subseteq Here(m, v) \ {t}
    BY <1>1, <1>6 DEF Lists, Placed, Here
  <2> QED BY <2>1, <2>2
<1> HIDE DEF u
<1>8. /\ p \in Desk /\ p.leaf = m.leaf /\ p.floating = m.floating
      /\ p.fullscreen = m.fullscreen /\ p.savedFloating = m.savedFloating
      /\ p.toplevels = m.toplevels /\ p.floats = m.floats
      /\ \A w \in Workspace :
           /\ p.focused[w] = IF w = v /\ m.focused[v] = t THEN u ELSE m.focused[w]
           /\ p.lastFocused[w] = IF w = v /\ m.focused[v] = t THEN NULL
                                 ELSE m.lastFocused[w]
      /\ p.fullscreenWindow = m.fullscreenWindow
      /\ p.activeOutput = m.activeOutput /\ Keeps(m, p)
  <2>1. m.workspace[t] = v
    BY <1>1, <1>5 DEF Keeps
  <2>2. p = IF m.focused[v] # t THEN m
            ELSE [m EXCEPT !.lastFocused[v] = NULL, !.focused[v] = u]
    BY <2>1 DEF PassFocus, u
  <2>3. u \in Window \cup {NULL}
    BY <1>5, <1>7 DEF Here, Desk
  <2>4. CASE m.focused[v] # t
    BY <1>5, <2>2, <2>4 DEF Keeps
  <2>5. CASE m.focused[v] = t
    <3>1. p = [m EXCEPT !.lastFocused[v] = NULL, !.focused[v] = u]
      BY <2>2, <2>5
    <3> HIDE DEF p
    <3> DEFINE fs == [m.focused EXCEPT ![v] = u]
               ls == [m.lastFocused EXCEPT ![v] = NULL]
    <3>6. /\ fs \in [Workspace -> Window \cup {NULL}]
          /\ ls \in [Workspace -> Window \cup {NULL}]
          /\ \A w \in Workspace :
               /\ fs[w] = IF w = v THEN u ELSE m.focused[w]
               /\ ls[w] = IF w = v THEN NULL ELSE m.lastFocused[w]
      <4>1. /\ m.focused \in [Workspace -> Window \cup {NULL}]
            /\ m.lastFocused \in [Workspace -> Window \cup {NULL}]
        BY <1>5 DEF Desk
      <4> QED BY <1>1, <2>3, <4>1
    <3>7. p = [m EXCEPT !.lastFocused = ls, !.focused = fs]
      BY <3>1
    <3> HIDE DEF fs, ls
    <3>2. p \in Desk
      BY <1>5, <3>6, <3>7 DEF Desk
    <3>3. p.focused = fs /\ p.lastFocused = ls
      BY <1>5, <3>7 DEF Desk
    <3>4. \A w \in Workspace :
            /\ p.focused[w] = IF w = v THEN u ELSE m.focused[w]
            /\ p.lastFocused[w] = IF w = v THEN NULL ELSE m.lastFocused[w]
      BY <3>3, <3>6
    <3>5. /\ p.leaf = m.leaf /\ p.floating = m.floating
          /\ p.fullscreen = m.fullscreen /\ p.savedFloating = m.savedFloating
          /\ p.toplevels = m.toplevels /\ p.floats = m.floats
          /\ p.fullscreenWindow = m.fullscreenWindow
          /\ p.activeOutput = m.activeOutput /\ Keeps(m, p)
      BY <1>5, <3>1 DEF Desk, Keeps
    <3> QED BY <2>5, <3>2, <3>4, <3>5
  <2> QED BY <2>4, <2>5
<1> HIDE DEF p
<1>9. \A w \in Workspace :
        /\ p.focused[w] \in (Here(p, w) \ {t}) \cup {NULL}
        /\ p.lastFocused[w] \in (Here(p, w) \ {t}) \cup {NULL}
        /\ p.fullscreenWindow[w] \in (Here(p, w) \cap p.fullscreen) \cup {NULL}
  <2>1. \A w \in Workspace : Here(p, w) = Here(d, w) /\ Here(m, w) = Here(d, w)
                             /\ (w # v => t \notin Here(d, w))
    BY <1>1, <1>5, <1>8 DEF Here, Keeps
  <2> QED BY <1>1, <1>5, <1>7, <1>8, <2>1 DEF Good, Pointers
<1>10. Lists(p, Placed(p) \ {t}) /\ Screens(p, O)
  BY <1>6, <1>8 DEF Lists, Listed, Placed, Screens, Keeps
<1>11. Loose(p, t, O)
  BY <1>5, <1>8, <1>9, <1>10 DEF Loose, Good, Windows, Keeps
<1>12. Keeps(d, p)
  BY <1>5, <1>8, KeepsTrans
<1>13. Thins(d, p, Workspace)
  BY <1>2, <1>3, <1>4, <1>5, <1>8 DEF Thins, NoneEnter, Alike
<1> QED BY <1>11, <1>12, <1>13 DEF p, m

(* Into the list and tree of another workspace, and focused there. *)
LEMMA EntersWorkspace ==
  ASSUME NEW d, NEW t, NEW O, Loose(d, t, O), NEW w \in Workspace
  PROVE  /\ Good(MoveIn(d, t, w), O)
         /\ MoveIn(d, t, w).workspace = [d.workspace EXCEPT ![t] = w]
         /\ MoveIn(d, t, w).mapped = d.mapped
         /\ MoveIn(d, t, w).output = d.output /\ MoveIn(d, t, w).shows = d.shows
         /\ MoveIn(d, t, w).outputs = d.outputs /\ MoveIn(d, t, w).powered = d.powered
         /\ MoveIn(d, t, w).current = d.current
         /\ Thins(d, MoveIn(d, t, w), Workspace \ {w})
<1> DEFINE in == [d EXCEPT !.workspace[t] = w, !.focused[w] = t]
           tile == [in EXCEPT !.leaf = @ \cup {t}]
           n == IF t \in d.floating THEN in ELSE tile
           e == IF t \in d.floating THEN LinkFloating(n, t) ELSE LinkTiled(n, t)
           L == Placed(d) \ {t}
<1>1. d \in Desk /\ t \in Window /\ t \in d.mapped /\ t \notin d.fullscreen
  BY DEF Loose, Desk
<1>2. /\ n \in Desk /\ n.leaf \in {d.leaf, d.leaf \cup {t}} /\ n.floating = d.floating
      /\ n.fullscreen = d.fullscreen /\ n.savedFloating = d.savedFloating
      /\ n.toplevels = d.toplevels /\ n.floats = d.floats /\ n.mapped = d.mapped
      /\ n.workspace = [d.workspace EXCEPT ![t] = w]
      /\ n.focused = [d.focused EXCEPT ![w] = t]
      /\ n.lastFocused = d.lastFocused /\ n.fullscreenWindow = d.fullscreenWindow
      /\ n.output = d.output /\ n.shows = d.shows /\ n.outputs = d.outputs
      /\ n.powered = d.powered /\ n.activeOutput = d.activeOutput
      /\ n.current = d.current
  BY <1>1 DEF Desk
<1>3. e = IF t \in d.floating THEN LinkFloating(n, t) ELSE LinkTiled(n, t)
  OBVIOUS
<1> HIDE DEF n, e
<1>4. /\ n.workspace[t] = w
      /\ \A u \in Window : u # t => n.workspace[u] = d.workspace[u]
  BY <1>1, <1>2 DEF Desk
<1>5. Lists(n, L) /\ t \notin L
  <2>1. L \subseteq Window \ {t}
    BY <1>1 DEF Placed, Desk
  <2>2. Lists(d, L)
    BY DEF Loose
  <2> HIDE DEF L
  <2> QED BY <1>2, <1>4, <2>1, <2>2 DEF Lists, Listed
<1>6. Relinked(n, e) /\ Lists(e, L \cup {t})
  BY <1>1, <1>2, <1>3, <1>4, <1>5, LinkFloatingLists, LinkTiledLists
<1>7. Placed(e) = L \cup {t}
  BY <1>1, <1>2, <1>6 DEF Placed, Relinked
<1>8. Windows(e)
  <2>1. \A u \in e.mapped : e.workspace[u] \in Workspace
    <3>1. e.mapped = d.mapped /\ e.workspace = n.workspace /\ d.mapped \subseteq Window
      BY <1>1, <1>2, <1>6 DEF Relinked, Desk
    <3> QED BY <1>4, <3>1 DEF Loose
  <2>2. /\ e.leaf \subseteq e.mapped /\ e.fullscreen \subseteq e.mapped
        /\ e.floating \cap e.fullscreen = {}
    BY <1>1, <1>2, <1>6 DEF Relinked, Loose
  <2> QED BY <1>6, <1>7, <2>1, <2>2 DEF Windows
<1>9. Pointers(e)
  <2>1. t \in Here(e, w) /\ \A v \in Workspace : Here(d, v) \ {t} \subseteq Here(e, v)
    BY <1>1, <1>2, <1>4, <1>6 DEF Here, Relinked, Desk
  <2>2. \A v \in Workspace : e.focused[v] = IF v = w THEN t ELSE d.focused[v]
    BY <1>1, <1>2, <1>6 DEF Relinked, Desk
  <2>3. \A v \in Workspace : /\ e.lastFocused[v] = d.lastFocused[v]
                             /\ e.fullscreenWindow[v] = d.fullscreenWindow[v]
                             /\ e.fullscreen = d.fullscreen
    BY <1>2, <1>6 DEF Relinked
  <2>4. \A v \in Workspace :
          /\ e.focused[v] \in Here(e, v) \cup {NULL}
          /\ e.lastFocused[v] \in Here(e, v) \cup {NULL}
    BY <2>1, <2>2, <2>3 DEF Loose
  <2>5. \A v \in Workspace :
          e.fullscreenWindow[v] \in (Here(e, v) \cap e.fullscreen) \cup {NULL}
    BY <1>1, <2>1, <2>3 DEF Loose
  <2> QED BY <2>4, <2>5 DEF Pointers
<1>10. Screens(e, O)
  BY <1>2, <1>6 DEF Screens, Relinked, Loose
<1>11. Good(e, O)
  BY <1>6, <1>8, <1>9, <1>10 DEF Good, Relinked
<1>12. Thins(d, e, Workspace \ {w})
  <2>1. \A v \in Workspace \ {w} : e.toplevels[v] = d.toplevels[v]
    <3>1. CASE t \in d.floating
      <4>1. e = [n EXCEPT !.floats[w] = <<t>> \o @]
        BY <1>3, <1>4, <3>1 DEF LinkFloating
      <4> QED BY <1>2, <4>1 DEF Desk
    <3>2. CASE t \notin d.floating
      <4>1. e = [n EXCEPT !.toplevels[w] = <<t>> \o @]
        BY <1>3, <1>4, <3>2 DEF LinkTiled
      <4> QED BY <1>2, <4>1 DEF Desk
    <3> QED BY <3>1, <3>2
  <2> QED BY <1>2, <1>6, <2>1 DEF Thins, NoneEnter, Relinked
<1>13. MoveIn(d, t, w) = e
  BY DEF MoveIn, e, n, tile, in
<1> QED BY <1>2, <1>6, <1>11, <1>12, <1>13 DEF Relinked

(* It is hidden, or focused if its new workspace is on an output. *)
LEMMA ShowMovedGood ==
  ASSUME NEW d, NEW O, Good(d, O), NEW t \in d.mapped
  PROVE  Good(ShowMoved(d, t), O) /\ Refocused(d, ShowMoved(d, t))
<1>1. d \in Desk /\ {t} \in SUBSET Window
  BY DEF Good, Desk
<1>2. Alike(d, Disable(d, {t})) /\ Alike(d, Enable(d, {t}))
  BY <1>1, EnableAlike
<1> DEFINE e == Enable(d, {t})
<1>3. Good(e, O) /\ Refocused(d, e) /\ t \in e.mapped
  BY <1>2, AlikeGood, AlikeRefocused DEF Alike
<1> HIDE DEF e
<1>4. Good(focus_toplevel(e, t), O) /\ Refocused(d, focus_toplevel(e, t))
  BY <1>3, FocusGood, RefocusedTrans
<1>5. Good(Disable(d, {t}), O) /\ Refocused(d, Disable(d, {t}))
  BY <1>2, AlikeGood, AlikeRefocused
<1> QED BY <1>4, <1>5 DEF ShowMoved, e

(* From d to e windows may have moved to w, but none was unmapped or is     *)
(* fullscreen that was not.                                                *)
Carries(d, e, w) ==
  /\ e.mapped = d.mapped /\ Thins(d, e, Workspace \ {w})
  /\ \A u \in Window : e.workspace[u] \in {d.workspace[u], w}
  /\ e.output = d.output /\ e.shows = d.shows /\ e.outputs = d.outputs
  /\ e.powered = d.powered /\ e.current = d.current

(* It composes. *)
LEMMA CarriesTrans ==
  ASSUME NEW d, NEW e, NEW f, NEW w, Carries(d, e, w), Carries(e, f, w)
  PROVE  Carries(d, f, w)
BY ThinsTrans DEF Carries

(* One window moves; the others stay where they are. *)
LEMMA MoveGood ==
  ASSUME NEW d, NEW O, Good(d, O), NEW t \in d.mapped, NEW w \in Workspace
  PROVE  /\ Good(workspace_move_toplevel(d, t, w), O)
         /\ Carries(d, workspace_move_toplevel(d, t, w), w)
         /\ workspace_move_toplevel(d, t, w).workspace = [d.workspace EXCEPT ![t] = w]
<1> DEFINE v == d.workspace[t]
           n == NotFullscreen(d, t)
           out == PassFocus(MoveOut(n, t), t)
           in == MoveIn(out, t, w)
           s == ShowMoved(in, t)
           a == ArrangeIfTree(s, v)
           b == ArrangeIfTree(a, w)
<1>1. d \in Desk /\ t \in Window /\ v \in Workspace /\ d.mapped \subseteq Window
  BY DEF Good, Windows, Desk
<1>2. CASE v = w
  <2>1. workspace_move_toplevel(d, t, w) = d /\ [d.workspace EXCEPT ![t] = w] = d.workspace
    BY <1>1, <1>2 DEF workspace_move_toplevel, Desk
  <2>2. Carries(d, d, w)
    BY DEF Carries, Thins, NoneEnter
  <2> QED BY <2>1, <2>2
<1>3. CASE v # w
  <2> HIDE DEF v
  <2>1. Good(n, O) /\ Keeps(d, n) /\ t \in n.mapped \ n.fullscreen /\ Thins(d, n, Workspace)
    BY NotFullscreenGood DEF Keeps
  <2> HIDE DEF n
  <2>2. Loose(out, t, O) /\ Keeps(n, out) /\ Thins(n, out, Workspace)
    BY <2>1, LeavesWorkspace
  <2> HIDE DEF out
  <2>3. Keeps(d, out) /\ Thins(d, out, Workspace)
    BY <2>1, <2>2, KeepsTrans, ThinsTrans
  <2>4. /\ Good(in, O) /\ in.workspace = [d.workspace EXCEPT ![t] = w]
        /\ in.mapped = d.mapped /\ in.output = d.output /\ in.shows = d.shows
        /\ in.outputs = d.outputs /\ in.powered = d.powered /\ in.current = d.current
        /\ Thins(out, in, Workspace \ {w})
    <3>1. /\ Good(in, O) /\ in.workspace = [out.workspace EXCEPT ![t] = w]
          /\ in.mapped = out.mapped /\ in.output = out.output /\ in.shows = out.shows
          /\ in.outputs = out.outputs /\ in.powered = out.powered
          /\ in.current = out.current /\ Thins(out, in, Workspace \ {w})
      BY <2>2, EntersWorkspace
    <3> HIDE DEF in
    <3> QED BY <2>3, <3>1 DEF Keeps
  <2> HIDE DEF in
  <2>5. Good(s, O) /\ Refocused(in, s)
    BY <2>4, ShowMovedGood
  <2> HIDE DEF s
  <2>6. Alike(s, a) /\ a \in Desk
    <3>1. s \in Desk /\ v \in Workspace
      BY <1>1, <2>5 DEF Good
    <3>2. Alike(s, a)
      BY <3>1, ArrangeAlike
    <3> HIDE DEF a
    <3> QED BY <3>2 DEF Alike
  <2> HIDE DEF a
  <2>7. Alike(a, b)
    BY <2>6, ArrangeAlike
  <2> HIDE DEF b
  <2>8. Good(b, O) /\ Refocused(in, b)
    BY <2>5, <2>6, <2>7, AlikeGood, AlikeRefocused, RefocusedTrans
  <2>9. Thins(d, b, Workspace \ {w})
    BY <2>3, <2>4, <2>8 DEF Thins, NoneEnter, Refocused
  <2>10. /\ b.workspace = [d.workspace EXCEPT ![t] = w] /\ b.mapped = d.mapped
         /\ b.output = d.output /\ b.shows = d.shows /\ b.outputs = d.outputs
         /\ b.powered = d.powered /\ b.current = d.current
    BY <2>4, <2>8 DEF Refocused
  <2>11. \A u \in Window : b.workspace[u] \in {d.workspace[u], w}
    BY <1>1, <2>10 DEF Desk
  <2>12. Carries(d, b, w)
    BY <2>9, <2>10, <2>11 DEF Carries
  <2>13. workspace_move_toplevel(d, t, w) = b
    BY <1>3 DEF workspace_move_toplevel, b, a, s, in, out, n, v
  <2> QED BY <2>8, <2>10, <2>12, <2>13
<1> QED BY <1>2, <1>3

----------------------------------------------------------------------------
(* Moves of all windows of a list, one after the other. *)

Moving(d, ts, w, f) ==
  f = [n \in 0 .. Len(ts) |->
         IF n = 0 THEN d ELSE workspace_move_toplevel(f[n - 1], ts[n], w)]

Moved(d, ts, w) == CHOOSE f : Moving(d, ts, w, f)

(* MoveAll is the last value of the recursion. *)
LEMMA MoveAllIs ==
  ASSUME NEW d, NEW ts, NEW w
  PROVE  MoveAll(d, ts, w) = Moved(d, ts, w)[Len(ts)]
BY DEF MoveAll, Moved, Moving

(* The recursion has a solution, as every window of the list stays mapped. *)
LEMMA MovedExists ==
  ASSUME NEW d, NEW O, Good(d, O), NEW w \in Workspace, NEW ts \in Seq(Window),
         ToSet(ts) \subseteq d.mapped
  PROVE  Moving(d, ts, w, Moved(d, ts, w))
<1> DEFINE N == 0 .. Len(ts)
           V == {e \in Desk : Good(e, O) /\ e.mapped = d.mapped}
           pre == [n \in N |-> n - 1]
           base == [n \in N |-> d]
           step == [n \in N |-> [e \in V |-> workspace_move_toplevel(e, ts[n], w)]]
<1>1. Len(ts) \in Nat /\ DOMAIN ts = 1 .. Len(ts) /\ N \in SUBSET Nat
  BY LenProperties
<1>2. ASSUME NEW n \in N \ {0}, NEW e \in V
      PROVE  workspace_move_toplevel(e, ts[n], w) \in V
  <2>1. ts[n] \in e.mapped
    BY <1>1 DEF ToSet
  <2>2. /\ Good(workspace_move_toplevel(e, ts[n], w), O)
        /\ Carries(e, workspace_move_toplevel(e, ts[n], w), w)
    BY <2>1, MoveGood
  <2> QED BY <2>2 DEF Carries, Good
<1>3. /\ \A n \in N : pre[n] = n - 1 /\ base[n] = d
      /\ \A n \in N : \A e \in V : step[n][e] = workspace_move_toplevel(e, ts[n], w)
      /\ d \in V
  BY DEF Good
<1> HIDE DEF V, pre, base, step
<1>4. Grounded(N, {0}, pre)
  <2> HIDE DEF N
  <2>1. \A n \in N \ {0} : pre[n] = n - 1
    BY <1>3
  <2> QED BY <1>1, <2>1, NumbersGrounded
<1>5. /\ \A n \in N \cap {0} : base[n] \in V
      /\ \A n \in N \ {0} : pre[n] \in N /\ (\A e \in V : step[n][e] \in V)
  BY <1>1, <1>2, <1>3
<1> HIDE DEF N
<1>6. PICK f \in [N -> V] : Solves(f, N, {0}, pre, base, step)
  BY <1>4, <1>5, Recursion
<1>7. \A n \in N : f[n] = IF n = 0 THEN d
                          ELSE workspace_move_toplevel(f[n - 1], ts[n], w)
  <2> SUFFICES ASSUME NEW n \in N
               PROVE  f[n] = IF n = 0 THEN d
                             ELSE workspace_move_toplevel(f[n - 1], ts[n], w)
    OBVIOUS
  <2>1. CASE n = 0
    BY <1>3, <1>6, <2>1 DEF Solves
  <2>2. CASE n # 0
    <3>1. pre[n] = n - 1 /\ pre[n] \in N /\ f[n] = step[n][f[pre[n]]]
      BY <1>3, <1>6, <2>2 DEF Solves
    <3>2. f[pre[n]] \in V
      BY <3>1
    <3> QED BY <1>3, <2>2, <3>1, <3>2
  <2> QED BY <2>1, <2>2
<1>8. f = [n \in N |-> IF n = 0 THEN d ELSE workspace_move_toplevel(f[n - 1], ts[n], w)]
  BY <1>7
<1>9. Moving(d, ts, w, f)
  BY <1>8 DEF Moving, N
<1> QED BY <1>9 DEF Moved

(* All windows of a list end in w, and the others stay where they are. *)
LEMMA MoveAllGood ==
  ASSUME NEW d, NEW O, Good(d, O), NEW w \in Workspace, NEW ts \in Seq(Window),
         ToSet(ts) \subseteq d.mapped
  PROVE  /\ Good(MoveAll(d, ts, w), O) /\ Carries(d, MoveAll(d, ts, w), w)
         /\ \A t \in ToSet(ts) : MoveAll(d, ts, w).workspace[t] = w
         /\ \A t \in Window \ ToSet(ts) :
              MoveAll(d, ts, w).workspace[t] = d.workspace[t]
<1> DEFINE f == Moved(d, ts, w)
           Fine(n) ==
             /\ Good(f[n], O) /\ Carries(d, f[n], w)
             /\ \A t \in {ts[i] : i \in 1 .. n} : f[n].workspace[t] = w
             /\ \A t \in Window \ {ts[i] : i \in 1 .. n} :
                  f[n].workspace[t] = d.workspace[t]
           S == {n \in Nat : n <= Len(ts) => Fine(n)}
<1>1. Len(ts) \in Nat /\ DOMAIN ts = 1 .. Len(ts)
  BY LenProperties
<1>2. \A n \in 0 .. Len(ts) :
        f[n] = IF n = 0 THEN d ELSE workspace_move_toplevel(f[n - 1], ts[n], w)
  <2>1. Moving(d, ts, w, f)
    BY MovedExists
  <2> HIDE DEF f
  <2> QED BY <2>1 DEF Moving
<1> HIDE DEF f
<1>3. Fine(0)
  <2>1. f[0] = d
    BY <1>1, <1>2
  <2>2. Carries(d, d, w)
    BY DEF Carries, Thins, NoneEnter
  <2> QED BY <2>1, <2>2
<1>4. ASSUME NEW n \in Nat, n + 1 <= Len(ts), Fine(n) PROVE Fine(n + 1)
  <2> DEFINE e == f[n]
             t == ts[n + 1]
             g == workspace_move_toplevel(e, t, w)
  <2>1. f[n + 1] = g
    <3>1. n + 1 \in 0 .. Len(ts) /\ n + 1 # 0 /\ (n + 1) - 1 = n
      BY <1>1, <1>4
    <3> QED BY <1>2, <3>1
  <2>2. t \in ToSet(ts) /\ t \in Window
    BY <1>1, <1>4 DEF ToSet
  <2>3. Good(e, O) /\ Carries(d, e, w) /\ t \in e.mapped /\ e \in Desk
    BY <1>4, <2>2 DEF Carries, Good
  <2>4. {ts[i] : i \in 1 .. n + 1} = {ts[i] : i \in 1 .. n} \cup {t}
    <3>1. 1 .. n + 1 = (1 .. n) \cup {n + 1}
      BY <1>4
    <3> QED BY <3>1
  <2>5. \A u \in {ts[i] : i \in 1 .. n} : e.workspace[u] = w
    BY <1>4
  <2>6. \A u \in Window \ {ts[i] : i \in 1 .. n} : e.workspace[u] = d.workspace[u]
    BY <1>4
  <2>7. {ts[i] : i \in 1 .. n} \subseteq Window
    BY <1>1, <1>4
  <2> HIDE DEF e, t
  <2>8. Good(g, O) /\ Carries(e, g, w) /\ g.workspace = [e.workspace EXCEPT ![t] = w]
    BY <2>3, MoveGood
  <2> HIDE DEF g
  <2>9. Carries(d, g, w)
    BY <2>3, <2>8, CarriesTrans
  <2>10. \A u \in Window : g.workspace[u] = IF u = t THEN w ELSE e.workspace[u]
    BY <2>3, <2>8 DEF Desk
  <2>11. \A u \in {ts[i] : i \in 1 .. n} \cup {t} : g.workspace[u] = w
    BY <2>2, <2>5, <2>7, <2>10
  <2>12. \A u \in Window \ ({ts[i] : i \in 1 .. n} \cup {t}) :
           g.workspace[u] = d.workspace[u]
    BY <2>6, <2>10
  <2> QED BY <2>1, <2>4, <2>8, <2>9, <2>11, <2>12
<1> HIDE DEF Fine
<1>5. Nat \subseteq S
  <2>1. 0 \in S
    BY <1>3
  <2>2. \A n \in S \cap Nat : n + 1 \in S
    BY <1>1, <1>4
  <2> HIDE DEF S
  <2> QED BY <2>1, <2>2, Induction
<1>6. Fine(Len(ts))
  BY <1>1, <1>5
<1>7. {ts[i] : i \in 1 .. Len(ts)} = ToSet(ts)
  BY <1>1 DEF ToSet
<1>8. MoveAll(d, ts, w) = f[Len(ts)]
  BY MoveAllIs DEF f
<1> QED BY <1>6, <1>7, <1>8 DEF Fine

----------------------------------------------------------------------------
(* Outputs. *)

(* What a workspace that comes on an output focuses is one of its windows. *)
LEMMA FocusOfIs ==
  ASSUME NEW d, NEW O, Good(d, O), NEW w \in Workspace
  PROVE  /\ FocusOf(d, w) \in Here(d, w) \cup {NULL}
         /\ FirstOf(<<d.focused[w]>> \o d.toplevels[w]) \in Here(d, w) \cup {NULL}
         /\ Here(d, w) \subseteq d.mapped
<1> DEFINE p == <<d.focused[w]>>
<1>1. d \in Desk /\ d.focused[w] \in Window \cup {NULL}
  BY DEF Good, Desk
<1>2. p \in Seq(Window \cup {NULL}) /\ ToSet(p) = {d.focused[w]}
  BY <1>1, MembersOne
<1>3. d.focused[w] \in Here(d, w) \cup {NULL}
  BY DEF Good, Pointers
<1>4. Listed(d, w) \subseteq Here(d, w)
  BY <1>1, ListedHere DEF Good
<1> HIDE DEF p
<1>5. /\ FirstOf(p \o d.toplevels[w] \o d.floats[w])
           \in ToSet(p) \cup Listed(d, w) \cup {NULL}
      /\ FirstOf(p \o d.toplevels[w]) \in ToSet(p) \cup Listed(d, w) \cup {NULL}
  BY <1>1, <1>2, FirstListed
<1> QED BY <1>2, <1>3, <1>4, <1>5 DEF FocusOf, Here, p

(* A workspace that comes on an output focuses one of its windows or none. *)
LEMMA FocusOnGood ==
  ASSUME NEW d, NEW O, Good(d, O), NEW w \in Workspace
  PROVE  Good(FocusOn(d, w), O) /\ Refocused(d, FocusOn(d, w))
<1>2. Good(clear_focus(d), O) /\ Refocused(d, clear_focus(d))
  BY ClearGood
<1>3. FocusOf(d, w) # NULL => FocusOf(d, w) \in d.mapped
  BY FocusOfIs
<1> QED BY <1>2, <1>3, FocusGood DEF FocusOn

(* The last that output_set_workspace does. *)
Turned(d, o, w) == [d EXCEPT !.current = w, !.activeOutput = o]

(* An output shows another workspace; the output that showed that one, if   *)
(* any, is left with a workspace that does not know it.                    *)
LEMMA SetWorkspaceIs ==
  ASSUME NEW d, Good(d, {}), NEW o \in ToSet(d.outputs), NEW w \in Workspace
  PROVE  \/ output_set_workspace(d, o, w) = d
         \/ \E e : /\ Good(e, {}) /\ SameWindows(d, e) /\ e.outputs = d.outputs
                   /\ e.output[w] = o
                   /\ output_set_workspace(d, o, w) = Turned(FocusOn(Display(e, w), w), o, w)
<1> DEFINE old == d.shows[o]
           swapped == IF d.output[w] \in {NULL, o} THEN d
                      ELSE [d EXCEPT !.shows[d.output[w]] = old]
           left == [swapped EXCEPT !.output[old] = IF @ = o THEN NULL ELSE @]
           hidden == IF left.output[old] # NULL THEN left ELSE workspace_hide(left, old)
           put == [hidden EXCEPT !.shows[o] = w, !.output[w] = o]
           last == Turned(FocusOn(Display(put, w), w), o, w)
<1>1. d \in Desk /\ o \in Output /\ old \in Workspace /\ old = d.shows[o]
      /\ d.output[w] \in Output \cup {NULL}
  <2>1. d \in Desk /\ d.outputs \in Seq(Output)
    BY DEF Good, Desk
  <2>2. o \in Output
    BY <2>1, MembersIn
  <2> QED BY <2>1, <2>2 DEF Desk
<1>2. CASE old = w /\ d.output[w] = o
  BY <1>2 DEF output_set_workspace
<1>3. CASE ~ (old = w /\ d.output[w] = o)
  <2> HIDE DEF old
  <2>1. /\ swapped \in Desk /\ swapped.workspace = d.workspace
        /\ swapped.mapped = d.mapped /\ swapped.leaf = d.leaf
        /\ swapped.floating = d.floating /\ swapped.fullscreen = d.fullscreen
        /\ swapped.savedFloating = d.savedFloating
        /\ swapped.toplevels = d.toplevels /\ swapped.floats = d.floats
        /\ swapped.focused = d.focused /\ swapped.lastFocused = d.lastFocused
        /\ swapped.fullscreenWindow = d.fullscreenWindow
        /\ \A p \in Output : swapped.shows[p] =
             IF p = d.output[w] /\ p # o THEN old ELSE d.shows[p]
        /\ swapped.output = d.output /\ swapped.outputs = d.outputs
        /\ swapped.powered = d.powered /\ swapped.activeOutput = d.activeOutput
        /\ swapped.keyboard = d.keyboard
    <3>1. CASE d.output[w] \in {NULL, o}
      <4>1. swapped = d
        BY <3>1
      <4>2. NULL \notin Output
        BY NullsAssumption
      <4> QED BY <1>1, <3>1, <4>1, <4>2
    <3>2. CASE d.output[w] \notin {NULL, o}
      <4>1. swapped = [d EXCEPT !.shows[d.output[w]] = old]
        BY <3>2
      <4> QED BY <1>1, <3>2, <4>1 DEF Desk
    <3> QED BY <3>1, <3>2
  <2> HIDE DEF swapped
  <2>2. /\ left \in Desk /\ left.workspace = d.workspace
        /\ left.mapped = d.mapped /\ left.leaf = d.leaf
        /\ left.floating = d.floating /\ left.fullscreen = d.fullscreen
        /\ left.savedFloating = d.savedFloating
        /\ left.toplevels = d.toplevels /\ left.floats = d.floats
        /\ left.focused = d.focused /\ left.lastFocused = d.lastFocused
        /\ left.fullscreenWindow = d.fullscreenWindow
        /\ left.shows = swapped.shows
        /\ \A v \in Workspace : left.output[v] =
             IF v = old /\ d.output[v] = o THEN NULL ELSE d.output[v]
        /\ left.outputs = d.outputs
        /\ left.powered = d.powered /\ left.activeOutput = d.activeOutput
        /\ left.keyboard = d.keyboard
    <3> DEFINE os == [swapped.output EXCEPT ![old] = IF @ = o THEN NULL ELSE @]
    <3>1. /\ os \in [Workspace -> Output \cup {NULL}]
          /\ \A v \in Workspace :
               os[v] = IF v = old /\ d.output[v] = o THEN NULL ELSE d.output[v]
      <4>1. d.output \in [Workspace -> Output \cup {NULL}]
        BY <1>1 DEF Desk
      <4> QED BY <1>1, <2>1, <4>1
    <3>2. left = [swapped EXCEPT !.output = os]
      OBVIOUS
    <3> HIDE DEF left, os
    <3>3. left \in Desk /\ left.output = os
      BY <2>1, <3>1, <3>2 DEF Desk
    <3> QED BY <2>1, <3>1, <3>2, <3>3 DEF Desk
  <2> HIDE DEF left
  <2>3. Alike(left, hidden)
    BY <1>1, <2>2, HideAlike, AlikeSelf
  <2> HIDE DEF hidden
  <2>4. /\ put \in Desk /\ put.workspace = d.workspace
        /\ put.mapped = d.mapped /\ put.leaf = d.leaf
        /\ put.floating = d.floating /\ put.fullscreen = d.fullscreen
        /\ put.savedFloating = d.savedFloating
        /\ put.toplevels = d.toplevels /\ put.floats = d.floats
        /\ put.focused = d.focused /\ put.lastFocused = d.lastFocused
        /\ put.fullscreenWindow = d.fullscreenWindow
        /\ put.shows = [hidden.shows EXCEPT ![o] = w]
        /\ put.output = [hidden.output EXCEPT ![w] = o]
        /\ put.outputs = d.outputs
        /\ put.powered = d.powered /\ put.activeOutput = d.activeOutput
        /\ put.keyboard = d.keyboard
    <3>1. hidden \in Desk
      BY <2>3 DEF Alike
    <3> QED BY <1>1, <2>2, <2>3, <3>1 DEF Alike, Desk
  <2> HIDE DEF put
  <2>5. Good(put, {})
    <3>1. Windows(put) /\ Pointers(put)
      BY <2>4, SameWindowsGood DEF SameWindows
    <3>3. \A p \in Output : put.shows[p] =
            IF p = o THEN w ELSE IF p = d.output[w] THEN old ELSE d.shows[p]
      <4>1. \A p \in Output : put.shows[p] = IF p = o THEN w ELSE hidden.shows[p]
        <5>1. hidden.shows \in [Output -> Workspace]
          BY <2>3 DEF Alike, Desk
        <5> QED BY <1>1, <2>4, <5>1
      <4>2. hidden.shows = swapped.shows
        BY <2>2, <2>3 DEF Alike
      <4> QED BY <2>1, <4>1, <4>2
    <3>4. \A v \in Workspace : put.output[v] =
            IF v = w THEN o ELSE IF v = old /\ d.output[v] = o THEN NULL
            ELSE d.output[v]
      <4>1. \A v \in Workspace : put.output[v] = IF v = w THEN o ELSE hidden.output[v]
        <5>1. hidden.output \in [Workspace -> Output \cup {NULL}]
          BY <2>3 DEF Alike, Desk
        <5> QED BY <2>4, <5>1
      <4>2. hidden.output = left.output
        BY <2>3 DEF Alike
      <4> QED BY <2>2, <4>1, <4>2
    <3>5. ASSUME NEW v \in Workspace, put.output[v] # NULL
          PROVE  put.output[v] \in ToSet(d.outputs) /\ put.shows[put.output[v]] = v
      <4>1. CASE v = w
        BY <1>1, <3>3, <3>4, <4>1
      <4>2. CASE v # w
        <5>1. put.output[v] = d.output[v] /\ d.output[v] # NULL
          BY <3>4, <3>5, <4>2
        <5>2. d.output[v] \in ToSet(d.outputs) /\ d.shows[d.output[v]] = v
          BY <5>1 DEF Good, Screens
        <5>3. d.output[v] # o
          BY <1>1, <3>4, <3>5, <4>2, <5>2
        <5>4. d.output[v] # d.output[w]
          BY <4>2, <5>1, <5>2 DEF Good, Screens
        <5>5. d.output[v] \in Output
          BY <1>1, <5>1 DEF Desk
        <5> QED BY <3>3, <5>1, <5>2, <5>3, <5>4, <5>5
      <4> QED BY <4>1, <4>2
    <3>6. Screens(put, {})
      BY <2>4, <3>5 DEF Good, Screens
    <3> QED BY <2>4, <3>1, <3>6 DEF Good
  <2>6. SameWindows(d, put)
    BY <2>4 DEF SameWindows
  <2>7. put.output[w] = o
    <3>1. hidden.output \in [Workspace -> Output \cup {NULL}]
      BY <2>3 DEF Alike, Desk
    <3> QED BY <2>4, <3>1
  <2>8. output_set_workspace(d, o, w) = last
    BY <1>3 DEF output_set_workspace, last, Turned, put, hidden, left, swapped, old
  <2> HIDE DEF last
  <2>9. last = Turned(FocusOn(Display(put, w), w), o, w)
    BY DEF last
  <2> QED BY <2>4, <2>5, <2>6, <2>7, <2>8, <2>9
<1> QED BY <1>2, <1>3

(* It turns to an output that is there. *)
LEMMA TurnedGood ==
  ASSUME NEW d, Good(d, {}), NEW o \in ToSet(d.outputs), NEW w \in Workspace
  PROVE  /\ Good(Turned(d, o, w), {}) /\ SameWindows(d, Turned(d, o, w))
         /\ Turned(d, o, w).outputs = d.outputs /\ Turned(d, o, w).output = d.output
         /\ Turned(d, o, w).shows = d.shows
         /\ Turned(d, o, w).enabled = d.enabled /\ Turned(d, o, w).monocle = d.monocle
<1> DEFINE e == Turned(d, o, w)
<1>1. d \in Desk /\ o \in Output /\ o # NULL
  <2>1. d \in Desk /\ d.outputs \in Seq(Output)
    BY DEF Good, Desk
  <2> QED BY <2>1, MembersIn, NullsAssumption
<1>2. /\ SameWindows(d, e) /\ e.output = d.output /\ e.shows = d.shows
      /\ e.outputs = d.outputs /\ e.powered = d.powered /\ e.activeOutput = o
      /\ e.enabled = d.enabled /\ e.monocle = d.monocle
  BY <1>1 DEF Turned, SameWindows, Desk
<1> HIDE DEF e
<1>3. Windows(e) /\ Pointers(e)
  BY <1>2, SameWindowsGood
<1>4. Screens(e, {})
  BY <1>1, <1>2 DEF Good, Screens
<1> QED BY <1>2, <1>3, <1>4 DEF Good, SameWindows, e

(* It keeps all that is consistent. *)
LEMMA SetWorkspaceGood ==
  ASSUME NEW d, Good(d, {}), NEW o \in ToSet(d.outputs), NEW w \in Workspace
  PROVE  /\ Good(output_set_workspace(d, o, w), {})
         /\ output_set_workspace(d, o, w).mapped = d.mapped
         /\ output_set_workspace(d, o, w).outputs = d.outputs
<1> SUFFICES ASSUME output_set_workspace(d, o, w) # d
             PROVE  /\ Good(output_set_workspace(d, o, w), {})
                    /\ output_set_workspace(d, o, w).mapped = d.mapped
                    /\ output_set_workspace(d, o, w).outputs = d.outputs
  OBVIOUS
<1>1. PICK e : /\ Good(e, {}) /\ SameWindows(d, e) /\ e.outputs = d.outputs
               /\ output_set_workspace(d, o, w) = Turned(FocusOn(Display(e, w), w), o, w)
  BY SetWorkspaceIs
<1> DEFINE s == Display(e, w)
           f == FocusOn(s, w)
<1>2. Alike(e, s)
  BY <1>1, DisplayAlike DEF Good
<1> HIDE DEF s
<1>3. Good(s, {}) /\ s.outputs = d.outputs /\ s.mapped = d.mapped
  BY <1>1, <1>2, AlikeGood DEF Alike, SameWindows
<1>4. Good(f, {}) /\ f.outputs = d.outputs /\ f.mapped = d.mapped
  BY <1>3, FocusOnGood DEF Refocused
<1> HIDE DEF f
<1>5. /\ Good(Turned(f, o, w), {}) /\ Turned(f, o, w).outputs = d.outputs
      /\ Turned(f, o, w).mapped = d.mapped
  BY <1>4, TurnedGood DEF SameWindows
<1> QED BY <1>1, <1>5 DEF f, s

(* workspace_switch on the active output, or the first one there is. *)
LEMMA SwitchIs ==
  ASSUME NEW d, Good(d, {}), NEW w \in Workspace
  PROVE  \/ workspace_switch(d, w) = d
         \/ \E o \in ToSet(d.outputs) :
              workspace_switch(d, w) = output_set_workspace(d, o, w)
<1> DEFINE p == <<d.activeOutput>>
           q == p \o d.outputs
           o == FirstOf(q)
<1>1. /\ d.activeOutput \in Output \cup {NULL} /\ d.outputs \in Seq(Output \cup {NULL})
      /\ d.outputs \in Seq(Output)
  BY DEF Good, Desk
<1>2. p \in Seq(Output \cup {NULL}) /\ ToSet(p) = {d.activeOutput}
  BY <1>1, MembersOne
<1> HIDE DEF p
<1>3. q \in Seq(Output \cup {NULL}) /\ ToSet(q) = ToSet(p) \cup ToSet(d.outputs)
  BY <1>1, <1>2, MembersConcat
<1> HIDE DEF q
<1>4. o = NULL \/ o \in ToSet(q) \ {NULL}
  BY <1>3, FirstOfIs
<1>5. o = NULL \/ o \in ToSet(d.outputs)
  BY <1>2, <1>3, <1>4 DEF Good, Screens
<1>6. workspace_switch(d, w) = IF o = NULL THEN d ELSE output_set_workspace(d, o, w)
  BY DEF workspace_switch, q, p
<1> HIDE DEF o
<1> QED BY <1>5, <1>6

(* It keeps all that is consistent. *)
LEMMA SwitchGood ==
  ASSUME NEW d, Good(d, {}), NEW w \in Workspace
  PROVE  /\ Good(workspace_switch(d, w), {})
         /\ workspace_switch(d, w).mapped = d.mapped
         /\ workspace_switch(d, w).outputs = d.outputs
BY SwitchIs, SetWorkspaceGood

(* The windows of a workspace move to another one: first the tiled ones,    *)
(* then the floating ones.                                                 *)
LEMMA EvacuateGood ==
  ASSUME NEW d, NEW O, Good(d, O), NEW v \in Workspace, NEW w \in Workspace
  PROVE  /\ Good(Evacuate(d, v, w), O) /\ Carries(d, Evacuate(d, v, w), w)
         /\ \A t \in Listed(d, v) : Evacuate(d, v, w).workspace[t] = w
         /\ \A t \in Window : d.workspace[t] # v =>
              Evacuate(d, v, w).workspace[t] = d.workspace[t]
<1> DEFINE e == MoveAll(d, d.toplevels[v], w)
           f == MoveAll(e, e.floats[v], w)
           g == ArrangeIfTree(f, w)
           X == ToSet(d.toplevels[v])
           Y == ToSet(e.floats[v])
<1>1. /\ d.toplevels[v] \in Seq(Window) /\ X \subseteq Here(d, v)
      /\ Listed(d, v) \subseteq Here(d, v)
  BY ListedIn, ListedHere DEF Good, Listed
<1>2. X \subseteq d.mapped
  BY <1>1 DEF Here
<1>3. /\ Good(e, O) /\ Carries(d, e, w)
      /\ \A t \in X : e.workspace[t] = w
      /\ \A t \in Window \ X : e.workspace[t] = d.workspace[t]
  BY <1>1, <1>2, MoveAllGood
<1> HIDE DEF e
<1>4. e.floats[v] \in Seq(Window) /\ Y \subseteq Here(e, v)
  BY <1>3, ListedIn, ListedHere DEF Good, Listed
<1>5. Y \subseteq e.mapped
  BY <1>4 DEF Here
<1>6. /\ Good(f, O) /\ Carries(e, f, w)
      /\ \A t \in Y : f.workspace[t] = w
      /\ \A t \in Window \ Y : f.workspace[t] = e.workspace[t]
  BY <1>3, <1>4, <1>5, MoveAllGood
<1> HIDE DEF f
<1>7. Alike(f, g)
  BY <1>6, ArrangeAlike DEF Good
<1> HIDE DEF g
<1>8. Good(g, O) /\ g.workspace = f.workspace
  BY <1>6, <1>7, AlikeGood DEF Alike
<1>9. Carries(f, g, w)
  BY <1>7, AlikeThins DEF Carries, Alike
<1>10. Carries(d, g, w)
  BY <1>3, <1>6, <1>9, CarriesTrans
<1>11. ASSUME NEW t \in Listed(d, v) PROVE g.workspace[t] = w
  <2>1. t \in d.mapped /\ t \in Window /\ d.workspace[t] = v /\ t \in Placed(d)
    BY <1>1 DEF Good, Windows, Lists, Here, Desk
  <2>2. CASE t \in Y
    BY <1>6, <1>8, <2>2
  <2>3. CASE t \notin Y /\ t \in X
    BY <1>3, <1>6, <1>8, <2>1, <2>3
  <2>4. CASE t \notin Y /\ t \notin X
    <3>1. t \in Placed(e) /\ e.workspace[t] = v
      BY <1>3, <2>1, <2>4 DEF Placed, Carries, Thins
    <3>2. t \in Listed(e, v)
      BY <1>3, <3>1 DEF Good, Windows, Lists
    <3>3. t \in ToSet(e.toplevels[v])
      BY <2>4, <3>2 DEF Listed
    <3>4. CASE v = w
      BY <1>6, <1>8, <2>1, <2>4, <3>1, <3>4
    <3>5. CASE v # w
      <4>1. ToSet(e.toplevels[v]) \subseteq X
        BY <1>3, <3>5 DEF Carries, Thins, NoneEnter
      <4> QED BY <2>4, <3>3, <4>1
    <3> QED BY <3>4, <3>5
  <2> QED BY <2>2, <2>3, <2>4
<1>12. ASSUME NEW t \in Window, d.workspace[t] # v
       PROVE  g.workspace[t] = d.workspace[t]
  <2>1. t \notin X
    BY <1>1, <1>12 DEF Here
  <2>2. e.workspace[t] = d.workspace[t]
    BY <1>3, <2>1
  <2>3. t \notin Y
    BY <1>4, <1>12, <2>2 DEF Here
  <2> QED BY <1>6, <1>8, <2>2, <2>3
<1>13. Evacuate(d, v, w) = g
  BY DEF Evacuate, MoveFloats, g, f, e
<1> QED BY <1>8, <1>10, <1>11, <1>12, <1>13

(* What output_destroy and the output's manager do to an output first. *)
Vacated(d, e, o) ==
  \/ e = [Vacate(d, o) EXCEPT !.powered = @ \ {o}]
  \/ e = [Vacate(d, o) EXCEPT !.outputs = RemoveFirst(@, o), !.powered = @ \ {o}]

(* The workspace that o shows has no output any more. *)
Dark(d, e, o) ==
  \A w \in Workspace : e.output[w] = IF w = d.shows[o] THEN NULL ELSE d.output[w]

(* The workspace of an output that goes has none. *)
LEMMA VacateGood ==
  ASSUME NEW d, Good(d, {}), NEW o \in ToSet(d.outputs), NEW e,
         Vacated(d, e, o)
  PROVE  /\ Good(e, {o}) /\ e.powered = d.powered \ {o}
         /\ e.activeOutput = d.activeOutput
         /\ e.workspace = d.workspace /\ e.mapped = d.mapped
         /\ e.toplevels = d.toplevels /\ e.floats = d.floats /\ e.shows = d.shows
         /\ e.fullscreen = d.fullscreen /\ e.savedFloating = d.savedFloating
         /\ e.outputs \in {d.outputs, RemoveFirst(d.outputs, o)}
         /\ SameWindows(d, e) /\ Dark(d, e, o)
<1>1. /\ d \in Desk /\ o \in Output /\ d.shows[o] \in Workspace
      /\ d.outputs \in Seq(Output)
  <2>1. d \in Desk /\ d.outputs \in Seq(Output)
    BY DEF Good, Desk
  <2>2. o \in Output
    BY <2>1, MembersIn
  <2> QED BY <2>1, <2>2 DEF Desk
<1>2. /\ RemoveFirst(d.outputs, o) \in Seq(Output)
      /\ IsInjective(RemoveFirst(d.outputs, o))
      /\ ToSet(RemoveFirst(d.outputs, o)) = ToSet(d.outputs) \ {o}
  BY <1>1, TakeOut DEF Good, Screens
<1> DEFINE r == RemoveFirst(d.outputs, o)
<1> HIDE DEF r
<1>3. /\ e \in Desk /\ e.workspace = d.workspace
      /\ e.mapped = d.mapped /\ e.leaf = d.leaf
      /\ e.floating = d.floating /\ e.fullscreen = d.fullscreen
      /\ e.savedFloating = d.savedFloating
      /\ e.toplevels = d.toplevels /\ e.floats = d.floats
      /\ e.focused = d.focused /\ e.lastFocused = d.lastFocused
      /\ e.fullscreenWindow = d.fullscreenWindow /\ e.shows = d.shows
      /\ \A w \in Workspace :
           e.output[w] = IF w = d.shows[o] THEN NULL ELSE d.output[w]
      /\ e.outputs \in {d.outputs, r} /\ e.powered = d.powered \ {o}
      /\ e.activeOutput = d.activeOutput /\ e.keyboard = d.keyboard
  <2>1. \/ e = [Vacate(d, o) EXCEPT !.powered = @ \ {o}]
        \/ e = [Vacate(d, o) EXCEPT !.outputs = r, !.powered = @ \ {o}]
    <3>1. Vacate(d, o).outputs = d.outputs
      BY <1>1 DEF Vacate, Desk
    <3> QED BY <3>1 DEF r, Vacated
  <2>2. r \in Seq(Output)
    BY <1>2 DEF r
  <2> DEFINE out == [d.output EXCEPT ![d.shows[o]] = NULL]
  <2>3. \/ e = [d EXCEPT !.output = out, !.powered = @ \ {o}]
        \/ e = [d EXCEPT !.output = out, !.outputs = r, !.powered = @ \ {o}]
    BY <1>1, <2>1 DEF Vacate, Desk
  <2>4. /\ out \in [Workspace -> Output \cup {NULL}]
        /\ \A w \in Workspace : out[w] = IF w = d.shows[o] THEN NULL ELSE d.output[w]
    BY <1>1 DEF Desk
  <2> HIDE DEF out
  <2>5. CASE e = [d EXCEPT !.output = out, !.powered = @ \ {o}]
    BY <1>1, <2>2, <2>4, <2>5 DEF Desk
  <2>6. CASE e = [d EXCEPT !.output = out, !.outputs = r, !.powered = @ \ {o}]
    BY <1>1, <2>2, <2>4, <2>6 DEF Desk
  <2> QED BY <2>3, <2>5, <2>6
<1>4. Windows(e)
  BY <1>3 DEF Good, Windows, Lists, Listed, Placed
<1>5. Pointers(e)
  BY <1>3 DEF Good, Pointers, Here
<1>6. Screens(e, {o})
  <2>1. ASSUME NEW w \in Workspace, e.output[w] # NULL
        PROVE  e.output[w] \in ToSet(e.outputs) /\ e.shows[e.output[w]] = w
    <3>1. /\ e.output[w] = d.output[w] /\ w # d.shows[o]
          /\ d.output[w] \in ToSet(d.outputs) /\ d.shows[d.output[w]] = w
      BY <1>3, <2>1 DEF Good, Screens
    <3> QED BY <1>2, <1>3, <3>1 DEF r
  <2>2. IsInjective(e.outputs) /\ e.powered \subseteq ToSet(e.outputs)
    BY <1>2, <1>3 DEF Good, Screens, r
  <2>3. e.activeOutput # NULL => e.activeOutput \in ToSet(e.outputs) \cup {o}
    BY <1>2, <1>3 DEF Good, Screens, r
  <2>4. e.activeOutput = NULL => e.powered = {}
    BY <1>3 DEF Good, Screens
  <2> QED BY <2>1, <2>2, <2>3, <2>4 DEF Screens
<1> QED BY <1>3, <1>4, <1>5, <1>6 DEF Good, SameWindows, Dark, r

(* Another output becomes the active one, if there is another. *)
LEMMA PassActiveGood ==
  ASSUME NEW d, NEW o \in Output, Good(d, {o}), o \notin d.powered
  PROVE  /\ Good(PassActive(d, o), {})
         /\ PassActive(d, o).workspace = d.workspace
         /\ PassActive(d, o).mapped = d.mapped
         /\ PassActive(d, o).toplevels = d.toplevels
         /\ PassActive(d, o).floats = d.floats
         /\ PassActive(d, o).shows = d.shows /\ PassActive(d, o).outputs = d.outputs
         /\ SameWindows(d, PassActive(d, o)) /\ PassActive(d, o).output = d.output
<1> DEFINE r == RemoveFirst(d.outputs, o)
           a == IF d.activeOutput = o THEN FirstOf(r) ELSE d.activeOutput
           e == PassActive(d, o)
<1>1. d \in Desk /\ d.outputs \in Seq(Output) /\ NULL \notin Output
  BY NullsAssumption DEF Good, Desk
<1>2. r \in Seq(Output) /\ ToSet(r) = ToSet(d.outputs) \ {o}
  BY <1>1, TakeOut DEF Good, Screens
<1>3. \/ FirstOf(r) = NULL /\ ToSet(r) \subseteq {NULL}
      \/ FirstOf(r) \in ToSet(r) \ {NULL}
  <2> HIDE DEF r
  <2> QED BY <1>2, FirstOfIs
<1>4. e = [d EXCEPT !.activeOutput = a]
  BY <1>1 DEF PassActive, Desk
<1>5. ToSet(d.outputs) \subseteq Output
  BY <1>1, MembersIn
<1>6. /\ a \in ToSet(d.outputs) \cup {NULL}
      /\ a = NULL => d.powered = {}
  BY <1>1, <1>2, <1>3, <1>5 DEF Good, Screens
<1> HIDE DEF a, e
<1>7. /\ e \in Desk /\ e.workspace = d.workspace
      /\ e.mapped = d.mapped /\ e.leaf = d.leaf
      /\ e.floating = d.floating /\ e.fullscreen = d.fullscreen
      /\ e.savedFloating = d.savedFloating
      /\ e.toplevels = d.toplevels /\ e.floats = d.floats
      /\ e.focused = d.focused /\ e.lastFocused = d.lastFocused
      /\ e.fullscreenWindow = d.fullscreenWindow
      /\ e.shows = d.shows /\ e.output = d.output /\ e.outputs = d.outputs
      /\ e.powered = d.powered /\ e.activeOutput = a /\ e.keyboard = d.keyboard
  BY <1>1, <1>4, <1>5, <1>6 DEF Desk
<1>8. Windows(e)
  BY <1>7 DEF Good, Windows, Lists, Listed, Placed
<1>9. Pointers(e)
  BY <1>7 DEF Good, Pointers, Here
<1>10. Screens(e, {})
  BY <1>6, <1>7 DEF Good, Screens
<1> QED BY <1>7, <1>8, <1>9, <1>10 DEF Good, SameWindows, e

----------------------------------------------------------------------------
(* The handlers. *)

Inv == Good(desk, {})

(* The invariant holds before the first output is announced. *)
LEMMA InitGood ==
  ASSUME Init
  PROVE  Inv
<1>1. \A w \in Workspace : desk.toplevels[w] = <<>> /\ desk.floats[w] = <<>>
  BY DEF Init
<1>2. desk \in Desk
  <2>1. <<>> \in Seq(Window) /\ <<>> \in Seq(Output)
    OBVIOUS
  <2>2. 0 \in Workspace
    BY CountAssumption DEF Workspace
  <2> QED BY <2>1, <2>2 DEF Init, Desk
<1>3. ToSet(<<>>) = {} /\ IsInjective(<<>>)
  BY DEF ToSet, IsInjective
<1>4. Windows(desk)
  <2>1. desk.mapped = {} /\ desk.leaf = {} /\ desk.fullscreen = {}
    BY DEF Init
  <2> QED BY <1>1, <1>3, <2>1 DEF Windows, Lists, Listed, Placed
<1>5. Pointers(desk)
  BY DEF Init, Pointers
<1>6. Screens(desk, {})
  BY <1>3 DEF Init, Screens
<1> QED BY <1>2, <1>4, <1>5, <1>6 DEF Inv, Good

(* The first output that is there becomes the active one. *)
LEMMA MakeActiveGood ==
  ASSUME NEW d \in Desk, Windows(d), Pointers(d), NEW o \in ToSet(d.outputs),
         IsInjective(d.outputs) /\ d.powered \subseteq ToSet(d.outputs),
         \A w \in Workspace : d.output[w] # NULL =>
           d.output[w] \in ToSet(d.outputs) /\ d.shows[d.output[w]] = w,
         d.activeOutput # NULL => d.activeOutput \in ToSet(d.outputs)
  PROVE  /\ Good(MakeActiveIfNone(d, o), {})
         /\ SameWindows(d, MakeActiveIfNone(d, o))
         /\ MakeActiveIfNone(d, o).outputs = d.outputs
         /\ MakeActiveIfNone(d, o).output = d.output
         /\ d.activeOutput = NULL => MakeActiveIfNone(d, o).current = d.shows[o]
         /\ d.activeOutput # NULL => MakeActiveIfNone(d, o).current = d.current
<1> DEFINE e == MakeActiveIfNone(d, o)
<1>1. o \in Output /\ o # NULL
  <2>1. d.outputs \in Seq(Output)
    BY DEF Desk
  <2> QED BY <2>1, MembersIn, NullsAssumption
<1>2. /\ e \in Desk /\ e.workspace = d.workspace
      /\ e.mapped = d.mapped /\ e.leaf = d.leaf
      /\ e.floating = d.floating /\ e.fullscreen = d.fullscreen
      /\ e.savedFloating = d.savedFloating
      /\ e.toplevels = d.toplevels /\ e.floats = d.floats
      /\ e.focused = d.focused /\ e.lastFocused = d.lastFocused
      /\ e.fullscreenWindow = d.fullscreenWindow
      /\ e.shows = d.shows /\ e.output = d.output /\ e.outputs = d.outputs
      /\ e.powered = d.powered
      /\ e.activeOutput = IF d.activeOutput = NULL THEN o ELSE d.activeOutput
      /\ e.current = IF d.activeOutput = NULL THEN d.shows[o] ELSE d.current
      /\ e.keyboard = d.keyboard
  BY <1>1 DEF MakeActiveIfNone, Desk
<1> HIDE DEF e
<1>3. Windows(e)
  BY <1>2 DEF Windows, Lists, Listed, Placed
<1>4. Pointers(e)
  BY <1>2 DEF Pointers, Here
<1>5. Screens(e, {})
  BY <1>1, <1>2 DEF Screens
<1> QED BY <1>2, <1>3, <1>4, <1>5 DEF Good, SameWindows, e

(* A workspace comes on display and one of its windows gets the keyboard. *)
LEMMA DisplayGood ==
  ASSUME NEW d, NEW O, Good(d, O), NEW w \in Workspace
  PROVE  /\ Good(FocusFirst(Display(d, w), w), O)
         /\ Good(FocusShown(Display(d, w), w), O)
         /\ FocusFirst(Display(d, w), w).outputs = d.outputs
         /\ FocusShown(Display(d, w), w).outputs = d.outputs
<1> DEFINE e == Display(d, w)
<1>1. Alike(d, e)
  BY DisplayAlike DEF Good
<1> HIDE DEF e
<1>2. Good(e, O) /\ e.outputs = d.outputs
  BY <1>1, AlikeGood DEF Alike
<1>3. /\ FocusOf(e, w) \in e.mapped \cup {NULL}
      /\ FirstOf(<<e.focused[w]>> \o e.toplevels[w]) \in e.mapped \cup {NULL}
  BY <1>2, FocusOfIs
<1>4. /\ Good(FocusFirst(e, w), O) /\ Good(FocusShown(e, w), O)
      /\ FocusFirst(e, w).outputs = e.outputs /\ FocusShown(e, w).outputs = e.outputs
  BY <1>2, <1>3, FocusIfAnyGood DEF FocusFirst, FocusShown, Refocused
<1> QED BY <1>2, <1>4 DEF e

(* A new output shows the lowest workspace that none shows. *)
LEMMA NewOutputIs ==
  ASSUME Inv, NEW o \in Output, server_new_output(o)
  PROVE  \E w \in Workspace : \E d :
           /\ Good(d, {}) /\ SameWindows(desk, d) /\ d.output[w] = o
           /\ ToSet(d.outputs) = ToSet(desk.outputs) \cup {o}
           /\ d.current = IF desk.activeOutput = NULL THEN w ELSE desk.current
           /\ desk' = FocusFirst(Display(d, w), w)
<1> DEFINE w == LowestUnused(desk)
           a == Announce(desk, o)
           d == [a EXCEPT !.shows[o] = w, !.output[w] = o]
           r == <<o>> \o desk.outputs
<1>0. desk \in Desk /\ o \notin ToSet(desk.outputs) /\ IsInjective(desk.outputs)
  BY DEF Inv, Good, Screens, server_new_output
<1>1. w \in Workspace
  <2>1. CASE Unused(desk) = {}
    BY <2>1, CountAssumption DEF LowestUnused, Workspace
  <2>2. CASE Unused(desk) # {}
    <3>1. Unused(desk) \in SUBSET Nat /\ Unused(desk) \subseteq Workspace
      BY CountAssumption DEF Unused, Workspace
    <3>2. \E m \in Unused(desk) : \A v \in Unused(desk) : m <= v
      BY <2>2, <3>1, LeastNumber
    <3> HIDE DEF Inv
    <3>3. w \in Unused(desk)
      BY <2>2, <3>2 DEF LowestUnused
    <3> QED BY <3>1, <3>3
  <2> QED BY <2>1, <2>2
<1> HIDE DEF w
<1>2. r \in Seq(Output) /\ IsInjective(r) /\ ToSet(r) = ToSet(desk.outputs) \cup {o}
  <2>1. desk.outputs \in Seq(Output)
    BY <1>0 DEF Desk
  <2> QED BY <1>0, <2>1, PutInFront
<1> HIDE DEF r
<1>3. /\ d \in Desk /\ d.workspace = desk.workspace
      /\ d.mapped = desk.mapped /\ d.leaf = desk.leaf
      /\ d.floating = desk.floating /\ d.fullscreen = desk.fullscreen
      /\ d.savedFloating = desk.savedFloating
      /\ d.toplevels = desk.toplevels /\ d.floats = desk.floats
      /\ d.focused = desk.focused /\ d.lastFocused = desk.lastFocused
      /\ d.fullscreenWindow = desk.fullscreenWindow
      /\ d.shows = [desk.shows EXCEPT ![o] = w]
      /\ d.output = [desk.output EXCEPT ![w] = o] /\ d.outputs = r
      /\ d.powered = desk.powered \cup {o} /\ d.activeOutput = desk.activeOutput
      /\ d.current = desk.current /\ d.keyboard = desk.keyboard
  <2>1. a = [desk EXCEPT !.outputs = r, !.powered = @ \cup {o}]
    BY <1>0 DEF Announce, r, Desk
  <2>2. d = [desk EXCEPT !.outputs = r, !.powered = @ \cup {o}, !.shows[o] = w,
                         !.output[w] = o]
    BY <1>0, <2>1 DEF Desk
  <2> HIDE DEF d
  <2> QED BY <1>0, <1>1, <1>2, <2>2 DEF Desk
<1> HIDE DEF d
<1>4. \A v \in Workspace : d.output[v] # NULL =>
        d.output[v] \in ToSet(d.outputs) /\ d.shows[d.output[v]] = v
  <2> SUFFICES ASSUME NEW v \in Workspace, d.output[v] # NULL
               PROVE  d.output[v] \in ToSet(d.outputs) /\ d.shows[d.output[v]] = v
    OBVIOUS
  <2>1. CASE v = w
    BY <1>0, <1>1, <1>2, <1>3, <2>1 DEF Desk
  <2>2. CASE v # w
    <3>1. d.output[v] = desk.output[v]
      BY <1>0, <1>3, <2>2 DEF Desk
    <3>2. desk.output[v] \in ToSet(desk.outputs) /\ desk.shows[desk.output[v]] = v
      BY <3>1 DEF Inv, Good, Screens
    <3> QED BY <1>0, <1>2, <1>3, <3>1, <3>2 DEF Desk
  <2> QED BY <2>1, <2>2
<1>5. Windows(d) /\ Pointers(d)
  <2>1. Windows(d)
    BY <1>3 DEF Inv, Good, Windows, Lists, Listed, Placed
  <2>2. Pointers(d)
    BY <1>3 DEF Inv, Good, Pointers, Here
  <2> QED BY <2>1, <2>2
<1>6. /\ IsInjective(d.outputs) /\ d.powered \subseteq ToSet(d.outputs)
      /\ o \in ToSet(d.outputs)
      /\ d.activeOutput # NULL => d.activeOutput \in ToSet(d.outputs)
  BY <1>2, <1>3 DEF Inv, Good, Screens
<1> DEFINE e == MakeActiveIfNone(d, o)
<1>7. /\ Good(e, {}) /\ SameWindows(d, e) /\ e.outputs = r /\ e.output = d.output
  BY <1>3, <1>4, <1>5, <1>6, MakeActiveGood
<1>8. e.output[w] = o /\ e.current = IF desk.activeOutput = NULL THEN w ELSE desk.current
  <2>1. e.output[w] = o
    BY <1>0, <1>1, <1>3, <1>7 DEF Desk
  <2>2. d.shows[o] = w
    BY <1>0, <1>3 DEF Desk
  <2>3. /\ d.activeOutput = NULL => e.current = d.shows[o]
        /\ d.activeOutput # NULL => e.current = d.current
    BY <1>3, <1>4, <1>5, <1>6, MakeActiveGood
  <2> HIDE DEF e
  <2> QED BY <1>3, <2>1, <2>2, <2>3
<1>9. desk' = FocusFirst(Display(e, w), w)
  BY DEF server_new_output, e, d, a, w
<1>10. SameWindows(desk, d)
  BY <1>3 DEF SameWindows
<1> HIDE DEF e
<1>11. SameWindows(desk, e)
  BY <1>7, <1>10, SameWindowsTrans
<1> QED BY <1>1, <1>2, <1>7, <1>8, <1>9, <1>11

(* It keeps all that is consistent. *)
LEMMA NewOutputGood ==
  ASSUME Inv, NEW o \in Output, server_new_output(o)
  PROVE  Inv' /\ ToSet(desk.outputs) \subseteq ToSet(desk'.outputs)
<1>1. PICK w \in Workspace : \E d :
        /\ Good(d, {}) /\ SameWindows(desk, d) /\ d.output[w] = o
        /\ ToSet(d.outputs) = ToSet(desk.outputs) \cup {o}
        /\ desk' = FocusFirst(Display(d, w), w)
  BY NewOutputIs
<1>2. PICK d : /\ Good(d, {}) /\ desk' = FocusFirst(Display(d, w), w)
               /\ ToSet(d.outputs) = ToSet(desk.outputs) \cup {o}
  BY <1>1
<1>3. /\ Good(FocusFirst(Display(d, w), w), {})
      /\ FocusFirst(Display(d, w), w).outputs = d.outputs
  BY <1>2, DisplayGood
<1> QED BY <1>2, <1>3 DEF Inv

(* An output that is switched on takes the workspace it showed before. *)
LEMMA PowerOnIs ==
  ASSUME Inv, NEW o \in Output, PowerOn(o)
  PROVE  \E w \in Workspace : \E d :
           /\ Good(d, {}) /\ SameWindows(desk, d) /\ d.output[w] = o
           /\ d.outputs = desk.outputs
           /\ d.current = IF desk.activeOutput = NULL THEN w ELSE desk.current
           /\ w = desk.shows[o]
           /\ desk' = FocusShown(Display(d, w), w)
<1> DEFINE w == desk.shows[o]
           other == desk.output[w]
           passed == IF other \in {NULL, o} THEN desk
                     ELSE [desk EXCEPT !.shows[other] = w]
           d == [passed EXCEPT !.powered = @ \cup {o}, !.output[w] = o]
<1>0. /\ desk \in Desk /\ o \in ToSet(desk.outputs) /\ w \in Workspace
      /\ w = desk.shows[o] /\ other \in Output \cup {NULL}
  BY DEF Inv, Good, PowerOn, Desk
<1>1. other # NULL => desk.shows[other] = w
  BY <1>0 DEF Inv, Good, Screens
<1> HIDE DEF w
<1>2. other # NULL => [desk.shows EXCEPT ![other] = w] = desk.shows
  BY <1>0, <1>1 DEF Desk
<1>3. passed = desk
  <2>1. other # NULL => passed = [desk EXCEPT !.shows = desk.shows] \/ passed = desk
    BY <1>0, <1>2
  <2>2. [desk EXCEPT !.shows = desk.shows] = desk
    BY <1>0 DEF Desk
  <2> QED BY <2>1, <2>2
<1> HIDE DEF passed
<1>4. /\ d \in Desk /\ d.workspace = desk.workspace
      /\ d.mapped = desk.mapped /\ d.leaf = desk.leaf
      /\ d.floating = desk.floating /\ d.fullscreen = desk.fullscreen
      /\ d.savedFloating = desk.savedFloating
      /\ d.toplevels = desk.toplevels /\ d.floats = desk.floats
      /\ d.focused = desk.focused /\ d.lastFocused = desk.lastFocused
      /\ d.fullscreenWindow = desk.fullscreenWindow
      /\ d.shows = desk.shows
      /\ d.output = [desk.output EXCEPT ![w] = o] /\ d.outputs = desk.outputs
      /\ d.powered = desk.powered \cup {o} /\ d.activeOutput = desk.activeOutput
      /\ d.current = desk.current /\ d.keyboard = desk.keyboard
  BY <1>0, <1>3 DEF Desk
<1> HIDE DEF d
<1>5. \A v \in Workspace : d.output[v] # NULL =>
        d.output[v] \in ToSet(d.outputs) /\ d.shows[d.output[v]] = v
  <2>1. \A v \in Workspace : d.output[v] = IF v = w THEN o ELSE desk.output[v]
    BY <1>0, <1>4 DEF Desk
  <2> QED BY <1>0, <1>4, <2>1 DEF Inv, Good, Screens
<1>6. Windows(d) /\ Pointers(d)
  <2>1. Windows(d)
    BY <1>4 DEF Inv, Good, Windows, Lists, Listed, Placed
  <2>2. Pointers(d)
    BY <1>4 DEF Inv, Good, Pointers, Here
  <2> QED BY <2>1, <2>2
<1>7. /\ IsInjective(d.outputs) /\ d.powered \subseteq ToSet(d.outputs)
      /\ o \in ToSet(d.outputs)
      /\ d.activeOutput # NULL => d.activeOutput \in ToSet(d.outputs)
  BY <1>0, <1>4 DEF Inv, Good, Screens
<1> DEFINE e == MakeActiveIfNone(d, o)
<1>8. /\ Good(e, {}) /\ SameWindows(d, e) /\ e.outputs = desk.outputs
      /\ e.output = d.output
  BY <1>4, <1>5, <1>6, <1>7, MakeActiveGood
<1>9. e.output[w] = o /\ e.current = IF desk.activeOutput = NULL THEN w ELSE desk.current
  <2>1. e.output[w] = o
    BY <1>0, <1>4, <1>8 DEF Desk
  <2>2. /\ d.activeOutput = NULL => e.current = d.shows[o]
        /\ d.activeOutput # NULL => e.current = d.current
    BY <1>4, <1>5, <1>6, <1>7, MakeActiveGood
  <2> HIDE DEF e
  <2> QED BY <1>0, <1>4, <2>1, <2>2
<1>10. desk' = FocusShown(Display(e, w), w)
  BY DEF PowerOn, e, d, passed, w
<1>11. SameWindows(desk, d)
  BY <1>4 DEF SameWindows
<1> HIDE DEF e
<1>12. SameWindows(desk, e)
  BY <1>8, <1>11, SameWindowsTrans
<1> QED BY <1>0, <1>8, <1>9, <1>10, <1>12

(* It keeps all that is consistent. *)
LEMMA PowerOnGood ==
  ASSUME Inv, NEW o \in Output, PowerOn(o)
  PROVE  Inv' /\ desk'.outputs = desk.outputs
<1>1. PICK w \in Workspace : \E d :
        /\ Good(d, {}) /\ SameWindows(desk, d) /\ d.output[w] = o
        /\ d.outputs = desk.outputs
        /\ desk' = FocusShown(Display(d, w), w)
  BY PowerOnIs
<1>2. PICK d : /\ Good(d, {}) /\ desk' = FocusShown(Display(d, w), w)
               /\ d.outputs = desk.outputs
  BY <1>1
<1>3. /\ Good(FocusShown(Display(d, w), w), {})
      /\ FocusShown(Display(d, w), w).outputs = d.outputs
  BY <1>2, DisplayGood
<1> QED BY <1>2, <1>3 DEF Inv

(* The workspace of an output that is switched off has none. *)
LEMMA PowerOffGood ==
  ASSUME Inv, NEW o \in Output, PowerOff(o)
  PROVE  /\ Inv' /\ desk'.outputs = desk.outputs
         /\ SameWindows(desk, desk') /\ Dark(desk, desk', o)
<1> DEFINE e == [Vacate(desk, o) EXCEPT !.powered = @ \ {o}]
<1>1. o \in ToSet(desk.outputs)
  BY DEF Inv, Good, Screens, PowerOff
<1>2. e.outputs = desk.outputs
  BY DEF Inv, Good, Desk, Vacate
<1>3. /\ Good(e, {o}) /\ e.powered = desk.powered \ {o} /\ SameWindows(desk, e)
      /\ Dark(desk, e, o)
  <2>1. Vacated(desk, e, o)
    BY DEF Vacated
  <2>2. Good(desk, {})
    BY DEF Inv
  <2> HIDE DEF e
  <2> QED BY <1>1, <2>1, <2>2, VacateGood
<1>4. desk' = PassActive(e, o)
  BY DEF PowerOff
<1> HIDE DEF e
<1> DEFINE f == PassActive(e, o)
<1>5. /\ Good(f, {}) /\ f.outputs = e.outputs /\ SameWindows(e, f) /\ f.output = e.output
  BY <1>3, PassActiveGood
<1> HIDE DEF f
<1>6. SameWindows(desk, f)
  BY <1>3, <1>5, SameWindowsTrans
<1>7. desk' = f
  BY <1>4 DEF f
<1> QED BY <1>2, <1>3, <1>5, <1>6, <1>7 DEF Inv, Dark

(* An output goes; its windows move to the first that is left. *)
LEMMA DestroyOutputGood ==
  ASSUME Inv, NEW o \in Output, output_destroy(o)
  PROVE  /\ Inv'
         /\ desk'.outputs = RemoveFirst(desk.outputs, o)
         /\ desk'.outputs = <<>> => SameWindows(desk, desk')
         /\ desk'.outputs # <<>> =>
              LET to == desk'.shows[Head(desk'.outputs)]
              IN /\ \A t \in Listed(desk, desk.shows[o]) : desk'.workspace[t] = to
                 /\ \A w \in Workspace :
                      Listed(desk, w) \subseteq Listed(desk', w) \/ w = desk.shows[o]
                 /\ desk'.mapped = desk.mapped
<1> DEFINE l == [Vacate(desk, o) EXCEPT !.outputs = RemoveFirst(@, o), !.powered = @ \ {o}]
           v == l.shows[o]
           to == l.shows[Head(l.outputs)]
           e == IF l.outputs = <<>> THEN l ELSE Evacuate(l, v, to)
           f == PassActive(e, o)
<1>1. o \in ToSet(desk.outputs) /\ desk \in Desk
  BY DEF output_destroy, Inv, Good
<1>2. /\ Good(l, {o}) /\ l.powered = desk.powered \ {o}
      /\ l.workspace = desk.workspace /\ l.mapped = desk.mapped
      /\ l.toplevels = desk.toplevels /\ l.floats = desk.floats
      /\ l.shows = desk.shows /\ l.fullscreen = desk.fullscreen
      /\ l.savedFloating = desk.savedFloating /\ SameWindows(desk, l)
  <2>1. Vacated(desk, l, o)
    BY DEF Vacated
  <2> HIDE DEF l
  <2> QED BY <1>1, <2>1, VacateGood DEF Inv
<1>3. l.outputs = RemoveFirst(desk.outputs, o)
  BY <1>1 DEF Vacate, Desk
<1>4. desk' = f
  BY DEF output_destroy
<1> HIDE DEF l
<1>5. l \in Desk /\ v \in Workspace
  BY <1>2 DEF Good, Desk
<1>6. l.outputs # <<>> => to \in Workspace
  <2> SUFFICES ASSUME l.outputs # <<>> PROVE to \in Workspace
    OBVIOUS
  <2>1. l.outputs \in Seq(Output)
    BY <1>5 DEF Desk
  <2>2. Head(l.outputs) \in Output
    BY <2>1
  <2> QED BY <1>5, <2>2 DEF Desk
<1> HIDE DEF to, v
<1>7. /\ Good(e, {o}) /\ e.powered = l.powered /\ e.outputs = l.outputs
      /\ e.shows = l.shows /\ (l.outputs = <<>> => e = l)
      /\ l.outputs # <<>> =>
           /\ Carries(l, e, to)
           /\ \A t \in Listed(l, v) : e.workspace[t] = to
           /\ \A t \in Window : l.workspace[t] # v => e.workspace[t] = l.workspace[t]
  <2>1. CASE l.outputs = <<>>
    BY <1>2, <2>1
  <2>2. CASE l.outputs # <<>>
    <3>1. to \in Workspace /\ e = Evacuate(l, v, to)
      BY <1>6, <2>2
    <3> HIDE DEF e
    <3>2. /\ Good(e, {o}) /\ Carries(l, e, to)
          /\ \A t \in Listed(l, v) : e.workspace[t] = to
          /\ \A t \in Window : l.workspace[t] # v => e.workspace[t] = l.workspace[t]
      BY <1>2, <1>5, <3>1, EvacuateGood
    <3> QED BY <2>2, <3>2 DEF Carries
  <2> QED BY <2>1, <2>2
<1> HIDE DEF e
<1>8. o \notin e.powered
  BY <1>2, <1>7
<1>9. /\ Good(f, {}) /\ f.workspace = e.workspace /\ f.mapped = e.mapped
      /\ f.toplevels = e.toplevels /\ f.floats = e.floats
      /\ f.shows = e.shows /\ f.outputs = e.outputs /\ SameWindows(e, f)
  BY <1>7, <1>8, PassActiveGood
<1> HIDE DEF f
<1>10. f.outputs = RemoveFirst(desk.outputs, o)
  BY <1>3, <1>7, <1>9
<1>11. ASSUME f.outputs # <<>>
       PROVE  /\ \A t \in Listed(desk, desk.shows[o]) :
                   f.workspace[t] = f.shows[Head(f.outputs)]
              /\ \A w \in Workspace :
                   Listed(desk, w) \subseteq Listed(f, w) \/ w = desk.shows[o]
              /\ f.mapped = desk.mapped
  <2>1. /\ Carries(l, e, to)
        /\ \A t \in Listed(l, v) : e.workspace[t] = to
        /\ \A t \in Window : l.workspace[t] # v => e.workspace[t] = l.workspace[t]
    BY <1>7, <1>9, <1>11
  <2>2. f.shows[Head(f.outputs)] = to /\ desk.shows[o] = v
    BY <1>2, <1>7, <1>9 DEF to, v
  <2>3. \A w \in Workspace : Listed(desk, w) = Listed(l, w) /\ Listed(f, w) = Listed(e, w)
    BY <1>2, <1>9 DEF Listed
  <2>4. ASSUME NEW w \in Workspace \ {v} PROVE Listed(l, w) \subseteq Listed(e, w)
    <3> SUFFICES ASSUME NEW t \in Listed(l, w) PROVE t \in Listed(e, w)
      OBVIOUS
    <3>1. t \in Placed(l) /\ l.workspace[t] = w /\ t \in Window
      BY <1>2, <1>5 DEF Good, Windows, Lists, Placed, Desk
    <3>2. t \in Placed(e) /\ e.workspace[t] = w
      BY <2>1, <2>4, <3>1 DEF Carries, Thins, Placed
    <3> QED BY <1>7, <3>2 DEF Good, Windows, Lists
  <2>5. \A t \in Listed(desk, v) : e.workspace[t] = to
    BY <1>5, <2>1, <2>3
  <2>6. f.mapped = desk.mapped
    BY <1>2, <1>9, <2>1 DEF Carries
  <2> QED BY <1>9, <2>2, <2>3, <2>4, <2>5, <2>6
<1>12. f.outputs = <<>> => SameWindows(desk, f)
  BY <1>2, <1>7, <1>9, SameWindowsTrans
<1> QED BY <1>4, <1>9, <1>10, <1>11, <1>12 DEF Inv

----------------------------------------------------------------------------
(* Requests of clients, bars and of the user. *)

(* Key bindings act on a workspace and on one of its mapped windows. *)
LEMMA FocusedIs ==
  ASSUME Inv
  PROVE  /\ desk \in Desk /\ current_ws(desk) \in Workspace
         /\ Focused(desk) = desk.focused[current_ws(desk)]
         /\ Focused(desk) \in desk.mapped \cup {NULL}
<1>1. desk \in Desk
  BY DEF Inv, Good
<1>2. current_ws(desk) \in Workspace
  BY <1>1 DEF current_ws, Desk
<1>3. Focused(desk) = desk.focused[current_ws(desk)]
  BY DEF Focused
<1>4. \A w \in Workspace : desk.focused[w] \in desk.mapped \cup {NULL}
  BY DEF Inv, Good, Pointers, Here
<1> QED BY <1>1, <1>2, <1>3, <1>4

(* A window asks for the focus, is clicked, or is grabbed to be moved. *)
LEMMA WindowRequestsGood ==
  ASSUME Inv, NEW t \in Window,
         RequestActivate(t) \/ Click(t) \/ Grab(t) \/ RequestMove(t)
  PROVE  Inv' /\ desk'.outputs = desk.outputs
<1>1. CASE RequestActivate(t)
  <2> DEFINE d == workspace_switch(desk, desk.workspace[t])
  <2>1. t \in desk.mapped /\ desk.workspace[t] \in Workspace
    BY <1>1 DEF RequestActivate, Mapped, Inv, Good, Windows
  <2>2. Good(d, {}) /\ d.mapped = desk.mapped /\ d.outputs = desk.outputs
    BY <2>1, SwitchGood DEF Inv
  <2>3. desk' = focus_toplevel(d, t)
    BY <1>1 DEF RequestActivate
  <2> HIDE DEF d
  <2>4. t \in d.mapped
    BY <2>1, <2>2
  <2>5. Good(focus_toplevel(d, t), {}) /\ Refocused(d, focus_toplevel(d, t))
    BY <2>2, <2>4, FocusGood
  <2> QED BY <2>2, <2>3, <2>5 DEF Inv, Refocused
<1>2. CASE Click(t)
  <2>1. t \in desk.mapped /\ desk' = focus_toplevel(desk, t)
    BY <1>2 DEF Click, Mapped
  <2> QED BY <2>1, FocusGood DEF Inv, Refocused
<1>3. CASE Grab(t)
  <2> DEFINE d == focus_toplevel(desk, t)
  <2>1. t \in desk.mapped /\ desk' = IF t \in d.floating THEN d ELSE toggle_floating(d, t)
    BY <1>3 DEF Grab, Mapped
  <2>2. Good(d, {}) /\ d.mapped = desk.mapped /\ d.outputs = desk.outputs
    BY <2>1, FocusGood DEF Inv, Refocused
  <2> HIDE DEF d
  <2>3. t \in d.mapped
    BY <2>1, <2>2
  <2>4. Good(toggle_floating(d, t), {}) /\ Keeps(d, toggle_floating(d, t))
    BY <2>2, <2>3, ToggleFloatingGood
  <2> QED BY <2>1, <2>2, <2>4 DEF Inv, Keeps
<1>4. CASE RequestMove(t)
  <2>1. t \in desk.mapped /\ desk' = toggle_floating(desk, t)
    BY <1>4 DEF RequestMove, Mapped
  <2> QED BY <2>1, ToggleFloatingGood DEF Inv, Keeps
<1> QED BY <1>1, <1>2, <1>3, <1>4

(* No client toggles fullscreen while its window is unmapped. *)
LEMMA RequestFullscreenGood ==
  ASSUME Inv, EarlyFullscreen = {}, NEW t \in Window, RequestFullscreen(t)
  PROVE  Inv' /\ desk'.outputs = desk.outputs
<1>1. t \in desk.mapped /\ desk' = toggle_fullscreen(desk, t)
  BY DEF RequestFullscreen, Mapped
<1> QED BY <1>1, ToggleFullscreenGood DEF Inv, Keeps

(* Key bindings that change how the focused window or its workspace is laid *)
(* out.                                                                    *)
LEMMA LayoutRequestsGood ==
  ASSUME Inv, ToggleFloating \/ ToggleFullscreen \/ ToggleMonocle \/ SetBsp
  PROVE  Inv' /\ desk'.outputs = desk.outputs
<1> DEFINE t == Focused(desk)
           w == current_ws(desk)
<1>1. t # NULL /\ \/ desk' = toggle_floating(desk, t)
                  \/ desk' = toggle_fullscreen(desk, t)
                  \/ desk' = toggle_monocle(desk, w)
                  \/ desk' = set_bsp_mode(desk, w)
  BY DEF ToggleFloating, ToggleFullscreen, ToggleMonocle, SetBsp
<1>2. w \in Workspace /\ t = desk.focused[w] /\ t \in desk.mapped \cup {NULL}
  BY FocusedIs
<1> HIDE DEF t, w
<1>3. t \in desk.mapped /\ desk.focused[w] # NULL
  BY <1>1, <1>2
<1>4. Good(toggle_floating(desk, t), {}) /\ Keeps(desk, toggle_floating(desk, t))
  BY <1>3, ToggleFloatingGood DEF Inv
<1>5. Good(toggle_fullscreen(desk, t), {}) /\ Keeps(desk, toggle_fullscreen(desk, t))
  BY <1>3, ToggleFullscreenGood DEF Inv
<1>6. Good(toggle_monocle(desk, w), {}) /\ Keeps(desk, toggle_monocle(desk, w))
  BY <1>2, <1>3, ToggleMonocleGood DEF Inv
<1>7. Good(set_bsp_mode(desk, w), {}) /\ Keeps(desk, set_bsp_mode(desk, w))
  BY <1>2, <1>3, SetBspGood DEF Inv
<1> QED BY <1>1, <1>4, <1>5, <1>6, <1>7 DEF Inv, Keeps

(* Key bindings that pass the focus on, in the tree or along the lists. *)
LEMMA PassFocusIs ==
  ASSUME Inv, (\E t \in Window : MoveFocus(t)) \/ CycleFocus
  PROVE  \E u \in desk.mapped : desk' = focus_toplevel(desk, u)
<1>1. CASE \E t \in Window : MoveFocus(t)
  <2>1. PICK t \in Window : MoveFocus(t)
    BY <1>1
  <2>2. t \in desk.leaf /\ desk' = focus_toplevel(desk, t)
    BY <2>1 DEF MoveFocus, LeavesOf
  <2>3. t \in desk.mapped
    BY <2>2 DEF Inv, Good, Windows
  <2> QED BY <2>2, <2>3
<1>2. CASE CycleFocus
  <2> DEFINE w == desk.current
             all == desk.toplevels[w] \o desk.floats[w]
             at == {i \in DOMAIN all : all[i] = desk.focused[w]}
             next == IF at = {} THEN 1
                     ELSE ((CHOOSE i \in at : TRUE) % Len(all)) + 1
  <2>1. desk \in Desk /\ w \in Workspace
    BY DEF Inv, Good, Desk
  <2>2. Len(all) >= 2 /\ desk' = focus_toplevel(desk, all[next])
    BY <1>2 DEF CycleFocus
  <2> HIDE DEF w
  <2>3. all \in Seq(Window) /\ ToSet(all) = Listed(desk, w)
    BY <2>1, ListedIn, MembersConcat DEF Listed
  <2>4. ToSet(all) \subseteq desk.mapped
    BY <2>1, <2>3, ListedHere DEF Inv, Good, Here
  <2> HIDE DEF all
  <2>5. next \in DOMAIN all
    <3>1. Len(all) \in Nat /\ DOMAIN all = 1 .. Len(all)
      BY <2>3
    <3>2. at = {} \/ \E i \in 1 .. Len(all) : next = (i % Len(all)) + 1
      BY <3>1
    <3>3. \A i \in 1 .. Len(all) : (i % Len(all)) + 1 \in 1 .. Len(all)
      BY <2>2, <3>1
    <3> HIDE DEF at
    <3>4. at = {} => next = 1
      OBVIOUS
    <3> HIDE DEF next
    <3>5. next \in 1 .. Len(all)
      <4>1. 1 \in 1 .. Len(all)
        BY <2>2, <3>1
      <4>2. CASE at = {}
        BY <3>4, <4>1, <4>2
      <4>3. CASE at # {}
        BY <3>2, <3>3, <4>3
      <4> QED BY <4>2, <4>3
    <3> QED BY <3>1, <3>5
  <2> HIDE DEF next
  <2>6. all[next] \in desk.mapped
    BY <2>4, <2>5 DEF ToSet
  <2> QED BY <2>2, <2>6
<1> QED BY <1>1, <1>2

(* They keep all that is consistent. *)
LEMMA PassFocusRequestsGood ==
  ASSUME Inv, (\E t \in Window : MoveFocus(t)) \/ CycleFocus
  PROVE  Inv' /\ desk'.outputs = desk.outputs
<1>1. PICK u \in desk.mapped : desk' = focus_toplevel(desk, u)
  BY PassFocusIs
<1> QED BY <1>1, FocusGood DEF Inv, Refocused

(* Another workspace comes on the active output, with the focused window or *)
(* without it.                                                             *)
LEMMA WorkspaceRequestsGood ==
  ASSUME Inv, NEW w \in Workspace, Switch(w) \/ MoveToWorkspace(w)
  PROVE  Inv' /\ desk'.outputs = desk.outputs
<1>1. CASE Switch(w)
  BY <1>1, SwitchGood DEF Switch, Inv
<1>2. CASE MoveToWorkspace(w)
  <2> DEFINE t == Focused(desk)
             d == workspace_move_toplevel(desk, t, w)
             e == workspace_switch(d, w)
  <2>1. t # NULL /\ desk' = focus_toplevel(e, t)
    BY <1>2 DEF MoveToWorkspace
  <2>2. t \in desk.mapped
    BY <2>1, FocusedIs
  <2> HIDE DEF t
  <2>3. Good(d, {}) /\ d.mapped = desk.mapped /\ d.outputs = desk.outputs
    <3>1. Good(desk, {})
      BY DEF Inv
    <3>2. Good(d, {}) /\ Carries(desk, d, w)
      BY <2>2, <3>1, MoveGood
    <3> HIDE DEF d
    <3> QED BY <3>2 DEF Carries
  <2> HIDE DEF d
  <2>4. Good(e, {}) /\ e.mapped = d.mapped /\ e.outputs = d.outputs
    BY <2>3, SwitchGood
  <2> HIDE DEF e
  <2>5. t \in e.mapped
    BY <2>2, <2>3, <2>4
  <2>6. Good(focus_toplevel(e, t), {}) /\ Refocused(e, focus_toplevel(e, t))
    BY <2>4, <2>5, FocusGood
  <2> QED BY <2>1, <2>3, <2>4, <2>6 DEF Inv, Refocused
<1> QED BY <1>1, <1>2

----------------------------------------------------------------------------
(* Windows come. *)

(* A new object is unmapped. *)
LEMMA CreateGood ==
  ASSUME Inv, NEW t \in Window, Create(t)
  PROVE  Inv' /\ desk'.outputs = desk.outputs
<1> DEFINE d == [desk EXCEPT !.workspace[t] = desk.current,
                             !.floating = @ \ {t}, !.fullscreen = @ \ {t},
                             !.savedFloating = @ \ {t}]
<1>1. desk \in Desk /\ t \notin desk.mapped
  <2>1. NULL \notin Workspace
    BY NullsAssumption
  <2> QED BY <2>1 DEF Create, Live, Inv, Good, Windows
<1>2. /\ d \in Desk /\ \A u \in Window \ {t} : d.workspace[u] = desk.workspace[u]
      /\ d.mapped = desk.mapped /\ d.leaf = desk.leaf
      /\ d.floating = desk.floating \ {t} /\ d.fullscreen = desk.fullscreen \ {t}
      /\ d.savedFloating = desk.savedFloating \ {t}
      /\ d.toplevels = desk.toplevels /\ d.floats = desk.floats
      /\ d.focused = desk.focused /\ d.lastFocused = desk.lastFocused
      /\ d.fullscreenWindow = desk.fullscreenWindow
      /\ d.output = desk.output /\ d.shows = desk.shows /\ d.outputs = desk.outputs
      /\ d.powered = desk.powered /\ d.activeOutput = desk.activeOutput
  BY <1>1 DEF Desk
<1>3. desk' = IF t \in XWayland THEN Enable(d, {t}) ELSE Disable(d, {t})
  BY DEF Create
<1> HIDE DEF d
<1>4. desk.mapped \subseteq Window \ {t}
  BY <1>1 DEF Desk
<1>5. Placed(d) = Placed(desk)
  BY <1>2, <1>4 DEF Placed
<1>6. Placed(desk) \subseteq Window \ {t}
  BY <1>4 DEF Placed
<1>7. Lists(d, Placed(d))
  <2>1. \A w \in Workspace :
          {u \in Placed(d) : d.workspace[u] = w} = {u \in Placed(desk) : desk.workspace[u] = w}
    BY <1>2, <1>5, <1>6
  <2>2. \A w \in Workspace : Listed(d, w) = Listed(desk, w)
    BY <1>2 DEF Listed
  <2> QED BY <1>2, <1>5, <1>6, <2>1, <2>2 DEF Inv, Good, Windows, Lists
<1>8. Windows(d)
  BY <1>2, <1>4, <1>7 DEF Inv, Good, Windows
<1>9. Pointers(d)
  <2>1. \A w \in Workspace : Here(d, w) = Here(desk, w) /\ t \notin Here(desk, w)
    BY <1>1, <1>2, <1>4 DEF Here
  <2> QED BY <1>2, <2>1 DEF Inv, Good, Pointers
<1>10. Good(d, {})
  BY <1>2, <1>8, <1>9 DEF Inv, Good, Screens
<1>11. Alike(d, Enable(d, {t})) /\ Alike(d, Disable(d, {t}))
  BY <1>2, EnableAlike
<1> QED BY <1>2, <1>3, <1>10, <1>11, AlikeGood DEF Inv, Alike

(* A leaf for a mapped window. *)
LEMMA LeafGood ==
  ASSUME NEW d, NEW O, Good(d, O), NEW t \in d.mapped
  PROVE  /\ Good([d EXCEPT !.leaf = @ \cup {t}], O)
         /\ Keeps(d, [d EXCEPT !.leaf = @ \cup {t}])
<1> DEFINE e == [d EXCEPT !.leaf = @ \cup {t}]
<1>1. d \in Desk /\ t \in Window
  BY DEF Good, Desk
<1>2. /\ e \in Desk /\ e.leaf = d.leaf \cup {t} /\ e.floating = d.floating
      /\ e.fullscreen = d.fullscreen /\ e.savedFloating = d.savedFloating
      /\ e.toplevels = d.toplevels /\ e.floats = d.floats
      /\ e.focused = d.focused /\ e.lastFocused = d.lastFocused
      /\ e.fullscreenWindow = d.fullscreenWindow /\ e.activeOutput = d.activeOutput
      /\ Keeps(d, e)
  BY <1>1 DEF Desk, Keeps
<1> HIDE DEF e
<1>3. Good(e, O)
  BY <1>1, <1>2 DEF Good, Windows, Lists, Listed, Placed, Pointers, Here, Screens, Keeps
<1> QED BY <1>2, <1>3 DEF e

(* A window moves from the list it is in to the floating one and floats. *)
LEMMA FloatsGood ==
  ASSUME NEW d, NEW O, Good(d, O), NEW t \in d.mapped \ d.fullscreen
  PROVE  /\ Good(LinkFloating(Unlink([d EXCEPT !.floating = @ \cup {t}], t), t), O)
         /\ Keeps(d, LinkFloating(Unlink([d EXCEPT !.floating = @ \cup {t}], t), t))
<1> DEFINE e == [d EXCEPT !.floating = @ \cup {t}]
           f == LinkFloating(Unlink(e, t), t)
           w == d.workspace[t]
<1>1. d \in Desk /\ t \in Window /\ w \in Workspace
  BY DEF Good, Windows, Desk
<1> HIDE DEF w
<1>2. /\ e \in Desk /\ e.leaf = d.leaf /\ e.floating = d.floating \cup {t}
      /\ e.fullscreen = d.fullscreen /\ e.savedFloating = d.savedFloating
      /\ e.toplevels = d.toplevels /\ e.floats = d.floats
      /\ e.focused = d.focused /\ e.lastFocused = d.lastFocused
      /\ e.fullscreenWindow = d.fullscreenWindow /\ e.activeOutput = d.activeOutput
      /\ Keeps(d, e)
  BY <1>1 DEF Desk, Keeps
<1> HIDE DEF e
<1>3. Good(e, O)
  BY <1>1, <1>2 DEF Good, Windows, Lists, Listed, Placed, Pointers, Here, Screens, Keeps
<1>4. e.workspace[t] = w /\ t \in Placed(e)
  BY <1>2 DEF Placed, Keeps, w
<1>5. Relinked(e, f) /\ Lists(f, Placed(e) \cup {t})
  BY <1>1, <1>2, <1>3, <1>4, RelistLists DEF Good, Windows
<1>6. Placed(e) \cup {t} = Placed(e)
  BY <1>4
<1> HIDE DEF f
<1>7. Good(f, O)
  BY <1>3, <1>5, <1>6, RelinkedGood
<1>8. Keeps(d, f)
  BY <1>2, <1>5, RelinkedKeeps, KeepsTrans
<1> QED BY <1>7, <1>8 DEF f, e

(* The order of the two does not matter: a rule makes a window float after  *)
(* its move, a map handler before it.                                      *)
LEMMA FloatOrder ==
  ASSUME NEW d \in Desk, NEW t \in Window
  PROVE  [LinkFloating(Unlink(d, t), t) EXCEPT !.floating = @ \cup {t}]
         = LinkFloating(Unlink([d EXCEPT !.floating = @ \cup {t}], t), t)
<1> DEFINE a == [w \in Workspace |-> RemoveFirst(d.toplevels[w], t)]
           b == [w \in Workspace |-> RemoveFirst(d.floats[w], t)]
           e == [d EXCEPT !.floating = @ \cup {t}]
<1>1. /\ e.toplevels = d.toplevels /\ e.floats = d.floats
      /\ e.workspace = d.workspace
  BY DEF Desk
<1>2. Unlink(d, t) = [d EXCEPT !.toplevels = a, !.floats = b]
  BY DEF Unlink
<1>3. Unlink(e, t) = [e EXCEPT !.toplevels = a, !.floats = b]
  BY <1>1 DEF Unlink
<1> HIDE DEF a, b
<1>4. Unlink(e, t) = [Unlink(d, t) EXCEPT !.floating = @ \cup {t}]
  BY <1>2, <1>3 DEF Desk
<1> QED BY <1>2, <1>4 DEF LinkFloating, Desk

(* A rule that floats it or covers the workspace with it. *)
LEMMA RuleGood ==
  ASSUME NEW d, NEW O, Good(d, O), NEW t \in d.mapped \ d.fullscreen, NEW rule
  PROVE  Good(rule_apply_all(d, t, rule), O) /\ Keeps(d, rule_apply_all(d, t, rule))
<1> DEFINE float == [LinkFloating(Unlink(d, t), t) EXCEPT !.floating = @ \cup {t}]
           leaf == [d EXCEPT !.leaf = IF t \in d.floating THEN @ ELSE @ \cup {t}]
           e == rule_apply_all(d, t, rule)
<1>1. d \in Desk /\ t \in Window
  BY DEF Good, Desk
<1>2. Good(float, O) /\ Keeps(d, float)
  <2> DEFINE g == LinkFloating(Unlink([d EXCEPT !.floating = @ \cup {t}], t), t)
  <2>1. float = g
    BY <1>1, FloatOrder
  <2>2. Good(g, O) /\ Keeps(d, g)
    BY FloatsGood
  <2> HIDE DEF float, g
  <2> QED BY <2>1, <2>2
<1>3. Good(leaf, O) /\ Keeps(d, leaf)
  <2>1. CASE t \in d.floating
    <3>1. leaf = d
      BY <1>1, <2>1 DEF Desk
    <3> QED BY <3>1 DEF Keeps
  <2>2. CASE t \notin d.floating
    <3>1. leaf = [d EXCEPT !.leaf = @ \cup {t}]
      BY <2>2
    <3> HIDE DEF leaf
    <3> QED BY <3>1, LeafGood
  <2> QED BY <2>1, <2>2
<1>4. e = float \/ e = toggle_fullscreen(leaf, t) \/ e = d
  BY DEF rule_apply_all
<1> HIDE DEF float, leaf, e
<1>5. t \in leaf.mapped
  BY <1>3 DEF Keeps
<1>6. Good(toggle_fullscreen(leaf, t), O) /\ Keeps(leaf, toggle_fullscreen(leaf, t))
  BY <1>3, <1>5, ToggleFullscreenGood
<1>7. Good(d, O) /\ Keeps(d, d)
  BY DEF Keeps
<1>8. Good(e, O) /\ Keeps(d, e)
  BY <1>2, <1>3, <1>4, <1>6, <1>7, KeepsTrans
<1> QED BY <1>8 DEF e

(* A dialog, or a window that a rule does not leave tiled. *)
LEMMA MapFloatGood ==
  ASSUME NEW d, NEW O, Good(d, O), NEW t \in d.mapped
  PROVE  Good(MapFloat(d, t), O) /\ Keeps(d, MapFloat(d, t))
<1> DEFINE f == LinkFloating(Unlink([d EXCEPT !.floating = @ \cup {t}], t), t)
           e == IF Tiled(d, t) THEN f ELSE d
<1>1. Tiled(d, t) => Good(f, O) /\ Keeps(d, f)
  BY FloatsGood DEF Tiled
<1> HIDE DEF f
<1>2. Good(e, O) /\ Keeps(d, e)
  BY <1>1 DEF Keeps
<1>3. MapFloat(d, t) = focus_toplevel(e, t)
  BY DEF MapFloat, f
<1> HIDE DEF e
<1>4. t \in e.mapped
  BY <1>2 DEF Keeps
<1> QED BY <1>2, <1>3, <1>4, FocusGood, RefocusedKeeps, KeepsTrans

(* A tiled window gets a leaf. *)
LEMMA MapTileGood ==
  ASSUME NEW d, NEW O, Good(d, O), NEW t \in d.mapped
  PROVE  Good(MapTile(d, t), O) /\ Keeps(d, MapTile(d, t))
<1> DEFINE w == d.workspace[t]
           l == [d EXCEPT !.leaf = @ \cup {t}]
           a == Arrange(l, w)
           f == IF d.fullscreenWindow[w] \in {NULL, t} THEN focus_toplevel(a, t) ELSE a
<1>1. w \in Workspace /\ t \in Window
  BY DEF Good, Windows, Desk
<1>2. MapTile(d, t) = Disable(f, {t}) \/ MapTile(d, t) = f
  BY DEF MapTile
<1>3. Good(l, O) /\ Keeps(d, l)
  BY LeafGood
<1> HIDE DEF w, l
<1>4. Alike(l, a)
  BY <1>1, <1>3, ArrangeAlike DEF Good
<1> HIDE DEF a
<1>5. Good(a, O) /\ Keeps(d, a) /\ t \in a.mapped
  <2>1. Good(a, O) /\ Keeps(d, a)
    BY <1>3, <1>4, AlikeGood, AlikeKeeps, KeepsTrans
  <2> QED BY <2>1 DEF Keeps
<1>6. Good(f, O) /\ Keeps(d, f)
  BY <1>5, FocusGood, RefocusedKeeps, KeepsTrans
<1> HIDE DEF f
<1>7. Alike(f, Disable(f, {t}))
  BY <1>1, <1>6, EnableAlike DEF Good
<1>8. Good(Disable(f, {t}), O) /\ Keeps(d, Disable(f, {t}))
  BY <1>6, <1>7, AlikeGood, AlikeKeeps, KeepsTrans
<1> QED BY <1>2, <1>6, <1>8

(* e is d, but t is mapped. *)
MapsOne(d, e, t) ==
  /\ e \in Desk /\ e.workspace = d.workspace
  /\ e.mapped = d.mapped \cup {t} /\ e.leaf = d.leaf
  /\ e.floating = d.floating /\ e.fullscreen = d.fullscreen
  /\ e.savedFloating = d.savedFloating
  /\ e.enabled = (IF t \in XWayland THEN d.enabled ELSE d.enabled \cup {t})
  /\ e.toplevels = d.toplevels /\ e.floats = d.floats
  /\ e.focused = d.focused /\ e.lastFocused = d.lastFocused
  /\ e.fullscreenWindow = d.fullscreenWindow /\ e.monocle = d.monocle
  /\ e.output = d.output /\ e.shows = d.shows /\ e.outputs = d.outputs
  /\ e.powered = d.powered /\ e.activeOutput = d.activeOutput
  /\ e.current = d.current /\ e.keyboard = d.keyboard

(* What a map handler goes on with once the window is linked. *)
MapOn(d, t, tile, rule) ==
  IF tile THEN MapRuled(rule_apply_all(d, t, rule), t) ELSE MapFloat(d, t)

(* An unmapped window is in no list, so its link goes into one. *)
LEMMA MapIs ==
  ASSUME Inv, NEW t \in Window, NEW tile \in BOOLEAN, NEW rule, Map(t, tile, rule)
  PROVE  /\ t \notin desk.mapped /\ desk.workspace[t] \in Workspace
         /\ \E e : /\ MapsOne(desk, e, t) /\ Relinked(e, LinkTiled(e, t))
                   /\ Good(LinkTiled(e, t), {})
                   /\ desk' = MapOn(LinkTiled(e, t), t, tile, rule)
<1> DEFINE w == desk.workspace[t]
           a == [desk EXCEPT !.mapped = @ \cup {t},
                             !.enabled = IF t \in XWayland THEN @ ELSE @ \cup {t}]
           d == LinkTiled(a, t)
<1>1. desk \in Desk /\ t \notin desk.mapped /\ w \in Workspace /\ w = desk.workspace[t]
  <2>1. desk \in Desk /\ t \notin desk.mapped /\ w # NULL
    BY DEF Map, Live, Mapped, Inv, Good
  <2> QED BY <2>1 DEF Desk
<1>2. t \notin Placed(desk) /\ t \notin desk.fullscreen
  BY <1>1 DEF Placed, Inv, Good, Windows
<1>3. t \notin Listed(desk, w)
  BY <1>1, <1>2 DEF Inv, Good, Windows, Lists
<1>4. desk' = MapOn(d, t, tile, rule)
  BY <1>3 DEF Map, MapOn
<1> HIDE DEF w
<1>5. MapsOne(desk, a, t)
  BY <1>1 DEF MapsOne, Desk
<1> HIDE DEF a
<1>6. Placed(a) = Placed(desk) \cup {t}
  BY <1>2, <1>5 DEF MapsOne, Placed
<1>7. Lists(a, Placed(desk))
  BY <1>5 DEF MapsOne, Inv, Good, Windows, Lists, Listed
<1>8. Relinked(a, d) /\ Lists(d, Placed(desk) \cup {t})
  BY <1>1, <1>2, <1>5, <1>7, LinkTiledLists DEF MapsOne
<1> HIDE DEF d
<1>9. Placed(d) = Placed(desk) \cup {t}
  BY <1>6, <1>8 DEF Placed, Relinked
<1>10. Windows(d)
  <2>1. /\ d.workspace = desk.workspace /\ d.mapped = desk.mapped \cup {t}
        /\ d.leaf = desk.leaf /\ d.fullscreen = desk.fullscreen
        /\ d.floating = desk.floating
    BY <1>5, <1>8 DEF MapsOne, Relinked
  <2> QED BY <1>1, <1>8, <1>9, <2>1 DEF Inv, Good, Windows
<1>11. Pointers(d)
  <2>1. \A v \in Workspace : Here(desk, v) \subseteq Here(d, v)
    BY <1>5, <1>8 DEF MapsOne, Here, Relinked
  <2>2. /\ d.focused = desk.focused /\ d.lastFocused = desk.lastFocused
        /\ d.fullscreenWindow = desk.fullscreenWindow
        /\ d.fullscreen = desk.fullscreen
    BY <1>5, <1>8 DEF MapsOne, Relinked
  <2> QED BY <2>1, <2>2 DEF Inv, Good, Pointers
<1>12. Good(d, {}) /\ d.outputs = desk.outputs
  <2>1. Screens(d, {}) /\ d.outputs = desk.outputs
    BY <1>5, <1>8 DEF MapsOne, Inv, Good, Screens, Relinked
  <2> QED BY <1>8, <1>10, <1>11, <2>1 DEF Good, Relinked
<1>13. \E e : /\ MapsOne(desk, e, t) /\ Relinked(e, LinkTiled(e, t))
              /\ Good(LinkTiled(e, t), {})
              /\ desk' = MapOn(LinkTiled(e, t), t, tile, rule)
  <2>1. d = LinkTiled(a, t)
    BY DEF d
  <2> QED BY <1>4, <1>5, <1>8, <1>12, <2>1
<1> QED BY <1>1, <1>13

(* What becomes of it keeps all that is consistent. *)
LEMMA MapOnGood ==
  ASSUME NEW d, Good(d, {}), NEW t \in d.mapped \ d.fullscreen, NEW tile \in BOOLEAN,
         NEW rule
  PROVE  Good(MapOn(d, t, tile, rule), {}) /\ Keeps(d, MapOn(d, t, tile, rule))
<1> DEFINE r == rule_apply_all(d, t, rule)
<1>1. MapOn(d, t, tile, rule) = IF ~ tile THEN MapFloat(d, t)
                                ELSE IF Tiled(r, t) THEN MapTile(r, t) ELSE MapFloat(r, t)
  BY DEF MapOn, MapRuled
<1>2. Good(r, {}) /\ Keeps(d, r)
  BY RuleGood
<1> HIDE DEF r
<1>3. t \in r.mapped
  BY <1>2 DEF Keeps
<1>4. Good(MapFloat(d, t), {}) /\ Keeps(d, MapFloat(d, t))
  BY MapFloatGood
<1>5. Good(MapTile(r, t), {}) /\ Keeps(r, MapTile(r, t))
  BY <1>2, <1>3, MapTileGood
<1>6. Good(MapFloat(r, t), {}) /\ Keeps(r, MapFloat(r, t))
  BY <1>2, <1>3, MapFloatGood
<1>7. Keeps(d, MapTile(r, t)) /\ Keeps(d, MapFloat(r, t))
  BY <1>2, <1>5, <1>6, KeepsTrans
<1> QED BY <1>1, <1>4, <1>5, <1>6, <1>7

(* So does a window that comes. *)
LEMMA MapGood ==
  ASSUME Inv, NEW t \in Window, NEW tile \in BOOLEAN, NEW rule, Map(t, tile, rule)
  PROVE  Inv' /\ desk'.outputs = desk.outputs
<1>1. PICK e : /\ MapsOne(desk, e, t) /\ Relinked(e, LinkTiled(e, t))
               /\ Good(LinkTiled(e, t), {})
               /\ desk' = MapOn(LinkTiled(e, t), t, tile, rule)
  BY MapIs
<1>2. t \notin desk.mapped
  BY MapIs
<1> DEFINE d == LinkTiled(e, t)
<1>3. Relinked(e, d) /\ Good(d, {}) /\ desk' = MapOn(d, t, tile, rule)
  BY <1>1
<1> HIDE DEF d
<1>4. t \in d.mapped \ d.fullscreen /\ d.outputs = desk.outputs
  BY <1>1, <1>2, <1>3 DEF MapsOne, Relinked, Inv, Good, Windows
<1> QED BY <1>3, <1>4, MapOnGood DEF Inv, Keeps

----------------------------------------------------------------------------
(* Windows go. *)

(* An object is destroyed only when it is unmapped, so nothing points at it. *)
LEMMA DestroyGood ==
  ASSUME Inv, NEW t \in Window, Destroy(t)
  PROVE  Inv' /\ desk'.outputs = desk.outputs
<1> DEFINE w == desk.workspace[t]
           n == [desk EXCEPT
                     !.workspace[t] = NULL, !.floating = @ \ {t},
                     !.fullscreen = @ \ {t}, !.savedFloating = @ \ {t},
                     !.enabled = @ \ {t},
                     !.keyboard = IF @ = t THEN NULL ELSE @]
           g == Unlink(n, t)
           forget(p) == [p EXCEPT ![w] = IF @ = t THEN NULL ELSE @]
           e == [g EXCEPT !.lastFocused = forget(@), !.focused = forget(@),
                          !.fullscreenWindow = forget(@)]
<1>1. desk \in Desk /\ t \notin desk.mapped /\ w \in Workspace
  <2>1. desk \in Desk /\ t \notin desk.mapped /\ w # NULL
    BY DEF Destroy, Live, Mapped, Inv, Good
  <2> QED BY <2>1 DEF Desk
<1>2. desk' = e
  BY DEF Destroy
<1> HIDE DEF w
<1>3. /\ n \in Desk /\ \A u \in Window \ {t} : n.workspace[u] = desk.workspace[u]
      /\ n.mapped = desk.mapped /\ n.leaf = desk.leaf
      /\ n.floating = desk.floating \ {t} /\ n.fullscreen = desk.fullscreen \ {t}
      /\ n.savedFloating = desk.savedFloating \ {t}
      /\ n.toplevels = desk.toplevels /\ n.floats = desk.floats
      /\ n.focused = desk.focused /\ n.lastFocused = desk.lastFocused
      /\ n.fullscreenWindow = desk.fullscreenWindow
      /\ n.output = desk.output /\ n.shows = desk.shows /\ n.outputs = desk.outputs
      /\ n.powered = desk.powered /\ n.activeOutput = desk.activeOutput
  BY <1>1 DEF Desk
<1> HIDE DEF n
<1>4. desk.mapped \subseteq Window \ {t}
  BY <1>1 DEF Desk
<1>5. Placed(n) = Placed(desk) /\ Placed(desk) \subseteq Window \ {t}
  BY <1>3, <1>4 DEF Placed
<1>6. Lists(n, Placed(n))
  <2>1. \A v \in Workspace :
          {u \in Placed(n) : n.workspace[u] = v} = {u \in Placed(desk) : desk.workspace[u] = v}
    BY <1>3, <1>5
  <2>2. \A v \in Workspace : Listed(n, v) = Listed(desk, v)
    BY <1>3 DEF Listed
  <2> QED BY <1>3, <1>5, <2>1, <2>2 DEF Inv, Good, Windows, Lists
<1>7. Relinked(n, g) /\ Lists(g, Placed(n) \ {t})
  BY <1>3, <1>6, UnlinkLists
<1> HIDE DEF g
<1>8. Good(g, {}) /\ g.outputs = desk.outputs
  <2>1. Windows(n)
    BY <1>3, <1>4, <1>6 DEF Inv, Good, Windows
  <2>2. Pointers(n)
    <3>1. \A v \in Workspace : Here(n, v) = Here(desk, v) /\ t \notin Here(desk, v)
      BY <1>1, <1>3, <1>4 DEF Here
    <3> QED BY <1>3, <3>1 DEF Inv, Good, Pointers
  <2>3. Good(n, {})
    BY <1>3, <2>1, <2>2 DEF Inv, Good, Screens
  <2>4. Placed(n) \ {t} = Placed(n)
    BY <1>5
  <2>5. Good(g, {})
    BY <1>7, <2>3, <2>4, RelinkedGood
  <2> QED BY <1>3, <1>7, <2>5 DEF Relinked
<1>9. /\ e \in Desk /\ e.workspace = g.workspace
      /\ e.mapped = g.mapped /\ e.leaf = g.leaf
      /\ e.floating = g.floating /\ e.fullscreen = g.fullscreen
      /\ e.savedFloating = g.savedFloating
      /\ e.toplevels = g.toplevels /\ e.floats = g.floats
      /\ e.lastFocused = forget(g.lastFocused)
      /\ e.focused = forget(g.focused)
      /\ e.fullscreenWindow = forget(g.fullscreenWindow)
      /\ e.output = g.output /\ e.shows = g.shows /\ e.outputs = g.outputs
      /\ e.powered = g.powered /\ e.activeOutput = g.activeOutput
  <2>1. g \in Desk
    BY <1>8 DEF Good
  <2>2. \A p \in [Workspace -> Window \cup {NULL}] :
          forget(p) \in [Workspace -> Window \cup {NULL}]
    OBVIOUS
  <2>3. /\ forget(g.lastFocused) \in [Workspace -> Window \cup {NULL}]
        /\ forget(g.focused) \in [Workspace -> Window \cup {NULL}]
        /\ forget(g.fullscreenWindow) \in [Workspace -> Window \cup {NULL}]
    BY <2>1, <2>2 DEF Desk
  <2> HIDE DEF forget
  <2> QED BY <2>1, <2>3 DEF Desk
<1>10. \A p \in [Workspace -> Window \cup {NULL}], v \in Workspace :
         forget(p)[v] \in {p[v], NULL}
  OBVIOUS
<1> HIDE DEF e, forget
<1>11. Windows(e)
  BY <1>8, <1>9 DEF Good, Windows, Lists, Listed, Placed
<1>12. Pointers(e)
  <2>1. \A v \in Workspace : Here(e, v) = Here(g, v)
    BY <1>9 DEF Here
  <2>2. \A v \in Workspace : /\ e.focused[v] \in {g.focused[v], NULL}
                             /\ e.lastFocused[v] \in {g.lastFocused[v], NULL}
                             /\ e.fullscreenWindow[v] \in {g.fullscreenWindow[v], NULL}
    <3>1. g \in Desk
      BY <1>8 DEF Good
    <3> QED BY <1>9, <1>10, <3>1 DEF Desk
  <2> QED BY <1>8, <1>9, <2>1, <2>2 DEF Good, Pointers
<1> QED BY <1>2, <1>8, <1>9, <1>11, <1>12 DEF Inv, Good, Screens

(* What the workspace of a window that goes focuses is one of its windows. *)
LEMMA FocusAfterIs ==
  ASSUME NEW d \in Desk, NEW t \in Window, NEW sibling, NEW w \in Workspace,
         w = d.workspace[t], Listed(d, w) \subseteq Here(d, w),
         d.lastFocused[w] \in Here(d, w) \cup {NULL},
         sibling \in Here(d, w) \cup {NULL}
  PROVE  FocusAfter(d, t, sibling) \in Here(d, w) \cup {NULL}
<1> DEFINE last == IF t \in XWayland \/ d.lastFocused[w] \in d.fullscreen THEN NULL
                   ELSE d.lastFocused[w]
           p == <<last, sibling>>
<1>1. Here(d, w) \subseteq Window
  BY DEF Here, Desk
<1>2. last \in Here(d, w) \cup {NULL}
  OBVIOUS
<1> HIDE DEF last
<1>3. p \in Seq(Window \cup {NULL}) /\ ToSet(p) = {last, sibling}
  <2> DEFINE T == Window \cup {NULL}
  <2>1. last \in T /\ sibling \in T
    BY <1>1, <1>2
  <2> HIDE DEF T
  <2>2. p = <<last, sibling>>
    OBVIOUS
  <2> HIDE DEF p
  <2>3. p \in Seq(T) /\ ToSet(p) = {last, sibling}
    BY <2>1, <2>2, MembersOfPair
  <2> QED BY <2>3 DEF T
<1>4. FocusAfter(d, t, sibling) = FirstOf(p \o d.toplevels[w] \o d.floats[w])
  BY DEF FocusAfter, last
<1> HIDE DEF p
<1>5. FirstOf(p \o d.toplevels[w] \o d.floats[w]) \in ToSet(p) \cup Listed(d, w) \cup {NULL}
  BY <1>3, FirstListed
<1> QED BY <1>2, <1>3, <1>4, <1>5

(* The layout of what is left and the keyboard do not touch the lists. *)
LEMMA SettleAlike ==
  ASSUME NEW d \in Desk, NEW w \in Workspace, NEW ends \in BOOLEAN
  PROVE  Alike(d, Settle(d, w, ends))
<1> DEFINE off == [d EXCEPT !.monocle = IF ends THEN @ \ {w} ELSE @]
           a == ArrangeIfTree(off, w)
           S == IF ends THEN LeavesOf(off, w) ELSE {}
<1>1. Alike(d, off)
  <2>1. CASE ends
    <3>1. off = [d EXCEPT !.monocle = @ \ {w}]
      BY <2>1
    <3> HIDE DEF off
    <3> QED BY <3>1, MonocleAlike
  <2>2. CASE ~ ends
    <3>1. off = d
      BY <2>2 DEF Desk
    <3> QED BY <3>1, AlikeSelf
  <2> QED BY <2>1, <2>2
<1>2. Settle(d, w, ends) = Enable(a, S)
  BY DEF Settle
<1> HIDE DEF off
<1>3. off \in Desk /\ S \in SUBSET Window
  <2>1. off \in Desk
    BY <1>1 DEF Alike
  <2> QED BY <2>1, TilesIn
<1> HIDE DEF S
<1>4. Alike(off, a)
  BY <1>3, ArrangeAlike
<1> HIDE DEF a
<1>5. a \in Desk
  BY <1>4 DEF Alike
<1>6. Alike(a, Enable(a, S))
  BY <1>3, <1>5, EnableAlike
<1> QED BY <1>1, <1>2, <1>4, <1>6, AlikeTrans

(* The keyboard follows the focus of the workspace, if the window had it. *)
LEMMA RefocusGood ==
  ASSUME NEW d, NEW O, Good(d, O), NEW w \in Workspace, NEW displaced \in BOOLEAN
  PROVE  Good(Refocus(d, w, displaced), O) /\ Keeps(d, Refocus(d, w, displaced))
<1> DEFINE f == d.focused[w]
           u == IF displaced THEN f ELSE NULL
<1>1. f \in d.mapped \cup {NULL}
  BY DEF Good, Pointers, Here
<1>2. Refocus(d, w, displaced) = clear_focus(d) \/ Refocus(d, w, displaced) = FocusIfAny(d, u)
  BY DEF Refocus
<1>3. u \in d.mapped \cup {NULL}
  BY <1>1
<1> HIDE DEF u
<1>4. Good(FocusIfAny(d, u), O) /\ Keeps(d, FocusIfAny(d, u))
  BY <1>3, FocusIfAnyGood, RefocusedKeeps
<1>6. Good(clear_focus(d), O) /\ Keeps(d, clear_focus(d))
  BY ClearGood, RefocusedKeeps
<1> QED BY <1>2, <1>4, <1>6

(* e is d without t, which is unmapped and in no list.                     *)
UnmapsOne(d, e, t) ==
  LET w == d.workspace[t]
  IN /\ e \in Desk /\ e.workspace = d.workspace
     /\ e.mapped = d.mapped \ {t} /\ e.leaf = d.leaf \ {t}
     /\ e.floating = d.floating /\ e.fullscreen = d.fullscreen \ {t}
     /\ e.savedFloating = d.savedFloating
     /\ e.toplevels = Unlink(d, t).toplevels /\ e.floats = Unlink(d, t).floats
     /\ e.enabled = (IF t \in XWayland THEN d.enabled ELSE d.enabled \ {t})
                      \cup (IF t \in d.fullscreen THEN Listed(e, w) ELSE {})
     /\ \A v \in Workspace :
          /\ e.fullscreenWindow[v] = IF v = w /\ t \in d.fullscreen THEN NULL
                                     ELSE d.fullscreenWindow[v]
          /\ (v = w /\ d.focused[v] = t) \/ e.focused[v] = d.focused[v]
     /\ e.monocle = d.monocle
     /\ e.output = d.output /\ e.shows = d.shows /\ e.outputs = d.outputs
     /\ e.powered = d.powered /\ e.activeOutput = d.activeOutput
     /\ e.current = d.current /\ e.keyboard = d.keyboard

(* What an unmap handler does once the window is gone. *)
UnmapOn(d, t, displaced) ==
  LET w == d.workspace[t]
  IN Refocus(Settle(d, w, MonocleEnds(d, t)), w, displaced)

(* A window goes: out of its list and tree, and no workspace points at it. *)
LEMMA UnmapIs ==
  ASSUME Inv, NEW t \in Window, NEW sibling, Unmap(t, sibling)
  PROVE  /\ t \in desk.mapped /\ desk.workspace[t] \in Workspace
         /\ \E e : /\ Good(e, {}) /\ UnmapsOne(desk, e, t)
                   /\ desk' = UnmapOn(e, t, desk.focused[desk.workspace[t]] = t)
<1> DEFINE w == desk.workspace[t]
           n == [ForgetLast(desk, t) EXCEPT
                     !.mapped = @ \ {t}, !.leaf = @ \ {t}, !.fullscreen = @ \ {t},
                     !.enabled = IF t \in XWayland THEN @ ELSE @ \ {t}]
           g == Unlink(n, t)
           s == IF t \in desk.fullscreen
                THEN Enable([g EXCEPT !.fullscreenWindow[w] = NULL], Listed(g, w))
                ELSE g
           displaced == desk.focused[w] = t
           p == [s EXCEPT !.focused[w] =
                        IF displaced THEN FocusAfter(s, t, sibling) ELSE @]
<1>1. /\ desk \in Desk /\ t \in desk.mapped /\ w \in Workspace /\ w = desk.workspace[t]
      /\ sibling \in Siblings(desk, t) /\ displaced \in BOOLEAN
  <2>1. Mapped(t) /\ sibling \in Siblings(desk, t)
    BY Zenon DEF Unmap
  <2> QED BY <2>1 DEF Mapped, Inv, Good, Windows
<1>2. desk' = Refocus(Settle(p, w, MonocleEnds(p, t)), w, displaced)
  BY Zenon DEF Unmap
<1> HIDE DEF w
<1>3. /\ n \in Desk /\ n.workspace = desk.workspace
      /\ n.mapped = desk.mapped \ {t} /\ n.leaf = desk.leaf \ {t}
      /\ n.floating = desk.floating /\ n.fullscreen = desk.fullscreen \ {t}
      /\ n.savedFloating = desk.savedFloating
      /\ n.toplevels = desk.toplevels /\ n.floats = desk.floats
      /\ n.focused = desk.focused
      /\ \A v \in Workspace : n.lastFocused[v] =
           IF v = w /\ desk.lastFocused[v] = t THEN NULL ELSE desk.lastFocused[v]
      /\ n.fullscreenWindow = desk.fullscreenWindow
      /\ n.output = desk.output /\ n.shows = desk.shows /\ n.outputs = desk.outputs
      /\ n.powered = desk.powered /\ n.activeOutput = desk.activeOutput
      /\ n.current = desk.current /\ n.keyboard = desk.keyboard
      /\ n.monocle = desk.monocle
      /\ n.enabled = IF t \in XWayland THEN desk.enabled ELSE desk.enabled \ {t}
  <2> DEFINE f == ForgetLast(desk, t)
             q == [desk.lastFocused EXCEPT ![w] = IF @ = t THEN NULL ELSE @]
  <2>1. /\ q \in [Workspace -> Window \cup {NULL}]
        /\ \A v \in Workspace : q[v] =
             IF v = w /\ desk.lastFocused[v] = t THEN NULL ELSE desk.lastFocused[v]
    BY <1>1 DEF Desk
  <2>2. f = [desk EXCEPT !.lastFocused = q]
    BY <1>1 DEF ForgetLast, Desk
  <2> HIDE DEF q, f
  <2>3. n = [f EXCEPT !.mapped = @ \ {t}, !.leaf = @ \ {t}, !.fullscreen = @ \ {t},
                      !.enabled = IF t \in XWayland THEN @ ELSE @ \ {t}]
    BY DEF f
  <2> DEFINE m == desk.mapped \ {t}
             l == desk.leaf \ {t}
             r == desk.fullscreen \ {t}
             b == IF t \in XWayland THEN desk.enabled ELSE desk.enabled \ {t}
  <2>4. n = [desk EXCEPT !.lastFocused = q, !.mapped = m, !.leaf = l, !.fullscreen = r,
                         !.enabled = b]
    BY <1>1, <2>2, <2>3 DEF Desk
  <2>5. m \in SUBSET Window /\ l \in SUBSET Window /\ r \in SUBSET Window /\ b \in SUBSET Window
    BY <1>1 DEF Desk
  <2> HIDE DEF n, m, l, r, b
  <2>6. n \in Desk
    BY <1>1, <2>1, <2>4, <2>5 DEF Desk
  <2>7. /\ n.mapped = m /\ n.leaf = l /\ n.fullscreen = r /\ n.enabled = b
        /\ n.lastFocused = q
    BY <1>1, <2>4 DEF Desk
  <2>8. /\ n.workspace = desk.workspace /\ n.floating = desk.floating
        /\ n.savedFloating = desk.savedFloating
        /\ n.toplevels = desk.toplevels /\ n.floats = desk.floats
        /\ n.focused = desk.focused /\ n.fullscreenWindow = desk.fullscreenWindow
        /\ n.output = desk.output /\ n.shows = desk.shows /\ n.outputs = desk.outputs
        /\ n.powered = desk.powered /\ n.activeOutput = desk.activeOutput
        /\ n.current = desk.current /\ n.keyboard = desk.keyboard
        /\ n.monocle = desk.monocle
    BY <1>1, <2>4 DEF Desk
  <2> QED BY <2>1, <2>6, <2>7, <2>8 DEF m, l, r, b
<1> HIDE DEF n
<1>4. Lists(n, Placed(desk))
  BY <1>3 DEF Inv, Good, Windows, Lists, Listed
<1>5. Relinked(n, g) /\ Lists(g, Placed(desk) \ {t})
  BY <1>3, <1>4, UnlinkLists
<1>51. g.toplevels = Unlink(desk, t).toplevels /\ g.floats = Unlink(desk, t).floats
  BY <1>1, <1>3 DEF Unlink, Desk
<1> HIDE DEF g
<1>6. /\ s \in Desk /\ s.workspace = desk.workspace
      /\ s.mapped = desk.mapped \ {t} /\ s.leaf = desk.leaf \ {t}
      /\ s.floating = desk.floating /\ s.fullscreen = desk.fullscreen \ {t}
      /\ s.savedFloating = desk.savedFloating
      /\ s.toplevels = g.toplevels /\ s.floats = g.floats
      /\ s.focused = desk.focused
      /\ \A v \in Workspace : s.lastFocused[v] =
           IF v = w /\ desk.lastFocused[v] = t THEN NULL ELSE desk.lastFocused[v]
      /\ \A v \in Workspace : s.fullscreenWindow[v] =
           IF v = w /\ t \in desk.fullscreen THEN NULL ELSE desk.fullscreenWindow[v]
      /\ s.output = desk.output /\ s.shows = desk.shows /\ s.outputs = desk.outputs
      /\ s.powered = desk.powered /\ s.activeOutput = desk.activeOutput
      /\ s.current = desk.current /\ s.keyboard = desk.keyboard
      /\ s.monocle = desk.monocle
      /\ s.enabled = n.enabled \cup (IF t \in desk.fullscreen THEN Listed(s, w) ELSE {})
  <2>1. CASE t \notin desk.fullscreen
    <3>1. s = g
      BY <2>1
    <3> HIDE DEF s
    <3> QED BY <1>3, <1>5, <2>1, <3>1 DEF Relinked
  <2>2. CASE t \in desk.fullscreen
    <3> DEFINE c == [g EXCEPT !.fullscreenWindow[w] = NULL]
    <3>1. s = Enable(c, Listed(g, w))
      BY <2>2
    <3> HIDE DEF s
    <3>2. g \in Desk
      BY <1>5 DEF Relinked
    <3>3. /\ c \in Desk /\ c.workspace = g.workspace /\ c.mapped = g.mapped
          /\ c.leaf = g.leaf /\ c.floating = g.floating
          /\ c.fullscreen = g.fullscreen /\ c.savedFloating = g.savedFloating
          /\ c.toplevels = g.toplevels /\ c.floats = g.floats
          /\ c.focused = g.focused /\ c.lastFocused = g.lastFocused
          /\ \A v \in Workspace : c.fullscreenWindow[v] =
               IF v = w THEN NULL ELSE g.fullscreenWindow[v]
          /\ c.output = g.output /\ c.shows = g.shows /\ c.outputs = g.outputs
          /\ c.powered = g.powered /\ c.activeOutput = g.activeOutput
          /\ c.current = g.current /\ c.keyboard = g.keyboard
          /\ c.monocle = g.monocle /\ c.enabled = g.enabled
      BY <1>1, <3>2 DEF Desk
    <3> HIDE DEF c
    <3>4. Alike(c, s)
      <4>1. Listed(g, w) \in SUBSET Window
        BY <1>1, <3>2, ListedIn
      <4> QED BY <3>1, <3>3, <4>1, EnableAlike
    <3>5. s.enabled = c.enabled \cup Listed(g, w) /\ s.monocle = c.monocle
      BY <3>1, <3>3 DEF Enable, Desk
    <3>6. Listed(s, w) = Listed(g, w)
      BY <3>3, <3>4 DEF Alike, Listed
    <3>7. s.enabled = n.enabled \cup Listed(s, w)
      BY <1>5, <3>3, <3>5, <3>6 DEF Relinked
    <3> QED BY <1>3, <1>5, <2>2, <3>3, <3>4, <3>5, <3>7 DEF Relinked, Alike
  <2> QED BY <2>1, <2>2
<1> HIDE DEF s
<1>7. \A v \in Workspace : Here(s, v) = Here(desk, v) \ {t} /\ (v # w => t \notin Here(desk, v))
  BY <1>1, <1>6 DEF Here
<1>8. Placed(s) = Placed(desk) \ {t} /\ Lists(s, Placed(s))
  <2>1. Placed(s) = Placed(desk) \ {t}
    BY <1>6 DEF Placed
  <2>2. g.workspace = s.workspace
    BY <1>3, <1>5, <1>6 DEF Relinked
  <2> QED BY <1>5, <1>6, <2>1, <2>2 DEF Lists, Listed
<1>9. FocusAfter(s, t, sibling) \in Here(s, w) \cup {NULL}
  <2>1. Listed(s, w) \subseteq Here(s, w)
    BY <1>1, <1>8 DEF Lists, Placed, Here
  <2>2. s.lastFocused[w] \in Here(s, w) \cup {NULL}
    <3>1. desk.lastFocused[w] \in Here(desk, w) \cup {NULL}
      BY <1>1 DEF Inv, Good, Pointers
    <3> QED BY <1>1, <1>6, <1>7, <3>1
  <2>3. sibling \in Here(s, w) \cup {NULL}
    <3>1. sibling \in (LeavesOf(desk, w) \ {t}) \cup {NULL}
      BY <1>1 DEF Siblings
    <3>2. LeavesOf(desk, w) \subseteq Here(desk, w)
      BY DEF LeavesOf, Here, Inv, Good, Windows
    <3> QED BY <1>1, <1>7, <3>1, <3>2
  <2> QED BY <1>1, <1>6, <2>1, <2>2, <2>3, FocusAfterIs
<1> DEFINE a == FocusAfter(s, t, sibling)
<1>10. /\ p \in Desk /\ p.workspace = s.workspace
       /\ p.mapped = s.mapped /\ p.leaf = s.leaf
       /\ p.floating = s.floating /\ p.fullscreen = s.fullscreen
       /\ p.savedFloating = s.savedFloating
       /\ p.toplevels = s.toplevels /\ p.floats = s.floats
       /\ p.lastFocused = s.lastFocused
       /\ \A v \in Workspace : p.focused[v] =
            IF v = w /\ displaced THEN a ELSE s.focused[v]
       /\ p.fullscreenWindow = s.fullscreenWindow
       /\ p.output = s.output /\ p.shows = s.shows /\ p.outputs = s.outputs
       /\ p.powered = s.powered /\ p.activeOutput = s.activeOutput
       /\ p.current = s.current /\ p.keyboard = s.keyboard
       /\ p.monocle = s.monocle /\ p.enabled = s.enabled
  <2>1. a \in Window \cup {NULL}
    BY <1>6, <1>9 DEF Here, Desk
  <2> HIDE DEF a, displaced
  <2>2. p = [s EXCEPT !.focused[w] = IF displaced THEN a ELSE @]
    BY DEF a
  <2> HIDE DEF p
  <2>3. CASE displaced
    <3> DEFINE fs == [s.focused EXCEPT ![w] = a]
    <3>1. p = [s EXCEPT !.focused = fs]
      BY <2>2, <2>3
    <3>2. /\ fs \in [Workspace -> Window \cup {NULL}]
          /\ \A v \in Workspace : fs[v] = IF v = w THEN a ELSE s.focused[v]
      <4>1. s.focused \in [Workspace -> Window \cup {NULL}]
        BY <1>6 DEF Desk
      <4> QED BY <2>1, <4>1
    <3> HIDE DEF fs
    <3> QED BY <1>6, <2>3, <3>1, <3>2 DEF Desk
  <2>4. CASE ~ displaced
    <3>1. p = s
      BY <1>6, <2>2, <2>4 DEF Desk
    <3> QED BY <1>6, <2>4, <3>1
  <2> QED BY <1>1, <2>3, <2>4
<1> HIDE DEF p, a
<1>11. Windows(p)
  <2>1. Lists(p, Placed(p))
    BY <1>8, <1>10 DEF Lists, Listed, Placed
  <2>2. /\ p.workspace = desk.workspace /\ p.mapped = desk.mapped \ {t}
        /\ p.leaf = desk.leaf \ {t} /\ p.fullscreen = desk.fullscreen \ {t}
        /\ p.floating = desk.floating
    BY <1>6, <1>10
  <2> QED BY <2>1, <2>2 DEF Inv, Good, Windows
<1>12. Pointers(p)
  <2> SUFFICES ASSUME NEW v \in Workspace
               PROVE  /\ p.focused[v] \in Here(p, v) \cup {NULL}
                      /\ p.lastFocused[v] \in Here(p, v) \cup {NULL}
                      /\ p.fullscreenWindow[v] \in (Here(p, v) \cap p.fullscreen) \cup {NULL}
    BY DEF Pointers
  <2>1. Here(p, v) = Here(desk, v) \ {t} /\ (v # w => t \notin Here(desk, v))
    BY <1>7, <1>10 DEF Here
  <2>2. /\ desk.focused[v] \in Here(desk, v) \cup {NULL}
        /\ desk.lastFocused[v] \in Here(desk, v) \cup {NULL}
        /\ desk.fullscreenWindow[v] \in (Here(desk, v) \cap desk.fullscreen) \cup {NULL}
    BY DEF Inv, Good, Pointers
  <2>3. p.focused[v] \in Here(p, v) \cup {NULL}
    <3>1. CASE v = w /\ displaced
      <4>1. a \in Here(s, w) \cup {NULL}
        BY <1>9 DEF a
      <4> QED BY <1>7, <1>10, <2>1, <3>1, <4>1
    <3>2. CASE ~ (v = w /\ displaced)
      <4>1. p.focused[v] = desk.focused[v]
        BY <1>6, <1>10, <3>2
      <4> QED BY <2>1, <2>2, <3>2, <4>1
    <3> QED BY <3>1, <3>2
  <2>4. p.lastFocused[v] \in Here(p, v) \cup {NULL}
    BY <1>6, <1>10, <2>1, <2>2
  <2>5. p.fullscreenWindow[v] \in (Here(p, v) \cap p.fullscreen) \cup {NULL}
    BY <1>6, <1>10, <2>1, <2>2
  <2> QED BY <2>3, <2>4, <2>5
<1>13. Good(p, {}) /\ p.outputs = desk.outputs
  <2>1. Screens(p, {}) /\ p.outputs = desk.outputs
    BY <1>6, <1>10 DEF Inv, Good, Screens
  <2> QED BY <1>10, <1>11, <1>12, <2>1 DEF Good
<1>14. p.workspace[t] = w
  BY <1>1, <1>6, <1>10
<1>15. UnmapsOne(desk, p, t)
  <2>1. Listed(p, w) = Listed(s, w)
    BY <1>10 DEF Listed
  <2>2. p.enabled = (IF t \in XWayland THEN desk.enabled ELSE desk.enabled \ {t})
                      \cup (IF t \in desk.fullscreen THEN Listed(p, w) ELSE {})
    BY <1>3, <1>6, <1>10, <2>1
  <2>3. \A v \in Workspace :
          /\ p.fullscreenWindow[v] = IF v = w /\ t \in desk.fullscreen THEN NULL
                                     ELSE desk.fullscreenWindow[v]
          /\ (v = w /\ desk.focused[v] = t) \/ p.focused[v] = desk.focused[v]
    BY <1>6, <1>10
  <2>4. p.toplevels = Unlink(desk, t).toplevels /\ p.floats = Unlink(desk, t).floats
    BY <1>51, <1>6, <1>10
  <2> QED BY <1>1, <1>6, <1>10, <2>2, <2>3, <2>4 DEF UnmapsOne
<1>16. desk' = UnmapOn(p, t, displaced)
  BY <1>2, <1>14 DEF UnmapOn
<1>17. displaced = (desk.focused[desk.workspace[t]] = t)
  BY <1>1
<1> HIDE DEF displaced
<1> QED BY <1>1, <1>13, <1>15, <1>16, <1>17

(* What becomes of the others keeps all that is consistent. *)
LEMMA UnmapOnGood ==
  ASSUME NEW d, Good(d, {}), NEW t \in Window, d.workspace[t] \in Workspace,
         NEW displaced \in BOOLEAN
  PROVE  Good(UnmapOn(d, t, displaced), {}) /\ UnmapOn(d, t, displaced).outputs = d.outputs
<1> DEFINE w == d.workspace[t]
           l == Settle(d, w, MonocleEnds(d, t))
<1>1. Alike(d, l)
  <2>1. MonocleEnds(d, t) \in BOOLEAN
    BY DEF MonocleEnds
  <2> QED BY <2>1, SettleAlike DEF Good
<1>2. UnmapOn(d, t, displaced) = Refocus(l, w, displaced)
  BY DEF UnmapOn
<1> HIDE DEF l
<1>3. Good(l, {}) /\ l.outputs = d.outputs
  BY <1>1, AlikeGood DEF Alike
<1>4. Good(Refocus(l, w, displaced), {}) /\ Keeps(l, Refocus(l, w, displaced))
  BY <1>3, RefocusGood
<1> QED BY <1>2, <1>3, <1>4 DEF Keeps

(* So does a window that goes. *)
LEMMA UnmapGood ==
  ASSUME Inv, NEW t \in Window, NEW sibling, Unmap(t, sibling)
  PROVE  Inv' /\ desk'.outputs = desk.outputs
<1> DEFINE displaced == desk.focused[desk.workspace[t]] = t
<1>1. PICK e : /\ Good(e, {}) /\ UnmapsOne(desk, e, t)
               /\ desk' = UnmapOn(e, t, displaced)
  BY UnmapIs
<1>2. e.workspace[t] \in Workspace /\ e.outputs = desk.outputs
  BY <1>1, UnmapIs DEF UnmapsOne
<1>3. displaced \in BOOLEAN
  OBVIOUS
<1> HIDE DEF displaced
<1> QED BY <1>1, <1>2, <1>3, UnmapOnGood DEF Inv

----------------------------------------------------------------------------
(* Every step, and what follows from the invariant. *)

(* A step other than the end of an output takes none off the list. *)
LEMMA NextGood ==
  ASSUME Inv, EarlyFullscreen = {}, Next
  PROVE  /\ Inv'
         /\ \/ ToSet(desk.outputs) \subseteq ToSet(desk'.outputs)
            \/ \E o \in Output : output_destroy(o)
<1>1. CASE \E t \in Window : Create(t)
  BY <1>1, CreateGood
<1>2. CASE \E t \in Window : Destroy(t)
  BY <1>2, DestroyGood
<1>3. CASE \E t \in Window : \E tile \in BOOLEAN, rule \in Rule : Map(t, tile, rule)
  BY <1>3, MapGood
<1>4. CASE \E t \in Window : \E sibling \in Window \cup {NULL} : Unmap(t, sibling)
  BY <1>4, UnmapGood
<1>5. CASE \E t \in Window : RequestFullscreen(t)
  BY <1>5, RequestFullscreenGood
<1>6. CASE \E t \in Window :
             RequestActivate(t) \/ Click(t) \/ Grab(t) \/ RequestMove(t)
  BY <1>6, WindowRequestsGood
<1>7. CASE (\E t \in Window : MoveFocus(t)) \/ CycleFocus
  BY <1>7, PassFocusRequestsGood
<1>8. CASE ToggleFloating \/ ToggleFullscreen \/ ToggleMonocle \/ SetBsp
  BY <1>8, LayoutRequestsGood
<1>9. CASE \E w \in Workspace : Switch(w) \/ MoveToWorkspace(w)
  BY <1>9, WorkspaceRequestsGood
<1>10. CASE \E o \in Output : server_new_output(o)
  BY <1>10, NewOutputGood
<1>11. CASE \E o \in Output : output_destroy(o)
  BY <1>11, DestroyOutputGood
<1>12. CASE \E o \in Output : PowerOff(o)
  BY <1>12, PowerOffGood
<1>13. CASE \E o \in Output : PowerOn(o)
  BY <1>13, PowerOnGood
<1> QED
  BY <1>1, <1>2, <1>3, <1>4, <1>5, <1>6, <1>7, <1>8, <1>9, <1>10, <1>11, <1>12, <1>13
  DEF Next

(* A window is in a list without repetitions once or not at all. *)
LEMMA OccursOnce ==
  ASSUME NEW s \in Seq(Window), IsInjective(s), NEW t
  PROVE  Occurrences(s, t) = IF t \in ToSet(s) THEN 1 ELSE 0
<1> DEFINE I == {i \in DOMAIN s : s[i] = t}
<1>1. CASE t \notin ToSet(s)
  <2>1. I = {}
    BY <1>1 DEF ToSet
  <2> QED BY <1>1, <2>1, FS_EmptySet DEF Occurrences
<1>2. CASE t \in ToSet(s)
  <2>1. PICK i \in DOMAIN s : s[i] = t
    BY <1>2 DEF ToSet
  <2>2. I = {i}
    BY <2>1 DEF IsInjective
  <2>3. Cardinality({i}) = 1
    BY FS_Singleton
  <2> QED BY <1>2, <2>2, <2>3 DEF Occurrences
<1> QED BY <1>1, <1>2

(* One list after another that shares none of its windows. *)
LEMMA DistinctConcat ==
  ASSUME NEW r \in Seq(Window), NEW s \in Seq(Window),
         IsInjective(r), IsInjective(s), ToSet(r) \cap ToSet(s) = {}
  PROVE  IsInjective(r \o s)
<1> SUFFICES ASSUME NEW i \in DOMAIN (r \o s), NEW j \in DOMAIN (r \o s),
                    (r \o s)[i] = (r \o s)[j]
             PROVE  i = j
  BY DEF IsInjective
<1>1. /\ DOMAIN r = 1 .. Len(r) /\ DOMAIN s = 1 .. Len(s)
      /\ DOMAIN (r \o s) = 1 .. Len(r) + Len(s)
      /\ Len(r) \in Nat /\ Len(s) \in Nat
  OBVIOUS
<1>2. \A k \in DOMAIN (r \o s) :
        \/ k \in DOMAIN r /\ (r \o s)[k] = r[k]
        \/ k - Len(r) \in DOMAIN s /\ (r \o s)[k] = s[k - Len(r)] /\ k > Len(r)
  BY <1>1
<1>3. CASE i \in DOMAIN r /\ j \in DOMAIN r
  BY <1>1, <1>2, <1>3 DEF IsInjective
<1>4. CASE i \notin DOMAIN r /\ j \notin DOMAIN r
  <2>1. i - Len(r) = j - Len(r)
    BY <1>2, <1>4 DEF IsInjective
  <2> QED BY <1>1, <2>1
<1>5. CASE i \in DOMAIN r /\ j \notin DOMAIN r
  BY <1>1, <1>2, <1>5 DEF ToSet
<1>6. CASE i \notin DOMAIN r /\ j \in DOMAIN r
  BY <1>1, <1>2, <1>6 DEF ToSet
<1> QED BY <1>3, <1>4, <1>5, <1>6

(* The invariant says what the runs check. *)
LEMMA InvConsistent ==
  ASSUME Inv
  PROVE  DeskConsistent
<1>1. desk \in Desk /\ TypeOK
  BY DEF Inv, Good, Screens, TypeOK
<1>2. ListsConsistent
  <2> SUFFICES ASSUME NEW t \in Window, NEW w \in Workspace
               PROVE  Occurrences(desk.toplevels[w] \o desk.floats[w], t) =
                        IF /\ Mapped(t) /\ desk.workspace[t] = w
                           /\ ~ (t \in desk.fullscreen /\ t \in desk.savedFloating)
                        THEN 1 ELSE 0
    BY DEF ListsConsistent
  <2> DEFINE r == desk.toplevels[w]
             s == desk.floats[w]
             all == r \o s
  <2>1. r \in Seq(Window) /\ s \in Seq(Window)
    BY <1>1, ListedIn
  <2>2. IsInjective(r) /\ IsInjective(s) /\ ToSet(r) \cap ToSet(s) = {}
    BY DEF Inv, Good, Windows, Lists
  <2>3. ToSet(r) \cup ToSet(s) = {u \in Placed(desk) : desk.workspace[u] = w}
    BY DEF Inv, Good, Windows, Lists, Listed
  <2> HIDE DEF r, s
  <2>4. all \in Seq(Window) /\ ToSet(all) = ToSet(r) \cup ToSet(s)
    BY <2>1, MembersConcat
  <2>5. IsInjective(all)
    BY <2>1, <2>2, DistinctConcat
  <2> HIDE DEF all
  <2>6. Occurrences(all, t) = IF t \in ToSet(all) THEN 1 ELSE 0
    BY <2>4, <2>5, OccursOnce
  <2>7. t \in ToSet(all) <=>
          /\ Mapped(t) /\ desk.workspace[t] = w
          /\ ~ (t \in desk.fullscreen /\ t \in desk.savedFloating)
    BY <2>3, <2>4 DEF Placed, Mapped
  <2>8. all = desk.toplevels[w] \o desk.floats[w]
    BY DEF all, r, s
  <2> QED BY <2>6, <2>7, <2>8
<1>3. PointersLive
  <2>1. \A w \in Workspace :
          /\ desk.focused[w] # NULL =>
               Mapped(desk.focused[w]) /\ desk.workspace[desk.focused[w]] = w
          /\ desk.lastFocused[w] # NULL =>
               Mapped(desk.lastFocused[w]) /\ desk.workspace[desk.lastFocused[w]] = w
          /\ desk.fullscreenWindow[w] # NULL =>
               /\ Mapped(desk.fullscreenWindow[w])
               /\ desk.workspace[desk.fullscreenWindow[w]] = w
               /\ desk.fullscreenWindow[w] \in desk.fullscreen
    BY DEF Inv, Good, Pointers, Here, Mapped
  <2> QED BY <2>1 DEF PointersLive
<1>4. OutputsExact /\ ActiveExists
  BY DEF Inv, Good, Screens, OutputsExact, ActiveExists
<1> QED BY <1>1, <1>2, <1>3, <1>4 DEF DeskConsistent

(* Nothing changes while nothing happens. *)
LEMMA StutterGood ==
  ASSUME Inv, UNCHANGED desk
  PROVE  Inv'
BY DEF Inv

(* However windows come and go and outputs are plugged, unplugged and       *)
(* switched off, a window is in the lists of its workspace once or, if it   *)
(* is a floating one that is fullscreen, not at all; the pointers to        *)
(* windows and between workspaces and outputs lead where they should; as    *)
(* long as no client toggles fullscreen while its window is unmapped.       *)
THEOREM DeskStaysConsistent ==
  ASSUME EarlyFullscreen = {}
  PROVE  Spec => []DeskConsistent
<1>1. Init => Inv
  BY InitGood
<1>2. Inv /\ [Next]_desk => Inv'
  BY NextGood, StutterGood
<1>3. Inv => DeskConsistent
  BY InvConsistent
<1> QED BY <1>1, <1>2, <1>3, PTL DEF Spec

(* In particular, what a run with one output checks: the lists,             *)
THEOREM ListsStayConsistent ==
  ASSUME EarlyFullscreen = {}
  PROVE  Spec => []ListsConsistent
<1>1. DeskConsistent => ListsConsistent
  BY DEF DeskConsistent
<1> QED BY DeskStaysConsistent, <1>1, PTL

(* and the pointers that the handlers follow without a check.              *)
THEOREM PointersStayLive ==
  ASSUME EarlyFullscreen = {}
  PROVE  Spec => []PointersLive
<1>1. DeskConsistent => PointersLive
  BY DEF DeskConsistent
<1> QED BY DeskStaysConsistent, <1>1, PTL

(* The windows of an output that goes move to the first one that is left.   *)
LEMMA StepEvacuates ==
  ASSUME Inv, EarlyFullscreen = {}, [Next]_desk
  PROVE  \A o \in ToSet(desk.outputs) :
           o \notin ToSet(desk'.outputs) /\ desk'.outputs # <<>>
           => LET to == desk'.shows[Head(desk'.outputs)]
              IN /\ \A t \in Listed(desk, desk.shows[o]) : desk'.workspace[t] = to
                 /\ \A w \in Workspace : Listed(desk, w) \subseteq Listed(desk', w)
                                           \/ w = desk.shows[o]
                 /\ desk'.mapped = desk.mapped
<1> SUFFICES ASSUME NEW o \in ToSet(desk.outputs),
                    o \notin ToSet(desk'.outputs), desk'.outputs # <<>>
             PROVE  LET to == desk'.shows[Head(desk'.outputs)]
                    IN /\ \A t \in Listed(desk, desk.shows[o]) : desk'.workspace[t] = to
                       /\ \A w \in Workspace : Listed(desk, w) \subseteq Listed(desk', w)
                                                 \/ w = desk.shows[o]
                       /\ desk'.mapped = desk.mapped
  OBVIOUS
<1>1. Next
  OBVIOUS
<1>2. \E p \in Output : output_destroy(p)
  BY <1>1, NextGood
<1>3. PICK p \in Output : output_destroy(p)
  BY <1>2
<1>4. ToSet(desk'.outputs) = ToSet(desk.outputs) \ {p}
  <2>1. desk'.outputs = RemoveFirst(desk.outputs, p)
    BY <1>3, DestroyOutputGood
  <2>2. desk.outputs \in Seq(Output) /\ IsInjective(desk.outputs)
    BY DEF Inv, Good, Screens, Desk
  <2> QED BY <2>1, <2>2, TakeOut
<1>5. o = p
  BY <1>4
<1> QED BY <1>3, <1>5, DestroyOutputGood

(* When an output goes and another remains, all windows that its workspace *)
(* lists move to the one of the first that remains, no window is unmapped  *)
(* and no other workspace loses one (output.c:100).                        *)
THEOREM WindowsAreEvacuated ==
  ASSUME EarlyFullscreen = {}
  PROVE  Spec => EvacuatesListed
<1>1. Init => Inv
  BY InitGood
<1>2. Inv /\ [Next]_desk => Inv'
  BY NextGood, StutterGood
<1>3. Inv /\ [Next]_desk =>
        \A o \in ToSet(desk.outputs) :
           o \notin ToSet(desk'.outputs) /\ desk'.outputs # <<>>
           => LET to == desk'.shows[Head(desk'.outputs)]
              IN /\ \A t \in Listed(desk, desk.shows[o]) : desk'.workspace[t] = to
                 /\ \A w \in Workspace : Listed(desk, w) \subseteq Listed(desk', w)
                                           \/ w = desk.shows[o]
                 /\ desk'.mapped = desk.mapped
  BY StepEvacuates
<1> QED BY <1>1, <1>2, <1>3, PTL DEF Spec, EvacuatesListed

----------------------------------------------------------------------------
(***************************************************************************)
(* With at most one output a workspace's tree holds the windows of its     *)
(* tiled list, and the window with the keyboard is the one its workspace   *)
(* remembers as focused.  With two outputs an evacuation breaks both, as   *)
(* MCDesktop shows.                                                        *)
(*                                                                         *)
(* Both rest on Good.  Each operator Tidies: it keeps                      *)
(* Sorted (trees and lists agree) and keeps the keyboard's aim (OnTop).    *)
(* A window that is mapped while it still counts as floating is in the     *)
(* wrong list until it is focused (Rough), and one that moves to another   *)
(* workspace keeps the keyboard, so of the move only its own aim remains.  *)
(*                                                                         *)
(* The last part is about what is visible.  A displayed workspace that     *)
(* no window covers shows what it lists (Open), of a stack just one tile   *)
(* (Stacked), and what is in a floating list floats (Floaters): Fair.      *)
(* Most operators leave all workspaces but one as they were (Aside) and    *)
(* hide nothing on that one; what is mapped late, moved or uncovered may   *)
(* be out of sight or unstacked in between, until the layout that the same *)
(* handler calls at its end.  Fair needs Sorted, since the layout stacks   *)
(* what the list holds only if the tree has a leaf, and it needs to know   *)
(* that the output shows the current workspace (OnDisplay), since a window *)
(* is mapped onto that one and shown at once.                              *)
(***************************************************************************)

(* Trees and tiled lists agree but for the windows of X. *)
Tiles(d, w) == ToSet(d.toplevels[w])
Sorted(d, X) ==
  /\ \A w \in Workspace : Tiles(d, w) \ X = LeavesOf(d, w) \ X
  /\ d.leaf \cap d.floating \subseteq X

(* A floating window in a tiled list, until it is raised. *)
Rough(d, t) == Sorted(d, {}) \/ (Sorted(d, {t}) /\ t \in d.floating \ d.leaf)

(* If t has the keyboard, its workspace focuses it. *)
Aimed(d, t) == d.keyboard = t => d.focused[d.workspace[t]] = t

OnTop(d) == d.keyboard # NULL => d.keyboard \in d.mapped /\ Aimed(d, d.keyboard)

(* From d to e windows do not lose the aim or the order. *)
Aims(d, e) ==
  /\ \A t \in Window : Aimed(d, t) => Aimed(e, t)
  /\ OnTop(d) => OnTop(e)
Tidies(d, e) == (Sorted(d, {}) => Sorted(e, {})) /\ Aims(d, e)

(* It composes. *)
LEMMA TidiesTrans ==
  ASSUME NEW d, NEW e, NEW f, Tidies(d, e), Tidies(e, f)
  PROVE  Tidies(d, f)
BY DEF Tidies, Aims

(* No step does. *)
LEMMA TidiesSelf ==
  ASSUME NEW d
  PROVE  Tidies(d, d)
BY DEF Tidies, Aims

(* The focus is as it was. *)
SameFocus(d, e) ==
  /\ e.keyboard = d.keyboard /\ e.focused = d.focused
  /\ e.workspace = d.workspace /\ e.mapped = d.mapped

(* What only shows, hides or links keeps the aim. *)
LEMMA SameFocusAims ==
  ASSUME NEW d, NEW e, SameFocus(d, e) \/ Alike(d, e) \/ SameWindows(d, e) \/ Relinked(d, e)
  PROVE  Aims(d, e) /\ SameFocus(d, e)
<1>1. SameFocus(d, e)
  BY DEF SameFocus, Alike, SameWindows, Relinked
<1> QED BY <1>1 DEF SameFocus, Aims, Aimed, OnTop

(* What keeps the trees and lists keeps their order, too. *)
LEMMA SameSorts ==
  ASSUME NEW d, NEW e, Alike(d, e) \/ SameWindows(d, e)
  PROVE  /\ Tidies(d, e) /\ \A X : Sorted(d, X) => Sorted(e, X)
         /\ \A t : Rough(d, t) => Rough(e, t)
<1>1. /\ e.toplevels = d.toplevels /\ e.leaf = d.leaf /\ e.workspace = d.workspace
      /\ e.floating = d.floating
  BY DEF Alike, SameWindows
<1>2. \A w \in Workspace : Tiles(e, w) = Tiles(d, w) /\ LeavesOf(e, w) = LeavesOf(d, w)
  BY <1>1 DEF Tiles, LeavesOf
<1>3. \A X : Sorted(d, X) => Sorted(e, X)
  BY <1>1, <1>2 DEF Sorted
<1>4. \A t : Rough(d, t) => Rough(e, t)
  BY <1>1, <1>3 DEF Rough
<1> QED BY <1>3, <1>4, SameFocusAims DEF Tidies

----------------------------------------------------------------------------
(* Lists. *)

(* The only link out of a list takes the window out of every tiled list. *)
LEMMA UnlinkTiles ==
  ASSUME NEW d \in Desk, NEW L, Lists(d, L), NEW t
  PROVE  \A w \in Workspace : Tiles(Unlink(d, t), w) = Tiles(d, w) \ {t}
<1> DEFINE e == Unlink(d, t)
<1>1. \A w \in Workspace : ToSet(RemoveFirst(d.toplevels[w], t)) = ToSet(d.toplevels[w]) \ {t}
  BY ListedIn, TakeOut DEF Lists
<1>2. \A w \in Workspace : e.toplevels[w] = RemoveFirst(d.toplevels[w], t)
  BY DEF Unlink, Desk
<1> QED BY <1>1, <1>2 DEF Tiles

(* A link puts the window into the tiled list of its workspace, or into none. *)
LEMMA LinkTiles ==
  ASSUME NEW d \in Desk, NEW t \in Window, d.workspace[t] \in Workspace
  PROVE  /\ \A w \in Workspace : w # d.workspace[t] =>
              Tiles(LinkTiled(d, t), w) = Tiles(d, w)
         /\ Tiles(LinkTiled(d, t), d.workspace[t]) = Tiles(d, d.workspace[t]) \cup {t}
         /\ \A w \in Workspace : Tiles(LinkFloating(d, t), w) = Tiles(d, w)
<1> DEFINE v == d.workspace[t]
           s == d.toplevels[v]
           r == <<t>> \o s
<1> HIDE DEF v
<1>1. v \in Workspace /\ v = d.workspace[t]
  BY DEF v
<1>2. ToSet(r) = {t} \cup ToSet(s)
  <2> DEFINE one == <<t>>
  <2>1. one \in Seq(Window) /\ ToSet(one) = {t} /\ s \in Seq(Window)
    BY <1>1, MembersOne, ListedIn
  <2> HIDE DEF one, s
  <2>2. ToSet(one \o s) = ToSet(one) \cup ToSet(s)
    BY <2>1, MembersConcat
  <2> QED BY <2>1, <2>2 DEF one
<1> HIDE DEF r
<1>3. LinkTiled(d, t).toplevels = [d.toplevels EXCEPT ![v] = r]
  BY DEF LinkTiled, v, r, Desk
<1>4. \A w \in Workspace : LinkTiled(d, t).toplevels[w] = IF w = v THEN r ELSE d.toplevels[w]
  BY <1>1, <1>3 DEF Desk
<1>5. LinkFloating(d, t).toplevels = d.toplevels
  BY DEF LinkFloating, Desk
<1> QED BY <1>1, <1>2, <1>4, <1>5 DEF Tiles

(* A window out of place is put in order by the list that fits its leaf. *)
LEMMA RelinkSorts ==
  ASSUME NEW d \in Desk, NEW L, Lists(d, L), NEW t \in Window,
         d.workspace[t] \in Workspace, Sorted(d, {t})
  PROVE  /\ t \notin d.leaf => Sorted(Unlink(d, t), {})
         /\ t \notin d.leaf => Sorted(LinkFloating(Unlink(d, t), t), {})
         /\ t \in d.leaf \ d.floating => Sorted(LinkTiled(Unlink(d, t), t), {})
<1> DEFINE e == Unlink(d, t)
           f == LinkFloating(e, t)
           g == LinkTiled(e, t)
<1>1. Relinked(d, e) /\ \A w \in Workspace : Tiles(e, w) = Tiles(d, w) \ {t}
  BY UnlinkLists, UnlinkTiles
<1>2. Relinked(d, f) /\ Relinked(d, g)
  BY RelistLists
<1> HIDE DEF e
<1>3. e \in Desk /\ e.workspace[t] \in Workspace /\ e.workspace = d.workspace
  BY <1>1 DEF Relinked
<1>4. /\ \A w \in Workspace : w # e.workspace[t] => Tiles(g, w) = Tiles(e, w)
      /\ Tiles(g, e.workspace[t]) = Tiles(e, e.workspace[t]) \cup {t}
      /\ \A w \in Workspace : Tiles(f, w) = Tiles(e, w)
  BY <1>3, LinkTiles
<1> HIDE DEF f, g
<1>5. /\ e.leaf = d.leaf /\ f.leaf = d.leaf /\ g.leaf = d.leaf
      /\ e.floating = d.floating /\ f.floating = d.floating /\ g.floating = d.floating
      /\ f.workspace = d.workspace /\ g.workspace = d.workspace
  BY <1>1, <1>2 DEF Relinked
<1>6. \A w \in Workspace : /\ LeavesOf(e, w) = LeavesOf(d, w)
                           /\ LeavesOf(f, w) = LeavesOf(d, w)
                           /\ LeavesOf(g, w) = LeavesOf(d, w)
                           /\ Tiles(d, w) \ {t} = LeavesOf(d, w) \ {t}
  BY <1>3, <1>5 DEF LeavesOf, Sorted
<1>7. CASE t \notin d.leaf
  <2>1. \A w \in Workspace : t \notin LeavesOf(d, w)
    BY <1>7 DEF LeavesOf
  <2>2. Sorted(e, {})
    <3>1. \A w \in Workspace : Tiles(e, w) = LeavesOf(e, w)
      BY <1>1, <1>6, <2>1
    <3> QED BY <1>5, <1>7, <3>1 DEF Sorted
  <2>3. Sorted(f, {})
    <3>1. \A w \in Workspace : Tiles(f, w) = LeavesOf(f, w)
      BY <1>1, <1>4, <1>6, <2>1
    <3> QED BY <1>5, <1>7, <3>1 DEF Sorted
  <2> QED BY <1>7, <2>2, <2>3 DEF e, f
<1>8. CASE t \in d.leaf
  <2>1. \A w \in Workspace : t \in LeavesOf(d, w) <=> w = e.workspace[t]
    BY <1>3, <1>8 DEF LeavesOf
  <2>2. \A w \in Workspace : Tiles(g, w) = LeavesOf(g, w)
    <3> SUFFICES ASSUME NEW w \in Workspace PROVE Tiles(g, w) = LeavesOf(g, w)
      OBVIOUS
    <3>1. CASE w = e.workspace[t]
      BY <1>1, <1>4, <1>6, <2>1, <3>1
    <3>2. CASE w # e.workspace[t]
      BY <1>1, <1>4, <1>6, <2>1, <3>2
    <3> QED BY <3>1, <3>2
  <2>3. t \notin d.floating => Sorted(g, {})
    BY <1>5, <2>2 DEF Sorted
  <2> QED BY <1>8, <2>3 DEF g, e
<1> QED BY <1>7, <1>8

(* It is no worse off for an exception. *)
LEMMA SortedBut ==
  ASSUME NEW d, NEW t, Rough(d, t)
  PROVE  Sorted(d, {t})
BY DEF Rough, Sorted

----------------------------------------------------------------------------
(* Focus. *)

(* A window in the wrong list is in order once it is raised. *)
LEMMA RaiseSorts ==
  ASSUME NEW d, NEW O, Good(d, O), NEW t \in d.mapped
  PROVE  /\ SameFocus(d, raise_floating(d, t))
         /\ Rough(d, t) => Sorted(raise_floating(d, t), {})
<1>1. d \in Desk /\ t \in Window /\ d.workspace[t] \in Workspace /\ Lists(d, Placed(d))
  BY DEF Good, Windows, Desk
<1>2. CASE t \notin d.floating
  BY <1>2 DEF raise_floating, Rough, SameFocus
<1>3. CASE t \in d.floating
  <2> DEFINE f == LinkFloating(Unlink(d, t), t)
  <2>1. Relinked(d, f)
    BY <1>1, RelistLists
  <2>2. ASSUME Rough(d, t) PROVE Sorted(f, {})
    <3>1. Sorted(d, {t}) /\ t \notin d.leaf
      BY <1>3, <2>2, SortedBut DEF Rough, Sorted
    <3> QED BY <1>1, <3>1, RelinkSorts
  <2> HIDE DEF f
  <2>3. SameFocus(d, f)
    BY <2>1, SameFocusAims
  <2> QED BY <1>3, <2>2, <2>3 DEF raise_floating, f
<1> QED BY <1>2, <1>3

(* A window that gets the keyboard is its workspace's focus, unless it had  *)
(* the keyboard and was not.                                               *)
LEMMA FocusTidies ==
  ASSUME NEW d, NEW O, Good(d, O), NEW t \in d.mapped
  PROVE  /\ Tidies(d, focus_toplevel(d, t))
         /\ Aimed(d, t) => OnTop(focus_toplevel(d, t))
         /\ Rough(d, t) /\ d.keyboard # t => Sorted(focus_toplevel(d, t), {})
<1> DEFINE w == d.workspace[t]
           f == Aim(d, t)
           seen == Restack(f, w)
           r == raise_floating(seen, t)
           k == Take(r, t)
<1>1. CASE d.keyboard = t
  <2>1. Aimed(d, t) => OnTop(d)
    BY <1>1 DEF OnTop, Aimed
  <2> QED BY <1>1, <2>1, FocusIs, TidiesSelf
<1>2. CASE d.keyboard # t
  <2>1. d \in Desk /\ t \in Window /\ w \in Workspace /\ w = d.workspace[t]
    BY DEF Good, Windows, Desk
  <2>2. /\ Good(f, O) /\ f \in Desk /\ Refocused(d, f)
        /\ f.focused = [d.focused EXCEPT ![w] = t] /\ f.toplevels = d.toplevels
    BY AimGood DEF Good
  <2> HIDE DEF f, w
  <2>3. Alike(f, seen)
    BY <2>1, <2>2, RestackAlike
  <2> HIDE DEF seen
  <2>4. Good(seen, O) /\ t \in seen.mapped
    BY <2>2, <2>3, AlikeGood DEF Alike, Refocused
  <2>5. SameFocus(seen, r) /\ (Rough(seen, t) => Sorted(r, {})) /\ Good(r, O)
    BY <2>4, RaiseSorts, RaiseGood
  <2> HIDE DEF r
  <2>6. Rough(d, t) => Rough(f, t)
    <3>1. /\ f.leaf = d.leaf /\ f.workspace = d.workspace /\ f.floating = d.floating
      BY <2>2 DEF Refocused
    <3>2. \A v \in Workspace : Tiles(f, v) = Tiles(d, v) /\ LeavesOf(f, v) = LeavesOf(d, v)
      BY <2>2, <3>1 DEF Tiles, LeavesOf
    <3> QED BY <3>1, <3>2 DEF Rough, Sorted
  <2>7. /\ k.keyboard = t /\ k.focused = r.focused /\ k.workspace = r.workspace
        /\ k.mapped = r.mapped /\ k.leaf = r.leaf /\ k.floating = r.floating
        /\ k.toplevels = r.toplevels
    BY <2>1, <2>5 DEF Take, Good, Desk
  <2> HIDE DEF k
  <2>8. Rough(d, t) => Sorted(k, {})
    <3>1. Sorted(r, {}) => Sorted(k, {})
      <4>1. \A v \in Workspace : Tiles(k, v) = Tiles(r, v) /\ LeavesOf(k, v) = LeavesOf(r, v)
        BY <2>7 DEF Tiles, LeavesOf
      <4> QED BY <2>7, <4>1 DEF Sorted
    <3>2. Rough(f, t) => Rough(seen, t)
      BY <2>3, SameSorts
    <3> QED BY <2>5, <2>6, <3>1, <3>2
  <2>9. /\ k.workspace = d.workspace /\ k.mapped = d.mapped
        /\ k.focused = [d.focused EXCEPT ![w] = t]
    BY <2>2, <2>3, <2>5, <2>7 DEF Alike, SameFocus, Refocused
  <2>10. k.focused[k.workspace[t]] = t
    BY <2>1, <2>9 DEF Desk
  <2>11. OnTop(k) /\ Aims(d, k)
    BY <2>7, <2>9, <2>10 DEF OnTop, Aimed, Aims
  <2>12. Tidies(d, k)
    BY <2>8, <2>11 DEF Tidies, Rough
  <2> QED BY <1>2, <2>8, <2>11, <2>12, FocusIs DEF k, r, seen, f, w
<1> QED BY <1>1, <1>2

(* Nobody has the keyboard. *)
LEMMA ClearTidies ==
  ASSUME NEW d, d \in Desk
  PROVE  Tidies(d, clear_focus(d)) /\ OnTop(clear_focus(d))
<1> DEFINE e == clear_focus(d)
<1>1. /\ e.keyboard = NULL /\ e.toplevels = d.toplevels /\ e.leaf = d.leaf
      /\ e.workspace = d.workspace /\ e.floating = d.floating
  BY DEF clear_focus, Desk
<1> HIDE DEF e
<1>2. \A w \in Workspace : Tiles(e, w) = Tiles(d, w) /\ LeavesOf(e, w) = LeavesOf(d, w)
  BY <1>1 DEF Tiles, LeavesOf
<1>3. Sorted(d, {}) => Sorted(e, {})
  BY <1>1, <1>2 DEF Sorted
<1>4. OnTop(e) /\ \A t \in Window : Aimed(e, t)
  BY <1>1, NullsAssumption DEF OnTop, Aimed
<1> QED BY <1>3, <1>4 DEF Tidies, Aims, e

(* A mapped window or none. *)
LEMMA FocusIfAnyTidies ==
  ASSUME NEW d, NEW O, Good(d, O), NEW t \in d.mapped \cup {NULL}
  PROVE  Tidies(d, FocusIfAny(d, t))
BY FocusTidies, TidiesSelf DEF FocusIfAny

(* What a workspace that comes on an output focuses. *)
LEMMA FocusOnTidies ==
  ASSUME NEW d, NEW O, Good(d, O), NEW w \in Workspace
  PROVE  Tidies(d, FocusOn(d, w))
BY FocusOfIs, FocusTidies, ClearTidies DEF FocusOn, Good

----------------------------------------------------------------------------
(* Floating, fullscreen and monocle. *)

(* t may have another leaf and may float or not; the lists are as before.   *)
Relabelled(d, e, t) ==
  /\ e \in Desk /\ SameFocus(d, e)
  /\ e.toplevels = d.toplevels /\ e.floats = d.floats
  /\ e.leaf \ {t} = d.leaf \ {t} /\ e.floating \ {t} = d.floating \ {t}

(* Then t only may be out of place. *)
LEMMA RelabelledSorts ==
  ASSUME NEW d, NEW e, NEW t, Relabelled(d, e, t)
  PROVE  /\ \A L : Lists(d, L) => Lists(e, L)
         /\ Sorted(d, {t}) => Sorted(e, {t})
         /\ e.leaf = d.leaf /\ e.floating \subseteq d.floating =>
              (Sorted(d, {}) => Sorted(e, {}))
<1>1. /\ e.workspace = d.workspace /\ e.toplevels = d.toplevels /\ e.floats = d.floats
      /\ e.leaf \ {t} = d.leaf \ {t} /\ e.floating \ {t} = d.floating \ {t}
  BY DEF Relabelled, SameFocus
<1>2. \A w \in Workspace : /\ Tiles(e, w) = Tiles(d, w)
                           /\ LeavesOf(e, w) \ {t} = LeavesOf(d, w) \ {t}
                           /\ e.leaf = d.leaf => LeavesOf(e, w) = LeavesOf(d, w)
  BY <1>1 DEF Tiles, LeavesOf
<1>3. \A L : Lists(d, L) => Lists(e, L)
  BY <1>1 DEF Lists, Listed
<1>4. Sorted(d, {t}) => Sorted(e, {t})
  BY <1>1, <1>2 DEF Sorted
<1>5. ASSUME e.leaf = d.leaf, e.floating \subseteq d.floating, Sorted(d, {})
      PROVE  Sorted(e, {})
  BY <1>2, <1>5 DEF Sorted
<1> QED BY <1>3, <1>4, <1>5

(* A window that floats has no leaf, *)
LEMMA FloatOutTidies ==
  ASSUME NEW d, NEW O, Good(d, O), NEW t \in d.mapped \ d.fullscreen
  PROVE  Tidies(d, FloatOut(d, t))
<1> DEFINE e == [d EXCEPT !.leaf = @ \ {t}, !.floating = @ \cup {t}]
           f == LinkFloating(Unlink(e, t), t)
           w == d.workspace[t]
<1>1. d \in Desk /\ t \in Window /\ w \in Workspace /\ Lists(d, Placed(d))
  BY DEF Good, Windows, Desk
<1>2. Relabelled(d, e, t) /\ e \in Desk /\ t \notin e.leaf /\ e.workspace = d.workspace
  BY <1>1 DEF Desk, Relabelled, SameFocus
<1> HIDE DEF e
<1>3. Lists(e, Placed(d)) /\ (Sorted(d, {t}) => Sorted(e, {t}))
  BY <1>1, <1>2, RelabelledSorts
<1>4. Relinked(e, f) /\ f \in Desk
  <2>1. e.workspace[t] \in Workspace
    BY <1>1, <1>2
  <2>2. Relinked(e, f)
    BY <1>1, <1>2, <1>3, <2>1, RelistLists
  <2> HIDE DEF f
  <2> QED BY <2>2 DEF Relinked
<1>5. Sorted(d, {}) => Sorted(f, {})
  <2>1. Sorted(d, {}) => Sorted(d, {t})
    BY SortedBut DEF Rough
  <2>2. Sorted(e, {t}) => Sorted(f, {})
    BY <1>1, <1>2, <1>3, RelinkSorts
  <2> QED BY <1>3, <2>1, <2>2
<1> HIDE DEF f
<1>6. Aims(d, f)
  <2>1. Aims(d, e) /\ Aims(e, f)
    BY <1>2, <1>4, SameFocusAims DEF Relabelled
  <2> QED BY <2>1 DEF Aims
<1>7. Tidies(f, ExitMonocleIfEmpty(f, w))
  BY <1>1, <1>4, ExitMonocleAlike, SameSorts
<1>8. Tidies(d, ExitMonocleIfEmpty(f, w))
  BY <1>5, <1>6, <1>7, TidiesTrans DEF Tidies
<1> QED BY <1>8 DEF FloatOut, f, e, w

(* and one that becomes a tile has one. *)
LEMMA TileBackTidies ==
  ASSUME NEW d, NEW O, Good(d, O), NEW t \in d.mapped \ d.fullscreen
  PROVE  Tidies(d, TileBack(d, t))
<1> DEFINE e == [d EXCEPT !.leaf = @ \cup {t}, !.floating = @ \ {t}]
           f == LinkTiled(Unlink(e, t), t)
<1>1. d \in Desk /\ t \in Window /\ d.workspace[t] \in Workspace /\ Lists(d, Placed(d))
  BY DEF Good, Windows, Desk
<1>2. /\ Relabelled(d, e, t) /\ e \in Desk /\ e.workspace = d.workspace
      /\ t \in e.leaf \ e.floating
  BY <1>1 DEF Desk, Relabelled, SameFocus
<1> HIDE DEF e
<1>3. Lists(e, Placed(d)) /\ (Sorted(d, {t}) => Sorted(e, {t}))
  BY <1>1, <1>2, RelabelledSorts
<1>4. Relinked(e, f)
  BY <1>1, <1>2, <1>3, RelistLists
<1>5. Sorted(d, {}) => Sorted(f, {})
  <2>1. Sorted(d, {}) => Sorted(d, {t})
    BY SortedBut DEF Rough
  <2>2. Sorted(e, {t}) => Sorted(f, {})
    BY <1>1, <1>2, <1>3, RelinkSorts
  <2> QED BY <1>3, <2>1, <2>2
<1> HIDE DEF f
<1>6. Aims(d, f)
  <2>1. Aims(d, e) /\ Aims(e, f)
    BY <1>2, <1>4, SameFocusAims DEF Relabelled
  <2> QED BY <2>1 DEF Aims
<1> QED BY <1>5, <1>6 DEF Tidies, TileBack, f, e

(* toggle_floating, either way. *)
LEMMA ToggleFloatingTidies ==
  ASSUME NEW d, NEW O, Good(d, O), NEW t \in d.mapped
  PROVE  Tidies(d, toggle_floating(d, t))
<1> DEFINE e == IF t \in d.floating THEN TileBack(d, t) ELSE FloatOut(d, t)
           f == Arrange(e, d.workspace[t])
<1>1. CASE t \in d.fullscreen
  BY <1>1, TidiesSelf DEF toggle_floating
<1>2. CASE t \notin d.fullscreen
  <2>1. Good(e, O) /\ Keeps(d, e) /\ d.workspace[t] \in Workspace /\ Tidies(d, e)
    BY <1>2, TileBackGood, FloatOutGood, TileBackTidies, FloatOutTidies DEF Good, Windows
  <2> HIDE DEF e
  <2>2. Alike(e, f)
    BY <2>1, ArrangeAlike DEF Good
  <2> HIDE DEF f
  <2>3. Good(f, O) /\ Tidies(d, f) /\ t \in f.mapped
    <3>1. Good(f, O) /\ Tidies(e, f) /\ f.mapped = d.mapped
      BY <2>1, <2>2, AlikeGood, SameSorts DEF Keeps, Alike
    <3> QED BY <2>1, <3>1, TidiesTrans
  <2>4. Tidies(d, focus_toplevel(f, t))
    BY <2>3, FocusTidies, TidiesTrans
  <2> QED BY <1>2, <2>4 DEF toggle_floating, f, e
<1> QED BY <1>1, <1>2

(* A window that covers its workspace keeps its leaf if it is a tile; a     *)
(* floating one was in the wrong list at most.                             *)
LEMMA EnterFullscreenTidies ==
  ASSUME NEW d, NEW O, Good(d, O), NEW t \in d.mapped \ d.fullscreen
  PROVE  /\ SameFocus(d, EnterFullscreen(d, t))
         /\ t \in EnterFullscreen(d, t).fullscreen
         /\ Rough(d, t) => Sorted(EnterFullscreen(d, t), {})
<1> DEFINE w == d.workspace[t]
           h == Disable(d, Listed(d, w) \ {t})
           f == [h EXCEPT
              !.savedFloating = IF t \in d.floating THEN @ \cup {t} ELSE @ \ {t},
              !.floating = @ \ {t}, !.fullscreen = @ \cup {t},
              !.fullscreenWindow[w] = t]
           u == Unlink(f, t)
<1>1. /\ d \in Desk /\ t \in Window /\ w \in Workspace /\ Lists(d, Placed(d))
      /\ w = d.workspace[t]
  BY DEF Good, Windows, Desk
<1> HIDE DEF w
<1>2. Alike(d, h) /\ h \in Desk
  <2>1. Listed(d, w) \ {t} \in SUBSET Window
    BY <1>1, ListedIn
  <2> QED BY <1>1, <2>1, EnableAlike DEF Alike
<1> HIDE DEF h
<1>3. Lists(h, Placed(d)) /\ SameFocus(d, h) /\ (Rough(d, t) => Rough(h, t))
  <2>1. Lists(h, Placed(d))
    BY <1>1, <1>2 DEF Alike, Lists, Listed
  <2> QED BY <1>2, <2>1, SameSorts, SameFocusAims
<1>4. /\ f.leaf = h.leaf /\ f.floating = h.floating \ {t}
      /\ f.toplevels = h.toplevels /\ f.floats = h.floats
      /\ f.workspace = h.workspace /\ f.mapped = h.mapped
      /\ f.focused = h.focused /\ f.keyboard = h.keyboard /\ t \in f.fullscreen
  BY <1>2 DEF Desk
<1>5. f \in Desk
  <2> DEFINE saved == IF t \in d.floating THEN h.savedFloating \cup {t}
                      ELSE h.savedFloating \ {t}
             full == [h.fullscreenWindow EXCEPT ![w] = t]
  <2>1. saved \in SUBSET Window /\ full \in [Workspace -> Window \cup {NULL}]
    BY <1>1, <1>2 DEF Desk
  <2>2. f = [h EXCEPT !.savedFloating = saved, !.floating = @ \ {t},
                      !.fullscreen = @ \cup {t}, !.fullscreenWindow = full]
    BY <1>2 DEF Desk
  <2> HIDE DEF saved, full, f
  <2> QED BY <1>1, <1>2, <2>1, <2>2 DEF Desk
<1> HIDE DEF f
<1>6. Relabelled(h, f, t)
  BY <1>4, <1>5 DEF Relabelled, SameFocus
<1>7. /\ Lists(f, Placed(d)) /\ SameFocus(d, f)
      /\ Sorted(h, {t}) => Sorted(f, {t})
      /\ Sorted(h, {}) => Sorted(f, {})
  <2>1. f.floating \subseteq h.floating
    BY <1>4
  <2>2. SameFocus(d, f)
    BY <1>3, <1>6 DEF Relabelled, SameFocus
  <2> QED BY <1>3, <1>4, <1>6, <2>1, <2>2, RelabelledSorts
<1>8. CASE t \notin d.floating
  <2>1. Rough(d, t) => Sorted(h, {})
    BY <1>2, <1>3, <1>8 DEF Rough, Alike
  <2>2. EnterFullscreen(d, t) = f
    BY <1>8 DEF EnterFullscreen, f, h, w
  <2> QED BY <1>4, <1>7, <2>1, <2>2
<1>9. CASE t \in d.floating
  <2>1. f.workspace[t] \in Workspace
    BY <1>1, <1>2, <1>4 DEF Alike
  <2>2. ASSUME Rough(d, t) PROVE Sorted(u, {})
    <3>1. t \notin f.leaf /\ Sorted(h, {t})
      BY <1>2, <1>3, <1>4, <1>9, <2>2, SortedBut DEF Rough, Sorted, Alike
    <3> QED BY <1>1, <1>5, <1>7, <2>1, <3>1, RelinkSorts
  <2>3. Relinked(f, u)
    BY <1>5, <1>7, UnlinkLists
  <2>4. EnterFullscreen(d, t) = u
    BY <1>9 DEF EnterFullscreen, u, f, h, w
  <2> HIDE DEF u
  <2>5. SameFocus(d, u) /\ t \in u.fullscreen
    BY <1>4, <1>7, <2>3 DEF Relinked, SameFocus
  <2> QED BY <2>2, <2>4, <2>5
<1> QED BY <1>8, <1>9

(* A window that floated before has no leaf and goes to the floating list. *)
LEMMA UncoverTidies ==
  ASSUME NEW d, NEW O, Good(d, O), NEW t \in d.fullscreen
  PROVE  Tidies(d, Uncover(d, t))
<1> DEFINE w == d.workspace[t]
           f == [d EXCEPT !.fullscreen = @ \ {t}, !.fullscreenWindow[w] = NULL]
           g == [f EXCEPT !.floating = @ \cup {t}]
           l == LinkFloating(Unlink(g, t), t)
<1>1. /\ d \in Desk /\ t \in Window /\ w \in Workspace /\ t \in d.mapped
      /\ w = d.workspace[t] /\ Lists(d, Placed(d))
  BY DEF Good, Windows, Desk
<1> HIDE DEF w
<1>2. /\ f \in Desk /\ f.leaf = d.leaf /\ f.floating = d.floating
      /\ f.toplevels = d.toplevels /\ f.floats = d.floats /\ SameFocus(d, f)
  BY <1>1 DEF Desk, SameFocus
<1> HIDE DEF f
<1>3. Relabelled(d, f, t)
  BY <1>2 DEF Relabelled
<1>4. Lists(f, Placed(d)) /\ Tidies(d, f)
  BY <1>1, <1>2, <1>3, RelabelledSorts, SameFocusAims DEF Tidies
<1>5. CASE t \in d.savedFloating
  <2>1. /\ g \in Desk /\ g.leaf = f.leaf /\ g.workspace = d.workspace
        /\ Relabelled(f, g, t)
    BY <1>1, <1>2 DEF Desk, Relabelled, SameFocus
  <2> HIDE DEF g
  <2>2. Lists(g, Placed(d)) /\ (Sorted(f, {t}) => Sorted(g, {t})) /\ Aims(f, g)
    BY <1>4, <2>1, RelabelledSorts, SameFocusAims DEF Relabelled
  <2>3. Sorted(d, {}) => t \notin g.leaf
    <3>1. t \notin Tiles(d, w)
      BY <1>1, <1>5 DEF Lists, Listed, Tiles, Placed
    <3>2. t \in d.leaf => t \in LeavesOf(d, w)
      BY <1>1 DEF LeavesOf
    <3> QED BY <1>1, <1>2, <2>1, <3>1, <3>2 DEF Sorted
  <2>4. Relinked(g, l)
    BY <1>1, <2>1, <2>2, RelistLists
  <2>5. Sorted(g, {t}) /\ t \notin g.leaf => Sorted(l, {})
    BY <1>1, <2>1, <2>2, RelinkSorts
  <2> HIDE DEF l
  <2>6. Sorted(d, {}) => Sorted(l, {})
    <3>1. Sorted(f, {}) => Sorted(f, {t})
      BY SortedBut DEF Rough
    <3> QED BY <1>4, <2>2, <2>3, <2>5, <3>1 DEF Tidies
  <2>7. Aims(d, l)
    BY <1>4, <2>2, <2>4, SameFocusAims DEF Aims, Tidies
  <2>8. Uncover(d, t) = l
    BY <1>5 DEF Uncover, l, g, f, w
  <2> QED BY <2>6, <2>7, <2>8 DEF Tidies
<1>6. CASE t \notin d.savedFloating
  <2>1. Uncover(d, t) = f
    BY <1>6 DEF Uncover, f, w
  <2> QED BY <1>4, <2>1
<1> QED BY <1>5, <1>6

(* The layout and the focus that follow are in order. *)
LEMMA LeaveFullscreenTidies ==
  ASSUME NEW d, NEW O, Good(d, O), NEW t \in d.fullscreen
  PROVE  Tidies(d, LeaveFullscreen(d, t))
<1> DEFINE w == d.workspace[t]
           back == Uncover(d, t)
           shown == Enable(back, Listed(back, w))
           a == Arrange(shown, w)
           next == IF d.focused[w] = t THEN t ELSE NULL
<1>1. w \in Workspace /\ t \in d.mapped
  BY DEF Good, Windows, Desk
<1> HIDE DEF w
<1>2. Good(back, O) /\ Keeps(d, back) /\ Tidies(d, back)
  BY UncoverGood, UncoverTidies
<1> HIDE DEF back
<1>3. Alike(back, shown) /\ shown \in Desk
  <2>1. back \in Desk /\ Listed(back, w) \in SUBSET Window
    BY <1>1, <1>2, ListedIn DEF Good
  <2> QED BY <2>1, EnableAlike DEF Alike
<1> HIDE DEF shown
<1>4. Alike(back, a)
  BY <1>1, <1>3, ArrangeAlike, AlikeTrans
<1> HIDE DEF a
<1>5. Good(a, O) /\ Tidies(d, a) /\ t \in a.mapped
  <2>1. Tidies(back, a) /\ a.mapped = d.mapped
    BY <1>2, <1>4, SameSorts DEF Alike, Keeps
  <2> QED BY <1>1, <1>2, <1>4, <2>1, AlikeGood, TidiesTrans
<1>6. next \in a.mapped \cup {NULL}
  BY <1>5
<1> HIDE DEF next
<1>7. Tidies(d, FocusIfAny(a, next))
  BY <1>5, <1>6, FocusIfAnyTidies, TidiesTrans
<1>8. LeaveFullscreen(d, t) = FocusIfAny(a, next)
  BY DEF LeaveFullscreen, Uncover, next, a, shown, back, w
<1> QED BY <1>7, <1>8

(* toggle_fullscreen, either way. *)
LEMMA ToggleFullscreenTidies ==
  ASSUME NEW d, NEW O, Good(d, O), NEW t \in d.mapped
  PROVE  Tidies(d, toggle_fullscreen(d, t)) /\ Tidies(d, NotFullscreen(d, t))
<1>1. CASE t \in d.fullscreen
  BY <1>1, LeaveFullscreenTidies DEF toggle_fullscreen, NotFullscreen
<1>2. CASE t \notin d.fullscreen
  <2>1. Aims(d, EnterFullscreen(d, t)) /\ (Rough(d, t) => Sorted(EnterFullscreen(d, t), {}))
    BY <1>2, EnterFullscreenTidies, SameFocusAims
  <2> QED BY <1>2, <2>1, TidiesSelf DEF toggle_fullscreen, NotFullscreen, Tidies, Rough
<1> QED BY <1>1, <1>2

(* Monocle, off or on. *)
LEMMA ToggleMonocleTidies ==
  ASSUME NEW d, NEW O, Good(d, O), NEW w \in Workspace,
         w \in d.monocle \/ d.focused[w] # NULL
  PROVE  Tidies(d, toggle_monocle(d, w))
<1> DEFINE on == [d EXCEPT !.monocle = @ \cup {w}]
           S == LeavesOf(d, w) \cup ToSet(d.floats[w])
           a == Arrange(on, w)
           f == focus_toplevel(a, d.focused[w])
<1>1. d \in Desk /\ S \in SUBSET Window /\ ToSet(d.floats[w]) \in SUBSET Window
  BY TilesIn, ListedIn DEF Good
<1>2. Alike(d, on) /\ on \in Desk
  <2>1. Alike(d, on)
    BY <1>1, MonocleAlike
  <2> HIDE DEF on
  <2> QED BY <2>1 DEF Alike
<1>3. CASE w \in d.monocle
  <2>1. Alike(d, Enable(ArrangeIfTree([d EXCEPT !.monocle = @ \ {w}], w), S))
    BY <1>1, OffAlike
  <2> QED BY <1>3, <2>1, SameSorts DEF toggle_monocle
<1>4. CASE w \notin d.monocle /\ LeavesOf(d, w) = {}
  BY <1>2, <1>4, SameSorts DEF toggle_monocle
<1>5. CASE w \notin d.monocle /\ LeavesOf(d, w) # {}
  <2> HIDE DEF on
  <2>1. Alike(d, a)
    BY <1>2, ArrangeAlike, AlikeTrans
  <2> HIDE DEF a
  <2>2. Good(a, O) /\ d.focused[w] \in a.mapped
    <3>1. d.focused[w] \in d.mapped
      BY <1>5 DEF Good, Pointers, Here
    <3> QED BY <2>1, <3>1, AlikeGood DEF Alike
  <2>3. Good(f, O) /\ Tidies(a, f)
    BY <2>2, FocusGood, FocusTidies
  <2> HIDE DEF f
  <2>4. Alike(f, Enable(f, ToSet(d.floats[w])))
    BY <1>1, <2>3, EnableAlike DEF Good
  <2>5. Tidies(d, Enable(f, ToSet(d.floats[w])))
    BY <2>1, <2>3, <2>4, SameSorts, TidiesTrans
  <2> QED BY <1>5, <2>5 DEF toggle_monocle, f, a, on
<1> QED BY <1>3, <1>4, <1>5

(* set_bsp_mode. *)
LEMMA SetBspTidies ==
  ASSUME NEW d, NEW O, Good(d, O), NEW w \in Workspace, d.focused[w] # NULL
  PROVE  Tidies(d, set_bsp_mode(d, w))
<1> DEFINE t == d.focused[w]
           e == NotFullscreen(d, t)
           f == NotFloating(e, t)
<1>1. t \in d.mapped
  BY DEF Good, Pointers, Here
<1> HIDE DEF t
<1>2. Good(e, O) /\ t \in e.mapped /\ Tidies(d, e)
  BY <1>1, NotFullscreenGood, ToggleFullscreenTidies DEF Keeps
<1> HIDE DEF e
<1>3. Good(f, O) /\ Tidies(e, f)
  BY <1>2, ToggleFloatingGood, ToggleFloatingTidies, TidiesSelf DEF NotFloating
<1> HIDE DEF f
<1>4. Tidies(f, NotMonocle(f, w))
  BY <1>3, ToggleMonocleTidies, TidiesSelf DEF NotMonocle
<1> QED BY <1>2, <1>3, <1>4, TidiesTrans DEF set_bsp_mode, f, e, t

----------------------------------------------------------------------------
(* Moves between workspaces. *)

(* A window that moves out has no leaf and is in no list. *)
LEMMA MoveOutSorts ==
  ASSUME NEW d, NEW O, Good(d, O), NEW t \in d.mapped, Sorted(d, {})
  PROVE  Sorted(PassFocus(MoveOut(d, t), t), {})
<1> DEFINE v == d.workspace[t]
           n == [ForgetLast(d, t) EXCEPT !.leaf = @ \ {t}]
           e == Unlink(n, t)
           m == MoveOut(d, t)
           p == PassFocus(m, t)
<1>1. d \in Desk /\ t \in Window /\ v \in Workspace /\ Lists(d, Placed(d))
  BY DEF Good, Windows, Desk
<1>2. /\ n \in Desk /\ Relabelled(d, n, t) /\ t \notin n.leaf
      /\ n.workspace[t] \in Workspace
  BY <1>1 DEF Desk, ForgetLast, Relabelled, SameFocus
<1> HIDE DEF n
<1>3. Lists(n, Placed(d)) /\ Sorted(n, {t})
  <2>1. Sorted(d, {t})
    BY SortedBut DEF Rough
  <2> QED BY <1>1, <1>2, <2>1, RelabelledSorts
<1>4. Sorted(e, {}) /\ Relinked(n, e)
  BY <1>1, <1>2, <1>3, RelinkSorts, UnlinkLists
<1>5. m = IF t \in d.floating THEN e ELSE ExitMonocleIfEmpty(e, v)
  BY DEF MoveOut, e, n, v
<1> HIDE DEF e, m
<1>6. Alike(e, m) /\ m \in Desk
  <2>1. e \in Desk
    BY <1>4 DEF Relinked
  <2> QED BY <1>1, <1>5, <2>1, AlikeSelf, ExitMonocleAlike DEF Alike
<1>7. Sorted(m, {})
  BY <1>4, <1>6, SameSorts
<1>8. /\ p.toplevels = m.toplevels /\ p.leaf = m.leaf /\ p.workspace = m.workspace
      /\ p.floating = m.floating
  BY <1>6 DEF PassFocus, Desk
<1> HIDE DEF p
<1>9. \A w \in Workspace : Tiles(p, w) = Tiles(m, w) /\ LeavesOf(p, w) = LeavesOf(m, w)
  BY <1>8 DEF Tiles, LeavesOf
<1>10. Sorted(p, {})
  BY <1>7, <1>8, <1>9 DEF Sorted
<1> QED BY <1>10 DEF p, m

(* One that moves in gets both, unless it floats, and is focused there. *)
LEMMA MoveInSorts ==
  ASSUME NEW d, NEW t, NEW O, Loose(d, t, O), NEW w \in Workspace
  PROVE  /\ Sorted(d, {}) => Sorted(MoveIn(d, t, w), {})
         /\ Aimed(MoveIn(d, t, w), t)
<1> DEFINE in == [d EXCEPT !.workspace[t] = w, !.focused[w] = t]
           n == [in EXCEPT !.leaf = @ \cup {t}]
           l == LinkFloating(in, t)
           e == LinkTiled(n, t)
<1>1. d \in Desk /\ t \in Window /\ t \notin d.leaf
  BY DEF Loose, Desk
<1>2. \A v \in Workspace : t \notin Tiles(d, v)
  BY DEF Loose, Lists, Listed, Tiles
<1>3. /\ in \in Desk /\ in.leaf = d.leaf /\ in.floating = d.floating
      /\ in.toplevels = d.toplevels /\ in.workspace = [d.workspace EXCEPT ![t] = w]
      /\ in.focused = [d.focused EXCEPT ![w] = t]
  BY <1>1 DEF Desk
<1>4. /\ n \in Desk /\ n.leaf = d.leaf \cup {t} /\ n.floating = d.floating
      /\ n.toplevels = d.toplevels /\ n.workspace = in.workspace
      /\ n.focused = in.focused
  <2> HIDE DEF in
  <2> QED BY <1>1, <1>3 DEF Desk
<1> HIDE DEF in, n
<1>5. in.workspace[t] = w /\ in.focused[w] = t
  BY <1>1, <1>3 DEF Desk
<1>6. /\ \A v \in Workspace : Tiles(l, v) = Tiles(in, v)
      /\ \A v \in Workspace : v # w => Tiles(e, v) = Tiles(n, v)
      /\ Tiles(e, w) = Tiles(n, w) \cup {t}
  <2>1. in.workspace[t] \in Workspace /\ n.workspace[t] \in Workspace
    BY <1>4, <1>5
  <2>2. \A v \in Workspace : Tiles(l, v) = Tiles(in, v)
    BY <1>1, <1>3, <2>1, LinkTiles
  <2>3. /\ \A v \in Workspace : v # n.workspace[t] => Tiles(e, v) = Tiles(n, v)
        /\ Tiles(e, n.workspace[t]) = Tiles(n, n.workspace[t]) \cup {t}
    BY <1>1, <1>4, <2>1, LinkTiles
  <2>4. n.workspace[t] = w
    BY <1>4, <1>5
  <2> QED BY <2>2, <2>3, <2>4
<1>7. \A v \in Workspace : Tiles(in, v) = Tiles(d, v) /\ Tiles(n, v) = Tiles(d, v)
  BY <1>3, <1>4 DEF Tiles
<1>8. /\ l.leaf = in.leaf /\ l.floating = in.floating /\ l.workspace = in.workspace
      /\ l.focused = in.focused /\ e.leaf = n.leaf /\ e.floating = n.floating
      /\ e.workspace = n.workspace /\ e.focused = n.focused
  BY <1>3, <1>4 DEF LinkFloating, LinkTiled, Desk
<1> HIDE DEF l, e
<1>9. \A u \in Window : u # t => in.workspace[u] = d.workspace[u]
  BY <1>1, <1>3 DEF Desk
<1>10. \A v \in Workspace : LeavesOf(l, v) = LeavesOf(d, v)
  <2>1. d.leaf \subseteq Window
    BY <1>1 DEF Desk
  <2> QED BY <1>1, <1>3, <1>8, <1>9, <2>1 DEF LeavesOf
<1>11. \A v \in Workspace : /\ v # w => LeavesOf(e, v) = LeavesOf(d, v)
                            /\ v = w => LeavesOf(e, v) = LeavesOf(d, v) \cup {t}
  <2>1. d.leaf \subseteq Window
    BY <1>1 DEF Desk
  <2> QED BY <1>1, <1>4, <1>5, <1>8, <1>9, <2>1 DEF LeavesOf
<1>12. CASE t \in d.floating
  <2>1. Sorted(d, {}) => Sorted(l, {})
    BY <1>3, <1>6, <1>7, <1>8, <1>10 DEF Sorted
  <2>2. Aimed(l, t)
    BY <1>5, <1>8 DEF Aimed
  <2> QED BY <1>12, <2>1, <2>2 DEF MoveIn, l, in
<1>13. CASE t \notin d.floating
  <2>1. Sorted(d, {}) => Sorted(e, {})
    BY <1>4, <1>6, <1>7, <1>8, <1>11, <1>13 DEF Sorted
  <2>2. Aimed(e, t)
    BY <1>4, <1>5, <1>8 DEF Aimed
  <2> QED BY <1>13, <2>1, <2>2 DEF MoveIn, e, n, in
<1> QED BY <1>12, <1>13

(* It is hidden or gets the keyboard. *)
LEMMA ShowMovedTidies ==
  ASSUME NEW d, NEW O, Good(d, O), NEW t \in d.mapped
  PROVE  Tidies(d, ShowMoved(d, t))
<1> DEFINE e == Enable(d, {t})
<1>1. Alike(d, Disable(d, {t})) /\ Alike(d, e)
  <2>1. d \in Desk /\ {t} \in SUBSET Window
    BY DEF Good, Desk
  <2> QED BY <2>1, EnableAlike
<1> HIDE DEF e
<1>2. Good(e, O) /\ t \in e.mapped
  BY <1>1, AlikeGood DEF Alike
<1>3. Tidies(d, Disable(d, {t})) /\ Tidies(d, focus_toplevel(e, t))
  BY <1>1, <1>2, SameSorts, FocusTidies, TidiesTrans
<1> QED BY <1>3 DEF ShowMoved, e

(* Of a move the window itself keeps the aim: it may displace the one that  *)
(* has the keyboard.                                                       *)
LEMMA MoveTidies ==
  ASSUME NEW d, NEW O, Good(d, O), NEW t \in d.mapped, NEW w \in Workspace
  PROVE  /\ Sorted(d, {}) => Sorted(workspace_move_toplevel(d, t, w), {})
         /\ OnTop(d) => Aimed(workspace_move_toplevel(d, t, w), t)
<1> DEFINE v == d.workspace[t]
           n == NotFullscreen(d, t)
           out == PassFocus(MoveOut(n, t), t)
           in == MoveIn(out, t, w)
           s == ShowMoved(in, t)
           a == ArrangeIfTree(s, v)
           b == ArrangeIfTree(a, w)
<1>1. t \in Window /\ v \in Workspace /\ d.mapped \subseteq Window
  BY DEF Good, Windows, Desk
<1>2. CASE v = w
  <2>1. OnTop(d) => Aimed(d, t)
    BY NullsAssumption, <1>1 DEF OnTop, Aimed
  <2> QED BY <1>2, <2>1 DEF workspace_move_toplevel
<1>3. CASE v # w
  <2> HIDE DEF v
  <2>1. Good(n, O) /\ t \in n.mapped \ n.fullscreen /\ Tidies(d, n)
    BY NotFullscreenGood, ToggleFullscreenTidies DEF Keeps
  <2> HIDE DEF n
  <2>2. Loose(out, t, O) /\ (Sorted(n, {}) => Sorted(out, {}))
    BY <2>1, LeavesWorkspace, MoveOutSorts
  <2> HIDE DEF out
  <2>3. /\ Good(in, O) /\ t \in in.mapped /\ (Sorted(out, {}) => Sorted(in, {}))
        /\ Aimed(in, t)
    <3>1. /\ Good(in, O) /\ in.workspace = [out.workspace EXCEPT ![t] = w]
          /\ in.mapped = out.mapped /\ in.output = out.output /\ in.shows = out.shows
          /\ in.outputs = out.outputs /\ in.powered = out.powered
          /\ in.current = out.current /\ Thins(out, in, Workspace \ {w})
      BY <2>2, EntersWorkspace
    <3>2. (Sorted(out, {}) => Sorted(in, {})) /\ Aimed(in, t)
      BY <2>2, MoveInSorts
    <3>3. t \in out.mapped
      BY <2>2 DEF Loose
    <3> QED BY <3>1, <3>2, <3>3
  <2> HIDE DEF in
  <2>4. Good(s, O) /\ Tidies(in, s)
    BY <2>3, ShowMovedGood, ShowMovedTidies
  <2> HIDE DEF s
  <2>5. Alike(s, a) /\ a \in Desk
    <3>1. s \in Desk /\ v \in Workspace
      BY <1>1, <2>4 DEF Good
    <3>2. Alike(s, a)
      BY <3>1, ArrangeAlike
    <3> HIDE DEF a
    <3> QED BY <3>2 DEF Alike
  <2> HIDE DEF a
  <2>6. Alike(a, b)
    BY <2>5, ArrangeAlike
  <2> HIDE DEF b
  <2>7. Tidies(in, b)
    BY <2>4, <2>5, <2>6, SameSorts, TidiesTrans
  <2>8. workspace_move_toplevel(d, t, w) = b
    BY <1>3 DEF workspace_move_toplevel, b, a, s, in, out, n, v
  <2> QED BY <1>1, <2>1, <2>2, <2>3, <2>7, <2>8 DEF Tidies, Aims
<1> QED BY <1>2, <1>3

----------------------------------------------------------------------------
(* Outputs. *)

(* A workspace comes on an output. *)
LEMMA SwitchTidies ==
  ASSUME NEW d, Good(d, {}), NEW w \in Workspace
  PROVE  Tidies(d, workspace_switch(d, w))
<1>1. ASSUME NEW o \in ToSet(d.outputs)
      PROVE  Tidies(d, output_set_workspace(d, o, w))
  <2>1. CASE output_set_workspace(d, o, w) = d
    BY <2>1, TidiesSelf
  <2>2. CASE output_set_workspace(d, o, w) # d
    <3>1. PICK e : /\ Good(e, {}) /\ SameWindows(d, e) /\ e.outputs = d.outputs
                   /\ output_set_workspace(d, o, w)
                      = Turned(FocusOn(Display(e, w), w), o, w)
      BY <1>1, <2>2, SetWorkspaceIs
    <3> DEFINE s == Display(e, w)
               f == FocusOn(s, w)
    <3>2. Alike(e, s)
      BY <3>1, DisplayAlike DEF Good
    <3> HIDE DEF s
    <3>3. Good(s, {}) /\ s.outputs = d.outputs /\ Tidies(d, s)
      <4>1. Good(s, {}) /\ s.outputs = d.outputs
        BY <3>1, <3>2, AlikeGood DEF Alike
      <4> QED BY <3>1, <3>2, <4>1, SameSorts, TidiesTrans
    <3>4. Good(f, {}) /\ f.outputs = d.outputs /\ Tidies(d, f)
      <4>1. Good(f, {}) /\ f.outputs = d.outputs
        BY <3>3, FocusOnGood DEF Refocused
      <4> QED BY <3>3, <4>1, FocusOnTidies, TidiesTrans
    <3> HIDE DEF f
    <3>5. SameWindows(f, Turned(f, o, w))
      BY <1>1, <3>4, TurnedGood
    <3>6. Tidies(d, Turned(f, o, w))
      BY <3>4, <3>5, SameSorts, TidiesTrans
    <3> QED BY <3>1, <3>6 DEF f, s
  <2> QED BY <2>1, <2>2
<1>2. workspace_switch(d, w) = d \/
        \E o \in ToSet(d.outputs) : workspace_switch(d, w) = output_set_workspace(d, o, w)
  BY SwitchIs
<1> QED BY <1>1, <1>2, TidiesSelf

(* It gets the keyboard for one of its windows. *)
LEMMA DisplayTidies ==
  ASSUME NEW d, NEW O, Good(d, O), NEW w \in Workspace
  PROVE  /\ Tidies(d, FocusFirst(Display(d, w), w))
         /\ Tidies(d, FocusShown(Display(d, w), w))
<1> DEFINE s == Display(d, w)
<1>1. Alike(d, s)
  BY DisplayAlike DEF Good
<1> HIDE DEF s
<1>2. Good(s, O) /\ Tidies(d, s)
  BY <1>1, AlikeGood, SameSorts
<1>3. Tidies(s, FocusFirst(s, w)) /\ Tidies(s, FocusShown(s, w))
  <2> DEFINE p == FirstOf(<<s.focused[w]>> \o s.toplevels[w])
             q == FocusOf(s, w)
  <2>1. p \in s.mapped \cup {NULL} /\ q \in s.mapped \cup {NULL}
    BY <1>2, FocusOfIs
  <2>2. FocusFirst(s, w) = FocusIfAny(s, p) /\ FocusShown(s, w) = FocusIfAny(s, q)
    BY DEF FocusFirst, FocusShown
  <2> HIDE DEF p, q
  <2> QED BY <1>2, <2>1, <2>2, FocusIfAnyTidies
<1> QED BY <1>2, <1>3, TidiesTrans DEF s

(* With one output at most, the end of an output leaves none.              *)
OneOutput == \A o \in Output, p \in Output : o = p

(* So no output's coming or going disturbs the order. *)
LEMMA OutputsTidy ==
  ASSUME Inv, OneOutput, NEW o \in Output,
         server_new_output(o) \/ output_destroy(o) \/ PowerOff(o) \/ PowerOn(o)
  PROVE  Tidies(desk, desk')
<1>1. CASE server_new_output(o)
  <2>1. PICK w \in Workspace : \E d :
          /\ Good(d, {}) /\ SameWindows(desk, d) /\ d.output[w] = o
          /\ ToSet(d.outputs) = ToSet(desk.outputs) \cup {o}
          /\ desk' = FocusFirst(Display(d, w), w)
    BY <1>1, NewOutputIs
  <2>2. PICK d : /\ Good(d, {}) /\ SameWindows(desk, d)
                 /\ desk' = FocusFirst(Display(d, w), w)
    BY <2>1
  <2>3. Tidies(desk, d) /\ Tidies(d, FocusFirst(Display(d, w), w))
    BY <2>2, SameSorts, DisplayTidies
  <2> QED BY <2>2, <2>3, TidiesTrans
<1>2. CASE PowerOn(o)
  <2>1. PICK w \in Workspace : \E d :
          /\ Good(d, {}) /\ SameWindows(desk, d) /\ d.output[w] = o
          /\ d.outputs = desk.outputs
          /\ desk' = FocusShown(Display(d, w), w)
    BY <1>2, PowerOnIs
  <2>2. PICK d : /\ Good(d, {}) /\ SameWindows(desk, d)
                 /\ desk' = FocusShown(Display(d, w), w)
    BY <2>1
  <2>3. Tidies(desk, d) /\ Tidies(d, FocusShown(Display(d, w), w))
    BY <2>2, SameSorts, DisplayTidies
  <2> QED BY <2>2, <2>3, TidiesTrans
<1>3. CASE PowerOff(o)
  BY <1>3, PowerOffGood, SameSorts
<1>4. CASE output_destroy(o)
  <2>1. /\ Inv' /\ desk'.outputs = RemoveFirst(desk.outputs, o)
        /\ desk'.outputs = <<>> => SameWindows(desk, desk')
    BY <1>4, DestroyOutputGood
  <2>2. desk'.outputs = <<>>
    <3>1. desk.outputs \in Seq(Output) /\ IsInjective(desk.outputs)
      BY DEF Inv, Good, Desk, Screens
    <3>2. ToSet(desk'.outputs) = ToSet(desk.outputs) \ {o} /\ desk'.outputs \in Seq(Output)
      BY <2>1, <3>1, TakeOut
    <3>3. ToSet(desk'.outputs) = {}
      <4>1. ToSet(desk.outputs) \subseteq Output
        BY <3>1, MembersIn
      <4>2. \A p \in Output : p = o
        BY DEF OneOutput
      <4> QED BY <3>2, <4>1, <4>2
    <3> DEFINE s == desk'.outputs
    <3>4. s \in Seq(Output) /\ ToSet(s) = {}
      BY <3>2, <3>3
    <3> HIDE DEF s
    <3>5. Len(s) \in Nat /\ (Len(s) > 0 => 1 \in DOMAIN s)
      BY <3>4
    <3>6. Len(s) = 0
      BY <3>4, <3>5 DEF ToSet
    <3>7. s = <<>>
      BY <3>4, <3>6, EmptySeq
    <3> QED BY <3>7 DEF s
  <2> QED BY <2>1, <2>2, SameSorts
<1> QED BY <1>1, <1>2, <1>3, <1>4

----------------------------------------------------------------------------
(* Requests of clients, bars and of the user. *)

(* What the proofs of this module add to Inv. *)
Orderly == Sorted(desk, {}) /\ OnTop(desk)

(* A step that tidies keeps it. *)
LEMMA TidyStep ==
  ASSUME Orderly, Tidies(desk, desk')
  PROVE  Orderly'
BY DEF Orderly, Tidies, Aims, Sorted, OnTop, Aimed, Tiles, LeavesOf

(* Requests about a window. *)
LEMMA WindowRequestsTidy ==
  ASSUME Inv, EarlyFullscreen = {}, NEW t \in Window,
         \/ RequestActivate(t) \/ Click(t) \/ Grab(t) \/ RequestMove(t)
         \/ RequestFullscreen(t)
  PROVE  Tidies(desk, desk')
<1> USE DEF Inv
<1>1. t \in desk.mapped /\ desk.workspace[t] \in Workspace
  <2>1. t \in desk.mapped
    BY DEF RequestActivate, Click, Grab, RequestMove, RequestFullscreen, Mapped
  <2> QED BY <2>1 DEF Good, Windows
<1>2. CASE RequestActivate(t)
  <2> DEFINE d == workspace_switch(desk, desk.workspace[t])
  <2>1. Good(d, {}) /\ d.mapped = desk.mapped /\ Tidies(desk, d)
    BY <1>1, SwitchGood, SwitchTidies
  <2>2. desk' = focus_toplevel(d, t)
    BY <1>2 DEF RequestActivate
  <2> HIDE DEF d
  <2>3. Tidies(d, focus_toplevel(d, t))
    BY <1>1, <2>1, FocusTidies
  <2> QED BY <2>1, <2>2, <2>3, TidiesTrans
<1>3. CASE Click(t)
  BY <1>1, <1>3, FocusTidies DEF Click
<1>4. CASE Grab(t)
  <2> DEFINE d == focus_toplevel(desk, t)
  <2>1. desk' = IF t \in d.floating THEN d ELSE toggle_floating(d, t)
    BY <1>4 DEF Grab
  <2>2. Good(d, {}) /\ t \in d.mapped /\ Tidies(desk, d)
    BY <1>1, FocusGood, FocusTidies DEF Refocused
  <2> HIDE DEF d
  <2>3. Tidies(d, toggle_floating(d, t))
    BY <2>2, ToggleFloatingTidies
  <2> QED BY <2>1, <2>2, <2>3, TidiesTrans
<1>5. CASE RequestMove(t)
  BY <1>1, <1>5, ToggleFloatingTidies DEF RequestMove
<1>6. CASE RequestFullscreen(t)
  BY <1>1, <1>6, ToggleFullscreenTidies DEF RequestFullscreen
<1> QED BY <1>2, <1>3, <1>4, <1>5, <1>6

(* Key bindings. *)
LEMMA BindingsTidy ==
  ASSUME Inv,
         \/ ToggleFloating \/ ToggleFullscreen \/ ToggleMonocle \/ SetBsp
         \/ (\E t \in Window : MoveFocus(t)) \/ CycleFocus
  PROVE  Tidies(desk, desk')
<1> USE DEF Inv
<1>1. CASE ToggleFloating \/ ToggleFullscreen \/ ToggleMonocle \/ SetBsp
  <2> DEFINE t == Focused(desk)
             w == current_ws(desk)
  <2>1. t # NULL /\ \/ desk' = toggle_floating(desk, t)
                    \/ desk' = toggle_fullscreen(desk, t)
                    \/ desk' = toggle_monocle(desk, w)
                    \/ desk' = set_bsp_mode(desk, w)
    BY <1>1 DEF ToggleFloating, ToggleFullscreen, ToggleMonocle, SetBsp
  <2>2. w \in Workspace /\ t = desk.focused[w] /\ t \in desk.mapped \cup {NULL}
    BY FocusedIs
  <2> HIDE DEF t, w
  <2>3. t \in desk.mapped /\ desk.focused[w] # NULL
    BY <2>1, <2>2
  <2>4. Tidies(desk, toggle_floating(desk, t)) /\ Tidies(desk, toggle_fullscreen(desk, t))
    BY <2>3, ToggleFloatingTidies, ToggleFullscreenTidies
  <2>5. Tidies(desk, toggle_monocle(desk, w)) /\ Tidies(desk, set_bsp_mode(desk, w))
    BY <2>2, <2>3, ToggleMonocleTidies, SetBspTidies
  <2> QED BY <2>1, <2>4, <2>5
<1>2. CASE (\E t \in Window : MoveFocus(t)) \/ CycleFocus
  <2>1. PICK u \in desk.mapped : desk' = focus_toplevel(desk, u)
    BY <1>2, PassFocusIs
  <2> QED BY <2>1, FocusTidies
<1> QED BY <1>1, <1>2

(* Another workspace, without the focused window or with it: the window has *)
(* the keyboard in the end.                                                *)
LEMMA WorkspaceRequestsOrderly ==
  ASSUME Inv, Orderly, NEW w \in Workspace, Switch(w) \/ MoveToWorkspace(w)
  PROVE  Orderly'
<1> USE DEF Inv
<1>1. CASE Switch(w)
  <2>1. Tidies(desk, workspace_switch(desk, w))
    BY SwitchTidies
  <2> QED BY <1>1, <2>1, TidyStep DEF Switch
<1>2. CASE MoveToWorkspace(w)
  <2> DEFINE t == Focused(desk)
             d == workspace_move_toplevel(desk, t, w)
             e == workspace_switch(d, w)
             f == focus_toplevel(e, t)
  <2>1. t # NULL /\ desk' = f
    BY <1>2 DEF MoveToWorkspace
  <2>2. t \in desk.mapped
    BY <2>1, FocusedIs
  <2> HIDE DEF t
  <2>3. Good(d, {}) /\ d.mapped = desk.mapped
    <3>1. Good(d, {}) /\ Carries(desk, d, w)
      BY <2>2, MoveGood
    <3> HIDE DEF d
    <3> QED BY <3>1 DEF Carries
  <2>4. Sorted(d, {}) /\ Aimed(d, t)
    BY <2>2, MoveTidies DEF Orderly
  <2> HIDE DEF d
  <2>5. Good(e, {}) /\ e.mapped = d.mapped /\ Tidies(d, e)
    BY <2>3, SwitchGood, SwitchTidies
  <2> HIDE DEF e
  <2>6. t \in e.mapped /\ t \in Window
    <3>1. desk.mapped \subseteq Window
      BY DEF Good, Desk
    <3> QED BY <2>2, <2>3, <2>5, <3>1
  <2>7. Tidies(e, f) /\ (Aimed(e, t) => OnTop(f))
    BY <2>5, <2>6, FocusTidies
  <2> HIDE DEF f
  <2>8. Sorted(f, {}) /\ OnTop(f)
    BY <2>4, <2>5, <2>6, <2>7 DEF Tidies, Aims
  <2> QED BY <2>1, <2>8 DEF Orderly, Sorted, OnTop, Aimed, Tiles, LeavesOf
<1> QED BY <1>1, <1>2

----------------------------------------------------------------------------
(* Windows come. *)

(* A new object has no leaf and not the keyboard. *)
LEMMA CreateOrderly ==
  ASSUME Inv, Orderly, NEW t \in Window, Create(t)
  PROVE  Orderly'
<1> DEFINE d == [desk EXCEPT !.workspace[t] = desk.current,
                             !.floating = @ \ {t}, !.fullscreen = @ \ {t},
                             !.savedFloating = @ \ {t}]
<1>1. desk \in Desk /\ t \notin desk.mapped
  <2>1. NULL \notin Workspace
    BY NullsAssumption
  <2> QED BY <2>1 DEF Create, Live, Inv, Good, Windows
<1>2. /\ d \in Desk /\ \A u \in Window \ {t} : d.workspace[u] = desk.workspace[u]
      /\ d.mapped = desk.mapped /\ d.leaf = desk.leaf
      /\ d.floating = desk.floating \ {t} /\ d.toplevels = desk.toplevels
      /\ d.focused = desk.focused /\ d.keyboard = desk.keyboard
  BY <1>1 DEF Desk
<1>3. desk' = IF t \in XWayland THEN Enable(d, {t}) ELSE Disable(d, {t})
  BY DEF Create
<1> HIDE DEF d
<1>4. desk.mapped \subseteq Window \ {t} /\ desk.leaf \subseteq Window \ {t}
  BY <1>1 DEF Inv, Good, Windows, Desk
<1>5. Sorted(d, {})
  <2>1. \A w \in Workspace : Tiles(d, w) = Tiles(desk, w) /\ LeavesOf(d, w) = LeavesOf(desk, w)
    BY <1>2, <1>4 DEF Tiles, LeavesOf
  <2> QED BY <1>2, <2>1 DEF Orderly, Sorted
<1>6. OnTop(d)
  BY <1>2, <1>4 DEF Orderly, OnTop, Aimed
<1>7. Alike(d, desk')
  BY <1>2, <1>3, EnableAlike
<1>8. Tidies(d, desk')
  BY <1>7, SameSorts
<1> QED BY <1>5, <1>6, <1>8 DEF Orderly, Tidies, Aims, Sorted, OnTop, Aimed, Tiles, LeavesOf

(* A window that goes to the floating list and to the keyboard. *)
LEMMA MapFloatTidies ==
  ASSUME NEW d, Good(d, {}), NEW t \in d.mapped, d.keyboard # t,
         IF Tiled(d, t) THEN Sorted(d, {t}) /\ t \notin d.leaf ELSE Rough(d, t)
  PROVE  Sorted(MapFloat(d, t), {}) /\ Aims(d, MapFloat(d, t))
<1> DEFINE n == [d EXCEPT !.floating = @ \cup {t}]
           f == LinkFloating(Unlink(n, t), t)
           e == IF Tiled(d, t) THEN f ELSE d
<1>1. d \in Desk /\ t \in Window /\ d.workspace[t] \in Workspace /\ Lists(d, Placed(d))
  BY DEF Good, Windows, Desk
<1>2. MapFloat(d, t) = focus_toplevel(e, t)
  BY DEF MapFloat
<1>3. CASE ~ Tiled(d, t)
  BY <1>2, <1>3, FocusTidies DEF Tidies
<1>4. CASE Tiled(d, t)
  <2>1. Good(f, {}) /\ Keeps(d, f)
    BY <1>4, FloatsGood DEF Tiled
  <2>2. Relabelled(d, n, t) /\ n \in Desk /\ n.leaf = d.leaf /\ n.workspace = d.workspace
    BY <1>1 DEF Desk, Relabelled, SameFocus
  <2> HIDE DEF n
  <2>3. Lists(n, Placed(d)) /\ Sorted(n, {t}) /\ SameFocus(d, n)
    BY <1>1, <1>4, <2>2, RelabelledSorts DEF Relabelled
  <2>4. Relinked(n, f)
    BY <1>1, <2>2, <2>3, RelistLists
  <2>5. Sorted(f, {})
    BY <1>1, <1>4, <2>2, <2>3, RelinkSorts
  <2> HIDE DEF f
  <2>6. Aims(d, f) /\ t \in f.mapped
    <3>1. SameFocus(d, f)
      BY <2>3, <2>4 DEF Relinked, SameFocus
    <3> QED BY <2>1, <3>1, SameFocusAims DEF Keeps
  <2>7. Tidies(f, focus_toplevel(f, t))
    BY <2>1, <2>6, FocusTidies
  <2> QED BY <1>2, <1>4, <2>5, <2>6, <2>7 DEF Tidies, Aims
<1> QED BY <1>3, <1>4

(* A window that has just been put in the tiled list. *)
Fresh(d, t) ==
  /\ Sorted(d, {t}) /\ t \in Tiles(d, d.workspace[t]) /\ t \notin d.leaf
  /\ d.keyboard # t

(* A leaf puts it in order. *)
LEMMA LeafSorts ==
  ASSUME NEW d, Good(d, {}), NEW t \in d.mapped, Fresh(d, t), t \notin d.floating
  PROVE  /\ Sorted([d EXCEPT !.leaf = @ \cup {t}], {})
         /\ SameFocus(d, [d EXCEPT !.leaf = @ \cup {t}])
<1> DEFINE e == [d EXCEPT !.leaf = @ \cup {t}]
<1>1. t \in Window /\ d.workspace[t] \in Workspace
  BY DEF Good, Windows, Desk
<1>2. /\ e.leaf = d.leaf \cup {t} /\ e.floating = d.floating /\ e.toplevels = d.toplevels
      /\ SameFocus(d, e)
  BY DEF Good, Desk, SameFocus
<1> HIDE DEF e
<1>3. \A w \in Workspace \ {d.workspace[t]} : t \notin Tiles(d, w)
  BY <1>1 DEF Good, Windows, Lists, Listed, Tiles
<1>4. \A w \in Workspace : LeavesOf(e, w) \ {t} = LeavesOf(d, w) \ {t}
                           /\ (t \in LeavesOf(e, w) <=> w = d.workspace[t])
  BY <1>2 DEF LeavesOf, SameFocus
<1>5. \A w \in Workspace : Tiles(e, w) = Tiles(d, w)
  BY <1>2 DEF Tiles
<1>6. \A w \in Workspace : Tiles(e, w) = LeavesOf(e, w)
  <2> SUFFICES ASSUME NEW w \in Workspace PROVE Tiles(e, w) = LeavesOf(e, w)
    OBVIOUS
  <2>1. Tiles(d, w) \ {t} = LeavesOf(d, w) \ {t}
    BY DEF Fresh, Sorted
  <2>2. t \in Tiles(d, w) <=> w = d.workspace[t]
    BY <1>3 DEF Fresh
  <2> QED BY <1>4, <1>5, <2>1, <2>2
<1>7. Sorted(e, {})
  BY <1>2, <1>6 DEF Fresh, Sorted
<1> QED BY <1>2, <1>7 DEF e

(* It gets its leaf as a tile. *)
LEMMA MapTileTidies ==
  ASSUME NEW d, Good(d, {}), NEW t \in d.mapped, Fresh(d, t), Tiled(d, t)
  PROVE  Sorted(MapTile(d, t), {}) /\ Aims(d, MapTile(d, t))
<1> DEFINE w == d.workspace[t]
           l == [d EXCEPT !.leaf = @ \cup {t}]
           a == Arrange(l, w)
           f == IF d.fullscreenWindow[w] \in {NULL, t} THEN focus_toplevel(a, t) ELSE a
<1>1. w \in Workspace /\ t \in Window
  BY DEF Good, Windows, Desk
<1>2. MapTile(d, t) = Disable(f, {t}) \/ MapTile(d, t) = f
  BY DEF MapTile
<1>3. Good(l, {}) /\ Sorted(l, {}) /\ SameFocus(d, l)
  BY LeafGood, LeafSorts DEF Tiled
<1> HIDE DEF w, l
<1>4. Alike(l, a)
  BY <1>1, <1>3, ArrangeAlike DEF Good
<1> HIDE DEF a
<1>5. Good(a, {}) /\ t \in a.mapped /\ Sorted(a, {}) /\ Aims(d, a)
  <2>1. Good(a, {}) /\ Tidies(l, a) /\ Aims(d, l)
    BY <1>3, <1>4, AlikeGood, SameSorts, SameFocusAims
  <2>2. t \in a.mapped
    BY <1>3, <1>4 DEF Alike, SameFocus
  <2> QED BY <1>3, <2>1, <2>2 DEF Tidies, Aims
<1>6. Good(f, {}) /\ Sorted(f, {}) /\ Aims(d, f)
  <2>1. Good(focus_toplevel(a, t), {}) /\ Tidies(a, focus_toplevel(a, t))
    BY <1>5, FocusGood, FocusTidies
  <2> QED BY <1>5, <2>1 DEF Tidies, Aims
<1> HIDE DEF f
<1>7. Tidies(f, Disable(f, {t}))
  BY <1>1, <1>6, EnableAlike, SameSorts DEF Good
<1> QED BY <1>2, <1>6, <1>7 DEF Tidies, Aims

(* A rule leaves it as it is or puts it in order, but not as a tile. *)
LEMMA RuleTidies ==
  ASSUME NEW d, Good(d, {}), NEW t \in d.mapped \ d.fullscreen, Fresh(d, t), NEW rule
  PROVE  \/ rule_apply_all(d, t, rule) = d
         \/ /\ SameFocus(d, rule_apply_all(d, t, rule))
            /\ Sorted(rule_apply_all(d, t, rule), {})
            /\ ~ Tiled(rule_apply_all(d, t, rule), t)
<1> DEFINE float == [LinkFloating(Unlink(d, t), t) EXCEPT !.floating = @ \cup {t}]
           leaf == [d EXCEPT !.leaf = IF t \in d.floating THEN @ ELSE @ \cup {t}]
           e == rule_apply_all(d, t, rule)
           n == [d EXCEPT !.floating = @ \cup {t}]
           g == LinkFloating(Unlink(n, t), t)
           full == EnterFullscreen(leaf, t)
<1>1. d \in Desk /\ t \in Window /\ d.workspace[t] \in Workspace /\ Lists(d, Placed(d))
  BY DEF Good, Windows, Desk
<1>2. SameFocus(d, float) /\ Sorted(float, {}) /\ ~ Tiled(float, t)
  <2>1. float = g
    BY <1>1, FloatOrder
  <2>2. /\ Relabelled(d, n, t) /\ n \in Desk /\ n.leaf = d.leaf
        /\ n.workspace = d.workspace /\ t \in n.floating
    BY <1>1 DEF Desk, Relabelled, SameFocus
  <2> HIDE DEF n, float
  <2>3. Lists(n, Placed(d)) /\ Sorted(n, {t}) /\ SameFocus(d, n)
    BY <1>1, <2>2, RelabelledSorts DEF Relabelled, Fresh
  <2>4. Relinked(n, g)
    BY <1>1, <2>2, <2>3, RelistLists
  <2>5. Sorted(g, {})
    BY <1>1, <2>2, <2>3, RelinkSorts DEF Fresh
  <2> HIDE DEF g
  <2>6. SameFocus(d, g) /\ t \in g.floating
    BY <2>2, <2>3, <2>4 DEF Relinked, SameFocus
  <2> QED BY <2>1, <2>5, <2>6 DEF Tiled
<1>3. SameFocus(d, full) /\ Sorted(full, {}) /\ ~ Tiled(full, t)
  <2>1. /\ Good(leaf, {}) /\ SameFocus(d, leaf) /\ leaf.fullscreen = d.fullscreen
        /\ Rough(leaf, t)
    <3>1. CASE t \in d.floating
      <4>1. leaf = d
        BY <1>1, <3>1 DEF Desk
      <4> QED BY <3>1, <4>1 DEF SameFocus, Fresh, Rough
    <3>2. CASE t \notin d.floating
      <4>1. leaf = [d EXCEPT !.leaf = @ \cup {t}]
        BY <3>2
      <4>2. leaf.fullscreen = d.fullscreen
        BY <1>1 DEF Desk
      <4> HIDE DEF leaf
      <4>3. Good(leaf, {}) /\ Sorted(leaf, {}) /\ SameFocus(d, leaf)
        BY <3>2, <4>1, LeafGood, LeafSorts
      <4> QED BY <4>2, <4>3 DEF Rough
    <3> QED BY <3>1, <3>2
  <2> HIDE DEF leaf
  <2>2. t \in leaf.mapped \ leaf.fullscreen
    BY <2>1 DEF SameFocus
  <2>3. SameFocus(leaf, full) /\ Sorted(full, {}) /\ t \in full.fullscreen
    BY <2>1, <2>2, EnterFullscreenTidies
  <2> QED BY <2>1, <2>3 DEF SameFocus, Tiled
<1>4. e = float \/ e = full \/ e = d
  <2>1. leaf.fullscreen = d.fullscreen
    BY <1>1 DEF Desk
  <2>2. toggle_fullscreen(leaf, t) = full
    BY <2>1 DEF toggle_fullscreen
  <2> HIDE DEF full
  <2> QED BY <2>2 DEF rule_apply_all
<1> HIDE DEF float, leaf, full
<1> QED BY <1>2, <1>3, <1>4

(* A window that comes ends in order and the keyboard on its aim. *)
LEMMA MapOnTidies ==
  ASSUME NEW d, Good(d, {}), NEW t \in d.mapped \ d.fullscreen, Fresh(d, t),
         NEW tile \in BOOLEAN, NEW rule
  PROVE  Sorted(MapOn(d, t, tile, rule), {}) /\ Aims(d, MapOn(d, t, tile, rule))
<1> DEFINE r == rule_apply_all(d, t, rule)
           m == IF Tiled(r, t) THEN MapTile(r, t) ELSE MapFloat(r, t)
<1>1. MapOn(d, t, tile, rule) = IF ~ tile THEN MapFloat(d, t) ELSE m
  BY DEF MapOn, MapRuled
<1>2. Sorted(MapFloat(d, t), {}) /\ Aims(d, MapFloat(d, t))
  <2>1. ~ Tiled(d, t) => Rough(d, t)
    BY DEF Tiled, Rough, Fresh
  <2> QED BY <2>1, MapFloatTidies DEF Fresh
<1>3. Good(r, {}) /\ t \in r.mapped
  BY RuleGood DEF Keeps
<1>4. \/ r = d
      \/ SameFocus(d, r) /\ Sorted(r, {}) /\ ~ Tiled(r, t)
  BY RuleTidies
<1> HIDE DEF r
<1>5. Sorted(m, {}) /\ Aims(d, m)
  <2>1. CASE r = d
    BY <1>2, <2>1, MapTileTidies
  <2>2. CASE SameFocus(d, r) /\ Sorted(r, {}) /\ ~ Tiled(r, t)
    <3>1. r.keyboard # t /\ Rough(r, t)
      BY <2>2 DEF SameFocus, Fresh, Rough
    <3>2. Sorted(MapFloat(r, t), {}) /\ Aims(r, MapFloat(r, t))
      BY <1>3, <2>2, <3>1, MapFloatTidies
    <3>3. Aims(d, r)
      BY <2>2, SameFocusAims
    <3> QED BY <2>2, <3>2, <3>3 DEF Aims
  <2> QED BY <1>4, <2>1, <2>2
<1> HIDE DEF m
<1> QED BY <1>1, <1>2, <1>5

(* A window that is mapped is put in the tiled list of its workspace first. *)
LEMMA ComesFresh ==
  ASSUME Inv, Orderly, NEW t \in Window, t \notin desk.mapped,
         desk.workspace[t] \in Workspace, NEW e, MapsOne(desk, e, t),
         NEW d, d = LinkTiled(e, t), Relinked(e, d)
  PROVE  /\ Fresh(d, t) /\ t \in d.mapped \ d.fullscreen /\ OnTop(d)
         /\ \A v \in Workspace : Tiles(d, v) = IF v = desk.workspace[t]
                                              THEN Tiles(desk, v) \cup {t}
                                              ELSE Tiles(desk, v)
<1> DEFINE w == desk.workspace[t]
<1>1. /\ e \in Desk /\ e.workspace = desk.workspace /\ e.leaf = desk.leaf
      /\ e.floating = desk.floating /\ e.toplevels = desk.toplevels
      /\ e.focused = desk.focused /\ e.keyboard = desk.keyboard
      /\ e.mapped = desk.mapped \cup {t} /\ e.fullscreen = desk.fullscreen
  BY DEF MapsOne
<1>2. /\ \A v \in Workspace : v # w => Tiles(d, v) = Tiles(e, v)
      /\ Tiles(d, w) = Tiles(e, w) \cup {t}
  BY <1>1, LinkTiles
<1>3. \A v \in Workspace : Tiles(e, v) = Tiles(desk, v)
  BY <1>1 DEF Tiles
<1>4. /\ d.workspace = desk.workspace /\ d.leaf = desk.leaf
      /\ d.floating = desk.floating /\ d.focused = desk.focused
      /\ d.keyboard = desk.keyboard /\ d.mapped = desk.mapped \cup {t}
      /\ d.fullscreen = desk.fullscreen
  BY <1>1 DEF Relinked
<1>5. t \notin desk.leaf /\ t \in d.mapped \ d.fullscreen /\ desk.keyboard # t
  BY <1>4, NullsAssumption DEF Inv, Good, Windows, Orderly, OnTop
<1>6. Fresh(d, t)
  <2>1. \A v \in Workspace : Tiles(d, v) \ {t} = LeavesOf(d, v) \ {t}
    <3> SUFFICES ASSUME NEW v \in Workspace PROVE Tiles(d, v) \ {t} = LeavesOf(d, v) \ {t}
      OBVIOUS
    <3>1. Tiles(desk, v) = LeavesOf(desk, v)
      BY DEF Orderly, Sorted
    <3>2. LeavesOf(d, v) = LeavesOf(desk, v)
      BY <1>4 DEF LeavesOf
    <3> QED BY <1>2, <1>3, <3>1, <3>2
  <2>2. Sorted(d, {t})
    BY <1>4, <2>1 DEF Orderly, Sorted
  <2> QED BY <1>2, <1>4, <1>5, <2>2 DEF Fresh
<1>7. OnTop(d)
  BY <1>4 DEF Orderly, OnTop, Aimed
<1> QED BY <1>2, <1>3, <1>5, <1>6, <1>7

(* So every window that comes ends in order. *)
LEMMA MapOrderly ==
  ASSUME Inv, Orderly, NEW t \in Window, NEW tile \in BOOLEAN, NEW rule,
         Map(t, tile, rule)
  PROVE  Orderly'
<1>1. PICK e : /\ MapsOne(desk, e, t) /\ Relinked(e, LinkTiled(e, t))
               /\ Good(LinkTiled(e, t), {})
               /\ desk' = MapOn(LinkTiled(e, t), t, tile, rule)
  BY MapIs
<1>2. t \notin desk.mapped /\ desk.workspace[t] \in Workspace
  BY MapIs
<1> DEFINE d == LinkTiled(e, t)
<1>3. Relinked(e, d) /\ Good(d, {}) /\ desk' = MapOn(d, t, tile, rule) /\ d = LinkTiled(e, t)
  BY <1>1
<1> HIDE DEF d
<1>4. Fresh(d, t) /\ t \in d.mapped \ d.fullscreen /\ OnTop(d)
  BY <1>1, <1>2, <1>3, ComesFresh
<1>5. Sorted(desk', {}) /\ Aims(d, desk')
  BY <1>3, <1>4, MapOnTidies
<1> QED BY <1>4, <1>5 DEF Orderly, Aims, Sorted, OnTop, Aimed, Tiles, LeavesOf

----------------------------------------------------------------------------
(* Windows go. *)

(* Layout and keyboard after a window went, e being what is left.          *)
LEMMA UnmapOnTidies ==
  ASSUME NEW e, Good(e, {}), NEW t \in Window, e.workspace[t] \in Workspace,
         NEW displaced \in BOOLEAN, Sorted(e, {}),
         ~ displaced => OnTop(e)
  PROVE  Sorted(UnmapOn(e, t, displaced), {}) /\ OnTop(UnmapOn(e, t, displaced))
<1> DEFINE w == e.workspace[t]
           l == Settle(e, w, MonocleEnds(e, t))
           f == l.focused[w]
<1>1. Alike(e, l)
  <2>1. MonocleEnds(e, t) \in BOOLEAN
    BY DEF MonocleEnds
  <2> QED BY <2>1, SettleAlike DEF Good
<1>2. UnmapOn(e, t, displaced) = Refocus(l, w, displaced)
  BY DEF UnmapOn
<1> HIDE DEF l, w
<1>3. w \in Workspace
  BY DEF w
<1>4. Good(l, {}) /\ Tidies(e, l) /\ l \in Desk
  BY <1>1, AlikeGood, SameSorts DEF Alike
<1>5. Sorted(l, {}) /\ (~ displaced => OnTop(l))
  BY <1>4 DEF Tidies, Aims
<1>6. CASE f = NULL
  <2>1. Refocus(l, w, displaced) = clear_focus(l)
    BY <1>6 DEF Refocus
  <2>2. Tidies(l, clear_focus(l)) /\ OnTop(clear_focus(l))
    BY <1>4, ClearTidies
  <2> QED BY <1>2, <1>5, <2>1, <2>2 DEF Tidies
<1>7. CASE f # NULL /\ displaced
  <2>1. f \in l.mapped /\ l.workspace[f] = w
    BY <1>3, <1>4, <1>7 DEF Good, Pointers, Here
  <2>2. Refocus(l, w, displaced) = focus_toplevel(l, f)
    BY <1>7 DEF Refocus, FocusIfAny
  <2>3. Aimed(l, f)
    BY <2>1 DEF Aimed
  <2> HIDE DEF f
  <2>4. /\ Tidies(l, focus_toplevel(l, f))
        /\ Aimed(l, f) => OnTop(focus_toplevel(l, f))
    BY <1>4, <2>1, FocusTidies
  <2> QED BY <1>2, <1>5, <2>2, <2>3, <2>4 DEF Tidies
<1>8. CASE f # NULL /\ ~ displaced
  <2>1. Refocus(l, w, displaced) = l
    BY <1>8 DEF Refocus, FocusIfAny
  <2> QED BY <1>2, <1>5, <1>8, <2>1
<1> QED BY <1>6, <1>7, <1>8

(* A window that goes leaves the others in order. *)
LEMMA UnmapOrderly ==
  ASSUME Inv, Orderly, NEW t \in Window, NEW sibling, Unmap(t, sibling)
  PROVE  Orderly'
<1> DEFINE w == desk.workspace[t]
           displaced == desk.focused[w] = t
<1>1. PICK e : /\ Good(e, {}) /\ UnmapsOne(desk, e, t)
               /\ desk' = UnmapOn(e, t, displaced)
  BY UnmapIs
<1>2. /\ w \in Workspace /\ e.workspace = desk.workspace
      /\ e.mapped = desk.mapped \ {t} /\ e.leaf = desk.leaf \ {t}
      /\ e.floating = desk.floating /\ e.toplevels = Unlink(desk, t).toplevels
      /\ e.keyboard = desk.keyboard
      /\ \A v \in Workspace : (v = w /\ desk.focused[v] = t) \/ e.focused[v] = desk.focused[v]
  BY <1>1, UnmapIs DEF UnmapsOne
<1>3. displaced \in BOOLEAN
  OBVIOUS
<1>4. Sorted(e, {})
  <2>1. \A v \in Workspace : Tiles(Unlink(desk, t), v) = Tiles(desk, v) \ {t}
    BY UnlinkTiles DEF Inv, Good, Windows
  <2>2. \A v \in Workspace : Tiles(e, v) = Tiles(desk, v) \ {t}
    BY <1>2, <2>1 DEF Tiles
  <2>3. \A v \in Workspace : LeavesOf(e, v) = LeavesOf(desk, v) \ {t}
    BY <1>2 DEF LeavesOf
  <2> QED BY <1>2, <2>2, <2>3 DEF Orderly, Sorted
<1>5. ~ displaced => OnTop(e)
  <2> SUFFICES ASSUME ~ displaced, e.keyboard # NULL
               PROVE  e.keyboard \in e.mapped /\ Aimed(e, e.keyboard)
    BY DEF OnTop
  <2> DEFINE k == desk.keyboard
  <2>1. k \in desk.mapped /\ desk.focused[desk.workspace[k]] = k
    BY <1>2 DEF Orderly, OnTop, Aimed
  <2>2. k # t /\ desk.workspace[k] \in Workspace
    BY <2>1 DEF Inv, Good, Windows
  <2>3. e.focused[desk.workspace[k]] = k
    BY <1>2, <2>1, <2>2
  <2> QED BY <1>2, <2>1, <2>2, <2>3 DEF Aimed
<1> HIDE DEF displaced
<1>6. Sorted(desk', {}) /\ OnTop(desk')
  BY <1>1, <1>2, <1>3, <1>4, <1>5, UnmapOnTidies
<1> QED BY <1>6 DEF Orderly, Sorted, OnTop, Aimed, Tiles, LeavesOf

(* An object that is destroyed is in no list and tree and has no focus.    *)
LEMMA DestroyOrderly ==
  ASSUME Inv, Orderly, NEW t \in Window, Destroy(t)
  PROVE  Orderly'
<1> DEFINE w == desk.workspace[t]
           n == [desk EXCEPT
                     !.workspace[t] = NULL, !.floating = @ \ {t},
                     !.fullscreen = @ \ {t}, !.savedFloating = @ \ {t},
                     !.enabled = @ \ {t},
                     !.keyboard = IF @ = t THEN NULL ELSE @]
           g == Unlink(n, t)
           forget(p) == [p EXCEPT ![w] = IF @ = t THEN NULL ELSE @]
           e == [g EXCEPT !.lastFocused = forget(@), !.focused = forget(@),
                          !.fullscreenWindow = forget(@)]
<1>1. desk \in Desk /\ t \notin desk.mapped /\ w \in Workspace
  <2>1. desk \in Desk /\ t \notin desk.mapped /\ w # NULL
    BY DEF Destroy, Live, Mapped, Inv, Good
  <2> QED BY <2>1 DEF Desk
<1>2. desk' = e
  BY DEF Destroy
<1>3. \A v \in Workspace : desk.focused[v] # t
  BY <1>1, NullsAssumption DEF Inv, Good, Pointers, Here
<1>4. desk.keyboard # t /\ t \notin desk.leaf
  BY <1>1, NullsAssumption DEF Inv, Good, Windows, Orderly, OnTop
<1>5. e.focused = desk.focused
  <2>1. e.focused = forget(g.focused) /\ g.focused = n.focused /\ n.focused = desk.focused
    BY <1>1 DEF Unlink, Desk
  <2> HIDE DEF e, g, n
  <2>2. forget(desk.focused) = desk.focused
    <3>1. desk.focused \in [Workspace -> Window \cup {NULL}]
      BY <1>1 DEF Desk
    <3> QED BY <1>1, <1>3, <3>1
  <2> QED BY <2>1, <2>2
<1>6. /\ e.workspace = [desk.workspace EXCEPT ![t] = NULL] /\ e.leaf = desk.leaf
      /\ e.floating = desk.floating \ {t} /\ e.mapped = desk.mapped
      /\ e.keyboard = desk.keyboard
      /\ e.toplevels = Unlink(desk, t).toplevels
  BY <1>1, <1>4 DEF Desk, Unlink
<1> HIDE DEF e, g, n, forget
<1>7. Sorted(e, {})
  <2>1. \A v \in Workspace : Tiles(Unlink(desk, t), v) = Tiles(desk, v) \ {t}
    BY UnlinkTiles DEF Inv, Good, Windows
  <2>2. \A v \in Workspace : t \notin LeavesOf(desk, v)
    BY <1>4 DEF LeavesOf
  <2>3. \A v \in Workspace : Tiles(e, v) = LeavesOf(desk, v)
    <3>1. \A v \in Workspace : Tiles(e, v) = Tiles(Unlink(desk, t), v)
      BY <1>6 DEF Tiles
    <3>2. \A v \in Workspace : Tiles(desk, v) = LeavesOf(desk, v)
      BY DEF Orderly, Sorted
    <3> QED BY <2>1, <2>2, <3>1, <3>2
  <2>4. \A v \in Workspace : LeavesOf(e, v) = LeavesOf(desk, v)
    BY <1>1, <1>4, <1>6 DEF LeavesOf, Desk
  <2> QED BY <1>6, <2>3, <2>4 DEF Orderly, Sorted
<1>8. OnTop(e)
  <2>1. \A u \in desk.mapped : e.workspace[u] = desk.workspace[u]
    BY <1>1, <1>6 DEF Desk
  <2> QED BY <1>5, <1>6, <2>1 DEF Orderly, OnTop, Aimed
<1> QED BY <1>2, <1>7, <1>8 DEF Orderly, Sorted, OnTop, Aimed, Tiles, LeavesOf

----------------------------------------------------------------------------
(* Every step. *)

(* There is no window to begin with. *)
LEMMA InitOrderly ==
  ASSUME Init
  PROVE  Orderly
<1>1. \A w \in Workspace : Tiles(desk, w) = {} /\ LeavesOf(desk, w) = {}
  BY DEF Init, Tiles, LeavesOf, ToSet
<1>2. desk.keyboard = NULL /\ desk.leaf = {}
  BY DEF Init
<1> QED BY <1>1, <1>2 DEF Orderly, Sorted, OnTop

(* With one output, no step disturbs the order. *)
LEMMA NextOrderly ==
  ASSUME Inv, Orderly, EarlyFullscreen = {}, OneOutput, Next
  PROVE  Orderly'
<1>1. CASE \E t \in Window : Create(t)
  BY <1>1, CreateOrderly
<1>2. CASE \E t \in Window : Destroy(t)
  BY <1>2, DestroyOrderly
<1>3. CASE \E t \in Window : \E tile \in BOOLEAN, rule \in Rule : Map(t, tile, rule)
  BY <1>3, MapOrderly
<1>4. CASE \E t \in Window : \E sibling \in Window \cup {NULL} : Unmap(t, sibling)
  BY <1>4, UnmapOrderly
<1>5. CASE \E t \in Window : \/ RequestActivate(t) \/ Click(t) \/ Grab(t)
                             \/ RequestMove(t) \/ RequestFullscreen(t)
  BY <1>5, WindowRequestsTidy, TidyStep
<1>6. CASE \/ (\E t \in Window : MoveFocus(t)) \/ CycleFocus
           \/ ToggleFloating \/ ToggleFullscreen \/ ToggleMonocle \/ SetBsp
  BY <1>6, BindingsTidy, TidyStep
<1>7. CASE \E w \in Workspace : Switch(w) \/ MoveToWorkspace(w)
  BY <1>7, WorkspaceRequestsOrderly
<1>8. CASE \E o \in Output :
             server_new_output(o) \/ output_destroy(o) \/ PowerOff(o) \/ PowerOn(o)
  BY <1>8, OutputsTidy, TidyStep
<1> QED BY <1>1, <1>2, <1>3, <1>4, <1>5, <1>6, <1>7, <1>8 DEF Next

(* Nothing changes while nothing happens. *)
LEMMA StutterOrderly ==
  ASSUME Orderly, UNCHANGED desk
  PROVE  Orderly'
BY DEF Orderly, Sorted, OnTop, Aimed, Tiles, LeavesOf

(* It says what a run with one output checks. *)
LEMMA OrderlyMeans ==
  ASSUME Orderly
  PROVE  TreeMatchesList /\ KeyboardIsFocused
BY DEF Orderly, Sorted, OnTop, Aimed, Tiles, TreeMatchesList, KeyboardIsFocused

(* With one output, however windows are mapped, moved, toggled and unmapped, *)
(* and the output is unplugged and plugged in again, the leaves of a         *)
(* workspace's tree are the windows of its tiled list: the tree that the     *)
(* layout follows (bsp_arrange.c) and the list that focus and the bar follow *)
(* (window.c) never tell different stories.                                  *)
THEOREM TreesStayMatched ==
  ASSUME EarlyFullscreen = {}, OneOutput
  PROVE  Spec => []TreeMatchesList
<1>1. Init => Inv /\ Orderly
  BY InitGood, InitOrderly
<1>2. Inv /\ Orderly /\ [Next]_desk => Inv' /\ Orderly'
  BY NextGood, StutterGood, NextOrderly, StutterOrderly
<1>3. Orderly => TreeMatchesList
  BY OrderlyMeans
<1> QED BY <1>1, <1>2, <1>3, PTL DEF Spec

(* Nor does the keyboard stay with a window that its workspace no longer     *)
(* takes for the focused one, which bindings and the bar act on.             *)
THEOREM KeyboardStaysFocused ==
  ASSUME EarlyFullscreen = {}, OneOutput
  PROVE  Spec => []KeyboardIsFocused
<1>1. Init => Inv /\ Orderly
  BY InitGood, InitOrderly
<1>2. Inv /\ Orderly /\ [Next]_desk => Inv' /\ Orderly'
  BY NextGood, StutterGood, NextOrderly, StutterOrderly
<1>3. Orderly => KeyboardIsFocused
  BY OrderlyMeans
<1> QED BY <1>1, <1>2, <1>3, PTL DEF Spec

----------------------------------------------------------------------------
(* What is visible. *)

Floats(d, w) == ToSet(d.floats[w])

(* Windows in a floating list float. *)
Floaters(d) == \A w \in Workspace : Floats(d, w) \subseteq d.floating

(* w is on an output that no window covers. *)
Bare(d, w) == d.output[w] # NULL /\ d.fullscreenWindow[w] = NULL

(* Nothing but the stack of monocle hides a window of w. *)
Open(d, w) ==
  Bare(d, w) => /\ Floats(d, w) \ XWayland \subseteq d.enabled
                /\ w \notin d.monocle => Tiles(d, w) \ XWayland \subseteq d.enabled

(* One tile of it is on top. *)
Stacked(d, w) ==
  Bare(d, w) /\ w \in d.monocle /\ TilesOf(d, w) # {} =>
    \E t \in Window : TilesOf(d, w) \cap d.enabled = {t}

Fair(d) == Floaters(d) /\ \A w \in Workspace : Open(d, w) /\ Stacked(d, w)

(* From d to e, w loses nothing of this. *)
Clears(d, e, w) == (Open(d, w) => Open(e, w)) /\ (Stacked(d, w) => Stacked(e, w))
Aside(d, e, w) == \A v \in Workspace \ {w} : Clears(d, e, v)

(* It composes. *)
LEMMA AsideTrans ==
  ASSUME NEW d, NEW e, NEW f, NEW w, Aside(d, e, w), Aside(e, f, w)
  PROVE  Aside(d, f, w)
BY DEF Aside, Clears

(* e shows w as d does. *)
View(d, e, w) ==
  /\ Bare(e, w) => Bare(d, w)
  /\ Tiles(e, w) = Tiles(d, w) /\ Floats(e, w) = Floats(d, w)
  /\ w \in e.monocle <=> w \in d.monocle
  /\ \A t \in Tiles(d, w) \cup Floats(d, w) :
       (t \in e.enabled <=> t \in d.enabled) /\ (Tiled(e, t) <=> Tiled(d, t))

(* Then it is as good. *)
LEMMA ViewClears ==
  ASSUME NEW d, NEW e, NEW w, View(d, e, w)
  PROVE  Clears(d, e, w)
<1>1. TilesOf(e, w) = TilesOf(d, w) /\ TilesOf(d, w) \subseteq Tiles(d, w)
  BY DEF View, TilesOf, Tiles
<1>2. TilesOf(e, w) \cap e.enabled = TilesOf(d, w) \cap d.enabled
  BY <1>1 DEF View
<1>3. Open(d, w) => Open(e, w)
  BY DEF Open, View
<1>4. Stacked(d, w) => Stacked(e, w)
  BY <1>1, <1>2 DEF Stacked, View
<1> QED BY <1>3, <1>4 DEF Clears

(* What is alike has the same lists, tiles and covers. *)
LEMMA AlikeSees ==
  ASSUME NEW d, NEW e, Alike(d, e)
  PROVE  /\ \A w \in Workspace :
              /\ Tiles(e, w) = Tiles(d, w) /\ Floats(e, w) = Floats(d, w)
              /\ TilesOf(e, w) = TilesOf(d, w) /\ LeavesOf(e, w) = LeavesOf(d, w)
              /\ Bare(e, w) <=> Bare(d, w)
              /\ Listed(e, w) = Listed(d, w)
         /\ \A t : Tiled(e, t) <=> Tiled(d, t)
         /\ Floaters(d) => Floaters(e)
<1>1. \A t : Tiled(e, t) <=> Tiled(d, t)
  BY DEF Alike, Tiled
<1>2. \A w \in Workspace :
        /\ Tiles(e, w) = Tiles(d, w) /\ Floats(e, w) = Floats(d, w)
        /\ LeavesOf(e, w) = LeavesOf(d, w)
        /\ Bare(e, w) <=> Bare(d, w)
        /\ Listed(e, w) = Listed(d, w)
  BY DEF Alike, Tiles, Floats, LeavesOf, Bare, Listed
<1>3. \A w \in Workspace : TilesOf(e, w) = TilesOf(d, w)
  BY <1>1, <1>2 DEF TilesOf, Tiles
<1>4. Floaters(d) => Floaters(e)
  BY <1>2 DEF Floaters, Alike
<1> QED BY <1>1, <1>2, <1>3, <1>4

(* Only windows of w are shown or hidden, and only w is stacked or not.    *)
Local(d, e, w) ==
  /\ Alike(d, e)
  /\ \A v \in Workspace \ {w} : v \in e.monocle <=> v \in d.monocle
  /\ \A t \in Window : d.workspace[t] # w => (t \in e.enabled <=> t \in d.enabled)

(* It composes. *)
LEMMA LocalTrans ==
  ASSUME NEW d, NEW e, NEW f, NEW w, Local(d, e, w), Local(e, f, w)
  PROVE  Local(d, f, w)
<1>1. Alike(d, f) /\ e.workspace = d.workspace
  BY AlikeTrans DEF Local, Alike
<1> QED BY <1>1 DEF Local

(* No step is one. *)
LEMMA LocalSelf ==
  ASSUME NEW d \in Desk, NEW w
  PROVE  Local(d, d, w)
BY AlikeSelf DEF Local

(* The others do not notice. *)
LEMMA LocalAside ==
  ASSUME NEW d \in Desk, NEW L, Lists(d, L), NEW e, NEW w, Local(d, e, w)
  PROVE  Aside(d, e, w)
<1> SUFFICES ASSUME NEW v \in Workspace \ {w} PROVE Clears(d, e, v)
  BY DEF Aside
<1>1. \A t \in Tiles(d, v) \cup Floats(d, v) : t \in Window /\ d.workspace[t] = v
  <2>1. Tiles(d, v) \cup Floats(d, v) = {t \in L : d.workspace[t] = v}
    BY DEF Lists, Listed, Tiles, Floats
  <2>2. Tiles(d, v) \cup Floats(d, v) \subseteq Window
    BY ListedIn DEF Tiles, Floats
  <2> QED BY <2>1, <2>2
<1>2. Alike(d, e)
  BY DEF Local
<1>3. View(d, e, v)
  BY <1>1, <1>2, AlikeSees DEF View, Local
<1> QED BY <1>3, ViewClears

(* The floating list holds the rest. *)
LEMMA ListsFloats ==
  ASSUME NEW d, NEW L, Lists(d, L), NEW w \in Workspace
  PROVE  Floats(d, w) = {t \in L : d.workspace[t] = w} \ Tiles(d, w)
<1>1. Listed(d, w) = {t \in L : d.workspace[t] = w}
  BY DEF Lists
<1>2. Tiles(d, w) \cap Floats(d, w) = {} /\ Listed(d, w) = Tiles(d, w) \cup Floats(d, w)
  BY DEF Lists, Tiles, Floats, Listed
<1> QED BY <1>1, <1>2

----------------------------------------------------------------------------
(* Showing and hiding. *)

(* What the two do. *)
LEMMA EnableIs ==
  ASSUME NEW d \in Desk, NEW S \in SUBSET Window
  PROVE  /\ Enable(d, S).enabled = d.enabled \cup S
         /\ Disable(d, S).enabled = d.enabled \ S
         /\ Enable(d, S).monocle = d.monocle /\ Disable(d, S).monocle = d.monocle
         /\ Alike(d, Enable(d, S)) /\ Alike(d, Disable(d, S))
<1>1. Alike(d, Enable(d, S)) /\ Alike(d, Disable(d, S))
  BY EnableAlike
<1> QED BY <1>1 DEF Enable, Disable, Desk

(* Windows of w are shown or hidden. *)
LEMMA EnableLocal ==
  ASSUME NEW d \in Desk, NEW w, NEW S \in SUBSET Window, \A t \in S : d.workspace[t] = w
  PROVE  Local(d, Enable(d, S), w) /\ Local(d, Disable(d, S), w)
BY EnableIs DEF Local

(* A tile is found whenever there is one. *)
LEMMA ActiveIsTile ==
  ASSUME NEW d, NEW O, Good(d, O), Floaters(d), NEW w \in Workspace, TilesOf(d, w) # {}
  PROVE  ActiveTiled(d, w) \in TilesOf(d, w) /\ ActiveTiled(d, w) # NULL
<1> DEFINE S == Window \cup {NULL}
           p == <<d.focused[w], d.lastFocused[w]>>
           s == d.toplevels[w]
           q == p \o s
           V == {t \in Window : Tiled(d, t)}
           a == FirstIn(q, V)
<1>1. d \in Desk /\ Windows(d) /\ Pointers(d)
  BY DEF Good
<1>2. d.focused[w] \in S /\ d.lastFocused[w] \in S /\ s \in Seq(S)
  BY <1>1 DEF Desk
<1>3. p \in Seq(S) /\ ToSet(p) = {d.focused[w], d.lastFocused[w]}
  <2>1. p = <<d.focused[w], d.lastFocused[w]>>
    OBVIOUS
  <2> HIDE DEF p, S
  <2> QED BY <1>2, <2>1, MembersOfPair
<1>4. ToSet(s) \subseteq Window
  BY <1>1, ListedIn
<1>5. ActiveTiled(d, w) = a
  BY DEF ActiveTiled
<1>6. TilesOf(d, w) = ToSet(s) \cap V
  BY <1>4 DEF TilesOf
<1> HIDE DEF p, S, s
<1>7. q \in Seq(S) /\ ToSet(q) = ToSet(p) \cup ToSet(s)
  BY <1>2, <1>3, MembersConcat
<1> HIDE DEF q, V
<1>8. \/ a = NULL /\ ToSet(q) \cap V = {}
      \/ a \in ToSet(q) \cap V
  BY <1>7, FirstInIs
<1>9. a \in ToSet(q) \cap V /\ a # NULL
  <2>1. ToSet(q) \cap V # {}
    BY <1>6, <1>7
  <2>2. a \in ToSet(q) \cap V
    BY <1>8, <2>1
  <2> QED BY <2>2, NullsAssumption DEF V
<1>10. a \in ToSet(s) \/ a \in Here(d, w)
  <2>1. d.focused[w] \in Here(d, w) \cup {NULL} /\ d.lastFocused[w] \in Here(d, w) \cup {NULL}
    BY <1>1 DEF Pointers
  <2> QED BY <1>3, <1>7, <1>9, <2>1
<1>11. a \in Here(d, w) => a \in ToSet(s)
  <2> SUFFICES ASSUME a \in Here(d, w) PROVE a \in ToSet(s)
    OBVIOUS
  <2>1. Tiled(d, a)
    BY <1>9 DEF V
  <2>2. a \in Placed(d) /\ d.workspace[a] = w
    BY <2>1 DEF Here, Placed, Tiled
  <2>3. a \in Listed(d, w)
    BY <1>1, <2>2 DEF Windows, Lists
  <2>4. a \notin Floats(d, w)
    BY <2>1 DEF Floaters, Tiled
  <2> QED BY <2>3, <2>4 DEF Listed, Floats, s
<1> QED BY <1>5, <1>6, <1>9, <1>10, <1>11

(* What bsp_arrange shows and hides. *)
LEMMA ArrangeIs ==
  ASSUME NEW d \in Desk, NEW w \in Workspace
  PROVE  /\ Arrange(d, w).monocle = d.monocle
         /\ d.output[w] = NULL => Arrange(d, w) = d
         /\ d.output[w] # NULL /\ w \in d.monocle /\ LeavesOf(d, w) # {} =>
              Arrange(d, w).enabled = (d.enabled \ TilesOf(d, w))
                                        \cup ({ActiveTiled(d, w)} \ {NULL}) \cup Floats(d, w)
         /\ d.output[w] # NULL /\ ~ (w \in d.monocle /\ LeavesOf(d, w) # {}) =>
              Arrange(d, w).enabled = d.enabled \cup Floats(d, w)
<1> DEFINE T == TilesOf(d, w)
           A == ({ActiveTiled(d, w)} \ {NULL}) \cup Floats(d, w)
           h == Disable(d, T)
           e == Enable(h, A)
           f == Enable(d, Floats(d, w))
<1>1. T \in SUBSET Window /\ A \in SUBSET Window /\ Floats(d, w) \in SUBSET Window
  BY TilesIn, ListedIn, ActiveTiledIs DEF Floats
<1>2. Arrange(d, w) = IF d.output[w] = NULL THEN d
                      ELSE IF w \in d.monocle /\ LeavesOf(d, w) # {} THEN e ELSE f
  BY DEF Arrange, Floats
<1> HIDE DEF T, A
<1>3. h.enabled = d.enabled \ T /\ h.monocle = d.monocle /\ h \in Desk
  BY <1>1, EnableIs DEF Alike
<1>4. f.enabled = d.enabled \cup Floats(d, w) /\ f.monocle = d.monocle
  BY <1>1, EnableIs
<1> HIDE DEF h, f
<1>5. e.enabled = (d.enabled \ T) \cup A /\ e.monocle = d.monocle
  BY <1>1, <1>3, EnableIs
<1> HIDE DEF e
<1> QED BY <1>2, <1>4, <1>5 DEF T, A

(* That window is one of the workspace's. *)
LEMMA ActiveHere ==
  ASSUME NEW d, NEW O, Good(d, O), NEW w \in Workspace
  PROVE  ActiveTiled(d, w) \in Here(d, w) \cup {NULL}
<1> DEFINE S == Window \cup {NULL}
           p == <<d.focused[w], d.lastFocused[w]>>
           s == d.toplevels[w]
           q == p \o s
           V == {t \in Window : Tiled(d, t)}
<1>1. d \in Desk /\ Windows(d) /\ Pointers(d)
  BY DEF Good
<1>2. d.focused[w] \in S /\ d.lastFocused[w] \in S /\ s \in Seq(S)
  BY <1>1 DEF Desk
<1>3. p \in Seq(S) /\ ToSet(p) = {d.focused[w], d.lastFocused[w]}
  <2>1. \A x, y \in S : <<x, y>> \in Seq(S) /\ ToSet(<<x, y>>) = {x, y}
    <3> HIDE DEF S
    <3> QED BY MembersOne
  <2> QED BY <1>2, <2>1
<1>4. ActiveTiled(d, w) = FirstIn(q, V)
  BY DEF ActiveTiled
<1>5. ToSet(s) \subseteq Here(d, w)
  BY <1>1, ListedHere DEF Listed
<1> HIDE DEF p, S, s
<1>6. q \in Seq(S) /\ ToSet(q) = ToSet(p) \cup ToSet(s)
  BY <1>2, <1>3, MembersConcat
<1> HIDE DEF q, V
<1>7. FirstIn(q, V) \in ToSet(q) \cup {NULL}
  BY <1>6, FirstInIs
<1>8. d.focused[w] \in Here(d, w) \cup {NULL} /\ d.lastFocused[w] \in Here(d, w) \cup {NULL}
  BY <1>1 DEF Pointers
<1> QED BY <1>3, <1>4, <1>5, <1>6, <1>7, <1>8

(* Every tile has its leaf. *)
Leafy(d, w) == TilesOf(d, w) \subseteq LeavesOf(d, w)

LEMMA SortedLeafy ==
  ASSUME NEW d, NEW t, Rough(d, t), NEW w \in Workspace
  PROVE  Leafy(d, w)
BY DEF Rough, Sorted, Leafy, TilesOf, Tiles, Tiled

(* Its tiles are visible where nothing hides them. *)
Spread(d, w) == Bare(d, w) /\ w \notin d.monocle => Tiles(d, w) \ XWayland \subseteq d.enabled

(* What a workspace lists, it has; only the rest floats. *)
LEMMA HasListed ==
  ASSUME NEW d, NEW O, Good(d, O), Floaters(d), NEW w \in Workspace
  PROVE  /\ TilesOf(d, w) \subseteq Tiles(d, w)
         /\ Tiles(d, w) \cup Floats(d, w) = {t \in Placed(d) : d.workspace[t] = w}
         /\ Tiles(d, w) \cap Floats(d, w) = {} /\ TilesOf(d, w) \cap Floats(d, w) = {}
         /\ Tiles(d, w) \cup Floats(d, w) \subseteq Window
<1>1. d \in Desk /\ Lists(d, Placed(d))
  BY DEF Good, Windows
<1>2. Tiles(d, w) \cup Floats(d, w) \subseteq Window
  BY <1>1, ListedIn DEF Tiles, Floats
<1>3. Tiles(d, w) \cup Floats(d, w) = {t \in Placed(d) : d.workspace[t] = w}
  BY <1>1 DEF Lists, Listed, Tiles, Floats
<1>4. Tiles(d, w) \cap Floats(d, w) = {}
  BY <1>1 DEF Lists, Tiles, Floats
<1>5. TilesOf(d, w) \subseteq Tiles(d, w)
  BY DEF TilesOf, Tiles
<1> QED BY <1>2, <1>3, <1>4, <1>5

(* The layout shows the floating windows and stacks the tiles. *)
LEMMA ArrangeSees ==
  ASSUME NEW d, NEW O, Good(d, O), Floaters(d), NEW w \in Workspace, Leafy(d, w)
  PROVE  /\ Local(d, Arrange(d, w), w) /\ Floaters(Arrange(d, w))
         /\ Spread(d, w) => Open(Arrange(d, w), w)
         /\ Stacked(Arrange(d, w), w)
<1> DEFINE e == Arrange(d, w)
           a == ActiveTiled(d, w)
           F == Floats(d, w)
           T == TilesOf(d, w)
<1>1. d \in Desk /\ Alike(d, e)
  BY ArrangeAlike DEF Good
<1>2. /\ e.monocle = d.monocle
      /\ d.output[w] = NULL => e = d
      /\ d.output[w] # NULL /\ w \in d.monocle /\ LeavesOf(d, w) # {} =>
           e.enabled = (d.enabled \ T) \cup ({a} \ {NULL}) \cup F
      /\ d.output[w] # NULL /\ ~ (w \in d.monocle /\ LeavesOf(d, w) # {}) =>
           e.enabled = d.enabled \cup F
  BY <1>1, ArrangeIs
<1>3. /\ T \subseteq Tiles(d, w)
      /\ Tiles(d, w) \cup F = {t \in Placed(d) : d.workspace[t] = w}
      /\ T \cap F = {}
  BY HasListed
<1>4. a \in Here(d, w) \cup {NULL}
  BY ActiveHere
<1>5. T # {} => a \in T /\ a # NULL
  BY ActiveIsTile
<1>6. /\ Tiles(e, w) = Tiles(d, w) /\ Floats(e, w) = F /\ TilesOf(e, w) = T
      /\ Bare(e, w) <=> Bare(d, w)
      /\ Floaters(e)
  BY <1>1, AlikeSees
<1> HIDE DEF e, a, F, T
<1>7. Local(d, e, w)
  <2>1. \A t \in Tiles(d, w) \cup F : d.workspace[t] = w
    BY <1>3
  <2>2. a # NULL => d.workspace[a] = w
    BY <1>4 DEF Here
  <2>3. \A t \in Window : d.workspace[t] # w => (t \in e.enabled <=> t \in d.enabled)
    BY <1>2, <1>3, <2>1, <2>2
  <2> QED BY <1>1, <1>2, <2>3 DEF Local
<1>8. ASSUME Spread(d, w) PROVE Open(e, w)
  <2> SUFFICES ASSUME Bare(e, w)
               PROVE  /\ F \ XWayland \subseteq e.enabled
                      /\ w \notin e.monocle => Tiles(d, w) \ XWayland \subseteq e.enabled
    BY <1>6 DEF Open
  <2>1. Bare(d, w) /\ d.output[w] # NULL
    BY <1>6 DEF Bare
  <2>2. F \subseteq e.enabled
    BY <1>2, <2>1
  <2>3. w \notin e.monocle => Tiles(d, w) \ XWayland \subseteq d.enabled /\ d.enabled \subseteq e.enabled
    BY <1>2, <1>8, <2>1 DEF Spread
  <2> QED BY <2>2, <2>3
<1>9. Stacked(e, w)
  <2> SUFFICES ASSUME Bare(e, w), w \in e.monocle, T # {}
               PROVE  \E t \in Window : T \cap e.enabled = {t}
    BY <1>6 DEF Stacked
  <2>1. d.output[w] # NULL
    BY <1>6 DEF Bare
  <2>2. LeavesOf(d, w) # {}
    BY DEF Leafy, T
  <2>3. e.enabled = (d.enabled \ T) \cup {a} \cup F
    BY <1>2, <1>5, <2>1, <2>2
  <2>4. T \cap e.enabled = {a}
    BY <1>3, <1>5, <2>3
  <2>5. a \in Window
    BY <1>1, <1>5, TilesIn DEF T
  <2> QED BY <2>4, <2>5
<1> QED BY <1>6, <1>7, <1>8, <1>9 DEF e

(* So it is where there is a tree only; else there is no tile to stack. *)
LEMMA ArrangeTreeSees ==
  ASSUME NEW d, NEW O, Good(d, O), Floaters(d), NEW w \in Workspace, Leafy(d, w)
  PROVE  /\ Local(d, ArrangeIfTree(d, w), w) /\ Floaters(ArrangeIfTree(d, w))
         /\ Open(d, w) => Open(ArrangeIfTree(d, w), w)
         /\ Stacked(ArrangeIfTree(d, w), w)
<1>1. ArrangeIfTree(d, w) = IF LeavesOf(d, w) = {} THEN d ELSE Arrange(d, w)
  BY DEF ArrangeIfTree
<1>2. CASE LeavesOf(d, w) = {}
  <2>1. Stacked(d, w)
    BY <1>2 DEF Stacked, Leafy
  <2>2. Local(d, d, w)
    BY LocalSelf DEF Good
  <2> QED BY <1>1, <1>2, <2>1, <2>2
<1>3. CASE LeavesOf(d, w) # {}
  <2>1. Open(d, w) => Spread(d, w)
    BY DEF Open, Spread
  <2> QED BY <1>1, <1>3, <2>1, ArrangeSees
<1> QED BY <1>2, <1>3

(* Monocle switched off, and everything it hid shown again. *)
Off(d, w, S) == Enable(ArrangeIfTree([d EXCEPT !.monocle = @ \ {w}], w), S)

LEMMA OffSees ==
  ASSUME NEW d \in Desk, NEW L, Lists(d, L), Floaters(d), NEW w \in Workspace, Sorted(d, {}),
         NEW S \in SUBSET Window, LeavesOf(d, w) \subseteq S,
         \A t \in S : d.workspace[t] = w
  PROVE  /\ Local(d, Off(d, w, S), w) /\ Floaters(Off(d, w, S))
         /\ Spread(Off(d, w, S), w) /\ Stacked(Off(d, w, S), w)
         /\ (Bare(d, w) => Floats(d, w) \ XWayland \subseteq d.enabled \cup S)
              => Open(Off(d, w, S), w)
<1> DEFINE f == [d EXCEPT !.monocle = @ \ {w}]
           g == ArrangeIfTree(f, w)
           e == Enable(g, S)
<1>1. d \in Desk /\ Alike(d, f)
  BY MonocleAlike
<1>2. f.monocle = d.monocle \ {w} /\ f.enabled = d.enabled
  BY <1>1 DEF Desk
<1>3. e = Off(d, w, S)
  BY DEF Off
<1> HIDE DEF f
<1>4. f \in Desk /\ f.workspace = d.workspace
  BY <1>1 DEF Alike
<1>5. g = f \/ g = Arrange(f, w)
  BY DEF ArrangeIfTree
<1>6. Alike(f, g)
  BY <1>4, ArrangeAlike
<1>7. /\ g.monocle = f.monocle /\ f.enabled \subseteq g.enabled
      /\ g.enabled \subseteq f.enabled \cup Floats(f, w)
  <2>1. w \notin f.monocle
    BY <1>2
  <2>2. /\ Arrange(f, w).monocle = f.monocle /\ f.enabled \subseteq Arrange(f, w).enabled
        /\ Arrange(f, w).enabled \subseteq f.enabled \cup Floats(f, w)
    BY <1>4, <2>1, ArrangeIs
  <2> QED BY <1>5, <2>2
<1>8. Local(f, g, w)
  <2>1. Floats(f, w) = Floats(d, w)
    BY <1>1, AlikeSees
  <2>2. \A t \in Floats(f, w) : d.workspace[t] = w
    BY <2>1, ListsFloats
  <2> QED BY <1>4, <1>6, <1>7, <2>2 DEF Local
<1> HIDE DEF g
<1>9. g \in Desk /\ g.workspace = f.workspace
  BY <1>6 DEF Alike
<1>10. e.enabled = g.enabled \cup S /\ e.monocle = g.monocle /\ Local(g, e, w)
  BY <1>4, <1>9, EnableIs, EnableLocal
<1> HIDE DEF e
<1>11. Local(d, f, w)
  BY <1>1, <1>2 DEF Local
<1>12. Local(d, e, w) /\ Alike(d, e)
  <2>1. Local(d, g, w)
    BY <1>8, <1>11, LocalTrans
  <2>2. Local(d, e, w)
    BY <1>10, <2>1, LocalTrans
  <2> QED BY <2>2 DEF Local
<1>13. /\ Tiles(e, w) = Tiles(d, w) /\ Floats(e, w) = Floats(d, w)
       /\ Bare(e, w) <=> Bare(d, w)
       /\ Floaters(e)
  BY <1>12, AlikeSees
<1>14. w \notin e.monocle /\ d.enabled \cup S \subseteq e.enabled
  BY <1>2, <1>7, <1>10
<1>15. Tiles(d, w) \subseteq S
  BY DEF Sorted
<1>16. Spread(e, w) /\ Stacked(e, w)
  BY <1>13, <1>14, <1>15 DEF Spread, Stacked
<1>17. (Bare(d, w) => Floats(d, w) \ XWayland \subseteq d.enabled \cup S) => Open(e, w)
  BY <1>13, <1>14, <1>15 DEF Open
<1> QED BY <1>3, <1>12, <1>13, <1>16, <1>17

(* So ends monocle when nothing is left to stack. *)
LEMMA ExitMonocleSees ==
  ASSUME NEW d \in Desk, NEW L, Lists(d, L), Floaters(d), NEW w \in Workspace, Sorted(d, {})
  PROVE  /\ Local(d, ExitMonocleIfEmpty(d, w), w) /\ Floaters(ExitMonocleIfEmpty(d, w))
         /\ Spread(d, w) => Spread(ExitMonocleIfEmpty(d, w), w)
         /\ Open(d, w) => Open(ExitMonocleIfEmpty(d, w), w)
<1> DEFINE S == LeavesOf(d, w)
<1>1. d \in Desk
  OBVIOUS
<1>2. S \in SUBSET Window /\ \A t \in S : d.workspace[t] = w
  BY <1>1, TilesIn DEF LeavesOf
<1>3. \/ ExitMonocleIfEmpty(d, w) = d
      \/ ExitMonocleIfEmpty(d, w) = Off(d, w, S)
  BY DEF ExitMonocleIfEmpty, Off
<1>4. Local(d, d, w)
  BY <1>1, LocalSelf
<1>5. Open(d, w) => (Bare(d, w) => Floats(d, w) \ XWayland \subseteq d.enabled \cup S)
  BY DEF Open
<1> HIDE DEF S
<1>6. LeavesOf(d, w) \subseteq S
  BY DEF S
<1>7. /\ Local(d, Off(d, w, S), w) /\ Floaters(Off(d, w, S)) /\ Spread(Off(d, w, S), w)
      /\ Open(d, w) => Open(Off(d, w, S), w)
  BY <1>2, <1>5, <1>6, OffSees
<1> QED BY <1>3, <1>4, <1>7

----------------------------------------------------------------------------
(* Lists and what floats. *)

(* What the lists hold when a link is moved. *)
LEMMA RelistIs ==
  ASSUME NEW d \in Desk, NEW L, Lists(d, L), NEW t \in Window,
         d.workspace[t] \in Workspace, NEW w \in Workspace
  PROVE  /\ Tiles(Unlink(d, t), w) = Tiles(d, w) \ {t}
         /\ Floats(Unlink(d, t), w) = Floats(d, w) \ {t}
         /\ Tiles(LinkFloating(Unlink(d, t), t), w) = Tiles(d, w) \ {t}
         /\ Floats(LinkFloating(Unlink(d, t), t), w)
              = IF w = d.workspace[t] THEN Floats(d, w) \cup {t} ELSE Floats(d, w) \ {t}
         /\ Tiles(LinkTiled(Unlink(d, t), t), w)
              = IF w = d.workspace[t] THEN Tiles(d, w) \cup {t} ELSE Tiles(d, w) \ {t}
         /\ Floats(LinkTiled(Unlink(d, t), t), w) = Floats(d, w) \ {t}
<1> DEFINE u == Unlink(d, t)
           f == LinkFloating(u, t)
           g == LinkTiled(u, t)
           v == d.workspace[t]
<1>1. Relinked(d, u) /\ Lists(u, L \ {t}) /\ Tiles(u, w) = Tiles(d, w) \ {t}
  BY UnlinkLists, UnlinkTiles
<1>2. /\ Relinked(d, f) /\ Lists(f, L \cup {t})
      /\ Relinked(d, g) /\ Lists(g, L \cup {t})
  BY RelistLists
<1> HIDE DEF u
<1>3. u \in Desk /\ u.workspace = d.workspace
  BY <1>1 DEF Relinked
<1>4. /\ Tiles(f, w) = Tiles(u, w)
      /\ w # v => Tiles(g, w) = Tiles(u, w)
      /\ w = v => Tiles(g, w) = Tiles(u, w) \cup {t}
  BY <1>3, LinkTiles
<1> HIDE DEF f, g, v
<1>5. f.workspace = d.workspace /\ g.workspace = d.workspace
  BY <1>2 DEF Relinked
<1>6. /\ Floats(d, w) = {x \in L : d.workspace[x] = w} \ Tiles(d, w)
      /\ Floats(u, w) = {x \in L \ {t} : d.workspace[x] = w} \ Tiles(u, w)
      /\ Floats(f, w) = {x \in L \cup {t} : d.workspace[x] = w} \ Tiles(f, w)
      /\ Floats(g, w) = {x \in L \cup {t} : d.workspace[x] = w} \ Tiles(g, w)
  BY <1>1, <1>2, <1>3, <1>5, ListsFloats
<1>7. d.workspace[t] = v
  BY DEF v
<1>8. Floats(u, w) = Floats(d, w) \ {t}
  BY <1>1, <1>6
<1>9. Floats(f, w) = IF w = v THEN Floats(d, w) \cup {t} ELSE Floats(d, w) \ {t}
  <2>1. Tiles(f, w) = Tiles(d, w) \ {t}
    BY <1>1, <1>4
  <2>2. CASE w = v
    BY <1>6, <1>7, <2>1, <2>2
  <2>3. CASE w # v
    BY <1>6, <1>7, <2>1, <2>3
  <2> QED BY <2>2, <2>3
<1>10. Tiles(d, w) \subseteq {x \in L : d.workspace[x] = w}
  BY DEF Lists, Listed, Tiles
<1>11. Floats(g, w) = Floats(d, w) \ {t}
  <2>1. CASE w = v
    BY <1>1, <1>4, <1>6, <1>7, <2>1
  <2>2. CASE w # v
    BY <1>1, <1>4, <1>6, <1>7, <2>2
  <2> QED BY <2>1, <2>2
<1>12. Tiles(g, w) = IF w = v THEN Tiles(d, w) \cup {t} ELSE Tiles(d, w) \ {t}
  BY <1>1, <1>4
<1> QED BY <1>1, <1>4, <1>8, <1>9, <1>11, <1>12 DEF u, f, g, v

----------------------------------------------------------------------------
(* Focus. *)

(* The stack of a workspace shows its active tile. *)
LEMMA RestackSees ==
  ASSUME NEW d, NEW O, Good(d, O), Floaters(d), NEW w \in Workspace
  PROVE  /\ Local(d, Restack(d, w), w) /\ Floaters(Restack(d, w))
         /\ Clears(d, Restack(d, w), w)
<1> DEFINE a == ActiveTiled(d, w)
           T == TilesOf(d, w)
           F == Floats(d, w)
           H == T \ {a}
           A == (T \cap {a}) \cup F
           h == Disable(d, H)
           e == Restack(d, w)
<1>1. d \in Desk /\ Alike(d, e)
  BY RestackAlike DEF Good
<1>2. /\ T \subseteq Tiles(d, w) /\ T \cap F = {}
      /\ \A t \in Tiles(d, w) \cup F : d.workspace[t] = w
      /\ Tiles(d, w) \cup F \subseteq Window
  BY HasListed
<1>3. T # {} => a \in T
  BY ActiveIsTile
<1>4. e = IF w \in d.monocle THEN Enable(h, A) ELSE d
  BY DEF Restack, Floats
<1>5. /\ Tiles(e, w) = Tiles(d, w) /\ Floats(e, w) = F /\ TilesOf(e, w) = T
      /\ Bare(e, w) <=> Bare(d, w)
      /\ Floaters(e)
  BY <1>1, AlikeSees
<1> HIDE DEF e, a, T, F
<1>6. H \in SUBSET Window /\ A \in SUBSET Window
  BY <1>2
<1>7. h.enabled = d.enabled \ H /\ h.monocle = d.monocle /\ Alike(d, h)
  BY <1>1, <1>6, EnableIs
<1> HIDE DEF h
<1>8. h \in Desk
  BY <1>7 DEF Alike
<1>9. w \in d.monocle => e.enabled = (d.enabled \ H) \cup A /\ e.monocle = d.monocle
  BY <1>4, <1>6, <1>7, <1>8, EnableIs
<1>10. Local(d, e, w)
  <2>1. \A t \in H \cup A : d.workspace[t] = w
    BY <1>2
  <2>2. e.monocle = d.monocle
    BY <1>4, <1>9
  <2>3. \A t \in Window : d.workspace[t] # w => (t \in e.enabled <=> t \in d.enabled)
    BY <1>4, <1>9, <2>1
  <2> QED BY <1>1, <2>2, <2>3 DEF Local
<1>11. ASSUME w \notin d.monocle PROVE Clears(d, e, w)
  <2>1. e = d
    BY <1>4, <1>11
  <2> QED BY <2>1 DEF Clears
<1>12. ASSUME w \in d.monocle PROVE Clears(d, e, w)
  <2>1. Open(e, w)
    BY <1>5, <1>9, <1>12 DEF Open
  <2>2. Stacked(e, w)
    <3> SUFFICES ASSUME T # {} PROVE \E t \in Window : T \cap e.enabled = {t}
      BY <1>5 DEF Stacked
    <3>1. T \cap e.enabled = {a} /\ a \in Window
      BY <1>2, <1>3, <1>9, <1>12
    <3> QED BY <3>1
  <2> QED BY <2>1, <2>2 DEF Clears
<1> QED BY <1>5, <1>10, <1>11, <1>12 DEF e

(* A floating window comes to the front of its list. *)
LEMMA RaiseSees ==
  ASSUME NEW d, NEW O, Good(d, O), Floaters(d), NEW t \in d.mapped,
         t \in d.floating => t \in d.enabled \cup XWayland \cup Floats(d, d.workspace[t])
  PROVE  /\ \A w \in Workspace : Clears(d, raise_floating(d, t), w)
         /\ Floaters(raise_floating(d, t))
<1> DEFINE e == LinkFloating(Unlink(d, t), t)
           v == d.workspace[t]
<1>1. raise_floating(d, t) = IF t \in d.floating THEN e ELSE d
  BY DEF raise_floating
<1>2. CASE t \notin d.floating
  BY <1>1, <1>2 DEF Clears
<1>3. CASE t \in d.floating
  <2>1. d \in Desk /\ Lists(d, Placed(d)) /\ t \in Window /\ v \in Workspace
    BY DEF Good, Windows, Desk
  <2>2. Relinked(d, e)
    BY <2>1, RelistLists
  <2>3. \A w \in Workspace :
          /\ Tiles(e, w) = Tiles(d, w) \ {t}
          /\ Floats(e, w) = IF w = v THEN Floats(d, w) \cup {t} ELSE Floats(d, w) \ {t}
    BY <2>1, RelistIs
  <2> HIDE DEF e
  <2>4. /\ e.enabled = d.enabled /\ e.monocle = d.monocle
        /\ e.floating = d.floating /\ e.fullscreen = d.fullscreen
        /\ e.output = d.output /\ e.fullscreenWindow = d.fullscreenWindow
    BY <2>2 DEF Relinked
  <2>5. \A w \in Workspace : Bare(e, w) <=> Bare(d, w)
    BY <2>4 DEF Bare
  <2>6. \A w \in Workspace : TilesOf(e, w) = TilesOf(d, w)
    <3> SUFFICES ASSUME NEW w \in Workspace PROVE TilesOf(e, w) = TilesOf(d, w)
      OBVIOUS
    <3>1. \A x : Tiled(e, x) <=> Tiled(d, x)
      BY <2>4 DEF Tiled
    <3>2. ~ Tiled(d, t)
      BY <1>3 DEF Tiled
    <3>3. TilesOf(e, w) = {x \in Tiles(e, w) : Tiled(e, x)}
          /\ TilesOf(d, w) = {x \in Tiles(d, w) : Tiled(d, x)}
      BY DEF TilesOf, Tiles
    <3> QED BY <2>3, <3>1, <3>2, <3>3
  <2>7. Floaters(e)
    BY <1>3, <2>3, <2>4 DEF Floaters
  <2>8. \A w \in Workspace : Stacked(d, w) => Stacked(e, w)
    BY <2>4, <2>5, <2>6 DEF Stacked
  <2>9. \A w \in Workspace : Open(d, w) => Open(e, w)
    <3> SUFFICES ASSUME NEW w \in Workspace, Open(d, w), Bare(e, w)
                 PROVE  /\ Floats(e, w) \ XWayland \subseteq e.enabled
                        /\ w \notin e.monocle => Tiles(e, w) \ XWayland \subseteq e.enabled
      BY DEF Open
    <3>1. /\ Floats(d, w) \ XWayland \subseteq d.enabled
          /\ w \notin d.monocle => Tiles(d, w) \ XWayland \subseteq d.enabled
      BY <2>5 DEF Open
    <3>2. w = v => Floats(e, w) \ XWayland \subseteq d.enabled
      BY <1>3, <2>3, <3>1
    <3> QED BY <2>3, <2>4, <3>1, <3>2
  <2> QED BY <1>1, <1>3, <2>7, <2>8, <2>9 DEF Clears, e
<1> QED BY <1>2, <1>3

(* e looks as d does, whoever has the focus. *)
LEMMA LooksAlike ==
  ASSUME NEW d, NEW e, e.toplevels = d.toplevels, e.floats = d.floats,
         e.floating = d.floating, e.fullscreen = d.fullscreen,
         e.output = d.output, e.fullscreenWindow = d.fullscreenWindow,
         e.enabled = d.enabled, e.monocle = d.monocle
  PROVE  /\ \A w \in Workspace : Clears(d, e, w) /\ Floats(e, w) = Floats(d, w)
         /\ Floaters(d) => Floaters(e)
<1>1. \A w \in Workspace : View(d, e, w)
  BY DEF View, Bare, Tiles, Floats, Tiled
<1>2. \A w \in Workspace : Floats(e, w) = Floats(d, w)
  BY DEF Floats
<1>3. Floaters(d) => Floaters(e)
  BY <1>2 DEF Floaters
<1> QED BY <1>1, <1>2, <1>3, ViewClears

(* From d to e, no workspace loses anything. *)
AllClear(d, e) ==
  /\ \A w \in Workspace : Clears(d, e, w)
  /\ Floaters(d) => Floaters(e)

(* It composes. *)
LEMMA AllClearTrans ==
  ASSUME NEW d, NEW e, NEW f, AllClear(d, e), AllClear(e, f)
  PROVE  AllClear(d, f)
BY DEF AllClear, Clears

(* All is fair while it is. *)
LEMMA AllClearFair ==
  ASSUME NEW d, NEW e, AllClear(d, e), Fair(d)
  PROVE  Fair(e)
BY DEF AllClear, Clears, Fair

(* No step, and nobody's keyboard. *)
LEMMA KeyboardClear ==
  ASSUME NEW d, d \in Desk, NEW k
  PROVE  AllClear(d, Take(d, k)) /\ AllClear(d, d)
<1> DEFINE e == Take(d, k)
<1>1. /\ e.toplevels = d.toplevels /\ e.floats = d.floats
      /\ e.floating = d.floating /\ e.fullscreen = d.fullscreen
      /\ e.output = d.output /\ e.fullscreenWindow = d.fullscreenWindow
      /\ e.enabled = d.enabled /\ e.monocle = d.monocle
  BY DEF Take, Desk
<1> HIDE DEF e
<1>2. AllClear(d, e)
  BY <1>1, LooksAlike DEF AllClear
<1>3. AllClear(d, d)
  BY DEF AllClear, Clears
<1> QED BY <1>2, <1>3 DEF e

(* A local change that is good for w is good for all. *)
LEMMA LocalClear ==
  ASSUME NEW d, NEW O, Good(d, O), NEW e, NEW w \in Workspace, Local(d, e, w),
         Clears(d, e, w)
  PROVE  AllClear(d, e)
<1>1. d \in Desk /\ Lists(d, Placed(d)) /\ Alike(d, e)
  BY DEF Good, Windows, Local
<1>2. Aside(d, e, w)
  BY <1>1, LocalAside
<1>3. Floaters(d) => Floaters(e)
  BY <1>1, AlikeSees
<1> QED BY <1>2, <1>3 DEF AllClear, Aside

(* A window that gets the focus is raised where it can be seen. *)
LEMMA FocusSees ==
  ASSUME NEW d, NEW O, Good(d, O), Floaters(d), NEW t \in d.mapped,
         t \in d.floating => t \in d.enabled \cup XWayland \cup Floats(d, d.workspace[t])
  PROVE  AllClear(d, focus_toplevel(d, t))
<1> DEFINE v == d.workspace[t]
           a == Aim(d, t)
           r == Restack(a, v)
           f == raise_floating(r, t)
           e == Take(f, t)
<1>1. focus_toplevel(d, t) = IF d.keyboard = t THEN d ELSE e
  BY FocusIs
<1>2. d \in Desk /\ v \in Workspace
  BY DEF Good, Windows
<1>3. /\ Good(a, O) /\ Refocused(d, a) /\ a.toplevels = d.toplevels /\ a.floats = d.floats
      /\ a.enabled = d.enabled /\ a.monocle = d.monocle
  BY AimGood
<1> HIDE DEF a
<1>4. /\ a.floating = d.floating /\ a.fullscreen = d.fullscreen
      /\ a.output = d.output /\ a.fullscreenWindow = d.fullscreenWindow
      /\ a.mapped = d.mapped /\ a.workspace = d.workspace
  BY <1>3 DEF Refocused
<1>5. AllClear(d, a) /\ Floaters(a) /\ Floats(a, v) = Floats(d, v)
  BY <1>2, <1>3, <1>4, LooksAlike DEF AllClear
<1>6. Local(a, r, v) /\ Floaters(r) /\ Clears(a, r, v)
  BY <1>2, <1>3, <1>5, RestackSees
<1>7. AllClear(a, r) /\ Alike(a, r)
  BY <1>2, <1>3, <1>6, LocalClear DEF Local
<1>8. Good(r, O) /\ r.workspace = d.workspace /\ r.floating = d.floating /\ r.mapped = d.mapped
      /\ Floats(r, v) = Floats(d, v)
  BY <1>2, <1>3, <1>4, <1>5, <1>7, AlikeGood, AlikeSees DEF Alike
<1>9. t \in d.floating => t \in r.enabled \cup XWayland \cup Floats(r, v)
  <2> SUFFICES ASSUME t \in d.floating, t \in d.enabled PROVE t \in r.enabled
    BY <1>8
  <2>1. t \notin TilesOf(a, v)
    BY <1>4 DEF TilesOf, Tiled
  <2>2. t \in a.enabled
    BY <1>3
  <2> DEFINE H == TilesOf(a, v) \ {ActiveTiled(a, v)}
             A == (TilesOf(a, v) \cap {ActiveTiled(a, v)}) \cup ToSet(a.floats[v])
  <2>3. r = IF v \in a.monocle THEN Enable(Disable(a, H), A) ELSE a
    BY DEF Restack
  <2>4. a \in Desk
    BY <1>3 DEF Good
  <2>5. H \in SUBSET Window /\ A \in SUBSET Window /\ t \notin H
    BY <1>2, <2>1, <2>4, TilesIn, ListedIn
  <2> HIDE DEF H, A
  <2>6. Disable(a, H) \in Desk /\ t \in Disable(a, H).enabled
    BY <2>2, <2>4, <2>5, EnableIs DEF Alike
  <2>7. t \in Enable(Disable(a, H), A).enabled
    <3> DEFINE h == Disable(a, H)
    <3>1. h \in Desk /\ t \in h.enabled
      BY <2>6
    <3> HIDE DEF h
    <3>2. Enable(h, A).enabled = h.enabled \cup A
      BY <2>5, <3>1, EnableIs
    <3> QED BY <3>1, <3>2 DEF h
  <2> QED BY <2>2, <2>3, <2>7
<1> HIDE DEF r
<1>10. r.workspace[t] = v /\ t \in r.mapped
  BY <1>8
<1>11. AllClear(r, f)
  BY <1>6, <1>8, <1>9, <1>10, RaiseSees DEF AllClear
<1>12. f \in Desk
  BY <1>8, <1>10, RaiseGood DEF Good
<1> HIDE DEF f
<1>13. AllClear(f, e) /\ AllClear(d, d)
  BY <1>2, <1>12, KeyboardClear
<1> HIDE DEF e
<1>14. AllClear(d, r)
  BY <1>5, <1>7, AllClearTrans
<1>15. AllClear(d, f)
  BY <1>11, <1>14, AllClearTrans
<1>16. AllClear(d, e)
  BY <1>13, <1>15, AllClearTrans
<1> QED BY <1>1, <1>13, <1>16

(* In order, a floating window is in the floating list. *)
LEMMA AloftListed ==
  ASSUME NEW d, NEW O, Good(d, O), Floaters(d), Sorted(d, {}),
         NEW t \in d.mapped, t \in d.floating
  PROVE  t \in Floats(d, d.workspace[t])
<1> DEFINE w == d.workspace[t]
<1>1. w \in Workspace /\ t \in Placed(d)
  BY DEF Good, Windows, Placed
<1>2. t \in Tiles(d, w) \cup Floats(d, w)
  BY <1>1, HasListed
<1>3. t \notin Tiles(d, w)
  BY <1>1 DEF Sorted, LeavesOf
<1> QED BY <1>2, <1>3

(* So to focus any mapped window hides nothing. *)
LEMMA FocusClear ==
  ASSUME NEW d, NEW O, Good(d, O), Floaters(d), Sorted(d, {}), NEW t \in d.mapped
  PROVE  AllClear(d, focus_toplevel(d, t))
<1>1. t \in d.floating => t \in Floats(d, d.workspace[t])
  BY AloftListed
<1> QED BY <1>1, FocusSees

(* Or none. *)
LEMMA FocusIfAnyClear ==
  ASSUME NEW d, NEW O, Good(d, O), Floaters(d), Sorted(d, {}),
         NEW t \in d.mapped \cup {NULL}
  PROVE  AllClear(d, FocusIfAny(d, t))
<1>1. AllClear(d, d)
  BY KeyboardClear DEF Good
<1> QED BY <1>1, FocusClear DEF FocusIfAny

(* Nobody has the keyboard. *)
LEMMA ClearClear ==
  ASSUME NEW d, d \in Desk
  PROVE  AllClear(d, clear_focus(d))
<1>1. clear_focus(d) = Take(d, NULL)
  BY DEF clear_focus, Take
<1> QED BY <1>1, KeyboardClear

(* What a workspace that comes on an output focuses. *)
LEMMA FocusOnClear ==
  ASSUME NEW d, NEW O, Good(d, O), Floaters(d), Sorted(d, {}), NEW w \in Workspace
  PROVE  AllClear(d, FocusOn(d, w))
<1>1. FocusOf(d, w) \in d.mapped \cup {NULL}
  BY FocusOfIs
<1>2. AllClear(d, clear_focus(d))
  BY ClearClear DEF Good
<1> QED BY <1>1, <1>2, FocusClear DEF FocusOn

----------------------------------------------------------------------------
(* Floating, fullscreen and monocle. *)

(* What is good for w and clear for the others is fair. *)
LEMMA AsideFair ==
  ASSUME NEW d, NEW e, NEW w, Fair(d), Aside(d, e, w), Floaters(e), Open(e, w),
         Stacked(e, w)
  PROVE  Fair(e)
BY DEF Fair, Aside, Clears

(* b counts t otherwise than d, and another window may cover t's workspace. *)
Marked(d, b, t) ==
  /\ Relabelled(d, b, t) /\ b.fullscreen \ {t} = d.fullscreen \ {t}
  /\ b.enabled = d.enabled /\ b.monocle = d.monocle /\ b.output = d.output
  /\ \A v \in Workspace : v # d.workspace[t] =>
       b.fullscreenWindow[v] = d.fullscreenWindow[v]

(* t may be linked anew, too; the other workspaces do not notice. *)
LEMMA MarkedAside ==
  ASSUME NEW d \in Desk, NEW L, Lists(d, L), NEW t \in Window, d.workspace[t] \in Workspace,
         NEW b, Marked(d, b, t), NEW e,
         \/ e = b \/ e = Unlink(b, t)
         \/ e = LinkFloating(Unlink(b, t), t) \/ e = LinkTiled(Unlink(b, t), t)
  PROVE  /\ Aside(d, e, d.workspace[t])
         /\ e.enabled = d.enabled /\ e.monocle = d.monocle /\ e.floating = b.floating
         /\ e.leaf = b.leaf /\ e.fullscreen = b.fullscreen
         /\ Bare(e, d.workspace[t]) <=> Bare(b, d.workspace[t])
         /\ Lists(b, L) /\ b \in Desk /\ b.workspace = d.workspace
         /\ \A v \in Workspace : Tiles(b, v) = Tiles(d, v) /\ Floats(b, v) = Floats(d, v)
<1> DEFINE w == d.workspace[t]
<1>1. /\ b \in Desk /\ b.workspace = d.workspace /\ Lists(b, L)
      /\ b.toplevels = d.toplevels /\ b.floats = d.floats
  BY RelabelledSorts DEF Marked, Relabelled, SameFocus
<1>2. e = b \/ Relinked(b, e)
  BY <1>1, RelistLists, UnlinkLists
<1>3. /\ e.enabled = d.enabled /\ e.monocle = d.monocle /\ e.floating = b.floating
      /\ e.leaf = b.leaf /\ e.fullscreen = b.fullscreen
      /\ e.output = d.output /\ e.fullscreenWindow = b.fullscreenWindow
  BY <1>2 DEF Relinked, Marked
<1>4. \A v \in Workspace : Tiles(b, v) = Tiles(d, v) /\ Floats(b, v) = Floats(d, v)
  BY <1>1 DEF Tiles, Floats
<1>5. ASSUME NEW v \in Workspace, v # w
      PROVE  Tiles(e, v) = Tiles(d, v) /\ Floats(e, v) = Floats(d, v)
  <2>1. t \notin Tiles(d, v) /\ t \notin Floats(d, v)
    BY <1>5 DEF Lists, Listed, Tiles, Floats
  <2>2. \/ Tiles(e, v) = Tiles(b, v) /\ Floats(e, v) = Floats(b, v)
        \/ Tiles(e, v) = Tiles(b, v) \ {t} /\ Floats(e, v) = Floats(b, v) \ {t}
    BY <1>1, <1>5, RelistIs
  <2> QED BY <1>4, <2>1, <2>2
<1>6. Aside(d, e, w)
  <2> SUFFICES ASSUME NEW v \in Workspace \ {w} PROVE Clears(d, e, v)
    BY DEF Aside
  <2>1. \A x \in Tiles(d, v) \cup Floats(d, v) : x # t
    BY DEF Lists, Listed, Tiles, Floats
  <2>2. \A x : x # t => (Tiled(e, x) <=> Tiled(d, x))
    BY <1>3 DEF Marked, Relabelled, Tiled
  <2>3. Bare(e, v) <=> Bare(d, v)
    BY <1>3 DEF Bare, Marked
  <2>4. View(d, e, v)
    BY <1>3, <1>5, <2>1, <2>2, <2>3 DEF View
  <2> QED BY <2>4, ViewClears
<1>7. Bare(e, w) <=> Bare(b, w)
  BY <1>3 DEF Bare, Marked
<1> QED BY <1>1, <1>3, <1>4, <1>6, <1>7

(* A window that is linked as floating, and floats. *)
LEMMA AfloatSees ==
  ASSUME NEW d \in Desk, NEW L, Lists(d, L), Floaters(d), NEW t \in Window,
         d.workspace[t] \in Workspace, NEW b, Marked(d, b, t), t \in b.floating,
         NEW e, e = LinkFloating(Unlink(b, t), t)
  PROVE  /\ Aside(d, e, d.workspace[t]) /\ Floaters(e)
         /\ e.enabled = d.enabled /\ e.monocle = d.monocle
         /\ Bare(e, d.workspace[t]) <=> Bare(b, d.workspace[t])
         /\ Tiles(e, d.workspace[t]) = Tiles(d, d.workspace[t]) \ {t}
         /\ Floats(e, d.workspace[t]) = Floats(d, d.workspace[t]) \cup {t}
<1> DEFINE w == d.workspace[t]
<1>1. /\ Aside(d, e, w) /\ e.enabled = d.enabled /\ e.monocle = d.monocle
      /\ e.floating = b.floating /\ (Bare(e, w) <=> Bare(b, w))
      /\ Lists(b, L) /\ b \in Desk /\ b.workspace = d.workspace
      /\ \A v \in Workspace : Tiles(b, v) = Tiles(d, v) /\ Floats(b, v) = Floats(d, v)
  BY MarkedAside
<1>2. \A v \in Workspace :
        /\ Tiles(e, v) = Tiles(b, v) \ {t}
        /\ Floats(e, v) = IF v = w THEN Floats(b, v) \cup {t} ELSE Floats(b, v) \ {t}
  BY <1>1, RelistIs
<1>3. Floaters(e)
  BY <1>1, <1>2 DEF Floaters, Marked, Relabelled
<1> QED BY <1>1, <1>2, <1>3

(* A tiled window floats: where all tiles showed, those left do. *)
LEMMA FloatOutSees ==
  ASSUME NEW d, NEW O, Good(d, O), Floaters(d), Sorted(d, {}),
         NEW t \in d.mapped \ d.fullscreen
  PROVE  /\ Aside(d, FloatOut(d, t), d.workspace[t]) /\ Floaters(FloatOut(d, t))
         /\ Spread(d, d.workspace[t]) => Spread(FloatOut(d, t), d.workspace[t])
<1> DEFINE b == [d EXCEPT !.leaf = @ \ {t}, !.floating = @ \cup {t}]
           f == LinkFloating(Unlink(b, t), t)
           w == d.workspace[t]
<1>1. d \in Desk /\ t \in Window /\ w \in Workspace /\ Lists(d, Placed(d))
  BY DEF Good, Windows, Desk
<1>2. /\ Marked(d, b, t) /\ t \in b.floating /\ t \notin b.leaf
      /\ b.output = d.output /\ b.fullscreenWindow = d.fullscreenWindow
  BY <1>1 DEF Desk, Marked, Relabelled, SameFocus
<1>3. /\ b \in Desk /\ b.leaf = d.leaf \ {t} /\ b.floating = d.floating \cup {t}
      /\ b.fullscreen = d.fullscreen /\ b.savedFloating = d.savedFloating
      /\ b.toplevels = d.toplevels /\ b.floats = d.floats
      /\ b.focused = d.focused /\ b.lastFocused = d.lastFocused
      /\ b.fullscreenWindow = d.fullscreenWindow /\ b.activeOutput = d.activeOutput
      /\ Keeps(d, b)
  BY <1>1 DEF Desk, Keeps
<1>4. FloatOut(d, t) = ExitMonocleIfEmpty(f, w)
  BY DEF FloatOut
<1> HIDE DEF b
<1>5. Good(b, O)
  BY <1>1, <1>3 DEF Good, Windows, Lists, Listed, Placed, Pointers, Here, Screens, Keeps
<1>6. Lists(b, Placed(d)) /\ (Sorted(d, {t}) => Sorted(b, {t}))
  BY <1>1, <1>2, RelabelledSorts DEF Marked
<1>7. b.workspace = d.workspace
  BY <1>3 DEF Keeps
<1>8. /\ Aside(d, f, w) /\ Floaters(f) /\ f.enabled = d.enabled /\ f.monocle = d.monocle
      /\ Bare(f, w) <=> Bare(b, w)
      /\ Tiles(f, w) = Tiles(d, w) \ {t}
  BY <1>1, <1>2, AfloatSees
<1>9. Relinked(b, f) /\ Sorted(f, {}) /\ Lists(f, Placed(b))
  <2>1. Sorted(d, {t})
    BY SortedBut DEF Rough
  <2>2. Sorted(f, {})
    BY <1>1, <1>2, <1>3, <1>6, <1>7, <2>1, RelinkSorts
  <2>3. Placed(b) \cup {t} = Placed(b)
    BY <1>3 DEF Placed, Keeps
  <2>4. Lists(b, Placed(b))
    BY <1>5 DEF Good, Windows
  <2>5. Relinked(b, f) /\ Lists(f, Placed(b) \cup {t})
    BY <1>1, <1>3, <1>7, <2>4, RelistLists
  <2> QED BY <2>2, <2>3, <2>5
<1> HIDE DEF f
<1>10. f \in Desk /\ f.workspace = d.workspace
  BY <1>7, <1>9 DEF Relinked
<1>11. /\ Local(f, ExitMonocleIfEmpty(f, w), w) /\ Floaters(ExitMonocleIfEmpty(f, w))
       /\ Spread(f, w) => Spread(ExitMonocleIfEmpty(f, w), w)
  BY <1>1, <1>8, <1>9, <1>10, ExitMonocleSees
<1>12. Aside(f, ExitMonocleIfEmpty(f, w), w)
  BY <1>9, <1>10, <1>11, LocalAside
<1>13. Spread(d, w) => Spread(f, w)
  BY <1>2, <1>8 DEF Spread, Bare
<1> QED BY <1>4, <1>8, <1>11, <1>12, <1>13, AsideTrans

(* One that becomes a tile again was visible. *)
LEMMA TileBackSees ==
  ASSUME NEW d, NEW O, Good(d, O), Floaters(d), Sorted(d, {}),
         NEW t \in d.mapped, t \in d.floating
  PROVE  /\ Aside(d, TileBack(d, t), d.workspace[t]) /\ Floaters(TileBack(d, t))
         /\ Open(d, d.workspace[t]) => Spread(TileBack(d, t), d.workspace[t])
<1> DEFINE b == [d EXCEPT !.leaf = @ \cup {t}, !.floating = @ \ {t}]
           f == LinkTiled(Unlink(b, t), t)
           w == d.workspace[t]
<1>1. d \in Desk /\ t \in Window /\ w \in Workspace /\ Lists(d, Placed(d))
  BY DEF Good, Windows, Desk
<1>2. /\ Marked(d, b, t) /\ b.floating = d.floating \ {t}
      /\ b.output = d.output /\ b.fullscreenWindow = d.fullscreenWindow
  BY <1>1 DEF Desk, Marked, Relabelled, SameFocus
<1>3. TileBack(d, t) = f
  BY DEF TileBack
<1> HIDE DEF b
<1>4. f = LinkTiled(Unlink(b, t), t)
  OBVIOUS
<1>5. /\ Aside(d, f, w) /\ f.enabled = d.enabled /\ f.monocle = d.monocle
      /\ f.floating = b.floating /\ (Bare(f, w) <=> Bare(b, w))
      /\ Lists(b, Placed(d)) /\ b \in Desk /\ b.workspace = d.workspace
      /\ \A v \in Workspace : Tiles(b, v) = Tiles(d, v) /\ Floats(b, v) = Floats(d, v)
  BY <1>1, <1>2, <1>4, MarkedAside
<1>6. \A v \in Workspace :
        /\ Floats(f, v) = Floats(b, v) \ {t}
        /\ Tiles(f, v) = IF v = w THEN Tiles(b, v) \cup {t} ELSE Tiles(b, v) \ {t}
  BY <1>1, <1>5, RelistIs
<1> HIDE DEF f
<1>7. Floaters(f)
  BY <1>2, <1>5, <1>6 DEF Floaters
<1>8. t \in Floats(d, w)
  BY AloftListed
<1>9. Open(d, w) => Spread(f, w)
  <2> SUFFICES ASSUME Open(d, w), Bare(f, w), w \notin f.monocle
               PROVE  Tiles(f, w) \ XWayland \subseteq f.enabled
    BY DEF Spread
  <2>1. Bare(d, w)
    BY <1>2, <1>5 DEF Bare
  <2> QED BY <1>1, <1>5, <1>6, <1>8, <2>1 DEF Open
<1> QED BY <1>3, <1>5, <1>7, <1>9

(* toggle_floating, either way, with the layout and the focus after it. *)
LEMMA ToggleFloatingFair ==
  ASSUME NEW d, NEW O, Good(d, O), Sorted(d, {}), Fair(d), NEW t \in d.mapped
  PROVE  Fair(toggle_floating(d, t))
<1> DEFINE e == IF t \in d.floating THEN TileBack(d, t) ELSE FloatOut(d, t)
           w == d.workspace[t]
           f == Arrange(e, w)
<1>1. CASE t \in d.fullscreen
  BY <1>1 DEF toggle_floating
<1>2. CASE t \notin d.fullscreen
  <2>1. Good(e, O) /\ Keeps(d, e) /\ w \in Workspace /\ Tidies(d, e)
    BY <1>2, TileBackGood, FloatOutGood, TileBackTidies, FloatOutTidies DEF Good, Windows
  <2>2. Aside(d, e, w) /\ Floaters(e) /\ Spread(e, w)
    <3>1. Floaters(d) /\ Open(d, w) /\ (Open(d, w) => Spread(d, w))
      BY <2>1 DEF Fair, Open, Spread
    <3>2. CASE t \in d.floating
      BY <3>1, <3>2, TileBackSees
    <3>3. CASE t \notin d.floating
      BY <1>2, <3>1, <3>3, FloatOutSees
    <3> QED BY <3>2, <3>3
  <2>3. toggle_floating(d, t) = focus_toplevel(f, t)
    BY <1>2 DEF toggle_floating
  <2> HIDE DEF e, w
  <2>4. Leafy(e, w) /\ Sorted(e, {})
    BY <2>1, SortedLeafy DEF Tidies, Rough
  <2>5. Local(e, f, w) /\ Floaters(f) /\ Open(f, w) /\ Stacked(f, w)
    BY <2>1, <2>2, <2>4, ArrangeSees
  <2> HIDE DEF f
  <2>6. Aside(e, f, w) /\ Alike(e, f)
    BY <2>1, <2>5, LocalAside DEF Good, Windows, Local
  <2>7. Fair(f)
    BY <2>2, <2>5, <2>6, AsideTrans, AsideFair
  <2>8. Good(f, O) /\ Sorted(f, {}) /\ t \in f.mapped
    BY <2>1, <2>4, <2>6, AlikeGood, SameSorts DEF Keeps, Alike
  <2>9. AllClear(f, focus_toplevel(f, t))
    BY <2>7, <2>8, FocusClear DEF Fair
  <2> QED BY <2>3, <2>7, <2>9, AllClearFair
<1> QED BY <1>1, <1>2

(* A window that covers its workspace leaves nothing of it to be seen.     *)
LEMMA EnterFullscreenSees ==
  ASSUME NEW d, NEW O, Good(d, O), Floaters(d), NEW t \in d.mapped \ d.fullscreen
  PROVE  /\ Aside(d, EnterFullscreen(d, t), d.workspace[t])
         /\ Floaters(EnterFullscreen(d, t))
         /\ ~ Bare(EnterFullscreen(d, t), d.workspace[t])
<1> DEFINE w == d.workspace[t]
           S == Listed(d, w) \ {t}
           h == Disable(d, S)
           f == [h EXCEPT
              !.savedFloating = IF t \in d.floating THEN @ \cup {t} ELSE @ \ {t},
              !.floating = @ \ {t}, !.fullscreen = @ \cup {t},
              !.fullscreenWindow[w] = t]
           e == IF t \in d.floating THEN Unlink(f, t) ELSE f
<1>1. d \in Desk /\ t \in Window /\ w \in Workspace /\ Lists(d, Placed(d))
  BY DEF Good, Windows, Desk
<1>2. S \in SUBSET Window /\ \A x \in S : d.workspace[x] = w
  BY <1>1, ListedIn DEF Lists
<1>3. EnterFullscreen(d, t) = e
  BY DEF EnterFullscreen
<1> HIDE DEF S
<1>4. Local(d, h, w) /\ Alike(d, h)
  BY <1>1, <1>2, EnableLocal, EnableIs
<1> HIDE DEF h
<1>5. /\ h \in Desk /\ h.workspace = d.workspace /\ h.floating = d.floating
      /\ Lists(h, Placed(d)) /\ Floaters(h)
  BY <1>1, <1>4, AlikeSees DEF Alike, Lists
<1>6. f \in Desk
  <2> DEFINE saved == IF t \in d.floating THEN h.savedFloating \cup {t}
                      ELSE h.savedFloating \ {t}
             full == [h.fullscreenWindow EXCEPT ![w] = t]
  <2>1. saved \in SUBSET Window /\ full \in [Workspace -> Window \cup {NULL}]
    BY <1>1, <1>5 DEF Desk
  <2>2. f = [h EXCEPT !.savedFloating = saved, !.floating = @ \ {t},
                      !.fullscreen = @ \cup {t}, !.fullscreenWindow = full]
    BY <1>5 DEF Desk
  <2> HIDE DEF saved, full, f
  <2> QED BY <1>1, <1>5, <2>1, <2>2 DEF Desk
<1>7. /\ f.leaf = h.leaf /\ f.floating = h.floating \ {t}
      /\ f.fullscreen = h.fullscreen \cup {t}
      /\ f.toplevels = h.toplevels /\ f.floats = h.floats
      /\ f.workspace = h.workspace /\ f.mapped = h.mapped
      /\ f.focused = h.focused /\ f.keyboard = h.keyboard
      /\ f.enabled = h.enabled /\ f.monocle = h.monocle /\ f.output = h.output
      /\ \A v \in Workspace :
           f.fullscreenWindow[v] = IF v = w THEN t ELSE h.fullscreenWindow[v]
  BY <1>1, <1>5 DEF Desk
<1> HIDE DEF f, w
<1>8. h.workspace[t] = w /\ w \in Workspace
  BY <1>1, <1>5 DEF w
<1>9. Marked(h, f, t)
  BY <1>6, <1>7, <1>8 DEF Marked, Relabelled, SameFocus
<1>10. e = f \/ e = Unlink(f, t)
  OBVIOUS
<1>11. t \in d.floating => e = Unlink(f, t)
  OBVIOUS
<1> HIDE DEF e
<1>12. /\ Aside(h, e, w) /\ e.floating = f.floating /\ (Bare(e, w) <=> Bare(f, w))
       /\ Lists(f, Placed(d)) /\ f \in Desk /\ f.workspace = h.workspace
       /\ \A v \in Workspace : Tiles(f, v) = Tiles(h, v) /\ Floats(f, v) = Floats(h, v)
  BY <1>1, <1>5, <1>8, <1>9, <1>10, MarkedAside
<1>13. ~ Bare(e, w)
  BY <1>1, <1>7, <1>8, <1>12, NullsAssumption DEF Bare
<1>14. Floaters(e)
  <2>1. \A v \in Workspace : Floats(h, v) \subseteq d.floating
    BY <1>5 DEF Floaters
  <2>2. e.floating = d.floating \ {t}
    BY <1>5, <1>7, <1>12
  <2>3. CASE t \in d.floating
    <3>1. \A v \in Workspace : Floats(e, v) = Floats(f, v) \ {t}
      BY <1>1, <1>8, <1>11, <1>12, <2>3, RelistIs
    <3> QED BY <1>12, <2>1, <2>2, <3>1 DEF Floaters
  <2>4. CASE t \notin d.floating
    <3>1. \A v \in Workspace : Floats(e, v) \subseteq Floats(f, v)
      BY <1>1, <1>8, <1>10, <1>12, RelistIs
    <3> QED BY <1>12, <2>1, <2>2, <2>4, <3>1 DEF Floaters
  <2> QED BY <2>3, <2>4
<1>15. Aside(d, e, w)
  BY <1>1, <1>4, <1>12, LocalAside, AsideTrans
<1> QED BY <1>3, <1>13, <1>14, <1>15 DEF w

(* One that gives it back is listed with those that float, if it floated.  *)
LEMMA UncoverSees ==
  ASSUME NEW d, NEW O, Good(d, O), Floaters(d), NEW t \in d.fullscreen
  PROVE  Aside(d, Uncover(d, t), d.workspace[t]) /\ Floaters(Uncover(d, t))
<1> DEFINE w == d.workspace[t]
           f == [d EXCEPT !.fullscreen = @ \ {t}, !.fullscreenWindow[w] = NULL]
           g == [f EXCEPT !.floating = @ \cup {t}]
           l == LinkFloating(Unlink(g, t), t)
<1>1. /\ d \in Desk /\ t \in Window /\ w \in Workspace /\ Lists(d, Placed(d))
      /\ w = d.workspace[t]
  BY DEF Good, Windows, Desk
<1> HIDE DEF w
<1>2. /\ Marked(d, f, t) /\ f \in Desk /\ f.floating = d.floating
      /\ f.toplevels = d.toplevels /\ f.floats = d.floats
      /\ f.workspace = d.workspace /\ f.mapped = d.mapped /\ f.leaf = d.leaf
      /\ f.focused = d.focused /\ f.keyboard = d.keyboard
      /\ f.fullscreen = d.fullscreen \ {t}
      /\ f.enabled = d.enabled /\ f.monocle = d.monocle /\ f.output = d.output
      /\ \A v \in Workspace : v # w => f.fullscreenWindow[v] = d.fullscreenWindow[v]
  BY <1>1 DEF Desk, Marked, Relabelled, SameFocus
<1> HIDE DEF f
<1>3. CASE t \in d.savedFloating
  <2>1. Marked(d, g, t) /\ t \in g.floating
    BY <1>1, <1>2 DEF Desk, Marked, Relabelled, SameFocus
  <2> HIDE DEF g
  <2>2. Aside(d, l, d.workspace[t]) /\ Floaters(l)
    BY <1>1, <2>1, AfloatSees
  <2>3. Uncover(d, t) = l
    BY <1>3 DEF Uncover, l, g, f, w
  <2> QED BY <2>2, <2>3
<1>4. CASE t \notin d.savedFloating
  <2>1. Aside(d, f, d.workspace[t])
    BY <1>1, <1>2, MarkedAside
  <2>2. Floaters(f)
    BY <1>2 DEF Floaters, Floats
  <2>3. Uncover(d, t) = f
    BY <1>4 DEF Uncover, f, w
  <2> QED BY <2>1, <2>2, <2>3
<1> QED BY <1>3, <1>4

(* The whole workspace shows again, laid out, and the focus follows. *)
LEMMA LeaveFullscreenFair ==
  ASSUME NEW d, NEW O, Good(d, O), Sorted(d, {}), Fair(d), NEW t \in d.fullscreen
  PROVE  Fair(LeaveFullscreen(d, t))
<1> DEFINE w == d.workspace[t]
           back == Uncover(d, t)
           S == Listed(back, w)
           shown == Enable(back, S)
           a == Arrange(shown, w)
           next == IF d.focused[w] = t THEN t ELSE NULL
<1>1. w \in Workspace /\ t \in d.mapped /\ Floaters(d)
  BY DEF Good, Windows, Desk, Fair
<1>2. LeaveFullscreen(d, t) = FocusIfAny(a, next)
  BY DEF LeaveFullscreen, Uncover
<1>3. Good(back, O) /\ Keeps(d, back) /\ Sorted(back, {})
  BY UncoverGood, UncoverTidies DEF Tidies
<1>4. Aside(d, back, w) /\ Floaters(back)
  BY <1>1, UncoverSees
<1> HIDE DEF back, w
<1>5. back \in Desk /\ Lists(back, Placed(back)) /\ S = Listed(back, w)
  BY <1>3 DEF Good, Windows
<1>6. S \in SUBSET Window /\ \A x \in S : back.workspace[x] = w
  BY <1>1, <1>5, ListedIn DEF Lists
<1> HIDE DEF S
<1>7. Local(back, shown, w) /\ Alike(back, shown) /\ shown.enabled = back.enabled \cup S
  BY <1>5, <1>6, EnableLocal, EnableIs
<1> HIDE DEF shown
<1>8. Good(shown, O) /\ Floaters(shown) /\ Sorted(shown, {}) /\ Aside(back, shown, w)
  BY <1>3, <1>4, <1>5, <1>7, AlikeGood, AlikeSees, SameSorts, LocalAside
<1>9. Spread(shown, w)
  <2>1. Tiles(shown, w) = Tiles(back, w)
    BY <1>1, <1>7, AlikeSees
  <2>2. Tiles(back, w) \subseteq S
    BY <1>5 DEF Tiles, Listed
  <2> QED BY <1>7, <2>1, <2>2 DEF Spread
<1>10. Leafy(shown, w)
  BY <1>1, <1>8, SortedLeafy DEF Rough
<1>11. Local(shown, a, w) /\ Floaters(a) /\ Open(a, w) /\ Stacked(a, w)
  BY <1>1, <1>8, <1>9, <1>10, ArrangeSees
<1>12. Alike(shown, a) /\ Aside(shown, a, w)
  BY <1>8, <1>11, LocalAside DEF Local, Good, Windows
<1> HIDE DEF a
<1>13. Aside(d, a, w)
  BY <1>4, <1>8, <1>12, AsideTrans
<1>14. Fair(a)
  BY <1>11, <1>13, AsideFair
<1>15. Good(a, O) /\ Sorted(a, {})
  BY <1>8, <1>12, AlikeGood, SameSorts
<1>16. next \in a.mapped \cup {NULL}
  BY <1>1, <1>3, <1>7, <1>12 DEF Keeps, Alike
<1> HIDE DEF next
<1>17. AllClear(a, FocusIfAny(a, next))
  BY <1>11, <1>15, <1>16, FocusIfAnyClear
<1> QED BY <1>2, <1>14, <1>17, AllClearFair

(* toggle_fullscreen, either way. *)
LEMMA ToggleFullscreenFair ==
  ASSUME NEW d, NEW O, Good(d, O), Sorted(d, {}), Fair(d), NEW t \in d.mapped
  PROVE  Fair(toggle_fullscreen(d, t)) /\ Fair(NotFullscreen(d, t))
<1>1. CASE t \in d.fullscreen
  BY <1>1, LeaveFullscreenFair DEF toggle_fullscreen, NotFullscreen
<1>2. CASE t \notin d.fullscreen
  <2> DEFINE e == EnterFullscreen(d, t)
             w == d.workspace[t]
  <2>1. Aside(d, e, w) /\ Floaters(e) /\ ~ Bare(e, w)
    BY <1>2, EnterFullscreenSees DEF Fair
  <2> HIDE DEF e, w
  <2>2. Fair(e)
    BY <2>1, AsideFair DEF Open, Stacked
  <2> QED BY <1>2, <2>2 DEF toggle_fullscreen, NotFullscreen, e
<1> QED BY <1>1, <1>2

(* To show what floats hides nothing and unstacks nothing. *)
LEMMA EnableAloftClear ==
  ASSUME NEW d \in Desk, NEW S \in SUBSET Window, S \subseteq d.floating
  PROVE  AllClear(d, Enable(d, S))
<1> DEFINE e == Enable(d, S)
<1>1. e.enabled = d.enabled \cup S /\ e.monocle = d.monocle /\ Alike(d, e)
  BY EnableIs
<1> HIDE DEF e
<1>2. ASSUME NEW w \in Workspace PROVE Clears(d, e, w)
  <2>1. /\ Tiles(e, w) = Tiles(d, w) /\ Floats(e, w) = Floats(d, w)
        /\ TilesOf(e, w) = TilesOf(d, w)
        /\ Bare(e, w) <=> Bare(d, w)
    BY <1>1, AlikeSees
  <2>2. Open(d, w) => Open(e, w)
    BY <1>1, <2>1 DEF Open
  <2>3. TilesOf(d, w) \cap S = {}
    BY DEF TilesOf, Tiled
  <2>4. TilesOf(e, w) \cap e.enabled = TilesOf(d, w) \cap d.enabled
    BY <1>1, <2>1, <2>3
  <2>5. Stacked(d, w) => Stacked(e, w)
    BY <1>1, <2>1, <2>4 DEF Stacked
  <2> QED BY <2>2, <2>5 DEF Clears
<1> QED BY <1>1, <1>2, AlikeSees DEF AllClear, e

(* Monocle, off or on. *)
LEMMA ToggleMonocleFair ==
  ASSUME NEW d, NEW O, Good(d, O), Sorted(d, {}), Fair(d), NEW w \in Workspace,
         w \in d.monocle \/ d.focused[w] # NULL
  PROVE  Fair(toggle_monocle(d, w))
<1> DEFINE on == [d EXCEPT !.monocle = @ \cup {w}]
           F == ToSet(d.floats[w])
           S == LeavesOf(d, w) \cup F
           a == Arrange(on, w)
           f == focus_toplevel(a, d.focused[w])
<1>1. d \in Desk /\ S \in SUBSET Window /\ F \in SUBSET Window /\ Lists(d, Placed(d))
  BY TilesIn, ListedIn DEF Good, Windows
<1>2. Floaters(d) /\ F = Floats(d, w) /\ F \subseteq d.floating
  BY DEF Fair, Floaters, Floats
<1>3. CASE w \in d.monocle
  <2>1. \A t \in S : d.workspace[t] = w
    BY <1>2, HasListed DEF LeavesOf
  <2>2. toggle_monocle(d, w) = Off(d, w, S)
    BY <1>3 DEF toggle_monocle, Off
  <2>3. LeavesOf(d, w) \subseteq S /\ F \subseteq S
    OBVIOUS
  <2> HIDE DEF S, F
  <2>4. Bare(d, w) => Floats(d, w) \ XWayland \subseteq d.enabled \cup S
    BY <1>2, <2>3
  <2>5. /\ Local(d, Off(d, w, S), w) /\ Floaters(Off(d, w, S))
        /\ Stacked(Off(d, w, S), w) /\ Open(Off(d, w, S), w)
    BY <1>1, <1>2, <2>1, <2>3, <2>4, OffSees
  <2>6. Aside(d, Off(d, w, S), w)
    BY <1>1, <2>5, LocalAside
  <2> QED BY <2>2, <2>5, <2>6, AsideFair
<1>4. Alike(d, on) /\ on.enabled = d.enabled /\ on.monocle = d.monocle \cup {w}
  BY <1>1, MonocleAlike DEF Desk
<1>5. LeavesOf(d, w) = {} /\ w \notin d.monocle => toggle_monocle(d, w) = on
  BY DEF toggle_monocle
<1>6. LeavesOf(d, w) # {} /\ w \notin d.monocle => toggle_monocle(d, w) = Enable(f, F)
  BY DEF toggle_monocle
<1> HIDE DEF on, F
<1>7. Local(d, on, w) /\ Good(on, O) /\ Floaters(on) /\ Sorted(on, {})
  BY <1>2, <1>4, AlikeGood, AlikeSees, SameSorts DEF Local
<1>8. Aside(d, on, w)
  BY <1>1, <1>7, LocalAside
<1>9. CASE w \notin d.monocle /\ LeavesOf(d, w) = {}
  <2>1. TilesOf(d, w) = {}
    BY <1>9, SortedLeafy DEF Leafy, Rough
  <2>2. TilesOf(on, w) = {} /\ Floats(on, w) = Floats(d, w) /\ (Bare(on, w) <=> Bare(d, w))
    BY <1>4, <2>1, AlikeSees
  <2>3. Open(d, w)
    BY DEF Fair
  <2>4. Open(on, w) /\ Stacked(on, w)
    BY <1>4, <2>2, <2>3 DEF Open, Stacked
  <2>5. Fair(on)
    BY <1>7, <1>8, <2>4, AsideFair
  <2> QED BY <1>5, <1>9, <2>5
<1>10. CASE w \notin d.monocle /\ LeavesOf(d, w) # {}
  <2>1. Leafy(on, w) /\ Spread(on, w)
    BY <1>4, <1>7, SortedLeafy DEF Rough, Spread
  <2>2. Local(on, a, w) /\ Floaters(a) /\ Open(a, w) /\ Stacked(a, w)
    BY <1>7, <2>1, ArrangeSees
  <2> HIDE DEF a
  <2>3. Alike(on, a) /\ Aside(on, a, w)
    BY <1>7, <2>2, LocalAside DEF Local, Good, Windows
  <2>4. Fair(a)
    BY <1>8, <2>2, <2>3, AsideTrans, AsideFair
  <2>5. Good(a, O) /\ Sorted(a, {}) /\ d.focused[w] \in a.mapped /\ a.floating = d.floating
    <3>1. d.focused[w] \in d.mapped
      BY <1>10 DEF Good, Pointers, Here
    <3> QED BY <1>4, <1>7, <2>3, <3>1, AlikeGood, SameSorts DEF Alike
  <2>6. AllClear(a, f) /\ Good(f, O) /\ Refocused(a, f)
    BY <2>2, <2>5, FocusClear, FocusGood
  <2> HIDE DEF f
  <2>7. Fair(f) /\ f.floating = d.floating /\ f \in Desk
    BY <2>4, <2>5, <2>6, AllClearFair DEF Refocused
  <2>8. AllClear(f, Enable(f, F))
    BY <1>1, <1>2, <2>7, EnableAloftClear
  <2> QED BY <1>6, <1>10, <2>7, <2>8, AllClearFair
<1> QED BY <1>3, <1>9, <1>10

(* set_bsp_mode. *)
LEMMA SetBspFair ==
  ASSUME NEW d, NEW O, Good(d, O), Sorted(d, {}), Fair(d), NEW w \in Workspace,
         d.focused[w] # NULL
  PROVE  Fair(set_bsp_mode(d, w))
<1> DEFINE t == d.focused[w]
           e == NotFullscreen(d, t)
           f == NotFloating(e, t)
<1>1. t \in d.mapped
  BY DEF Good, Pointers, Here
<1> HIDE DEF t
<1>2. Good(e, O) /\ t \in e.mapped /\ Sorted(e, {}) /\ Fair(e)
  BY <1>1, NotFullscreenGood, ToggleFullscreenTidies, ToggleFullscreenFair DEF Keeps, Tidies
<1> HIDE DEF e
<1>3. Good(f, O) /\ Sorted(f, {}) /\ Fair(f)
  BY <1>2, ToggleFloatingGood, ToggleFloatingTidies, ToggleFloatingFair DEF NotFloating, Tidies
<1> HIDE DEF f
<1>4. Fair(NotMonocle(f, w))
  BY <1>3, ToggleMonocleFair DEF NotMonocle
<1> QED BY <1>4 DEF set_bsp_mode, f, e, t

----------------------------------------------------------------------------
(* Outputs. *)

(* A workspace that is shown shows all that it should. *)
LEMMA ShowSees ==
  ASSUME NEW d, NEW O, Good(d, O), Floaters(d), NEW w \in Workspace
  PROVE  /\ Alike(d, workspace_show(d, w))
         /\ Open(workspace_show(d, w), w) /\ Stacked(workspace_show(d, w), w)
<1> DEFINE e == workspace_show(d, w)
           T == ToSet(d.toplevels[w])
           a == ActiveTiled(d, w)
           F == ToSet(d.floats[w])
           A == (T \cap {a}) \cup F
           h == Disable(d, T)
           full == d.fullscreenWindow[w]
<1>1. d \in Desk /\ Alike(d, e)
  BY ShowAlike DEF Good
<1>2. T = Tiles(d, w) /\ F = Floats(d, w) /\ Listed(d, w) = T \cup F
  BY DEF Tiles, Floats, Listed
<1>3. T \cup F \subseteq Window /\ TilesOf(d, w) \subseteq T /\ TilesOf(d, w) \cap F = {}
  BY <1>2, HasListed
<1>4. TilesOf(d, w) # {} => a \in TilesOf(d, w)
  BY ActiveIsTile
<1>5. e = IF full # NULL THEN Enable(d, {full})
          ELSE IF w \in d.monocle THEN Enable(h, A) ELSE Enable(d, T \cup F)
  BY <1>2 DEF workspace_show
<1>6. /\ Tiles(e, w) = T /\ Floats(e, w) = F /\ TilesOf(e, w) = TilesOf(d, w)
      /\ Bare(e, w) <=> Bare(d, w)
  BY <1>1, <1>2, AlikeSees
<1> HIDE DEF T, F, a, e
<1>7. A \in SUBSET Window /\ T \in SUBSET Window /\ T \cup F \in SUBSET Window
  BY <1>3
<1>8. h.enabled = d.enabled \ T /\ h.monocle = d.monocle /\ h \in Desk
  BY <1>1, <1>7, EnableIs DEF Alike
<1> HIDE DEF h
<1>9. full = NULL /\ w \in d.monocle => e.enabled = (d.enabled \ T) \cup A /\ e.monocle = d.monocle
  BY <1>5, <1>7, <1>8, EnableIs
<1>10. full = NULL /\ w \notin d.monocle =>
         e.enabled = d.enabled \cup T \cup F /\ e.monocle = d.monocle
  <2>1. /\ Enable(d, T \cup F).enabled = d.enabled \cup (T \cup F)
        /\ Enable(d, T \cup F).monocle = d.monocle
    BY <1>1, <1>7, EnableIs
  <2> QED BY <1>5, <2>1
<1>11. CASE full # NULL
  BY <1>1, <1>6, <1>11 DEF Bare, Open, Stacked, e
<1>12. CASE full = NULL /\ w \in d.monocle
  <2>1. Open(e, w)
    BY <1>6, <1>9, <1>12 DEF Open
  <2>2. TilesOf(d, w) # {} => TilesOf(d, w) \cap e.enabled = {a} /\ a \in Window
    BY <1>3, <1>4, <1>9, <1>12
  <2>3. Stacked(e, w)
    BY <1>6, <2>2 DEF Stacked
  <2> QED BY <1>1, <2>1, <2>3 DEF e
<1>13. CASE full = NULL /\ w \notin d.monocle
  <2>1. Open(e, w) /\ Stacked(e, w)
    BY <1>6, <1>10, <1>13 DEF Open, Stacked
  <2> QED BY <1>1, <2>1 DEF e
<1> QED BY <1>11, <1>12, <1>13

(* One that comes on an output is laid out first. *)
LEMMA DisplaySees ==
  ASSUME NEW d, NEW O, Good(d, O), Floaters(d), NEW w \in Workspace
  PROVE  /\ Alike(d, Display(d, w)) /\ Floaters(Display(d, w))
         /\ Open(Display(d, w), w) /\ Stacked(Display(d, w), w)
<1> DEFINE a == ArrangeIfTree(d, w)
<1>1. Alike(d, a)
  BY ArrangeAlike DEF Good
<1>2. Display(d, w) = workspace_show(a, w)
  BY DEF Display
<1> HIDE DEF a
<1>3. Good(a, O) /\ Floaters(a)
  BY <1>1, AlikeGood, AlikeSees
<1>4. /\ Alike(a, Display(d, w)) /\ Open(Display(d, w), w) /\ Stacked(Display(d, w), w)
  BY <1>2, <1>3, ShowSees
<1> QED BY <1>1, <1>3, <1>4, AlikeTrans, AlikeSees

(* With one output, that is all there is to be seen. *)
LEMMA OneFair ==
  ASSUME NEW d, NEW O, Good(d, O), OneOutput, Floaters(d), NEW w \in Workspace,
         d.output[w] # NULL, Open(d, w), Stacked(d, w)
  PROVE  Fair(d)
<1> SUFFICES ASSUME NEW v \in Workspace, v # w PROVE ~ Bare(d, v)
  BY DEF Fair, Open, Stacked
<1>1. d \in Desk /\ Screens(d, O)
  BY DEF Good
<1>2. d.output[v] # NULL => d.output[v] \in Output /\ d.shows[d.output[v]] = v
  BY <1>1 DEF Desk, Screens
<1>3. d.output[w] \in Output /\ d.shows[d.output[w]] = w
  BY <1>1 DEF Desk, Screens
<1> QED BY <1>2, <1>3 DEF OneOutput, Bare

(* So it is after any workspace comes on it. *)
LEMMA DisplayFair ==
  ASSUME NEW d, NEW O, Good(d, O), OneOutput, Floaters(d), NEW w \in Workspace,
         d.output[w] # NULL
  PROVE  Fair(Display(d, w)) /\ Good(Display(d, w), O) /\ Alike(d, Display(d, w))
<1> DEFINE e == Display(d, w)
<1>1. Alike(d, e) /\ Floaters(e) /\ Open(e, w) /\ Stacked(e, w)
  BY DisplaySees
<1> HIDE DEF e
<1>2. Good(e, O) /\ e.output = d.output
  BY <1>1, AlikeGood DEF Alike
<1>3. Fair(e)
  BY <1>1, <1>2, OneFair
<1> QED BY <1>1, <1>2, <1>3 DEF e

(* With the same windows, the floating lists hold the same. *)
LEMMA SameWindowsSees ==
  ASSUME NEW d, NEW e, SameWindows(d, e)
  PROVE  Floaters(d) => Floaters(e)
BY DEF SameWindows, Floaters, Floats

(* workspace_switch. *)
LEMMA SwitchFair ==
  ASSUME NEW d, Good(d, {}), OneOutput, Sorted(d, {}), Fair(d), NEW w \in Workspace
  PROVE  Fair(workspace_switch(d, w))
<1>1. CASE workspace_switch(d, w) = d
  BY <1>1
<1>2. CASE workspace_switch(d, w) # d
  <2>1. PICK o \in ToSet(d.outputs) : workspace_switch(d, w) = output_set_workspace(d, o, w)
    BY <1>2, SwitchIs
  <2>2. PICK e : /\ Good(e, {}) /\ SameWindows(d, e) /\ e.outputs = d.outputs
                 /\ e.output[w] = o
                 /\ output_set_workspace(d, o, w) = Turned(FocusOn(Display(e, w), w), o, w)
    BY <1>2, <2>1, SetWorkspaceIs
  <2> DEFINE s == Display(e, w)
             f == FocusOn(s, w)
             g == Turned(f, o, w)
  <2>3. o # NULL
    <3>1. d.outputs \in Seq(Output)
      BY DEF Good, Desk
    <3> QED BY <3>1, MembersIn, NullsAssumption
  <2>4. Floaters(e) /\ Sorted(e, {})
    BY <2>2, SameWindowsSees, SameSorts DEF Fair
  <2>5. Fair(s) /\ Good(s, {}) /\ Alike(e, s)
    BY <2>2, <2>3, <2>4, DisplayFair
  <2> HIDE DEF s
  <2>6. Sorted(s, {}) /\ o \in ToSet(s.outputs)
    BY <2>2, <2>4, <2>5, SameSorts DEF Alike
  <2>7. Fair(f) /\ Good(f, {}) /\ o \in ToSet(f.outputs)
    <3>1. AllClear(s, f)
      BY <2>5, <2>6, FocusOnClear DEF Fair
    <3>2. Good(f, {}) /\ Refocused(s, f)
      BY <2>5, FocusOnGood
    <3> QED BY <2>5, <2>6, <3>1, <3>2, AllClearFair DEF Refocused
  <2> HIDE DEF f
  <2>8. /\ SameWindows(f, g) /\ g.output = f.output /\ g.enabled = f.enabled
        /\ g.monocle = f.monocle
    BY <2>7, TurnedGood
  <2> HIDE DEF g
  <2>9. AllClear(f, g)
    BY <2>8, LooksAlike DEF AllClear, SameWindows
  <2>10. Fair(g)
    BY <2>7, <2>9, AllClearFair
  <2> QED BY <2>1, <2>2, <2>10 DEF g, f, s
<1> QED BY <1>1, <1>2

(* While there is an output, it shows the current workspace. *)
OnDisplay(d) == \A o \in ToSet(d.outputs) : d.shows[o] = d.current

(* So only the current one is on display. *)
LEMMA CurrentShown ==
  ASSUME NEW d, NEW O, Good(d, O), OnDisplay(d), NEW w \in Workspace, Bare(d, w)
  PROVE  w = d.current
BY DEF Good, Screens, OnDisplay, Bare

(* A step that leaves the outputs alone keeps it. *)
LEMMA KeepsOnDisplay ==
  ASSUME NEW d, NEW e, e.shows = d.shows, e.outputs = d.outputs, e.current = d.current,
         OnDisplay(d)
  PROVE  OnDisplay(e)
BY DEF OnDisplay

(* So does a switch. *)
LEMMA SwitchOnDisplay ==
  ASSUME NEW d, Good(d, {}), OneOutput, OnDisplay(d), NEW w \in Workspace
  PROVE  OnDisplay(workspace_switch(d, w))
<1>1. CASE workspace_switch(d, w) = d
  BY <1>1
<1>2. CASE workspace_switch(d, w) # d
  <2>1. PICK o \in ToSet(d.outputs) : workspace_switch(d, w) = output_set_workspace(d, o, w)
    BY <1>2, SwitchIs
  <2>2. PICK e : /\ Good(e, {}) /\ SameWindows(d, e) /\ e.outputs = d.outputs
                 /\ e.output[w] = o
                 /\ output_set_workspace(d, o, w) = Turned(FocusOn(Display(e, w), w), o, w)
    BY <1>2, <2>1, SetWorkspaceIs
  <2> DEFINE s == Display(e, w)
             f == FocusOn(s, w)
             g == Turned(f, o, w)
  <2>3. d.outputs \in Seq(Output)
    BY DEF Good, Desk
  <2>4. ToSet(d.outputs) \subseteq Output
    BY <2>3, MembersIn
  <2>5. e.shows[o] = w
    BY <2>2, <2>4, NullsAssumption DEF Good, Screens
  <2>6. Alike(e, s)
    BY <2>2, DisplayAlike DEF Good
  <2> HIDE DEF s
  <2>7. Good(s, {})
    BY <2>2, <2>6, AlikeGood
  <2>8. Refocused(s, f) /\ Good(f, {})
    BY <2>7, FocusOnGood
  <2> HIDE DEF f
  <2>9. f.shows = e.shows /\ f.outputs = d.outputs /\ f \in Desk
    BY <2>2, <2>6, <2>8 DEF Alike, Refocused
  <2>10. g.shows = e.shows /\ g.outputs = d.outputs /\ g.current = w
    BY <2>9 DEF Turned, Desk
  <2>11. OnDisplay(g)
    BY <2>4, <2>5, <2>10 DEF OnDisplay, OneOutput
  <2> QED BY <2>1, <2>2, <2>11 DEF g, f, s
<1> QED BY <1>1, <1>2

(* With one output no list is left when it goes. *)
LEMMA LastOutputGoes ==
  ASSUME Inv, OneOutput, NEW o \in Output, output_destroy(o)
  PROVE  Inv' /\ desk'.outputs = <<>> /\ SameWindows(desk, desk')
<1>1. /\ Inv' /\ desk'.outputs = RemoveFirst(desk.outputs, o)
      /\ desk'.outputs = <<>> => SameWindows(desk, desk')
  BY DestroyOutputGood
<1>2. desk.outputs \in Seq(Output) /\ IsInjective(desk.outputs)
  BY DEF Inv, Good, Desk, Screens
<1>3. ToSet(desk'.outputs) = ToSet(desk.outputs) \ {o} /\ desk'.outputs \in Seq(Output)
  BY <1>1, <1>2, TakeOut
<1>4. ToSet(desk'.outputs) = {}
  <2>1. ToSet(desk.outputs) \subseteq Output
    BY <1>2, MembersIn
  <2>2. \A p \in Output : p = o
    BY DEF OneOutput
  <2> QED BY <1>3, <2>1, <2>2
<1> DEFINE s == desk'.outputs
<1>5. s \in Seq(Output) /\ ToSet(s) = {}
  BY <1>3, <1>4
<1> HIDE DEF s
<1>6. Len(s) \in Nat /\ (Len(s) > 0 => 1 \in DOMAIN s)
  BY <1>5
<1>7. Len(s) = 0
  BY <1>5, <1>6 DEF ToSet
<1>8. s = <<>>
  BY <1>5, <1>7, EmptySeq
<1> QED BY <1>1, <1>8 DEF s

(* A workspace that comes on display with the focus one of its windows has. *)
LEMMA ComesFair ==
  ASSUME NEW d, Good(d, {}), OneOutput, Floaters(d), Sorted(d, {}), NEW w \in Workspace,
         d.output[w] # NULL, NEW e,
         e = FocusFirst(Display(d, w), w) \/ e = FocusShown(Display(d, w), w)
  PROVE  Fair(e) /\ e.shows = d.shows /\ e.outputs = d.outputs /\ e.current = d.current
<1> DEFINE s == Display(d, w)
<1>1. Fair(s) /\ Good(s, {}) /\ Alike(d, s)
  BY DisplayFair
<1>2. e = FocusFirst(s, w) \/ e = FocusShown(s, w)
  OBVIOUS
<1> HIDE DEF s
<1>3. Sorted(s, {}) /\ Floaters(s)
  BY <1>1, SameSorts DEF Fair
<1>4. PICK u \in s.mapped \cup {NULL} : e = FocusIfAny(s, u)
  <2>1. /\ FocusOf(s, w) \in s.mapped \cup {NULL}
        /\ FirstOf(<<s.focused[w]>> \o s.toplevels[w]) \in s.mapped \cup {NULL}
    BY <1>1, FocusOfIs
  <2> QED BY <1>2, <2>1 DEF FocusFirst, FocusShown
<1>5. AllClear(s, e) /\ Refocused(s, e)
  BY <1>1, <1>3, <1>4, FocusIfAnyClear, FocusIfAnyGood
<1> QED BY <1>1, <1>5, AllClearFair DEF Alike, Refocused

(* What the proofs of visibility add to Inv and Orderly. *)
Seen == Fair(desk) /\ OnDisplay(desk)

(* The output's coming and going keeps it. *)
LEMMA OutputsSeen ==
  ASSUME Inv, Orderly, Seen, OneOutput, NEW o \in Output,
         server_new_output(o) \/ output_destroy(o) \/ PowerOff(o) \/ PowerOn(o)
  PROVE  Seen'
<1>1. /\ desk \in Desk /\ Sorted(desk, {}) /\ Floaters(desk) /\ o # NULL
      /\ Screens(desk, {})
  BY NullsAssumption DEF Inv, Good, Orderly, Seen, Fair
<1>2. ToSet(desk.outputs) \subseteq Output
  <2>1. desk.outputs \in Seq(Output)
    BY <1>1 DEF Desk
  <2> QED BY <2>1, MembersIn
<1>3. desk.activeOutput \in {NULL, o}
  BY <1>1 DEF Desk, OneOutput
<1>4. ASSUME NEW w \in Workspace, NEW d, Good(d, {}), SameWindows(desk, d), d.output[w] = o,
             ToSet(d.outputs) \subseteq Output, d.current = w,
             desk' = FocusFirst(Display(d, w), w) \/ desk' = FocusShown(Display(d, w), w)
      PROVE  Seen'
  <2>1. Floaters(d) /\ Sorted(d, {}) /\ d.output[w] # NULL
    BY <1>1, <1>4, SameWindowsSees, SameSorts
  <2>2. /\ Fair(desk') /\ desk'.shows = d.shows /\ desk'.outputs = d.outputs
        /\ desk'.current = d.current
    BY <1>4, <2>1, ComesFair
  <2>3. OnDisplay(d)
    <3>1. d.shows[o] = w
      BY <1>1, <1>4 DEF Good, Screens
    <3> QED BY <1>4, <3>1 DEF OnDisplay, OneOutput
  <2> QED BY <2>2, <2>3, KeepsOnDisplay DEF Seen
<1>5. CASE server_new_output(o)
  <2>1. PICK w \in Workspace : \E d :
          /\ Good(d, {}) /\ SameWindows(desk, d) /\ d.output[w] = o
          /\ ToSet(d.outputs) = ToSet(desk.outputs) \cup {o}
          /\ d.current = IF desk.activeOutput = NULL THEN w ELSE desk.current
          /\ desk' = FocusFirst(Display(d, w), w)
    BY <1>5, NewOutputIs
  <2>2. PICK d : /\ Good(d, {}) /\ SameWindows(desk, d) /\ d.output[w] = o
                 /\ ToSet(d.outputs) = ToSet(desk.outputs) \cup {o}
                 /\ d.current = IF desk.activeOutput = NULL THEN w ELSE desk.current
                 /\ desk' = FocusFirst(Display(d, w), w)
    BY <2>1
  <2>3. desk.activeOutput = NULL
    <3>1. o \notin ToSet(desk.outputs)
      BY <1>5 DEF server_new_output
    <3> QED BY <1>1, <1>3, <3>1 DEF Screens
  <2> QED BY <1>2, <1>4, <2>2, <2>3
<1>6. CASE PowerOn(o)
  <2>1. PICK w \in Workspace : \E d :
          /\ Good(d, {}) /\ SameWindows(desk, d) /\ d.output[w] = o
          /\ d.outputs = desk.outputs
          /\ d.current = IF desk.activeOutput = NULL THEN w ELSE desk.current
          /\ w = desk.shows[o]
          /\ desk' = FocusShown(Display(d, w), w)
    BY <1>6, PowerOnIs
  <2>2. PICK d : /\ Good(d, {}) /\ SameWindows(desk, d) /\ d.output[w] = o
                 /\ d.outputs = desk.outputs
                 /\ d.current = IF desk.activeOutput = NULL THEN w ELSE desk.current
                 /\ desk' = FocusShown(Display(d, w), w)
    BY <2>1
  <2>3. d.current = w
    <3>1. o \in ToSet(desk.outputs)
      BY <1>6 DEF PowerOn
    <3> QED BY <2>1, <2>2, <3>1 DEF Seen, OnDisplay
  <2> QED BY <1>2, <1>4, <2>2, <2>3
<1>7. CASE PowerOff(o)
  <2>1. /\ Inv' /\ desk'.outputs = desk.outputs
        /\ SameWindows(desk, desk') /\ Dark(desk, desk', o)
    BY <1>7, PowerOffGood
  <2>2. Floaters(desk')
    BY <1>1, <2>1, SameWindowsSees
  <2>3. \A w \in Workspace : ~ Bare(desk', w)
    <3>1. \A w \in Workspace : desk.output[w] # NULL => desk.output[w] = o /\ desk.shows[o] = w
      BY <1>1 DEF Screens, Desk, OneOutput
    <3> QED BY <2>1, <3>1 DEF Dark, Bare
  <2>4. Fair(desk')
    BY <2>2, <2>3 DEF Fair, Open, Stacked
  <2>5. desk'.shows = desk.shows /\ desk'.current = desk.current
    BY <1>1, <1>7 DEF PowerOff, PassActive, Vacate, Desk
  <2>6. OnDisplay(desk')
    BY <2>1, <2>5, KeepsOnDisplay DEF Seen
  <2> QED BY <2>4, <2>6 DEF Seen
<1>8. CASE output_destroy(o)
  <2>1. Inv' /\ desk'.outputs = <<>> /\ SameWindows(desk, desk')
    BY <1>8, LastOutputGoes
  <2>2. Floaters(desk')
    BY <1>1, <2>1, SameWindowsSees
  <2>3. ToSet(desk'.outputs) = {}
    BY <2>1 DEF ToSet
  <2>4. \A w \in Workspace : ~ Bare(desk', w)
    BY <2>1, <2>3 DEF Bare, Inv, Good, Screens
  <2>5. Fair(desk')
    BY <2>2, <2>4 DEF Fair, Open, Stacked
  <2> QED BY <2>3, <2>5 DEF Seen, OnDisplay
<1> QED BY <1>5, <1>6, <1>7, <1>8

----------------------------------------------------------------------------
(* Moves between workspaces. *)

(* Nothing that w shows is missed, and its tiles may have to be stacked.   *)
Kept(d, e, w) ==
  Aside(d, e, w) /\ Floaters(e) /\ e.floating = d.floating
    /\ (Open(d, w) => Open(e, w))

(* A window that moves out leaves the other workspaces as they are. *)
LEMMA MoveOutSees ==
  ASSUME NEW d, NEW O, Good(d, O), NEW t \in d.mapped, Sorted(d, {}), Floaters(d)
  PROVE  Kept(d, PassFocus(MoveOut(d, t), t), d.workspace[t])
<1> DEFINE v == d.workspace[t]
           n == [ForgetLast(d, t) EXCEPT !.leaf = @ \ {t}]
           e == Unlink(n, t)
           m == MoveOut(d, t)
           p == PassFocus(m, t)
<1>1. d \in Desk /\ t \in Window /\ v \in Workspace /\ Lists(d, Placed(d))
  BY DEF Good, Windows, Desk
<1>2. /\ Marked(d, n, t) /\ t \notin n.leaf /\ n.floating = d.floating
      /\ n.fullscreenWindow = d.fullscreenWindow /\ n.output = d.output
  BY <1>1 DEF Desk, ForgetLast, Marked, Relabelled, SameFocus
<1>3. m = IF t \in d.floating THEN e ELSE ExitMonocleIfEmpty(e, v)
  BY DEF MoveOut
<1>4. e = Unlink(n, t)
  OBVIOUS
<1> HIDE DEF n, e
<1>5. /\ Aside(d, e, v)
      /\ e.enabled = d.enabled /\ e.monocle = d.monocle /\ e.floating = n.floating
      /\ Bare(e, v) <=> Bare(n, v)
      /\ Lists(n, Placed(d)) /\ n \in Desk /\ n.workspace = d.workspace
      /\ \A w \in Workspace : Tiles(n, w) = Tiles(d, w) /\ Floats(n, w) = Floats(d, w)
  BY <1>1, <1>2, <1>4, MarkedAside
<1>6. \A w \in Workspace : /\ Tiles(e, w) = Tiles(n, w) \ {t}
                           /\ Floats(e, w) = Floats(n, w) \ {t}
  BY <1>1, <1>4, <1>5, RelistIs
<1>7. Floaters(e)
  BY <1>2, <1>5, <1>6 DEF Floaters
<1>8. Open(d, v) => Open(e, v)
  BY <1>1, <1>2, <1>5, <1>6 DEF Open, Bare
<1>9. e \in Desk /\ Lists(e, Placed(d) \ {t})
  BY <1>4, <1>5, UnlinkLists DEF Relinked
<1>10. Sorted(e, {})
  <2>1. Sorted(d, {t})
    BY SortedBut DEF Rough
  <2>2. Sorted(n, {t})
    BY <1>2, <2>1, RelabelledSorts DEF Marked
  <2> QED BY <1>1, <1>2, <1>4, <1>5, <2>2, RelinkSorts
<1>11. Aside(e, m, v) /\ Floaters(m) /\ m.floating = e.floating /\ m \in Desk
       /\ (Open(e, v) => Open(m, v))
  <2>1. CASE t \in d.floating
    BY <1>3, <1>7, <1>9, <2>1 DEF Aside, Clears
  <2>2. CASE t \notin d.floating
    <3>1. /\ Local(e, ExitMonocleIfEmpty(e, v), v) /\ Floaters(ExitMonocleIfEmpty(e, v))
          /\ Spread(e, v) => Spread(ExitMonocleIfEmpty(e, v), v)
          /\ Open(e, v) => Open(ExitMonocleIfEmpty(e, v), v)
      BY <1>1, <1>7, <1>9, <1>10, ExitMonocleSees
    <3>2. Local(e, m, v) /\ Floaters(m) /\ (Open(e, v) => Open(m, v))
      BY <1>3, <2>2, <3>1
    <3>3. Aside(e, m, v)
      BY <1>9, <3>2, LocalAside
    <3> QED BY <3>2, <3>3 DEF Local, Alike
  <2> QED BY <2>1, <2>2
<1> HIDE DEF m
<1>12. /\ p.toplevels = m.toplevels /\ p.floats = m.floats
       /\ p.floating = m.floating /\ p.fullscreen = m.fullscreen
       /\ p.output = m.output /\ p.fullscreenWindow = m.fullscreenWindow
       /\ p.enabled = m.enabled /\ p.monocle = m.monocle
  BY <1>11 DEF PassFocus, Desk
<1> HIDE DEF p
<1>13. (\A w \in Workspace : Clears(m, p, w)) /\ Floaters(p)
  BY <1>11, <1>12, LooksAlike
<1>14. Aside(m, p, v) /\ (Open(m, v) => Open(p, v))
  BY <1>1, <1>13 DEF Aside, Clears
<1>15. Aside(d, p, v)
  BY <1>5, <1>11, <1>14, AsideTrans
<1>16. Kept(d, p, v)
  BY <1>2, <1>5, <1>8, <1>11, <1>12, <1>13, <1>14, <1>15 DEF Kept
<1> QED BY <1>16 DEF p, m

(* One that moves in is listed with those of w, as a tile or as floating. *)
LEMMA MoveInIs ==
  ASSUME NEW d, NEW t, NEW O, Loose(d, t, O), NEW w \in Workspace, NEW e,
         e = MoveIn(d, t, w)
  PROVE  /\ Good(e, O) /\ t \in e.mapped /\ e.workspace[t] = w
         /\ e.enabled = d.enabled /\ e.monocle = d.monocle /\ e.output = d.output
         /\ e.floating = d.floating /\ e.fullscreen = d.fullscreen
         /\ e.fullscreenWindow = d.fullscreenWindow
         /\ \A v \in Workspace : v # w => /\ Tiles(e, v) = Tiles(d, v)
                                          /\ Floats(e, v) = Floats(d, v)
         /\ t \in d.floating => /\ Tiles(e, w) = Tiles(d, w)
                                /\ Floats(e, w) = Floats(d, w) \cup {t}
         /\ t \notin d.floating => /\ Tiles(e, w) = Tiles(d, w) \cup {t}
                                   /\ Floats(e, w) = Floats(d, w)
<1> DEFINE in == [d EXCEPT !.workspace[t] = w, !.focused[w] = t]
           n == [in EXCEPT !.leaf = @ \cup {t}]
           l == LinkFloating(in, t)
           k == LinkTiled(n, t)
<1>1. d \in Desk /\ t \in Window /\ t \in d.mapped /\ t \notin d.fullscreen
  BY DEF Loose, Desk
<1>2. /\ Good(e, O) /\ e.workspace = [d.workspace EXCEPT ![t] = w]
      /\ e.mapped = d.mapped /\ e.output = d.output /\ e.shows = d.shows
      /\ e.outputs = d.outputs /\ e.powered = d.powered
      /\ e.current = d.current /\ Thins(d, e, Workspace \ {w})
  BY EntersWorkspace
<1>3. /\ in \in Desk /\ in.toplevels = d.toplevels /\ in.floating = d.floating
      /\ in.fullscreen = d.fullscreen /\ in.savedFloating = d.savedFloating
      /\ in.enabled = d.enabled /\ in.monocle = d.monocle
      /\ in.fullscreenWindow = d.fullscreenWindow
      /\ in.workspace = [d.workspace EXCEPT ![t] = w]
  BY <1>1 DEF Desk
<1>4. e = IF t \in d.floating THEN l ELSE k
  BY DEF MoveIn
<1> HIDE DEF in
<1>5. /\ n \in Desk /\ n.toplevels = d.toplevels /\ n.floating = d.floating
      /\ n.fullscreen = d.fullscreen /\ n.savedFloating = d.savedFloating
      /\ n.enabled = d.enabled /\ n.monocle = d.monocle
      /\ n.fullscreenWindow = d.fullscreenWindow /\ n.workspace = in.workspace
  BY <1>1, <1>3 DEF Desk
<1> HIDE DEF n
<1>6. in.workspace[t] = w /\ n.workspace[t] = w /\ e.workspace[t] = w
  BY <1>1, <1>2, <1>3, <1>5 DEF Desk
<1>7. /\ \A v \in Workspace : Tiles(l, v) = Tiles(in, v)
      /\ \A v \in Workspace : v # w => Tiles(k, v) = Tiles(n, v)
      /\ Tiles(k, w) = Tiles(n, w) \cup {t}
  <2>1. \A v \in Workspace : Tiles(l, v) = Tiles(in, v)
    BY <1>1, <1>3, <1>6, LinkTiles
  <2>2. /\ \A v \in Workspace : v # n.workspace[t] => Tiles(k, v) = Tiles(n, v)
        /\ Tiles(k, n.workspace[t]) = Tiles(n, n.workspace[t]) \cup {t}
    BY <1>1, <1>5, <1>6, LinkTiles
  <2> QED BY <1>6, <2>1, <2>2
<1>8. \A v \in Workspace : Tiles(in, v) = Tiles(d, v) /\ Tiles(n, v) = Tiles(d, v)
  BY <1>3, <1>5 DEF Tiles
<1>9. /\ l.enabled = d.enabled /\ l.monocle = d.monocle /\ l.floating = d.floating
      /\ l.fullscreen = d.fullscreen /\ l.savedFloating = d.savedFloating
      /\ l.fullscreenWindow = d.fullscreenWindow
  BY <1>3 DEF LinkFloating, Desk
<1>10. /\ k.enabled = d.enabled /\ k.monocle = d.monocle /\ k.floating = d.floating
       /\ k.fullscreen = d.fullscreen /\ k.savedFloating = d.savedFloating
       /\ k.fullscreenWindow = d.fullscreenWindow
  BY <1>5 DEF LinkTiled, Desk
<1> HIDE DEF l, k
<1>11. /\ e.enabled = d.enabled /\ e.monocle = d.monocle /\ e.floating = d.floating
       /\ e.fullscreen = d.fullscreen /\ e.savedFloating = d.savedFloating
       /\ e.fullscreenWindow = d.fullscreenWindow
  BY <1>4, <1>9, <1>10
<1>12. \A v \in Workspace :
         Tiles(e, v) = IF v = w /\ t \notin d.floating THEN Tiles(d, v) \cup {t}
                       ELSE Tiles(d, v)
  BY <1>4, <1>7, <1>8
<1>13. Placed(e) = Placed(d) /\ t \in Placed(d) /\ Placed(d) \subseteq Window
  BY <1>1, <1>2, <1>11 DEF Placed, Desk
<1>14. \A v \in Workspace :
         /\ Floats(e, v) = {u \in Placed(d) : e.workspace[u] = v} \ Tiles(e, v)
         /\ Floats(d, v) = {u \in Placed(d) \ {t} : d.workspace[u] = v} \ Tiles(d, v)
         /\ t \notin Tiles(d, v)
  <2>1. Lists(e, Placed(e)) /\ Lists(d, Placed(d) \ {t})
    BY <1>2 DEF Good, Windows, Loose
  <2>2. \A v \in Workspace : t \notin Tiles(d, v)
    BY <2>1 DEF Lists, Listed, Tiles
  <2> QED BY <1>13, <2>1, <2>2, ListsFloats
<1>15. \A u \in Placed(d) \ {t} : e.workspace[u] = d.workspace[u]
  BY <1>1, <1>2, <1>13 DEF Desk
<1>16. \A v \in Workspace : v # w => Floats(e, v) = Floats(d, v)
  <2> SUFFICES ASSUME NEW v \in Workspace, v # w
               PROVE  Floats(e, v) = Floats(d, v)
    OBVIOUS
  <2>1. {u \in Placed(d) : e.workspace[u] = v} = {u \in Placed(d) \ {t} : d.workspace[u] = v}
    BY <1>6, <1>15
  <2>2. Tiles(e, v) = Tiles(d, v)
    BY <1>12
  <2> QED BY <1>14, <2>1, <2>2
<1>17. Floats(e, w) = IF t \in d.floating THEN Floats(d, w) \cup {t} ELSE Floats(d, w)
  <2> DEFINE A == {u \in Placed(d) : e.workspace[u] = w}
             B == {u \in Placed(d) \ {t} : d.workspace[u] = w}
  <2>1. A = B \cup {t} /\ t \notin B
    BY <1>6, <1>13, <1>15
  <2>2. Floats(e, w) = A \ Tiles(e, w) /\ Floats(d, w) = B \ Tiles(d, w) /\ t \notin Tiles(d, w)
    BY <1>14
  <2>3. Tiles(e, w) = IF t \notin d.floating THEN Tiles(d, w) \cup {t} ELSE Tiles(d, w)
    BY <1>12
  <2> HIDE DEF A, B
  <2> QED BY <2>1, <2>2, <2>3
<1> QED BY <1>1, <1>2, <1>6, <1>11, <1>12, <1>16, <1>17

(* It is visible with the others of w, if w is. *)
LEMMA MoveInSees ==
  ASSUME NEW d, NEW t, NEW O, Loose(d, t, O), Floaters(d), NEW w \in Workspace,
         Open(d, w)
  PROVE  /\ Aside(d, ShowMoved(MoveIn(d, t, w), t), w)
         /\ Floaters(ShowMoved(MoveIn(d, t, w), t))
         /\ Open(ShowMoved(MoveIn(d, t, w), t), w)
<1> DEFINE e == MoveIn(d, t, w)
           g == Enable(e, {t})
           h == Disable(e, {t})
           s == ShowMoved(e, t)
<1>1. e = MoveIn(d, t, w)
  OBVIOUS
<1>2. s = IF e.output[e.workspace[t]] = NULL THEN h ELSE focus_toplevel(g, t)
  BY DEF ShowMoved
<1> HIDE DEF e
<1>3. /\ Good(e, O) /\ t \in e.mapped /\ e.workspace[t] = w
      /\ e.enabled = d.enabled /\ e.monocle = d.monocle /\ e.output = d.output
      /\ e.floating = d.floating /\ e.fullscreen = d.fullscreen
      /\ e.fullscreenWindow = d.fullscreenWindow
      /\ \A v \in Workspace : v # w => /\ Tiles(e, v) = Tiles(d, v)
                                       /\ Floats(e, v) = Floats(d, v)
      /\ t \in d.floating => /\ Tiles(e, w) = Tiles(d, w)
                             /\ Floats(e, w) = Floats(d, w) \cup {t}
      /\ t \notin d.floating => /\ Tiles(e, w) = Tiles(d, w) \cup {t}
                                /\ Floats(e, w) = Floats(d, w)
  BY <1>1, MoveInIs
<1>4. e \in Desk /\ t \in Window /\ Lists(e, Placed(e))
  BY <1>3 DEF Good, Windows, Desk
<1>5. Floaters(e)
  BY <1>3 DEF Floaters
<1>6. Aside(d, e, w)
  <2>1. ASSUME NEW v \in Workspace \ {w}
        PROVE  View(d, e, v)
    BY <1>3, <2>1 DEF View, Bare, Tiled
  <2> QED BY <2>1, ViewClears DEF Aside
<1>7. /\ g.enabled = e.enabled \cup {t} /\ g.monocle = e.monocle
      /\ Alike(e, g) /\ Alike(e, h) /\ Local(e, g, w) /\ Local(e, h, w)
  BY <1>3, <1>4, EnableIs, EnableLocal
<1> HIDE DEF g, h, s
<1>8. /\ \A v \in Workspace :
           /\ Tiles(g, v) = Tiles(e, v) /\ Floats(g, v) = Floats(e, v)
           /\ Bare(g, v) <=> Bare(e, v)
           /\ Bare(h, v) <=> Bare(e, v)
      /\ Floaters(g) /\ Floaters(h)
  BY <1>5, <1>7, AlikeSees
<1>9. Aside(d, g, w) /\ Aside(d, h, w)
  BY <1>4, <1>6, <1>7, LocalAside, AsideTrans
<1>10. CASE e.output[w] = NULL
  <2>1. ~ Bare(h, w)
    BY <1>8, <1>10 DEF Bare
  <2>2. Open(h, w)
    BY <2>1 DEF Open
  <2> QED BY <1>2, <1>3, <1>8, <1>9, <1>10, <2>2 DEF s, e
<1>11. CASE e.output[w] # NULL
  <2>1. Open(g, w)
    <3>1. Bare(g, w) <=> Bare(d, w)
      BY <1>3, <1>8 DEF Bare
    <3> QED BY <1>3, <1>7, <1>8, <3>1 DEF Open
  <2>2. Good(g, O) /\ t \in g.mapped /\ t \in g.enabled
    BY <1>3, <1>7, AlikeGood DEF Alike
  <2>3. AllClear(g, focus_toplevel(g, t))
    BY <1>8, <2>2, FocusSees
  <2>4. Aside(g, focus_toplevel(g, t), w)
    BY <2>3 DEF AllClear, Aside
  <2>5. /\ Aside(d, focus_toplevel(g, t), w) /\ Floaters(focus_toplevel(g, t))
        /\ Open(focus_toplevel(g, t), w)
    BY <1>8, <1>9, <2>1, <2>3, <2>4, AsideTrans DEF AllClear, Clears
  <2> QED BY <1>2, <1>3, <1>11, <2>5 DEF s, e
<1> QED BY <1>10, <1>11

(* After both, the layout stacks the tiles of the two workspaces. *)
LEMMA MoveFair ==
  ASSUME NEW d, NEW O, Good(d, O), Sorted(d, {}), Fair(d), NEW t \in d.mapped,
         NEW w \in Workspace
  PROVE  Fair(workspace_move_toplevel(d, t, w))
<1> DEFINE v == d.workspace[t]
           n == NotFullscreen(d, t)
           out == PassFocus(MoveOut(n, t), t)
           in == MoveIn(out, t, w)
           s == ShowMoved(in, t)
           a == ArrangeIfTree(s, v)
           b == ArrangeIfTree(a, w)
<1>1. t \in Window /\ v \in Workspace
  BY DEF Good, Windows, Desk
<1>2. CASE v = w
  BY <1>2 DEF workspace_move_toplevel
<1>3. CASE v # w
  <2>1. Good(n, O) /\ t \in n.mapped \ n.fullscreen /\ Sorted(n, {}) /\ n.workspace = d.workspace
    BY NotFullscreenGood, ToggleFullscreenTidies DEF Keeps, Tidies
  <2>2. Fair(n)
    BY ToggleFullscreenFair
  <2>3. workspace_move_toplevel(d, t, w) = b
    BY <1>3 DEF workspace_move_toplevel
  <2>4. n.workspace[t] = v
    BY <2>1
  <2> HIDE DEF v, n
  <2>5. Loose(out, t, O) /\ Sorted(out, {})
    BY <2>1, LeavesWorkspace, MoveOutSorts
  <2>6. Kept(n, out, v)
    BY <2>1, <2>2, <2>4, MoveOutSees DEF Fair
  <2> HIDE DEF out
  <2>7. /\ \A u \in Workspace : Open(out, u)
        /\ \A u \in Workspace \ {v} : Stacked(out, u)
        /\ Floaters(out)
    BY <2>2, <2>6 DEF Kept, Fair, Aside, Clears
  <2>8. Good(in, O) /\ t \in in.mapped /\ Sorted(in, {})
    <3>1. /\ Good(in, O) /\ in.workspace = [out.workspace EXCEPT ![t] = w]
          /\ in.mapped = out.mapped /\ in.output = out.output /\ in.shows = out.shows
          /\ in.outputs = out.outputs /\ in.powered = out.powered
          /\ in.current = out.current /\ Thins(out, in, Workspace \ {w})
      BY <2>5, EntersWorkspace
    <3>2. (Sorted(out, {}) => Sorted(in, {})) /\ Aimed(in, t)
      BY <2>5, MoveInSorts
    <3>3. t \in out.mapped
      BY <2>5 DEF Loose
    <3> QED BY <2>5, <3>1, <3>2, <3>3
  <2>9. Aside(out, s, w) /\ Floaters(s) /\ Open(s, w)
    BY <2>5, <2>7, MoveInSees
  <2> HIDE DEF in
  <2>10. Good(s, O) /\ Sorted(s, {})
    BY <2>8, ShowMovedGood, ShowMovedTidies DEF Tidies
  <2> HIDE DEF s
  <2>11. Leafy(s, v) /\ Leafy(s, w)
    BY <1>1, <2>10, SortedLeafy DEF Rough
  <2>12. /\ \A u \in Workspace : Open(s, u)
         /\ \A u \in Workspace \ {v, w} : Stacked(s, u)
    BY <2>7, <2>9 DEF Aside, Clears
  <2>13. s \in Desk /\ Lists(s, Placed(s))
    BY <2>10 DEF Good, Windows
  <2>14. /\ Local(s, a, v) /\ Floaters(a)
         /\ Open(s, v) => Open(a, v)
         /\ Stacked(a, v)
    BY <1>1, <2>9, <2>10, <2>11, ArrangeTreeSees
  <2>15. Aside(s, a, v)
    BY <2>13, <2>14, LocalAside
  <2> HIDE DEF a
  <2>16. Good(a, O) /\ Leafy(a, w)
    BY <2>10, <2>11, <2>14, AlikeGood, AlikeSees DEF Local, Leafy
  <2>17. /\ \A u \in Workspace : Open(a, u)
         /\ \A u \in Workspace \ {w} : Stacked(a, u)
    BY <1>1, <2>12, <2>14, <2>15 DEF Aside, Clears
  <2>18. /\ Local(a, b, w) /\ Floaters(b)
         /\ Open(a, w) => Open(b, w)
         /\ Stacked(b, w)
    BY <2>14, <2>16, ArrangeTreeSees
  <2>19. a \in Desk /\ Lists(a, Placed(a))
    BY <2>16 DEF Good, Windows
  <2>20. Aside(a, b, w)
    BY <2>18, <2>19, LocalAside
  <2> HIDE DEF b
  <2>21. Fair(b)
    BY <2>17, <2>18, <2>20 DEF Fair, Aside, Clears
  <2> QED BY <2>3, <2>21
<1> QED BY <1>2, <1>3

----------------------------------------------------------------------------
(* Requests of clients, bars and of the user. *)

(* A step that leaves the outputs alone has to be fair only. *)
LEMMA KeepsSeen ==
  ASSUME Seen, NEW e, Keeps(desk, e), Fair(e), desk' = e
  PROVE  Seen'
<1>1. OnDisplay(e)
  BY KeepsOnDisplay DEF Keeps, Seen
<1>2. OnDisplay(desk') /\ Fair(desk')
  BY <1>1
<1> QED BY <1>2 DEF Seen

(* The focus of a mapped window is fair. *)
LEMMA FocusFair ==
  ASSUME NEW d, NEW O, Good(d, O), Sorted(d, {}), Fair(d), NEW t \in d.mapped
  PROVE  Fair(focus_toplevel(d, t)) /\ Keeps(d, focus_toplevel(d, t))
<1>1. AllClear(d, focus_toplevel(d, t))
  BY FocusClear DEF Fair
<1>2. Refocused(d, focus_toplevel(d, t))
  BY FocusGood
<1> QED BY <1>1, <1>2, AllClearFair, RefocusedKeeps

(* Requests about a window. *)
LEMMA WindowRequestsSeen ==
  ASSUME Inv, Orderly, Seen, EarlyFullscreen = {}, OneOutput, NEW t \in Window,
         \/ RequestActivate(t) \/ Click(t) \/ Grab(t) \/ RequestMove(t)
         \/ RequestFullscreen(t)
  PROVE  Seen'
<1>1. /\ t \in desk.mapped /\ desk.workspace[t] \in Workspace
      /\ Good(desk, {}) /\ Sorted(desk, {}) /\ Fair(desk) /\ OnDisplay(desk)
  <2>1. t \in desk.mapped
    BY DEF RequestActivate, Click, Grab, RequestMove, RequestFullscreen, Mapped
  <2> QED BY <2>1 DEF Inv, Good, Windows, Orderly, Seen
<1>2. CASE RequestActivate(t)
  <2> DEFINE d == workspace_switch(desk, desk.workspace[t])
  <2>1. Good(d, {}) /\ d.mapped = desk.mapped /\ Sorted(d, {})
    BY <1>1, SwitchGood, SwitchTidies DEF Tidies
  <2>2. Fair(d) /\ OnDisplay(d)
    BY <1>1, SwitchFair, SwitchOnDisplay
  <2>3. desk' = focus_toplevel(d, t)
    BY <1>2 DEF RequestActivate
  <2> HIDE DEF d
  <2>4. Fair(focus_toplevel(d, t)) /\ Keeps(d, focus_toplevel(d, t))
    BY <1>1, <2>1, <2>2, FocusFair
  <2>5. OnDisplay(focus_toplevel(d, t))
    BY <2>2, <2>4, KeepsOnDisplay DEF Keeps
  <2>6. Fair(desk') /\ OnDisplay(desk')
    BY <2>3, <2>4, <2>5
  <2> QED BY <2>6 DEF Seen
<1>3. CASE Click(t)
  <2>1. Fair(focus_toplevel(desk, t)) /\ Keeps(desk, focus_toplevel(desk, t))
    BY <1>1, FocusFair
  <2> QED BY <1>3, <2>1, KeepsSeen DEF Click
<1>4. CASE Grab(t)
  <2> DEFINE d == focus_toplevel(desk, t)
             e == toggle_floating(d, t)
  <2>1. desk' = IF t \in d.floating THEN d ELSE e
    BY <1>4 DEF Grab
  <2>2. Good(d, {}) /\ t \in d.mapped /\ Sorted(d, {})
    BY <1>1, FocusGood, FocusTidies DEF Refocused, Tidies
  <2>3. Fair(d) /\ Keeps(desk, d)
    BY <1>1, FocusFair
  <2> HIDE DEF d
  <2>4. Fair(e) /\ Keeps(d, e)
    BY <2>2, <2>3, ToggleFloatingFair, ToggleFloatingGood
  <2> HIDE DEF e
  <2>5. Keeps(desk, e)
    BY <2>3, <2>4, KeepsTrans
  <2> QED BY <2>1, <2>3, <2>4, <2>5, KeepsSeen
<1>5. CASE RequestMove(t)
  <2>1. Fair(toggle_floating(desk, t)) /\ Keeps(desk, toggle_floating(desk, t))
    BY <1>1, ToggleFloatingFair, ToggleFloatingGood
  <2> QED BY <1>5, <2>1, KeepsSeen DEF RequestMove
<1>6. CASE RequestFullscreen(t)
  <2>1. Fair(toggle_fullscreen(desk, t)) /\ Keeps(desk, toggle_fullscreen(desk, t))
    BY <1>1, ToggleFullscreenFair, ToggleFullscreenGood
  <2> QED BY <1>6, <2>1, KeepsSeen DEF RequestFullscreen
<1> QED BY <1>2, <1>3, <1>4, <1>5, <1>6

(* Key bindings. *)
LEMMA BindingsSeen ==
  ASSUME Inv, Orderly, Seen,
         \/ ToggleFloating \/ ToggleFullscreen \/ ToggleMonocle \/ SetBsp
         \/ (\E t \in Window : MoveFocus(t)) \/ CycleFocus
  PROVE  Seen'
<1>1. Good(desk, {}) /\ Sorted(desk, {}) /\ Fair(desk)
  BY DEF Inv, Orderly, Seen
<1>2. CASE ToggleFloating \/ ToggleFullscreen \/ ToggleMonocle \/ SetBsp
  <2> DEFINE t == Focused(desk)
             w == current_ws(desk)
  <2>1. t # NULL /\ \/ desk' = toggle_floating(desk, t)
                    \/ desk' = toggle_fullscreen(desk, t)
                    \/ desk' = toggle_monocle(desk, w)
                    \/ desk' = set_bsp_mode(desk, w)
    BY <1>2 DEF ToggleFloating, ToggleFullscreen, ToggleMonocle, SetBsp
  <2>2. w \in Workspace /\ t = desk.focused[w] /\ t \in desk.mapped \cup {NULL}
    BY FocusedIs
  <2> HIDE DEF t, w
  <2>3. t \in desk.mapped /\ desk.focused[w] # NULL
    BY <2>1, <2>2
  <2>4. Fair(toggle_floating(desk, t)) /\ Keeps(desk, toggle_floating(desk, t))
    BY <1>1, <2>3, ToggleFloatingFair, ToggleFloatingGood
  <2>5. Fair(toggle_fullscreen(desk, t)) /\ Keeps(desk, toggle_fullscreen(desk, t))
    BY <1>1, <2>3, ToggleFullscreenFair, ToggleFullscreenGood
  <2>6. Fair(toggle_monocle(desk, w)) /\ Keeps(desk, toggle_monocle(desk, w))
    BY <1>1, <2>2, <2>3, ToggleMonocleFair, ToggleMonocleGood
  <2>7. Fair(set_bsp_mode(desk, w)) /\ Keeps(desk, set_bsp_mode(desk, w))
    BY <1>1, <2>2, <2>3, SetBspFair, SetBspGood
  <2> QED BY <2>1, <2>4, <2>5, <2>6, <2>7, KeepsSeen
<1>3. CASE (\E t \in Window : MoveFocus(t)) \/ CycleFocus
  <2>1. PICK u \in desk.mapped : desk' = focus_toplevel(desk, u)
    BY <1>3, PassFocusIs
  <2>2. Fair(focus_toplevel(desk, u)) /\ Keeps(desk, focus_toplevel(desk, u))
    BY <1>1, FocusFair
  <2> QED BY <2>1, <2>2, KeepsSeen
<1> QED BY <1>2, <1>3

(* Another workspace, without the focused window or with it. *)
LEMMA WorkspaceRequestsSeen ==
  ASSUME Inv, Orderly, Seen, OneOutput, NEW w \in Workspace,
         Switch(w) \/ MoveToWorkspace(w)
  PROVE  Seen'
<1>1. Good(desk, {}) /\ Sorted(desk, {}) /\ Fair(desk) /\ OnDisplay(desk)
  BY DEF Inv, Orderly, Seen
<1>2. CASE Switch(w)
  <2>1. Fair(workspace_switch(desk, w)) /\ OnDisplay(workspace_switch(desk, w))
    BY <1>1, SwitchFair, SwitchOnDisplay
  <2>2. Fair(desk') /\ OnDisplay(desk')
    BY <1>2, <2>1 DEF Switch
  <2> QED BY <2>2 DEF Seen
<1>3. CASE MoveToWorkspace(w)
  <2> DEFINE t == Focused(desk)
             d == workspace_move_toplevel(desk, t, w)
             e == workspace_switch(d, w)
             f == focus_toplevel(e, t)
  <2>1. t # NULL /\ desk' = f
    BY <1>3 DEF MoveToWorkspace
  <2>2. t \in desk.mapped
    BY <2>1, FocusedIs
  <2> HIDE DEF t
  <2>3. Good(d, {}) /\ Carries(desk, d, w)
    BY <1>1, <2>2, MoveGood
  <2>4. Sorted(d, {}) /\ Fair(d)
    BY <1>1, <2>2, MoveTidies, MoveFair
  <2> HIDE DEF d
  <2>5. OnDisplay(d)
    BY <1>1, <2>3, KeepsOnDisplay DEF Carries
  <2>6. /\ Good(e, {}) /\ e.mapped = d.mapped /\ Sorted(e, {})
        /\ Fair(e) /\ OnDisplay(e)
    BY <2>3, <2>4, <2>5, SwitchGood, SwitchTidies, SwitchFair, SwitchOnDisplay DEF Tidies
  <2> HIDE DEF e
  <2>7. t \in e.mapped
    BY <2>2, <2>3, <2>6 DEF Carries
  <2>8. Fair(f) /\ Keeps(e, f)
    BY <2>6, <2>7, FocusFair
  <2> HIDE DEF f
  <2>9. OnDisplay(f)
    BY <2>6, <2>8, KeepsOnDisplay DEF Keeps
  <2>10. Fair(desk') /\ OnDisplay(desk')
    BY <2>1, <2>8, <2>9
  <2> QED BY <2>10 DEF Seen
<1> QED BY <1>2, <1>3

----------------------------------------------------------------------------
(* Windows come. *)

(* t has come to d: it is visible, and the others of its workspace are as   *)
(* they should be without it.                                              *)
Come(d, t) ==
  LET w == d.workspace[t]
  IN /\ Fresh(d, t) /\ Floaters(d) /\ t \in d.enabled \cup XWayland
     /\ \A v \in Workspace : Open(d, v) /\ (v # w => Stacked(d, v))
     /\ Bare(d, w) /\ w \in d.monocle /\ TilesOf(d, w) \ {t} # {} =>
          \E u \in Window : (TilesOf(d, w) \ {t}) \cap d.enabled = {u}

(* If it floats, it was not among those to stack. *)
LEMMA ComesAfloat ==
  ASSUME NEW d, Good(d, {}), NEW t \in d.mapped, Come(d, t), t \in d.floating
  PROVE  Fair(MapFloat(d, t)) /\ Keeps(d, MapFloat(d, t))
<1> DEFINE w == d.workspace[t]
<1>1. TilesOf(d, w) \ {t} = TilesOf(d, w)
  BY DEF TilesOf, Tiled
<1>2. Stacked(d, w)
  BY <1>1 DEF Come, Stacked
<1>3. Fair(d)
  BY <1>2 DEF Come, Fair
<1>4. MapFloat(d, t) = focus_toplevel(d, t)
  BY DEF MapFloat, Tiled
<1>5. AllClear(d, focus_toplevel(d, t))
  BY FocusSees DEF Come
<1>6. Refocused(d, focus_toplevel(d, t))
  BY FocusGood
<1> QED BY <1>3, <1>4, <1>5, <1>6, AllClearFair, RefocusedKeeps

(* It floats out, or is made to float by a rule. *)
LEMMA FloatsFair ==
  ASSUME NEW d, Good(d, {}), NEW t \in d.mapped \ d.fullscreen, Come(d, t),
         NEW g, g = LinkFloating(Unlink([d EXCEPT !.floating = @ \cup {t}], t), t)
  PROVE  Fair(g) /\ Good(g, {}) /\ Sorted(g, {}) /\ ~ Tiled(g, t) /\ Keeps(d, g)
<1> DEFINE b == [d EXCEPT !.floating = @ \cup {t}]
           f == LinkFloating(Unlink(b, t), t)
           w == d.workspace[t]
<1>1. d \in Desk /\ t \in Window /\ w \in Workspace /\ Lists(d, Placed(d))
  BY DEF Good, Windows, Desk
<1>2. /\ Marked(d, b, t) /\ t \in b.floating /\ t \notin b.leaf
      /\ b.fullscreenWindow = d.fullscreenWindow
      /\ b.floating = d.floating \cup {t} /\ b.fullscreen = d.fullscreen
  BY <1>1 DEF Desk, Marked, Relabelled, SameFocus, Come, Fresh
<1>3. g = f
  OBVIOUS
<1>4. Good(g, {}) /\ Keeps(d, g)
  BY FloatsGood
<1> HIDE DEF b
<1>5. /\ Aside(d, g, w) /\ Floaters(g)
      /\ g.enabled = d.enabled /\ g.monocle = d.monocle
      /\ Bare(g, w) <=> Bare(b, w)
      /\ Tiles(g, w) = Tiles(d, w) \ {t}
      /\ Floats(g, w) = Floats(d, w) \cup {t}
  <2>1. Floaters(d)
    BY DEF Come
  <2>2. /\ Aside(d, f, w) /\ Floaters(f)
        /\ f.enabled = d.enabled /\ f.monocle = d.monocle
        /\ Bare(f, w) <=> Bare(b, w)
        /\ Tiles(f, w) = Tiles(d, w) \ {t}
        /\ Floats(f, w) = Floats(d, w) \cup {t}
    BY <1>1, <1>2, <2>1, AfloatSees
  <2> HIDE DEF f
  <2> QED BY <1>3, <2>2
<1>6. b \in Desk /\ b.workspace = d.workspace /\ Lists(b, Placed(d)) /\ Sorted(b, {t})
  BY <1>1, <1>2, RelabelledSorts DEF Marked, Relabelled, SameFocus, Come, Fresh
<1>7. Sorted(g, {}) /\ Relinked(b, g)
  <2>1. b.workspace[t] \in Workspace
    BY <1>1, <1>6
  <2>2. Sorted(LinkFloating(Unlink(b, t), t), {})
    BY <1>1, <1>2, <1>6, <2>1, RelinkSorts
  <2>3. Relinked(b, LinkFloating(Unlink(b, t), t))
    BY <1>1, <1>6, <2>1, RelistLists
  <2> QED BY <1>3, <2>2, <2>3
<1>8. Bare(g, w) <=> Bare(d, w)
  BY <1>2, <1>5 DEF Bare, Marked
<1>9. Open(g, w)
  BY <1>1, <1>5, <1>8 DEF Come, Open
<1>10. TilesOf(g, w) = TilesOf(d, w) \ {t}
  <2>1. g.floating = d.floating \cup {t} /\ g.fullscreen = d.fullscreen
    BY <1>2, <1>7 DEF Relinked
  <2>2. \A u \in Tiles(d, w) \ {t} : Tiled(g, u) <=> Tiled(d, u)
    BY <2>1 DEF Tiled
  <2>3. /\ TilesOf(g, w) = {u \in Tiles(g, w) : Tiled(g, u)}
        /\ TilesOf(d, w) = {u \in Tiles(d, w) : Tiled(d, u)}
    BY DEF TilesOf, Tiles
  <2> QED BY <1>5, <2>2, <2>3
<1>11. Stacked(g, w)
  BY <1>5, <1>8, <1>10 DEF Come, Stacked
<1>12. Fair(g)
  BY <1>1, <1>5, <1>9, <1>11 DEF Fair, Aside, Clears, Come
<1>13. ~ Tiled(g, t)
  BY <1>2, <1>7 DEF Tiled, Relinked
<1> QED BY <1>4, <1>7, <1>12, <1>13

(* A window that goes to the floating list and to the keyboard. *)
LEMMA MapFloatFair ==
  ASSUME NEW d, Good(d, {}), NEW t \in d.mapped \ d.fullscreen, Come(d, t)
  PROVE  Fair(MapFloat(d, t)) /\ Keeps(d, MapFloat(d, t))
<1> DEFINE g == LinkFloating(Unlink([d EXCEPT !.floating = @ \cup {t}], t), t)
<1>1. CASE t \in d.floating
  BY <1>1, ComesAfloat
<1>2. CASE t \notin d.floating
  <2>1. MapFloat(d, t) = focus_toplevel(g, t)
    BY <1>2 DEF MapFloat, Tiled
  <2>2. Fair(g) /\ Good(g, {}) /\ Sorted(g, {}) /\ Keeps(d, g)
    BY FloatsFair
  <2> HIDE DEF g
  <2>3. t \in g.mapped
    BY <2>2 DEF Keeps
  <2>4. Fair(focus_toplevel(g, t)) /\ Keeps(g, focus_toplevel(g, t))
    BY <2>2, <2>3, FocusFair
  <2> QED BY <2>1, <2>2, <2>4, KeepsTrans
<1> QED BY <1>1, <1>2

(* A tile is laid out with the others, and hidden where no workspace shows. *)
LEMMA MapTileFair ==
  ASSUME NEW d, Good(d, {}), NEW t \in d.mapped, Come(d, t), Tiled(d, t), OnDisplay(d)
  PROVE  Fair(MapTile(d, t))
<1> DEFINE w == d.workspace[t]
           l == [d EXCEPT !.leaf = @ \cup {t}]
           a == Arrange(l, w)
           free == d.fullscreenWindow[w] \in {NULL, t}
           f == IF free THEN focus_toplevel(a, t) ELSE a
           h == Disable(f, {t})
<1>1. w \in Workspace /\ t \in Window /\ d \in Desk /\ t \notin d.floating
  BY DEF Good, Windows, Desk, Tiled
<1>2. MapTile(d, t) = IF w # d.current \/ ~ free THEN h ELSE f
  BY DEF MapTile
<1>3. Good(l, {}) /\ Keeps(d, l) /\ Sorted(l, {})
  BY <1>1, LeafGood, LeafSorts DEF Come
<1>4. /\ l.toplevels = d.toplevels /\ l.floats = d.floats
      /\ l.floating = d.floating /\ l.fullscreen = d.fullscreen
      /\ l.output = d.output /\ l.fullscreenWindow = d.fullscreenWindow
      /\ l.enabled = d.enabled /\ l.monocle = d.monocle
  BY <1>1 DEF Desk
<1> HIDE DEF l
<1>5. /\ \A v \in Workspace : Clears(d, l, v)
      /\ Floaters(l)
  BY <1>4, LooksAlike DEF Come
<1>6. /\ \A v \in Workspace : Open(l, v)
      /\ \A v \in Workspace \ {w} : Stacked(l, v)
  BY <1>5 DEF Come, Clears
<1>7. Leafy(l, w) /\ Spread(l, w) /\ l \in Desk /\ Lists(l, Placed(l))
  BY <1>1, <1>3, <1>6, SortedLeafy DEF Rough, Open, Spread, Good, Windows
<1>8. /\ Local(l, a, w) /\ Floaters(a)
      /\ Spread(l, w) => Open(a, w)
      /\ Stacked(a, w)
  BY <1>1, <1>3, <1>5, <1>7, ArrangeSees
<1>9. Aside(l, a, w)
  BY <1>7, <1>8, LocalAside
<1> HIDE DEF a
<1>10. Fair(a)
  BY <1>1, <1>6, <1>7, <1>8, <1>9 DEF Fair, Aside, Clears
<1>11. /\ Good(a, {}) /\ Sorted(a, {}) /\ Keeps(d, a) /\ t \in a.mapped
       /\ a.fullscreenWindow = d.fullscreenWindow
  <2>1. Alike(l, a)
    BY <1>8 DEF Local
  <2>2. Good(a, {}) /\ Sorted(a, {}) /\ Keeps(l, a)
    BY <1>3, <2>1, AlikeGood, SameSorts, AlikeKeeps
  <2>3. Keeps(d, a)
    BY <1>3, <2>2, KeepsTrans
  <2> QED BY <1>4, <2>1, <2>2, <2>3 DEF Keeps, Alike
<1>12. Good(f, {}) /\ Fair(f) /\ Keeps(d, f) /\ f.fullscreenWindow = d.fullscreenWindow
  <2>1. CASE ~ free
    BY <1>10, <1>11, <2>1
  <2>2. CASE free
    <3> DEFINE g == focus_toplevel(a, t)
    <3>1. Fair(g) /\ Keeps(a, g)
      BY <1>10, <1>11, FocusFair
    <3>2. Good(g, {}) /\ Refocused(a, g)
      BY <1>11, FocusGood
    <3>3. f = g
      BY <2>2
    <3> HIDE DEF f, g
    <3>4. Keeps(d, g)
      BY <1>11, <3>1, KeepsTrans
    <3> QED BY <1>11, <3>1, <3>2, <3>3, <3>4 DEF Refocused
  <2> QED BY <2>1, <2>2
<1> HIDE DEF f
<1>13. f \in Desk /\ Lists(f, Placed(f)) /\ f.workspace[t] = w /\ OnDisplay(f) /\ f.current = d.current
  <2>1. OnDisplay(f)
    BY <1>12, KeepsOnDisplay DEF Keeps
  <2> QED BY <1>12, <2>1 DEF Good, Windows, Keeps
<1>14. ASSUME w # d.current \/ ~ free
       PROVE  Fair(h)
  <2>1. ~ Bare(f, w)
    <3>1. CASE ~ free
      BY <1>12, <3>1 DEF Bare
    <3>2. CASE w # d.current
      BY <1>1, <1>12, <1>13, <3>2, CurrentShown
    <3> QED BY <1>14, <3>1, <3>2
  <2>2. Local(f, h, w)
    BY <1>1, <1>13, EnableLocal
  <2> HIDE DEF h
  <2>3. Aside(f, h, w) /\ Floaters(h) /\ ~ Bare(h, w)
    BY <1>1, <1>12, <1>13, <2>1, <2>2, LocalAside, AlikeSees DEF Local, Fair
  <2>4. Open(h, w) /\ Stacked(h, w)
    BY <2>3 DEF Open, Stacked
  <2> QED BY <1>12, <2>3, <2>4, AsideFair
<1> QED BY <1>2, <1>12, <1>14

(* A rule leaves it as it is, or no tile and all visible. *)
LEMMA RuleFair ==
  ASSUME NEW d, Good(d, {}), NEW t \in d.mapped \ d.fullscreen, Come(d, t), NEW rule
  PROVE  \/ rule_apply_all(d, t, rule) = d
         \/ /\ Fair(rule_apply_all(d, t, rule))
            /\ ~ Tiled(rule_apply_all(d, t, rule), t)
<1> DEFINE float == [LinkFloating(Unlink(d, t), t) EXCEPT !.floating = @ \cup {t}]
           leaf == [d EXCEPT !.leaf = IF t \in d.floating THEN @ ELSE @ \cup {t}]
           e == rule_apply_all(d, t, rule)
           g == LinkFloating(Unlink([d EXCEPT !.floating = @ \cup {t}], t), t)
           full == EnterFullscreen(leaf, t)
           w == d.workspace[t]
<1>1. d \in Desk /\ t \in Window /\ w \in Workspace
  BY DEF Good, Windows, Desk
<1>2. Fair(float) /\ ~ Tiled(float, t)
  <2>1. float = g
    BY <1>1, FloatOrder
  <2>2. Fair(g) /\ ~ Tiled(g, t)
    BY FloatsFair
  <2> HIDE DEF float, g
  <2> QED BY <2>1, <2>2
<1>3. Fair(full) /\ ~ Tiled(full, t)
  <2>1. Good(leaf, {})
    <3>1. CASE t \in d.floating
      <4>1. leaf = d
        BY <1>1, <3>1 DEF Desk
      <4> QED BY <4>1
    <3>2. CASE t \notin d.floating
      <4>1. leaf = [d EXCEPT !.leaf = @ \cup {t}]
        BY <3>2
      <4> HIDE DEF leaf
      <4> QED BY <4>1, LeafGood
    <3> QED BY <3>1, <3>2
  <2>2. /\ leaf.toplevels = d.toplevels /\ leaf.floats = d.floats
        /\ leaf.floating = d.floating /\ leaf.fullscreen = d.fullscreen
        /\ leaf.output = d.output /\ leaf.fullscreenWindow = d.fullscreenWindow
        /\ leaf.enabled = d.enabled /\ leaf.monocle = d.monocle
        /\ leaf.workspace = d.workspace /\ leaf.mapped = d.mapped
    BY <1>1 DEF Desk
  <2> HIDE DEF leaf
  <2>3. /\ \A v \in Workspace : Clears(d, leaf, v)
        /\ Floaters(leaf)
    BY <2>2, LooksAlike DEF Come
  <2>4. t \in leaf.mapped \ leaf.fullscreen
    BY <2>2
  <2>5. Aside(leaf, full, w) /\ Floaters(full) /\ ~ Bare(full, w)
    BY <2>1, <2>2, <2>3, <2>4, EnterFullscreenSees
  <2>6. t \in full.fullscreen
    BY <2>1, <2>4, EnterFullscreenTidies
  <2> HIDE DEF full
  <2>7. Open(full, w) /\ Stacked(full, w)
    BY <2>5 DEF Open, Stacked
  <2>8. Fair(full)
    BY <1>1, <2>3, <2>5, <2>7 DEF Fair, Aside, Clears, Come
  <2> QED BY <2>6, <2>8 DEF Tiled
<1>4. e = float \/ e = full \/ e = d
  <2>1. leaf.fullscreen = d.fullscreen
    BY <1>1 DEF Desk
  <2>2. toggle_fullscreen(leaf, t) = full
    BY <2>1 DEF toggle_fullscreen
  <2> HIDE DEF full
  <2> QED BY <2>2 DEF rule_apply_all
<1> HIDE DEF float, leaf, full
<1> QED BY <1>2, <1>3, <1>4

(* However it comes, all is visible. *)
LEMMA MapOnFair ==
  ASSUME NEW d, Good(d, {}), NEW t \in d.mapped \ d.fullscreen, Come(d, t),
         OnDisplay(d), NEW tile \in BOOLEAN, NEW rule
  PROVE  Fair(MapOn(d, t, tile, rule))
<1> DEFINE r == rule_apply_all(d, t, rule)
           m == IF Tiled(r, t) THEN MapTile(r, t) ELSE MapFloat(r, t)
<1>1. MapOn(d, t, tile, rule) = IF ~ tile THEN MapFloat(d, t) ELSE m
  BY DEF MapOn, MapRuled
<1>2. Fair(MapFloat(d, t))
  BY MapFloatFair
<1>3. Good(r, {}) /\ t \in r.mapped
  BY RuleGood DEF Keeps
<1>4. \/ r = d
      \/ Fair(r) /\ Sorted(r, {}) /\ ~ Tiled(r, t)
  <2>1. \/ r = d
        \/ Fair(r) /\ ~ Tiled(r, t)
    BY RuleFair
  <2>2. Fresh(d, t)
    BY DEF Come
  <2>3. \/ r = d
        \/ SameFocus(d, r) /\ Sorted(r, {}) /\ ~ Tiled(r, t)
    BY <2>2, RuleTidies
  <2> QED BY <2>1, <2>3
<1> HIDE DEF r
<1>5. Fair(m)
  <2>1. CASE r = d
    BY <1>2, <2>1, MapTileFair
  <2>2. CASE Fair(r) /\ Sorted(r, {}) /\ ~ Tiled(r, t)
    <3>1. m = focus_toplevel(r, t)
      BY <2>2 DEF MapFloat
    <3>2. Fair(focus_toplevel(r, t)) /\ Keeps(r, focus_toplevel(r, t))
      BY <1>3, <2>2, FocusFair
    <3> QED BY <3>1, <3>2
  <2> QED BY <1>4, <2>1, <2>2
<1> HIDE DEF m
<1> QED BY <1>1, <1>2, <1>5

(* So a window that is mapped comes. *)
LEMMA ComesSeen ==
  ASSUME Inv, Orderly, Seen, NEW t \in Window, t \notin desk.mapped,
         desk.workspace[t] \in Workspace, NEW e, MapsOne(desk, e, t),
         NEW d, d = LinkTiled(e, t), Relinked(e, d)
  PROVE  Come(d, t) /\ OnDisplay(d) /\ t \in d.mapped \ d.fullscreen
<1> DEFINE w == desk.workspace[t]
<1>1. /\ desk \in Desk /\ Lists(desk, Placed(desk)) /\ Fair(desk)
  BY DEF Inv, Good, Windows, Seen
<1>2. /\ Fresh(d, t) /\ t \in d.mapped \ d.fullscreen /\ OnTop(d)
      /\ \A v \in Workspace : Tiles(d, v) = IF v = desk.workspace[t]
                                            THEN Tiles(desk, v) \cup {t}
                                            ELSE Tiles(desk, v)
  BY ComesFresh
<1>3. /\ e \in Desk /\ e.floats = desk.floats
      /\ d.workspace = desk.workspace /\ d.floating = desk.floating
      /\ d.fullscreen = desk.fullscreen /\ d.monocle = desk.monocle
      /\ d.output = desk.output /\ d.fullscreenWindow = desk.fullscreenWindow
      /\ d.shows = desk.shows /\ d.outputs = desk.outputs /\ d.current = desk.current
      /\ d.enabled = e.enabled
  BY DEF MapsOne, Relinked
<1>4. /\ desk.enabled \subseteq d.enabled /\ d.enabled \subseteq desk.enabled \cup {t}
      /\ t \in d.enabled \cup XWayland
  BY <1>3 DEF MapsOne
<1>5. d.floats = desk.floats
  BY <1>3 DEF LinkTiled, Desk
<1>6. \A v \in Workspace : /\ Floats(d, v) = Floats(desk, v)
                           /\ Bare(d, v) <=> Bare(desk, v)
                           /\ t \notin Tiles(desk, v) /\ t \notin Floats(desk, v)
  <2>1. \A v \in Workspace : t \notin Listed(desk, v)
    BY <1>1 DEF Lists, Placed
  <2> QED BY <1>3, <1>5, <2>1 DEF Floats, Bare, Listed, Tiles
<1>7. Floaters(d)
  BY <1>1, <1>3, <1>6 DEF Fair, Floaters
<1>8. \A v \in Workspace : Open(d, v)
  BY <1>1, <1>2, <1>3, <1>4, <1>6 DEF Fair, Open
<1>9. \A v \in Workspace : TilesOf(d, v) \ {t} = TilesOf(desk, v)
                           /\ (v # w => t \notin TilesOf(d, v))
                           /\ t \notin TilesOf(desk, v)
  <2>1. \A v \in Workspace : /\ TilesOf(d, v) = {u \in Tiles(d, v) : Tiled(d, u)}
                             /\ TilesOf(desk, v) = {u \in Tiles(desk, v) : Tiled(desk, u)}
    BY DEF TilesOf, Tiles
  <2>2. \A u \in Window : Tiled(d, u) <=> Tiled(desk, u)
    BY <1>3 DEF Tiled
  <2>3. \A v \in Workspace : Tiles(desk, v) \subseteq Window
    BY <1>1, ListedIn DEF Tiles
  <2> QED BY <1>2, <1>6, <2>1, <2>2, <2>3
<1>10. \A v \in Workspace : (TilesOf(d, v) \ {t}) \cap d.enabled = TilesOf(desk, v) \cap desk.enabled
  BY <1>4, <1>9
<1>11. \A v \in Workspace \ {w} : Stacked(d, v)
  <2> SUFFICES ASSUME NEW v \in Workspace \ {w} PROVE Stacked(d, v)
    OBVIOUS
  <2>1. /\ TilesOf(d, v) = TilesOf(desk, v)
        /\ TilesOf(d, v) \cap d.enabled = TilesOf(desk, v) \cap desk.enabled
    BY <1>9, <1>10
  <2>2. Stacked(desk, v)
    BY <1>1 DEF Fair
  <2> QED BY <1>3, <1>6, <2>1, <2>2 DEF Stacked
<1>12. Bare(d, w) /\ w \in d.monocle /\ TilesOf(d, w) \ {t} # {} =>
         \E u \in Window : (TilesOf(d, w) \ {t}) \cap d.enabled = {u}
  <2>1. Stacked(desk, w)
    BY <1>1 DEF Fair
  <2> QED BY <1>3, <1>6, <1>9, <1>10, <2>1 DEF Stacked
<1>13. Come(d, t)
  BY <1>2, <1>3, <1>4, <1>7, <1>8, <1>11, <1>12 DEF Come
<1>14. OnDisplay(d)
  BY <1>3, KeepsOnDisplay DEF Seen
<1> QED BY <1>2, <1>13, <1>14

(* And is seen. *)
LEMMA MapSeen ==
  ASSUME Inv, Orderly, Seen, NEW t \in Window, NEW tile \in BOOLEAN, NEW rule,
         Map(t, tile, rule)
  PROVE  Seen'
<1>1. PICK e : /\ MapsOne(desk, e, t) /\ Relinked(e, LinkTiled(e, t))
               /\ Good(LinkTiled(e, t), {})
               /\ desk' = MapOn(LinkTiled(e, t), t, tile, rule)
  BY MapIs
<1>2. t \notin desk.mapped /\ desk.workspace[t] \in Workspace
  BY MapIs
<1> DEFINE d == LinkTiled(e, t)
           m == MapOn(d, t, tile, rule)
<1>3. Relinked(e, d) /\ Good(d, {}) /\ desk' = m /\ d = LinkTiled(e, t)
  BY <1>1
<1> HIDE DEF d
<1>4. Come(d, t) /\ OnDisplay(d) /\ t \in d.mapped \ d.fullscreen
  BY <1>1, <1>2, <1>3, ComesSeen
<1>5. Fair(m) /\ Good(m, {}) /\ Keeps(d, m)
  BY <1>3, <1>4, MapOnFair, MapOnGood
<1> HIDE DEF m
<1>6. OnDisplay(m)
  BY <1>4, <1>5, KeepsOnDisplay DEF Keeps
<1>7. Fair(desk') /\ OnDisplay(desk')
  BY <1>3, <1>5, <1>6
<1> QED BY <1>7 DEF Seen

----------------------------------------------------------------------------
(* Windows go. *)

(* Without the window that goes, its workspace still shows all it should.  *)
LEMMA GoesSees ==
  ASSUME NEW d, NEW O, Good(d, O), Fair(d), NEW t \in d.mapped, NEW e, Good(e, O),
         UnmapsOne(d, e, t)
  PROVE  /\ Aside(d, e, d.workspace[t]) /\ Floaters(e) /\ Open(e, d.workspace[t])
         /\ \A v \in Workspace : Tiles(e, v) = Tiles(d, v) \ {t}
<1> DEFINE w == d.workspace[t]
<1>1. d \in Desk /\ Lists(d, Placed(d)) /\ t \in Window /\ w \in Workspace
  BY DEF Good, Windows, Desk
<1>2. /\ e.workspace = d.workspace /\ e.floating = d.floating
      /\ e.fullscreen = d.fullscreen \ {t} /\ e.monocle = d.monocle
      /\ e.output = d.output
      /\ e.toplevels = Unlink(d, t).toplevels /\ e.floats = Unlink(d, t).floats
      /\ e.enabled = (IF t \in XWayland THEN d.enabled ELSE d.enabled \ {t})
                       \cup (IF t \in d.fullscreen THEN Listed(e, w) ELSE {})
      /\ \A v \in Workspace :
           e.fullscreenWindow[v] = IF v = w /\ t \in d.fullscreen THEN NULL
                                   ELSE d.fullscreenWindow[v]
  BY DEF UnmapsOne
<1>3. \A v \in Workspace : /\ Tiles(e, v) = Tiles(d, v) \ {t}
                           /\ Floats(e, v) = Floats(d, v) \ {t}
  <2>1. \A v \in Workspace : /\ Tiles(Unlink(d, t), v) = Tiles(d, v) \ {t}
                             /\ Floats(Unlink(d, t), v) = Floats(d, v) \ {t}
    BY <1>1, RelistIs
  <2> QED BY <1>2, <2>1 DEF Tiles, Floats
<1>4. Floaters(e)
  BY <1>2, <1>3 DEF Fair, Floaters
<1>5. Open(e, w)
  <2> SUFFICES ASSUME Bare(e, w)
               PROVE  /\ Floats(e, w) \ XWayland \subseteq e.enabled
                      /\ w \notin e.monocle => Tiles(e, w) \ XWayland \subseteq e.enabled
    BY DEF Open
  <2>1. CASE t \in d.fullscreen
    <3>1. Listed(e, w) = Tiles(e, w) \cup Floats(e, w)
      BY DEF Listed, Tiles, Floats
    <3> QED BY <1>2, <2>1, <3>1
  <2>2. CASE t \notin d.fullscreen
    <3>1. Bare(d, w) /\ Open(d, w)
      BY <1>1, <1>2, <2>2 DEF Bare, Fair
    <3>2. d.enabled \ {t} \subseteq e.enabled
      BY <1>2
    <3>3. /\ Floats(d, w) \ XWayland \subseteq d.enabled
          /\ w \notin d.monocle => Tiles(d, w) \ XWayland \subseteq d.enabled
      BY <3>1 DEF Open
    <3>4. e.monocle = d.monocle
      BY <1>2
    <3>5. Floats(e, w) = Floats(d, w) \ {t} /\ Tiles(e, w) = Tiles(d, w) \ {t}
      BY <1>1, <1>3
    <3> HIDE DEF w
    <3> QED BY <3>2, <3>3, <3>4, <3>5
  <2> QED BY <2>1, <2>2
<1>6. Aside(d, e, w)
  <2> SUFFICES ASSUME NEW v \in Workspace \ {w} PROVE View(d, e, v)
    BY ViewClears DEF Aside
  <2>1. Bare(e, v) <=> Bare(d, v)
    BY <1>2 DEF Bare
  <2>2. \A u \in Tiles(d, v) \cup Floats(d, v) : d.workspace[u] = v
    <3>1. Tiles(d, v) \cup Floats(d, v) = Listed(d, v)
      BY DEF Listed, Tiles, Floats
    <3> QED BY <1>1, <3>1 DEF Lists
  <2>3. t \notin Tiles(d, v) \cup Floats(d, v)
    BY <2>2
  <2>4. \A u \in Listed(e, w) : e.workspace[u] = w
    BY <1>1 DEF Good, Windows, Lists
  <2>5. \A u \in Tiles(d, v) \cup Floats(d, v) :
          (u \in e.enabled <=> u \in d.enabled) /\ (Tiled(e, u) <=> Tiled(d, u))
    <3> SUFFICES ASSUME NEW u \in Tiles(d, v) \cup Floats(d, v)
                 PROVE  (u \in e.enabled <=> u \in d.enabled)
                        /\ (Tiled(e, u) <=> Tiled(d, u))
      OBVIOUS
    <3>1. u # t /\ u \notin Listed(e, w)
      BY <1>2, <2>2, <2>3, <2>4
    <3>2. u \in e.enabled <=> u \in d.enabled
      BY <1>2, <3>1
    <3>3. Tiled(e, u) <=> Tiled(d, u)
      BY <1>2, <3>1 DEF Tiled
    <3> QED BY <3>2, <3>3
  <2> QED BY <1>2, <1>3, <2>1, <2>3, <2>5 DEF View
<1> QED BY <1>3, <1>4, <1>5, <1>6

(* What is left is laid out and, where monocle ends, unstacked. *)
LEMMA SettleFair ==
  ASSUME NEW e, Good(e, {}), Sorted(e, {}), Floaters(e), NEW w \in Workspace,
         Open(e, w), NEW ends \in BOOLEAN
  PROVE  /\ Local(e, Settle(e, w, ends), w) /\ Floaters(Settle(e, w, ends))
         /\ Open(Settle(e, w, ends), w) /\ Stacked(Settle(e, w, ends), w)
<1>1. e \in Desk /\ Lists(e, Placed(e))
  BY DEF Good, Windows
<1>2. CASE ends
  <2> DEFINE f == [e EXCEPT !.monocle = @ \ {w}]
             S == LeavesOf(e, w)
  <2>1. [e EXCEPT !.monocle = IF ends THEN @ \ {w} ELSE @] = f
    BY <1>2
  <2>2. Alike(e, f)
    BY <1>1, MonocleAlike
  <2>3. Settle(e, w, ends) = Enable(ArrangeIfTree(f, w), LeavesOf(f, w))
    BY <1>2, <2>1 DEF Settle
  <2> HIDE DEF f
  <2>4. LeavesOf(f, w) = S
    BY <2>2 DEF Alike, LeavesOf
  <2>5. Settle(e, w, ends) = Off(e, w, S)
    BY <2>3, <2>4 DEF Off, f
  <2>6. S \in SUBSET Window /\ \A t \in S : e.workspace[t] = w
    BY <1>1, TilesIn DEF LeavesOf
  <2>7. LeavesOf(e, w) \subseteq S
    OBVIOUS
  <2> HIDE DEF S
  <2>8. Bare(e, w) => Floats(e, w) \ XWayland \subseteq e.enabled \cup S
    BY DEF Open
  <2>9. /\ Local(e, Off(e, w, S), w) /\ Floaters(Off(e, w, S)) /\ Stacked(Off(e, w, S), w)
        /\ Open(Off(e, w, S), w)
    BY <1>1, <2>6, <2>7, <2>8, OffSees
  <2> QED BY <2>5, <2>9
<1>3. CASE ~ ends
  <2> DEFINE g == ArrangeIfTree(e, w)
  <2>1. [e EXCEPT !.monocle = IF ends THEN @ \ {w} ELSE @] = e
    BY <1>1, <1>3 DEF Desk
  <2>2. Settle(e, w, ends) = Enable(g, {})
    BY <1>3, <2>1 DEF Settle
  <2>3. Rough(e, NULL)
    BY DEF Sorted, Rough
  <2>4. Leafy(e, w)
    BY <2>3, SortedLeafy
  <2>5. Local(e, g, w) /\ Floaters(g) /\ Open(g, w) /\ Stacked(g, w)
    BY <2>4, ArrangeTreeSees
  <2> HIDE DEF g
  <2>6. g \in Desk
    BY <2>5 DEF Local, Alike
  <2>7. Enable(g, {}) = g
    BY <2>6 DEF Enable, Desk
  <2> QED BY <2>2, <2>5, <2>7
<1> QED BY <1>2, <1>3

(* The keyboard follows, and nothing is hidden by that. *)
LEMMA RefocusFair ==
  ASSUME NEW d, NEW O, Good(d, O), Sorted(d, {}), Fair(d), NEW w \in Workspace,
         NEW displaced \in BOOLEAN
  PROVE  Fair(Refocus(d, w, displaced))
<1> DEFINE f == d.focused[w]
<1>1. f \in d.mapped \cup {NULL} /\ d \in Desk
  BY DEF Good, Pointers, Here
<1>2. \/ Refocus(d, w, displaced) = clear_focus(d) \/ Refocus(d, w, displaced) = d
      \/ f # NULL /\ Refocus(d, w, displaced) = focus_toplevel(d, f)
  BY DEF Refocus, FocusIfAny
<1>3. Fair(clear_focus(d))
  BY <1>1, ClearClear, AllClearFair
<1>4. f # NULL => Fair(focus_toplevel(d, f))
  <2>1. f # NULL => f \in d.mapped
    BY <1>1
  <2> HIDE DEF f
  <2> QED BY <2>1, FocusFair
<1> QED BY <1>2, <1>3, <1>4

(* A window that goes hides none of the others. *)
LEMMA UnmapSeen ==
  ASSUME Inv, Orderly, Seen, NEW t \in Window, NEW sibling, Unmap(t, sibling)
  PROVE  Seen'
<1> DEFINE w == desk.workspace[t]
           displaced == desk.focused[w] = t
<1>1. PICK e : /\ Good(e, {}) /\ UnmapsOne(desk, e, t)
               /\ desk' = UnmapOn(e, t, displaced)
  BY UnmapIs
<1>2. /\ t \in desk.mapped /\ w \in Workspace /\ displaced \in BOOLEAN
      /\ Good(desk, {}) /\ Sorted(desk, {}) /\ Fair(desk) /\ OnDisplay(desk)
  BY UnmapIs DEF Inv, Orderly, Seen
<1>3. /\ e.workspace = desk.workspace /\ e.leaf = desk.leaf \ {t}
      /\ e.floating = desk.floating
      /\ e.shows = desk.shows /\ e.outputs = desk.outputs /\ e.current = desk.current
  BY <1>1 DEF UnmapsOne
<1> HIDE DEF displaced
<1>4. /\ Aside(desk, e, w) /\ Floaters(e) /\ Open(e, w)
      /\ \A v \in Workspace : Tiles(e, v) = Tiles(desk, v) \ {t}
  BY <1>1, <1>2, GoesSees
<1>5. Sorted(e, {})
  <2>1. \A v \in Workspace : LeavesOf(e, v) = LeavesOf(desk, v) \ {t}
    BY <1>3 DEF LeavesOf
  <2> QED BY <1>2, <1>3, <1>4, <2>1 DEF Sorted
<1> DEFINE l == Settle(e, w, MonocleEnds(e, t))
<1>6. desk' = Refocus(l, w, displaced)
  BY <1>1, <1>3 DEF UnmapOn
<1>7. Local(e, l, w) /\ Floaters(l) /\ Open(l, w) /\ Stacked(l, w)
  <2>1. MonocleEnds(e, t) \in BOOLEAN
    BY DEF MonocleEnds
  <2> QED BY <1>1, <1>2, <1>4, <1>5, <2>1, SettleFair
<1> HIDE DEF l, w
<1>8. Alike(e, l)
  BY <1>7 DEF Local
<1>9. Good(l, {}) /\ Sorted(l, {})
  <2>1. Good(l, {})
    BY <1>1, <1>8, AlikeGood
  <2>2. Tidies(e, l)
    BY <1>8, SameSorts
  <2> QED BY <1>5, <2>1, <2>2 DEF Tidies
<1>10. Fair(l)
  <2>1. Aside(e, l, w)
    <3>1. e \in Desk /\ Lists(e, Placed(e))
      BY <1>1 DEF Good, Windows
    <3> QED BY <1>7, <3>1, LocalAside
  <2>2. Aside(desk, l, w)
    BY <1>4, <2>1, AsideTrans
  <2> QED BY <1>2, <1>7, <2>2, AsideFair
<1>11. Fair(desk')
  BY <1>2, <1>6, <1>9, <1>10, RefocusFair
<1>12. OnDisplay(desk')
  <2>1. Keeps(l, Refocus(l, w, displaced))
    BY <1>2, <1>9, RefocusGood
  <2>2. OnDisplay(l)
    BY <1>2, <1>3, <1>8, KeepsOnDisplay DEF Alike
  <2> QED BY <1>6, <2>1, <2>2, KeepsOnDisplay DEF Keeps
<1> QED BY <1>11, <1>12 DEF Seen, Fair, OnDisplay, Floaters, Open, Stacked, Bare, Floats

(* Whatever happens to an unmapped window's object, no workspace shows it. *)
LEMMA UnlistedSeen ==
  ASSUME Inv, Seen, NEW t \in Window \ desk.mapped, NEW e,
         \A v \in Workspace : Tiles(e, v) = Tiles(desk, v) /\ Floats(e, v) = Floats(desk, v),
         e.floating = desk.floating \ {t}, e.fullscreen = desk.fullscreen \ {t},
         e.enabled \ {t} = desk.enabled \ {t}, e.monocle = desk.monocle,
         e.output = desk.output, e.fullscreenWindow = desk.fullscreenWindow,
         e.shows = desk.shows, e.outputs = desk.outputs, e.current = desk.current,
         desk' = e
  PROVE  Seen'
<1>1. Lists(desk, Placed(desk)) /\ Fair(desk) /\ OnDisplay(desk)
  BY DEF Inv, Good, Windows, Seen
<1>2. \A v \in Workspace : t \notin Tiles(desk, v) \cup Floats(desk, v)
  <2>1. \A v \in Workspace : Tiles(desk, v) \cup Floats(desk, v) \subseteq Placed(desk)
    BY <1>1 DEF Lists, Listed, Tiles, Floats
  <2> QED BY <2>1 DEF Placed
<1>3. \A v \in Workspace : View(desk, e, v)
  <2> SUFFICES ASSUME NEW v \in Workspace PROVE View(desk, e, v)
    OBVIOUS
  <2>1. Bare(e, v) <=> Bare(desk, v)
    BY DEF Bare
  <2>2. \A u \in Tiles(desk, v) \cup Floats(desk, v) :
          (u \in e.enabled <=> u \in desk.enabled) /\ (Tiled(e, u) <=> Tiled(desk, u))
    BY <1>2 DEF Tiled
  <2> QED BY <2>1, <2>2 DEF View
<1>4. AllClear(desk, e)
  <2>1. \A v \in Workspace : Clears(desk, e, v)
    BY <1>3, ViewClears
  <2>2. Floaters(desk) => Floaters(e)
    BY <1>2 DEF Floaters
  <2> QED BY <2>1, <2>2 DEF AllClear
<1>5. Fair(e)
  BY <1>1, <1>4, AllClearFair
<1>6. OnDisplay(e)
  BY <1>1, KeepsOnDisplay
<1>7. Fair(desk') /\ OnDisplay(desk')
  BY <1>5, <1>6
<1> QED BY <1>7 DEF Seen

(* Neither a new object nor one that is destroyed is to be seen. *)
LEMMA CreateSeen ==
  ASSUME Inv, Seen, NEW t \in Window, Create(t)
  PROVE  Seen'
<1> DEFINE d == [desk EXCEPT !.workspace[t] = desk.current,
                             !.floating = @ \ {t}, !.fullscreen = @ \ {t},
                             !.savedFloating = @ \ {t}]
<1>1. desk \in Desk /\ t \notin desk.mapped
  <2>1. NULL \notin Workspace
    BY NullsAssumption
  <2> QED BY <2>1 DEF Create, Live, Inv, Good, Windows
<1>2. /\ d \in Desk /\ d.toplevels = desk.toplevels /\ d.floats = desk.floats
      /\ d.floating = desk.floating \ {t} /\ d.fullscreen = desk.fullscreen \ {t}
      /\ d.enabled = desk.enabled /\ d.monocle = desk.monocle
      /\ d.output = desk.output /\ d.fullscreenWindow = desk.fullscreenWindow
      /\ d.shows = desk.shows /\ d.outputs = desk.outputs /\ d.current = desk.current
  BY <1>1 DEF Desk
<1>3. desk' = IF t \in XWayland THEN Enable(d, {t}) ELSE Disable(d, {t})
  BY DEF Create
<1> HIDE DEF d
<1> DEFINE e == desk'
<1>4. Alike(d, e) /\ e.monocle = d.monocle /\ e.enabled \ {t} = d.enabled \ {t}
  BY <1>2, <1>3, EnableIs
<1>5. \A v \in Workspace : Tiles(e, v) = Tiles(desk, v) /\ Floats(e, v) = Floats(desk, v)
  BY <1>2, <1>4 DEF Alike, Tiles, Floats
<1>6. /\ e.floating = desk.floating \ {t} /\ e.fullscreen = desk.fullscreen \ {t}
      /\ e.enabled \ {t} = desk.enabled \ {t} /\ e.monocle = desk.monocle
      /\ e.output = desk.output /\ e.fullscreenWindow = desk.fullscreenWindow
      /\ e.shows = desk.shows /\ e.outputs = desk.outputs /\ e.current = desk.current
  BY <1>2, <1>4 DEF Alike
<1>7. t \in Window \ desk.mapped /\ desk' = e
  BY <1>1
<1> HIDE DEF e
<1> QED BY <1>5, <1>6, <1>7, UnlistedSeen

LEMMA DestroySeen ==
  ASSUME Inv, Seen, NEW t \in Window, Destroy(t)
  PROVE  Seen'
<1> DEFINE w == desk.workspace[t]
           n == [desk EXCEPT
                     !.workspace[t] = NULL, !.floating = @ \ {t},
                     !.fullscreen = @ \ {t}, !.savedFloating = @ \ {t},
                     !.enabled = @ \ {t},
                     !.keyboard = IF @ = t THEN NULL ELSE @]
           g == Unlink(n, t)
           forget(p) == [p EXCEPT ![w] = IF @ = t THEN NULL ELSE @]
           e == [g EXCEPT !.lastFocused = forget(@), !.focused = forget(@),
                          !.fullscreenWindow = forget(@)]
<1>1. desk \in Desk /\ t \notin desk.mapped /\ w \in Workspace
  <2>1. desk \in Desk /\ t \notin desk.mapped /\ w # NULL
    BY DEF Destroy, Live, Mapped, Inv, Good
  <2> QED BY <2>1 DEF Desk
<1>2. desk' = e
  BY DEF Destroy
<1>3. e.fullscreenWindow = desk.fullscreenWindow
  <2>1. /\ e.fullscreenWindow = forget(g.fullscreenWindow)
        /\ g.fullscreenWindow = n.fullscreenWindow
        /\ n.fullscreenWindow = desk.fullscreenWindow
    BY <1>1 DEF Unlink, Desk
  <2> HIDE DEF e, g, n
  <2>2. \A v \in Workspace : desk.fullscreenWindow[v] # t
    BY <1>1, NullsAssumption DEF Inv, Good, Pointers, Here
  <2>3. desk.fullscreenWindow \in [Workspace -> Window \cup {NULL}]
    BY <1>1 DEF Desk
  <2>4. forget(desk.fullscreenWindow) = desk.fullscreenWindow
    BY <1>1, <2>2, <2>3
  <2> QED BY <2>1, <2>4
<1>4. /\ e.toplevels = Unlink(desk, t).toplevels /\ e.floats = Unlink(desk, t).floats
      /\ e.floating = desk.floating \ {t} /\ e.fullscreen = desk.fullscreen \ {t}
      /\ e.enabled \ {t} = desk.enabled \ {t} /\ e.monocle = desk.monocle
      /\ e.output = desk.output
      /\ e.shows = desk.shows /\ e.outputs = desk.outputs /\ e.current = desk.current
  <2> DEFINE u == Unlink(desk, t)
  <2>1. e.toplevels = u.toplevels /\ e.floats = u.floats
    BY <1>1 DEF Desk, Unlink
  <2>2. /\ e.floating = desk.floating \ {t} /\ e.fullscreen = desk.fullscreen \ {t}
        /\ e.enabled \ {t} = desk.enabled \ {t} /\ e.monocle = desk.monocle
    BY <1>1 DEF Desk, Unlink
  <2>3. /\ e.output = desk.output
        /\ e.shows = desk.shows /\ e.outputs = desk.outputs /\ e.current = desk.current
    BY <1>1 DEF Desk, Unlink
  <2> HIDE DEF e, u
  <2>4. e.toplevels = Unlink(desk, t).toplevels /\ e.floats = Unlink(desk, t).floats
    BY <2>1 DEF u
  <2> QED BY <2>2, <2>3, <2>4
<1> HIDE DEF e, g, n, forget
<1>5. Lists(desk, Placed(desk))
  BY DEF Inv, Good, Windows
<1>6. \A v \in Workspace : Tiles(e, v) = Tiles(desk, v) /\ Floats(e, v) = Floats(desk, v)
  <2>1. \A v \in Workspace : /\ Tiles(Unlink(desk, t), v) = Tiles(desk, v) \ {t}
                             /\ Floats(Unlink(desk, t), v) = Floats(desk, v) \ {t}
    BY <1>1, <1>5, RelistIs
  <2>2. \A v \in Workspace : t \notin Tiles(desk, v) /\ t \notin Floats(desk, v)
    <3>1. \A v \in Workspace : Tiles(desk, v) \cup Floats(desk, v) \subseteq Placed(desk)
      BY <1>5 DEF Lists, Listed, Tiles, Floats
    <3> QED BY <1>1, <3>1 DEF Placed
  <2>3. \A v \in Workspace : /\ Tiles(e, v) = Tiles(Unlink(desk, t), v)
                             /\ Floats(e, v) = Floats(Unlink(desk, t), v)
    BY <1>4 DEF Tiles, Floats
  <2> QED BY <2>1, <2>2, <2>3
<1>7. t \in Window \ desk.mapped
  BY <1>1
<1> QED BY <1>2, <1>3, <1>4, <1>6, <1>7, UnlistedSeen

----------------------------------------------------------------------------
(* Every step is seen through. *)

(* There is no window and no output to begin with. *)
LEMMA InitSeen ==
  ASSUME Init
  PROVE  Seen
<1>1. \A w \in Workspace : Floats(desk, w) = {} /\ ~ Bare(desk, w)
  BY DEF Init, Floats, Bare, ToSet
<1>2. Fair(desk)
  BY <1>1 DEF Fair, Floaters, Open, Stacked
<1>3. OnDisplay(desk)
  BY DEF Init, OnDisplay, ToSet
<1> QED BY <1>2, <1>3 DEF Seen

(* With one output, every step keeps it. *)
LEMMA NextSeen ==
  ASSUME Inv, Orderly, Seen, EarlyFullscreen = {}, OneOutput, Next
  PROVE  Seen'
<1>1. CASE \E t \in Window : Create(t)
  BY <1>1, CreateSeen
<1>2. CASE \E t \in Window : Destroy(t)
  BY <1>2, DestroySeen
<1>3. CASE \E t \in Window : \E tile \in BOOLEAN, rule \in Rule : Map(t, tile, rule)
  BY <1>3, MapSeen
<1>4. CASE \E t \in Window : \E sibling \in Window \cup {NULL} : Unmap(t, sibling)
  BY <1>4, UnmapSeen
<1>5. CASE \E t \in Window : \/ RequestActivate(t) \/ Click(t) \/ Grab(t)
                             \/ RequestMove(t) \/ RequestFullscreen(t)
  BY <1>5, WindowRequestsSeen
<1>6. CASE \/ (\E t \in Window : MoveFocus(t)) \/ CycleFocus
           \/ ToggleFloating \/ ToggleFullscreen \/ ToggleMonocle \/ SetBsp
  BY <1>6, BindingsSeen
<1>7. CASE \E w \in Workspace : Switch(w) \/ MoveToWorkspace(w)
  BY <1>7, WorkspaceRequestsSeen
<1>8. CASE \E o \in Output :
             server_new_output(o) \/ output_destroy(o) \/ PowerOff(o) \/ PowerOn(o)
  BY <1>8, OutputsSeen
<1> QED BY <1>1, <1>2, <1>3, <1>4, <1>5, <1>6, <1>7, <1>8 DEF Next

(* So does no step. *)
LEMMA StutterSeen ==
  ASSUME Seen, UNCHANGED desk
  PROVE  Seen'
<1>1. desk' = desk
  OBVIOUS
<1>2. Fair(desk') /\ OnDisplay(desk')
  BY <1>1 DEF Seen
<1> QED BY <1>2 DEF Seen

(* It says what the runs check. *)
LEMMA SeenMeans ==
  ASSUME Inv, Seen
  PROVE  DisplayedVisible /\ MonocleShowsOne
<1>1. Fair(desk)
  BY DEF Seen
<1>2. DisplayedVisible
  <2> SUFFICES ASSUME NEW w \in Workspace \ desk.monocle, Bare(desk, w)
               PROVE  Listed(desk, w) \ XWayland \subseteq desk.enabled
    BY DEF DisplayedVisible, Bare
  <2>1. Listed(desk, w) = Tiles(desk, w) \cup Floats(desk, w)
    BY DEF Listed, Tiles, Floats
  <2>2. Open(desk, w)
    BY <1>1 DEF Fair
  <2> QED BY <2>1, <2>2 DEF Open
<1>3. ASSUME NEW w \in desk.monocle, w \in Workspace, Bare(desk, w), TilesOf(desk, w) # {}
      PROVE  Cardinality(TilesOf(desk, w) \cap desk.enabled) = 1
  <2>1. Stacked(desk, w)
    BY <1>1, <1>3 DEF Fair
  <2>2. PICK t \in Window : TilesOf(desk, w) \cap desk.enabled = {t}
    BY <1>3, <2>1 DEF Stacked
  <2> QED BY <2>2, FS_Singleton
<1>4. desk.monocle \subseteq Workspace
  BY DEF Inv, Good, Desk
<1> QED BY <1>2, <1>3, <1>4 DEF MonocleShowsOne, Bare

(* With one output, every window that its workspace lists is visible while   *)
(* the workspace is displayed and neither a stack nor a fullscreen window    *)
(* hides it: mapping, moving, floating, covering and uncovering, monocle on  *)
(* and off, switching and re-plugging leave no window lost but listed        *)
(* (wm/window.c, wm/workspace.c, output/output.c).                           *)
THEOREM WindowsStayVisible ==
  ASSUME EarlyFullscreen = {}, OneOutput
  PROVE  Spec => []DisplayedVisible
<1>1. Init => Inv /\ Orderly /\ Seen
  BY InitGood, InitOrderly, InitSeen
<1>2. Inv /\ Orderly /\ Seen /\ [Next]_desk => Inv' /\ Orderly' /\ Seen'
  BY NextGood, StutterGood, NextOrderly, StutterOrderly, NextSeen, StutterSeen
<1>3. Inv /\ Seen => DisplayedVisible
  BY SeenMeans
<1> QED BY <1>1, <1>2, <1>3, PTL DEF Spec

(* And of a stack exactly one tile is visible, whichever tile came, went or   *)
(* got the focus last: never two on top of each other and never none          *)
(* (wm/bsp_arrange.c:136, wm/window.c:21).                                    *)
THEOREM StacksShowOne ==
  ASSUME EarlyFullscreen = {}, OneOutput
  PROVE  Spec => []MonocleShowsOne
<1>1. Init => Inv /\ Orderly /\ Seen
  BY InitGood, InitOrderly, InitSeen
<1>2. Inv /\ Orderly /\ Seen /\ [Next]_desk => Inv' /\ Orderly' /\ Seen'
  BY NextGood, StutterGood, NextOrderly, StutterOrderly, NextSeen, StutterSeen
<1>3. Inv /\ Seen => MonocleShowsOne
  BY SeenMeans
<1> QED BY <1>1, <1>2, <1>3, PTL DEF Spec
=============================================================================
