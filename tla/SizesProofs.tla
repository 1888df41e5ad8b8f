---------------------------- MODULE SizesProofs ----------------------------
(***************************************************************************)
(* SizesAreSent, for any number of windows and any boxes.  The inductive   *)
(* invariant, Settled, says of all windows but the crossed ones that they  *)
(* are drawn at their boxes and asked for their sizes (Laid): floating and *)
(* fullscreen ones always (FloatsSent), tiles while they can be seen       *)
(* (TilesSent).  The arrangement skips a window whose requested size it    *)
(* has cached, so the cache of a Wayland window has to be what the client  *)
(* was asked last (Recalls), and a size that waits for the end of a        *)
(* pointer frame has to be that of the grabbed window, which has to float  *)
(* (Gripped).  In monocle the cache has to be current even if an X11       *)
(* client was asked past it (Served).                                      *)
(*                                                                         *)
(* Within a handler a window may be between two places: Settling is what   *)
(* holds before the arrangement, with C the windows excused.               *)
(***************************************************************************)
EXTENDS Sizes, Lemmas, TLAPS

\* The boxes that come up, with their places and sizes.
Box == Split \cup FloatBox \cup {Area, Screen, Default}

\* Boxes are places and sizes, and None is none of them.
Constants ==
  /\ None \notin Window
  /\ \A b \in Box : b = [at |-> b.at, size |-> b.size] /\ b.size # None

Spot == {b.at : b \in Box} \cup {None}
Extent == {b.size : b \in Box}

\* What a drag makes of the box of a floating window.
Floated == [at : {b.at : b \in FloatBox \cup {Default}},
            size : {b.size : b \in FloatBox \cup {Default}}]

\* The types of the fields.
Fields == [
  mapped : SUBSET Window, floating : SUBSET Window, full : SUBSET Window,
  saved_floating : SUBSET Window, toplevels : Seq(Window),
  tile : UNION {[S -> Box] : S \in SUBSET Window}, monocle : BOOLEAN,
  focused : Window \cup {None}, last : Window \cup {None},
  float : [Window -> Floated],
  drawn : [Window -> Spot], req : [Window -> Extent \cup {None}],
  asked : [Window -> [at : Spot, size : Extent \cup {None}]],
  mode : {"passthrough", "move", "resize"}, grabbed : Window \cup {None},
  pending : Extent \cup {None}, crossed : SUBSET Window]

\* Only what was asked and drawn differs.
SameLayout(d, e) ==
  /\ e.mapped = d.mapped /\ e.floating = d.floating /\ e.full = d.full
  /\ e.saved_floating = d.saved_floating /\ e.toplevels = d.toplevels
  /\ e.tile = d.tile /\ e.monocle = d.monocle
SameGrab(d, e) ==
  /\ e.mode = d.mode /\ e.grabbed = d.grabbed /\ e.pending = d.pending
  /\ e.crossed = d.crossed
SameFocus(d, e) == e.focused = d.focused /\ e.last = d.last

\* Nothing was asked of w, and it is where it was.
Untouched(d, e, w) ==
  e.drawn[w] = d.drawn[w] /\ e.req[w] = d.req[w] /\ e.asked[w] = d.asked[w]

\* Once a request is recorded, only an X11 client is asked for another size without
\* its being recorded too.
Recalls(d, w) == w \in X11 \/ d.req[w] \in {None, d.asked[w].size}

\* A box has a place and a size.
LEMMA BoxParts ==
  ASSUME Constants, NEW b \in Box
  PROVE  /\ b.at \in Spot /\ b.size \in Extent /\ b.size # None
         /\ b = [at |-> b.at, size |-> b.size]
BY DEF Constants, Spot, Extent

\* So has what a drag makes of one.
LEMMA FloatedParts ==
  ASSUME NEW b \in Floated
  PROVE  b.at \in Spot /\ b.size \in Extent
BY DEF Floated, Spot, Extent, Box

\* None is not a size.
LEMMA NoneIsNoExtent == ASSUME Constants PROVE None \notin Extent
BY DEF Constants, Extent

\* What a client is asked for is the size of the box.
LEMMA AskedIs ==
  ASSUME NEW w, NEW at \in Spot, NEW size \in Extent
  PROVE  /\ Asked(w, [at |-> at, size |-> size]) \in [at : Spot, size : Extent \cup {None}]
         /\ Asked(w, [at |-> at, size |-> size]).size = size
BY DEF Asked, Spot

\* toplevel_set_size asks for the size, records it, and touches no other window.
LEMMA SetSize ==
  ASSUME Constants, NEW d \in Fields, NEW w \in Window, NEW size \in Extent
  PROVE  LET e == toplevel_set_size(d, w, size)
         IN /\ e \in Fields /\ SameLayout(d, e) /\ SameGrab(d, e) /\ SameFocus(d, e)
            /\ e.float = d.float /\ e.drawn = d.drawn
            /\ e.req[w] = size /\ e.asked[w].size = size
            /\ \A v \in Window \ {w} : Untouched(d, e, v)
<1> DEFINE at == IF w \in d.floating THEN d.float[w].at ELSE d.drawn[w]
           a == Asked(w, [at |-> at, size |-> size])
           e == [d EXCEPT !.asked[w] = a, !.req[w] = size]
<1>1. at \in Spot
  BY FloatedParts DEF Fields
<1>2. a \in [at : Spot, size : Extent \cup {None}] /\ a.size = size
  BY <1>1, AskedIs
<1>3. toplevel_set_size(d, w, size) = e
  BY DEF toplevel_set_size, Configure, Fields
<1> HIDE DEF a
<1>4. /\ e.asked = [d.asked EXCEPT ![w] = a] /\ e.req = [d.req EXCEPT ![w] = size]
      /\ SameLayout(d, e) /\ SameGrab(d, e) /\ SameFocus(d, e)
      /\ e.float = d.float /\ e.drawn = d.drawn
  BY DEF Fields, SameLayout, SameGrab, SameFocus
<1>5. e \in Fields
  BY <1>2 DEF Fields
<1>6. d.asked \in [Window -> [at : Spot, size : Extent \cup {None}]] /\ d.req \in [Window -> Extent \cup {None}]
  BY DEF Fields
<1> HIDE DEF e
<1>7. /\ e.req[w] = size /\ e.asked[w] = a
      /\ \A v \in Window \ {w} : Untouched(d, e, v)
  BY <1>4, <1>6 DEF Untouched
<1> QED BY <1>2, <1>3, <1>4, <1>5, <1>7

\* A window is drawn somewhere else.
LEMMA PlaceIs ==
  ASSUME NEW d \in Fields, NEW w \in Window, NEW at \in Spot
  PROVE  LET e == Place(d, w, at)
         IN /\ e \in Fields /\ SameLayout(d, e) /\ SameGrab(d, e) /\ SameFocus(d, e)
            /\ e.float = d.float /\ e.req = d.req /\ e.asked = d.asked
            /\ e.drawn[w] = at /\ \A v \in Window \ {w} : e.drawn[v] = d.drawn[v]
<1> DEFINE e == [d EXCEPT !.drawn[w] = at]
<1>1. /\ e.drawn = [d.drawn EXCEPT ![w] = at] /\ d.drawn \in [Window -> Spot]
      /\ SameLayout(d, e) /\ SameGrab(d, e) /\ SameFocus(d, e)
      /\ e.float = d.float /\ e.req = d.req /\ e.asked = d.asked /\ e \in Fields
  BY DEF Fields, SameLayout, SameGrab, SameFocus
<1>2. Place(d, w, at) = e
  BY DEF Place
<1> HIDE DEF e
<1> QED BY <1>1, <1>2

\* A floating window is drawn at its box and asked for its size.
LEMMA PutFloatIs ==
  ASSUME Constants, NEW d \in Fields, NEW w \in Window,
         NEW b \in Floated
  PROVE  LET e == PutFloat(d, w, b)
         IN /\ e \in Fields /\ SameLayout(d, e) /\ SameGrab(d, e) /\ SameFocus(d, e)
            /\ e.float[w] = b /\ (\A v \in Window \ {w} : e.float[v] = d.float[v])
            /\ e.drawn[w] = b.at /\ e.req[w] = b.size /\ e.asked[w].size = b.size
            /\ \A v \in Window \ {w} : Untouched(d, e, v)
<1> DEFINE f == [d EXCEPT !.float[w] = b]
           at == b.at
           size == b.size
           p == Place(f, w, at)
           e == toplevel_set_size(p, w, size)
<1>1. /\ f \in Fields /\ SameLayout(d, f) /\ SameGrab(d, f) /\ SameFocus(d, f)
      /\ f.drawn = d.drawn /\ f.req = d.req /\ f.asked = d.asked
      /\ f.float = [d.float EXCEPT ![w] = b] /\ d.float \in [Window -> Floated]
  BY DEF Fields, SameLayout, SameGrab, SameFocus
<1>2. PutFloat(d, w, b) = e
  BY DEF PutFloat
<1>0. at \in Spot /\ size \in Extent
  BY FloatedParts
<1> HIDE DEF f, at, size
<1>3. /\ p \in Fields /\ SameLayout(f, p) /\ SameGrab(f, p) /\ SameFocus(f, p)
      /\ p.float = f.float /\ p.req = f.req /\ p.asked = f.asked
      /\ p.drawn[w] = at /\ \A v \in Window \ {w} : p.drawn[v] = f.drawn[v]
  <2>1. f \in Fields
    BY <1>1
  <2> HIDE DEF e
  <2> QED BY <1>0, <2>1, PlaceIs
<1> HIDE DEF p
<1>4. /\ e \in Fields /\ SameLayout(p, e) /\ SameGrab(p, e) /\ SameFocus(p, e)
      /\ e.float = p.float /\ e.drawn = p.drawn
      /\ e.req[w] = size /\ e.asked[w].size = size
      /\ \A v \in Window \ {w} : Untouched(p, e, v)
  BY <1>0, <1>3, SetSize
<1> HIDE DEF e
<1>5. SameLayout(d, e) /\ SameGrab(d, e) /\ SameFocus(d, e)
  BY <1>1, <1>3, <1>4 DEF SameLayout, SameGrab, SameFocus
<1>6. e.float[w] = b /\ \A v \in Window \ {w} : e.float[v] = d.float[v]
  BY <1>1, <1>3, <1>4
<1>7. \A v \in Window \ {w} : Untouched(d, e, v)
  BY <1>1, <1>3, <1>4 DEF Untouched
<1>8. /\ e.drawn[w] = b.at /\ e.req[w] = b.size /\ e.asked[w].size = b.size
  BY <1>3, <1>4 DEF at, size
<1> QED BY <1>2, <1>4, <1>5, <1>6, <1>7, <1>8

\* Which tiles are shown, and where, depends on the layout and the focus only.
LEMMA SameShown ==
  ASSUME NEW d, NEW e, SameLayout(d, e), SameFocus(d, e)
  PROVE  /\ Tiled(e) = Tiled(d) /\ ActiveTiled(e) = ActiveTiled(d) /\ Shown(e) = Shown(d)
         /\ \A w : Given(e, w) = Given(d, w)
<1>1. Tiled(e) = Tiled(d)
  BY DEF SameLayout, Tiled
<1>2. <<e.focused, e.last>> \o e.toplevels = <<d.focused, d.last>> \o d.toplevels
  BY DEF SameLayout, SameFocus
<1>3. ActiveTiled(e) = ActiveTiled(d)
  BY <1>1, <1>2 DEF ActiveTiled
<1> QED BY <1>1, <1>3 DEF SameLayout, Shown, Given

\* What is shown has been drawn and asked for, or will be.
Sent(d, w, b) ==
  /\ d.drawn[w] = b.at
  /\ \/ d.asked[w].size = b.size
     \/ w = d.grabbed /\ d.pending = b.size
     \/ w \in X11 /\ d.req[w] # d.asked[w].size

\* In monocle the request is recorded as well.
Served(d, w, b) == Sent(d, w, b) /\ (d.monocle => d.req[w] = b.size)

\* The leaves have boxes.
Housed(d) ==
  /\ Tiled(d) \subseteq ToSet(d.toplevels)
  /\ DOMAIN d.tile = ToSet(d.toplevels) /\ \A w \in DOMAIN d.tile : d.tile[w] \in Box

\* bsp_arrange sends every tile its box, whatever was sent before.
LEMMA ArrangeIs ==
  ASSUME Constants, NEW d \in Fields, Housed(d), \A w \in Window : Recalls(d, w)
  PROVE  LET e == bsp_arrange(d)
         IN /\ e \in Fields /\ SameLayout(d, e) /\ SameGrab(d, e) /\ SameFocus(d, e)
            /\ e.float = d.float /\ \A w \in Window : Recalls(e, w)
            /\ \A w \in Shown(d) : Served(e, w, Given(d, w))
            /\ \A w \in Window \ Shown(d) :
                 /\ e.req[w] = d.req[w] /\ e.asked[w] = d.asked[w]
                 /\ e.drawn[w] = IF w \in d.mapped \cap d.floating THEN d.float[w].at
                                 ELSE d.drawn[w]
<1> DEFINE e == bsp_arrange(d)
           drawn == [w \in Window |->
                       IF w \in Shown(d) THEN Given(d, w).at
                       ELSE IF w \in d.mapped \cap d.floating THEN d.float[w].at
                       ELSE d.drawn[w]]
           asked == [w \in Window |->
                       IF w \in Outdated(d) THEN Asked(w, Given(d, w)) ELSE d.asked[w]]
           req == [w \in Window |->
                     IF w \in Recorded(d) THEN Given(d, w).size ELSE d.req[w]]
<1>1. e = [d EXCEPT !.drawn = drawn, !.asked = asked, !.req = req]
  BY DEF bsp_arrange, Fields
<1>2. /\ Shown(d) \subseteq Tiled(d) /\ Tiled(d) \subseteq Window
      /\ Outdated(d) \subseteq Shown(d) /\ Recorded(d) \subseteq Outdated(d)
  BY DEF Shown, Tiled, Outdated, Recorded, Fields
<1>3. \A w \in Shown(d) : Given(d, w) \in Box
  BY <1>2 DEF Given, Housed, Box
<1>4. \A w \in Shown(d) : /\ Given(d, w).at \in Spot /\ Given(d, w).size \in Extent
                          /\ Given(d, w).size # None
                          /\ Asked(w, Given(d, w)) \in [at : Spot, size : Extent \cup {None}]
                          /\ Asked(w, Given(d, w)).size = Given(d, w).size
  <2> TAKE w \in Shown(d)
  <2> DEFINE b == Given(d, w)
  <2>1. b \in Box
    BY <1>3
  <2> HIDE DEF b
  <2>2. b.at \in Spot /\ b.size \in Extent /\ b.size # None /\ b = [at |-> b.at, size |-> b.size]
    BY <2>1, BoxParts
  <2>3. /\ Asked(w, b) \in [at : Spot, size : Extent \cup {None}]
        /\ Asked(w, b).size = b.size
    BY <2>2, AskedIs
  <2> QED BY <2>2, <2>3 DEF b
<1>5. /\ d.drawn \in [Window -> Spot] /\ d.req \in [Window -> Extent \cup {None}]
      /\ d.asked \in [Window -> [at : Spot, size : Extent \cup {None}]]
      /\ \A w \in Window : d.float[w].at \in Spot
  BY FloatedParts DEF Fields
<1>6. drawn \in [Window -> Spot]
  BY <1>2, <1>4, <1>5
<1>7. asked \in [Window -> [at : Spot, size : Extent \cup {None}]]
  BY <1>2, <1>4, <1>5
<1>8. req \in [Window -> Extent \cup {None}]
  BY <1>2, <1>4, <1>5
<1> HIDE DEF drawn, asked, req, e
<1>9. /\ e \in Fields /\ SameLayout(d, e) /\ SameGrab(d, e) /\ SameFocus(d, e)
      /\ e.float = d.float /\ e.drawn = drawn /\ e.asked = asked /\ e.req = req
  BY <1>1, <1>6, <1>7, <1>8 DEF Fields, SameLayout, SameGrab, SameFocus
<1>10. \A w \in Window \ Shown(d) :
         /\ e.req[w] = d.req[w] /\ e.asked[w] = d.asked[w]
         /\ e.drawn[w] = IF w \in d.mapped \cap d.floating THEN d.float[w].at
                         ELSE d.drawn[w]
  BY <1>2, <1>9 DEF drawn, asked, req
<1>11. \A w \in Shown(d) :
         /\ e.drawn[w] = Given(d, w).at
         /\ e.asked[w] = IF w \in Outdated(d) THEN Asked(w, Given(d, w)) ELSE d.asked[w]
         /\ e.req[w] = IF w \in Recorded(d) THEN Given(d, w).size ELSE d.req[w]
  BY <1>2, <1>9 DEF drawn, asked, req
<1>12. \A w \in Shown(d) : Served(e, w, Given(d, w)) /\ Recalls(e, w)
  <2> TAKE w \in Shown(d)
  <2>1. CASE w \in Outdated(d)
    <3>1. e.asked[w].size = Given(d, w).size
      BY <1>4, <1>11, <2>1
    <3>2. w \in X11 \/ e.req[w] = Given(d, w).size
      BY <1>11, <2>1 DEF Recorded
    <3>3. e.monocle => e.req[w] = Given(d, w).size
      BY <1>9, <1>11, <2>1 DEF Recorded, SameLayout
    <3> QED BY <1>11, <3>1, <3>2, <3>3 DEF Served, Sent, Recalls
  <2>2. CASE w \notin Outdated(d)
    <3>1. d.req[w] = Given(d, w).size
      BY <2>2 DEF Outdated
    <3>2. e.req[w] = d.req[w] /\ e.asked[w] = d.asked[w]
      BY <1>2, <1>11, <2>2
    <3>3. d.req[w] # None /\ Recalls(d, w)
      BY <1>2, <1>4, <3>1
    <3> QED BY <1>11, <3>1, <3>2, <3>3 DEF Served, Sent, Recalls
  <2> QED BY <2>1, <2>2
<1>13. \A w \in Window : Recalls(e, w)
  BY <1>10, <1>12 DEF Recalls
<1> QED BY <1>9, <1>10, <1>12, <1>13 DEF e

\* FirstIn finds a member that is in the set, if there is one.
LEMMA FirstInIs ==
  ASSUME NEW T, NEW s \in Seq(T), NEW S
  PROVE  \/ FirstIn(s, S) = None /\ ToSet(s) \cap S = {}
         \/ FirstIn(s, S) \in ToSet(s) \cap S
<1> DEFINE I == {i \in 1 .. Len(s) : s[i] \in S}
<1>1. DOMAIN s = 1 .. Len(s) /\ Len(s) \in Nat /\ I \in SUBSET Nat
  BY LenProperties
<1>2. CASE I = {}
  BY <1>1, <1>2 DEF FirstIn, SelectInSeq, ToSet
<1>3. CASE I # {}
  <2>1. Min(I) \in I
    BY <1>1, <1>3, MinIsIn
  <2>2. SelectInSeq(s, LAMBDA v : v \in S) = Min(I)
    BY <1>3 DEF SelectInSeq
  <2>3. FirstIn(s, S) = s[Min(I)]
    BY <1>1, <2>1, <2>2 DEF FirstIn
  <2> QED BY <1>1, <2>1, <2>3 DEF ToSet
<1> QED BY <1>2, <1>3

\* The tile that monocle shows is a tile, if there is one.
LEMMA ActiveIsTiled ==
  ASSUME Constants, NEW d \in Fields
  PROVE  ActiveTiled(d) = None \/ ActiveTiled(d) \in Tiled(d)
<1>1. /\ d.focused \in Window \cup {None} /\ d.last \in Window \cup {None}
      /\ d.toplevels \in Seq(Window)
  BY DEF Fields
<1>2. d.toplevels \in Seq(Window \cup {None})
  BY <1>1
<1>3. <<d.focused, d.last>> \in Seq(Window \cup {None})
  BY <1>1
<1>4. <<d.focused, d.last>> \o d.toplevels \in Seq(Window \cup {None})
  BY <1>2, <1>3
<1> QED BY <1>4, FirstInIs DEF ActiveTiled

\* A change of the focus in monocle sends the area to the tile it shows.
LEMMA FocusIs ==
  ASSUME Constants, NEW d \in Fields, NEW v \in Window, Housed(d),
         \A w \in Window : Recalls(d, w)
  PROVE  LET e == GiveFocus(d, v)
         IN /\ e \in Fields /\ SameLayout(d, e) /\ SameGrab(d, e) /\ e.float = d.float
            /\ e.focused = v /\ e.last = d.focused
            /\ \A w \in Window : Recalls(e, w)
            /\ \A w \in Window \ Tiled(d) : Untouched(d, e, w)
            /\ d.monocle => \A w \in Shown(e) : Served(e, w, Given(e, w))
            /\ ~ d.monocle => \A w \in Window : Untouched(d, e, w)
<1> DEFINE f == [d EXCEPT !.last = d.focused, !.focused = v]
           t == ActiveTiled(f)
           p == Place(f, t, Area.at)
           q == toplevel_set_size(p, t, Area.size)
           e == GiveFocus(d, v)
<1>1. /\ f \in Fields /\ SameLayout(d, f) /\ SameGrab(d, f) /\ f.float = d.float
      /\ f.focused = v /\ f.last = d.focused /\ f.drawn = d.drawn /\ f.req = d.req
      /\ f.asked = d.asked
  BY DEF Fields, SameLayout, SameGrab
<1>2. e = IF ~ d.monocle \/ t = None THEN f ELSE IF p.req[t] # Area.size THEN q ELSE p
  BY DEF GiveFocus
<1> HIDE DEF f
<1>3. t = None \/ t \in Tiled(f)
  BY <1>1, ActiveIsTiled
<1>4. Tiled(f) = Tiled(d) /\ f.monocle = d.monocle
  BY <1>1 DEF SameLayout, Tiled
<1>5. Tiled(d) \subseteq Window /\ None \notin Window
  BY DEF Tiled, Fields, Constants
<1>6. Area.at \in Spot /\ Area.size \in Extent /\ Area.size # None
  BY BoxParts DEF Box
<1>7. CASE ~ d.monocle \/ t = None
  <2>1. e = f
    BY <1>2, <1>7
  <2>2. \A w \in Window : Untouched(d, f, w) /\ Recalls(f, w)
    BY <1>1 DEF Untouched, Recalls
  <2>3. d.monocle => Shown(f) = {}
    BY <1>4, <1>5, <1>7 DEF Shown
  <2> QED BY <1>1, <2>1, <2>2, <2>3
<1>8. CASE d.monocle /\ t # None
  <2>1. t \in Window /\ t \in Tiled(d)
    BY <1>3, <1>4, <1>5, <1>8
  <2>2. /\ p \in Fields /\ SameLayout(f, p) /\ SameGrab(f, p) /\ SameFocus(f, p)
        /\ p.float = f.float /\ p.req = f.req /\ p.asked = f.asked
        /\ p.drawn[t] = Area.at /\ \A w \in Window \ {t} : p.drawn[w] = f.drawn[w]
    BY <1>1, <1>6, <2>1, PlaceIs
  <2>3. e = IF p.req[t] # Area.size THEN q ELSE p
    BY <1>2, <1>8
  <2>4. Shown(f) = {t} /\ Given(f, t) = Area
    BY <1>4, <1>8, <2>1 DEF Shown, Given
  <2> HIDE DEF e, p, t
  <2>5. CASE p.req[t] # Area.size
    <3>1. /\ e \in Fields /\ SameLayout(p, e) /\ SameGrab(p, e) /\ SameFocus(p, e)
          /\ e.float = p.float /\ e.drawn = p.drawn
          /\ e.req[t] = Area.size /\ e.asked[t].size = Area.size
          /\ \A w \in Window \ {t} : Untouched(p, e, w)
      BY <1>6, <2>1, <2>2, <2>3, <2>5, SetSize
    <3>2. SameLayout(d, e) /\ SameGrab(d, e) /\ SameFocus(f, e)
      BY <1>1, <2>2, <3>1 DEF SameLayout, SameGrab, SameFocus
    <3>3. SameLayout(f, e)
      BY <2>2, <3>1 DEF SameLayout
    <3>4. Shown(e) = {t} /\ Given(e, t) = Area
      BY <2>4, <3>2, <3>3, SameShown
    <3>5. Served(e, t, Area)
      BY <2>2, <3>1 DEF Served, Sent
    <3>6. \A w \in Window \ {t} : Untouched(d, e, w)
      BY <1>1, <2>2, <3>1 DEF Untouched
    <3>7. \A w \in Window : Recalls(e, w)
      BY <3>1, <3>6 DEF Untouched, Recalls
    <3>8. e.focused = v /\ e.last = d.focused /\ e.float = d.float
      BY <1>1, <2>2, <3>1, <3>2 DEF SameFocus
    <3> QED BY <1>8, <2>1, <3>1, <3>2, <3>4, <3>5, <3>6, <3>7, <3>8 DEF e
  <2>6. CASE ~ (p.req[t] # Area.size)
    <3>1. e = p
      BY <2>3, <2>6
    <3>2. SameLayout(d, e) /\ SameGrab(d, e) /\ SameFocus(f, e) /\ SameLayout(f, e)
      BY <1>1, <2>2, <3>1 DEF SameLayout, SameGrab, SameFocus
    <3>4. Shown(e) = {t} /\ Given(e, t) = Area
      BY <2>4, <3>2, SameShown
    <3>5. Recalls(d, t) /\ d.req[t] = Area.size
      BY <1>1, <2>1, <2>2, <2>6
    <3>6. Served(e, t, Area)
      BY <1>1, <1>6, <2>2, <3>1, <3>5 DEF Served, Sent, Recalls
    <3>7. \A w \in Window \ {t} : Untouched(d, e, w)
      BY <1>1, <2>2, <3>1 DEF Untouched
    <3>8. \A w \in Window : Recalls(e, w)
      BY <1>1, <2>2, <3>1 DEF Recalls
    <3>9. e.focused = v /\ e.last = d.focused /\ e.float = d.float
      BY <1>1, <2>2, <3>1, <3>2 DEF SameFocus
    <3> QED BY <1>8, <2>1, <2>2, <3>1, <3>2, <3>4, <3>6, <3>7, <3>8, <3>9 DEF e
  <2> QED BY <2>5, <2>6
<1> QED BY <1>7, <1>8

----------------------------------------------------------------------------
\* The layout: the tiles have leaves, and the leaves boxes.
Framed(d) ==
  /\ d.floating \cup d.full \subseteq d.mapped /\ d.floating \cap d.full = {}
  /\ IsInjective(d.toplevels)
  /\ ToSet(d.toplevels) = d.mapped \ (d.floating \cup (d.full \cap d.saved_floating))
  /\ DOMAIN d.tile = ToSet(d.toplevels) /\ \A w \in DOMAIN d.tile : d.tile[w] \in Box

Focused(d) == d.focused \in d.mapped \cup {None} /\ d.last \in d.mapped \cup {None}

Aware(d) ==
  /\ \A w \in Window : Recalls(d, w)
  /\ \A w \in Window \ d.mapped : d.req[w] = None /\ d.float[w] = Default

\* A grab is of a floating window, and the size that waits is its own, but for the
\* windows C.
Gripped(d, C) ==
  /\ d.grabbed \in d.mapped \cup {None} /\ (d.mode = "passthrough" <=> d.grabbed = None)
  /\ d.pending # None => d.grabbed # None
  /\ d.grabbed \notin C \cup {None} =>
       /\ d.grabbed \in d.floating
       /\ d.pending # None => d.pending = d.float[d.grabbed].size

FloatsSent(d, C) ==
  /\ \A w \in d.floating \ C : Sent(d, w, d.float[w])
  /\ \A w \in d.full \ C : Sent(d, w, Screen)

TilesSent(d, C) ==
  d.full = {} => \A w \in Shown(d) \ C : Served(d, w, Given(d, w))

Settling(d, C) ==
  /\ d \in Fields /\ Framed(d) /\ Focused(d) /\ Aware(d) /\ Gripped(d, C)
  /\ FloatsSent(d, C)

Laid(d, C) == Settling(d, C) /\ TilesSent(d, C)

\* Then all tiles can be arranged.
LEMMA FramedIsHoused == ASSUME NEW d, Framed(d) PROVE Housed(d)
BY DEF Framed, Housed, Tiled

\* What was sent stays sent.
LEMMA SentStays ==
  ASSUME NEW d, NEW e, NEW w, NEW b, Sent(d, w, b), Untouched(d, e, w), SameGrab(d, e)
  PROVE  Sent(e, w, b)
BY DEF Sent, Untouched, SameGrab

\* What was sent and recorded too.
LEMMA ServedStays ==
  ASSUME NEW d, NEW e, NEW w, NEW b, Served(d, w, b), Untouched(d, e, w), SameGrab(d, e),
         e.monocle = d.monocle
  PROVE  Served(e, w, b)
BY SentStays DEF Served, Untouched

\* The layout is all that Framed and Focused speak of,
LEMMA SameFrame ==
  ASSUME NEW d, NEW e, SameLayout(d, e)
  PROVE  /\ Framed(d) => Framed(e)
         /\ SameFocus(d, e) /\ Focused(d) => Focused(e)
BY DEF SameLayout, SameFocus, Framed, Focused

\* and Gripped adds the grab.
LEMMA SameGrip ==
  ASSUME NEW d, NEW e, NEW C, Gripped(d, C), SameLayout(d, e), SameGrab(d, e),
         e.float = d.float
  PROVE  Gripped(e, C)
BY DEF SameLayout, SameGrab, Gripped

\* With more exceptions it holds as well.
LEMMA MoreExcused ==
  ASSUME NEW d, NEW C, NEW E, C \subseteq E
  PROVE  /\ Gripped(d, C) => Gripped(d, E)
         /\ FloatsSent(d, C) => FloatsSent(d, E)
         /\ TilesSent(d, C) => TilesSent(d, E)
         /\ Settling(d, C) => Settling(d, E)
         /\ Laid(d, C) => Laid(d, E)
<1>1. Gripped(d, C) => Gripped(d, E)
  BY DEF Gripped
<1>2. (FloatsSent(d, C) => FloatsSent(d, E)) /\ (TilesSent(d, C) => TilesSent(d, E))
  BY DEF FloatsSent, TilesSent
<1> QED BY <1>1, <1>2 DEF Settling, Laid

\* After bsp_arrange everything has been sent.
LEMMA ArrangeSends ==
  ASSUME Constants, NEW d, NEW C, Settling(d, C)
  PROVE  LET e == bsp_arrange(d)
         IN /\ Laid(e, C) /\ SameLayout(d, e) /\ SameGrab(d, e) /\ SameFocus(d, e)
            /\ e.float = d.float
<1> DEFINE e == bsp_arrange(d)
<1>1. /\ d \in Fields /\ Framed(d) /\ Focused(d) /\ Aware(d) /\ Gripped(d, C)
      /\ FloatsSent(d, C) /\ Housed(d) /\ \A w \in Window : Recalls(d, w)
  BY FramedIsHoused DEF Settling, Aware
<1>2. /\ e \in Fields /\ SameLayout(d, e) /\ SameGrab(d, e) /\ SameFocus(d, e)
      /\ e.float = d.float /\ \A w \in Window : Recalls(e, w)
      /\ \A w \in Shown(d) : Served(e, w, Given(d, w))
      /\ \A w \in Window \ Shown(d) :
           /\ e.req[w] = d.req[w] /\ e.asked[w] = d.asked[w]
           /\ e.drawn[w] = IF w \in d.mapped \cap d.floating THEN d.float[w].at
                           ELSE d.drawn[w]
  BY <1>1, ArrangeIs
<1> HIDE DEF e
<1>3. Framed(e) /\ Focused(e) /\ Gripped(e, C)
  BY <1>1, <1>2, SameFrame, SameGrip
<1>4. /\ Shown(d) \subseteq d.mapped /\ d.mapped \subseteq Window
      /\ Shown(d) \cap (d.floating \cup d.full) = {}
  BY <1>1 DEF Shown, Tiled, Fields
<1>5. Aware(e)
  BY <1>1, <1>2, <1>4 DEF Aware, SameLayout
<1>6. FloatsSent(e, C)
  <2>1. \A w \in d.floating \ C : Sent(e, w, d.float[w])
    <3> TAKE w \in d.floating \ C
    <3>1. w \in Window \ Shown(d) /\ w \in d.mapped
      BY <1>1, <1>4 DEF Framed
    <3>2. Sent(d, w, d.float[w])
      BY <1>1 DEF FloatsSent
    <3> QED BY <1>2, <3>1, <3>2 DEF Sent, SameGrab
  <2>2. \A w \in d.full \ C : Sent(e, w, Screen)
    <3> TAKE w \in d.full \ C
    <3>1. w \in Window \ Shown(d) /\ w \notin d.floating
      BY <1>1, <1>4 DEF Framed
    <3>2. Sent(d, w, Screen)
      BY <1>1 DEF FloatsSent
    <3> QED BY <1>2, <3>1, <3>2 DEF Sent, SameGrab
  <2> QED BY <1>2, <2>1, <2>2 DEF FloatsSent, SameLayout
<1>7. TilesSent(e, C)
  BY <1>2, SameShown DEF TilesSent
<1> QED BY <1>2, <1>3, <1>5, <1>6, <1>7 DEF Settling, Laid, e

\* And a change of focus keeps it so.
LEMMA GiveFocusSends ==
  ASSUME Constants, NEW d, NEW C, Laid(d, C), NEW v \in d.mapped
  PROVE  LET e == GiveFocus(d, v)
         IN /\ Laid(e, C) /\ SameLayout(d, e) /\ SameGrab(d, e) /\ e.float = d.float
            /\ e.focused = v
<1> DEFINE e == GiveFocus(d, v)
<1>1. /\ d \in Fields /\ Framed(d) /\ Focused(d) /\ Aware(d) /\ Gripped(d, C)
      /\ FloatsSent(d, C) /\ TilesSent(d, C) /\ Housed(d)
      /\ (\A w \in Window : Recalls(d, w)) /\ v \in Window /\ d.mapped \subseteq Window
  BY FramedIsHoused DEF Laid, Settling, Aware, Fields
<1>2. /\ e \in Fields /\ SameLayout(d, e) /\ SameGrab(d, e) /\ e.float = d.float
      /\ e.focused = v /\ e.last = d.focused
      /\ \A w \in Window : Recalls(e, w)
      /\ \A w \in Window \ Tiled(d) : Untouched(d, e, w)
      /\ d.monocle => \A w \in Shown(e) : Served(e, w, Given(e, w))
      /\ ~ d.monocle => \A w \in Window : Untouched(d, e, w)
  BY <1>1, FocusIs
<1> HIDE DEF e
<1>3. Framed(e) /\ Gripped(e, C)
  BY <1>1, <1>2, SameFrame, SameGrip
<1>4. Focused(e)
  BY <1>1, <1>2 DEF Focused, SameLayout
<1>5. Aware(e)
  BY <1>1, <1>2 DEF Aware, SameLayout, Untouched, Tiled
<1>6. FloatsSent(e, C)
  <2>1. \A w \in d.floating \cup d.full : w \in Window \ Tiled(d)
    BY <1>1 DEF Framed, Tiled
  <2> QED BY <1>1, <1>2, <2>1, SentStays DEF FloatsSent, SameLayout
<1>7. TilesSent(e, C)
  <2>1. CASE d.monocle
    BY <1>2, <2>1 DEF TilesSent
  <2>2. CASE ~ d.monocle
    <3>1. Shown(e) = Shown(d) /\ \A w : Given(e, w) = Given(d, w)
      BY <1>2, <2>2 DEF Shown, Given, Tiled, SameLayout
    <3>2. Shown(d) \subseteq Window
      BY <1>1 DEF Shown, Tiled
    <3>3. e.full = d.full
      BY <1>2 DEF SameLayout
    <3> QED BY <1>1, <1>2, <2>2, <3>1, <3>2, <3>3, ServedStays DEF TilesSent, SameLayout
  <2> QED BY <2>1, <2>2
<1> QED BY <1>2, <1>3, <1>4, <1>5, <1>6, <1>7 DEF Settling, Laid, e

\* So does the whole of focus_toplevel.
LEMMA FocusSends ==
  ASSUME Constants, NEW d, NEW C, Laid(d, C), NEW v \in d.mapped
  PROVE  LET e == focus_toplevel(d, v)
         IN /\ Laid(e, C) /\ SameLayout(d, e) /\ SameGrab(d, e) /\ e.float = d.float
            /\ e.focused = v
<1>1. CASE d.focused = v
  BY <1>1 DEF focus_toplevel, SameLayout, SameGrab
<1>2. CASE d.focused # v
  BY <1>2, GiveFocusSends DEF focus_toplevel
<1> QED BY <1>1, <1>2

\* A floating window that is drawn at a box and asked for its size is excused
\* no more.
LEMMA FloatIsSent ==
  ASSUME NEW d, NEW C, NEW w \in d.floating, NEW b \in Floated, NEW e \in Fields,
         Settling(d, C \cup {w}), d.grabbed = w => w \in C \/ d.pending = None,
         SameLayout(d, e), SameGrab(d, e), SameFocus(d, e),
         e.float[w] = b, \A v \in Window \ {w} : e.float[v] = d.float[v],
         e.drawn[w] = b.at, e.asked[w].size = b.size, Recalls(e, w),
         \A v \in Window \ {w} : Untouched(d, e, v)
  PROVE  /\ Settling(e, C)
         /\ TilesSent(d, C \cup {w}) => TilesSent(e, C)
<1>1. /\ d \in Fields /\ Framed(d) /\ Focused(d) /\ Aware(d) /\ Gripped(d, C \cup {w})
      /\ FloatsSent(d, C \cup {w}) /\ d.mapped \subseteq Window
  BY DEF Settling, Fields
<1>2. w \in Window /\ w \in d.mapped /\ w \notin d.full /\ w \notin Tiled(d)
  BY <1>1 DEF Framed, Tiled
<1>3. /\ e \in Fields /\ SameLayout(d, e) /\ SameGrab(d, e) /\ SameFocus(d, e)
      /\ e.float[w] = b /\ (\A v \in Window \ {w} : e.float[v] = d.float[v])
      /\ e.drawn[w] = b.at /\ Recalls(e, w) /\ e.asked[w].size = b.size
      /\ \A v \in Window \ {w} : Untouched(d, e, v)
  OBVIOUS
<1>4. Framed(e) /\ Focused(e)
  BY <1>1, <1>3, SameFrame
<1>5. Aware(e)
  <2>1. \A v \in Window : Recalls(e, v)
    BY <1>1, <1>3 DEF Aware, Recalls, Untouched
  <2> QED BY <1>1, <1>2, <1>3, <2>1 DEF Aware, SameLayout, Untouched
<1>6. Gripped(e, C)
  <2>1. CASE d.grabbed = w
    BY <1>1, <1>3, <2>1 DEF Gripped, SameLayout, SameGrab
  <2>2. CASE d.grabbed # w
    <3>1. d.grabbed # None => d.grabbed \in Window \ {w}
      BY <1>1, <2>2 DEF Gripped
    <3> QED BY <1>1, <1>3, <2>2, <3>1 DEF Gripped, SameLayout, SameGrab
  <2> QED BY <2>1, <2>2
<1>7. Sent(e, w, b)
  BY <1>3 DEF Sent
<1>8. \A v \in (d.floating \cup d.full) \ (C \cup {w}) : v \in Window \ {w}
  BY <1>1 DEF Framed
<1>9. \A v \in d.floating \ C : Sent(e, v, e.float[v])
  <2> TAKE v \in d.floating \ C
  <2>1. CASE v = w
    BY <1>3, <1>7, <2>1
  <2>2. CASE v # w
    <3>1. v \in Window \ {w} /\ Sent(d, v, d.float[v])
      BY <1>1, <1>8, <2>2 DEF FloatsSent
    <3> QED BY <1>3, <3>1, SentStays
  <2> QED BY <2>1, <2>2
<1>10. \A v \in d.full \ C : Sent(e, v, Screen)
  <2> TAKE v \in d.full \ C
  <2>1. v \in Window \ {w} /\ Sent(d, v, Screen)
    BY <1>1, <1>2, <1>8 DEF FloatsSent
  <2> QED BY <1>3, <2>1, SentStays
<1>11. FloatsSent(e, C)
  BY <1>3, <1>9, <1>10 DEF FloatsSent, SameLayout
<1>12. TilesSent(d, C \cup {w}) => TilesSent(e, C)
  <2>1. Shown(e) = Shown(d) /\ \A v : Given(e, v) = Given(d, v)
    BY <1>3, SameShown
  <2>2. \A v \in Shown(d) : v \in Window \ {w}
    BY <1>1, <1>2 DEF Shown, Tiled
  <2>3. e.full = d.full
    BY <1>3 DEF SameLayout
  <2> QED BY <1>3, <2>1, <2>2, <2>3, ServedStays DEF TilesSent, SameLayout
<1> QED BY <1>3, <1>4, <1>5, <1>6, <1>11, <1>12 DEF Settling

\* And so is one that is put where it floats.
LEMMA PutFloatSends ==
  ASSUME Constants, NEW d, NEW C, NEW w \in d.floating, NEW b \in Floated,
         Settling(d, C \cup {w}), d.grabbed = w => w \in C \/ d.pending = None
  PROVE  LET e == PutFloat(d, w, b)
         IN /\ Settling(e, C) /\ SameLayout(d, e) /\ SameGrab(d, e) /\ SameFocus(d, e)
            /\ e.float[w] = b
            /\ TilesSent(d, C \cup {w}) => TilesSent(e, C)
<1> DEFINE e == PutFloat(d, w, b)
<1>1. d \in Fields /\ w \in Window
  BY DEF Settling, Framed, Fields
<1>2. /\ e \in Fields /\ SameLayout(d, e) /\ SameGrab(d, e) /\ SameFocus(d, e)
      /\ e.float[w] = b /\ (\A v \in Window \ {w} : e.float[v] = d.float[v])
      /\ e.drawn[w] = b.at /\ e.req[w] = b.size /\ e.asked[w].size = b.size
      /\ \A v \in Window \ {w} : Untouched(d, e, v)
  BY <1>1, PutFloatIs
<1> HIDE DEF e
<1>3. Recalls(e, w)
  BY <1>2 DEF Recalls
<1>4. Settling(e, C) /\ (TilesSent(d, C \cup {w}) => TilesSent(e, C))
  BY <1>2, <1>3, FloatIsSent
<1> QED BY <1>2, <1>4 DEF e

\* What the coming of the leaf of w changes.
Grew(d, e, w) ==
  /\ e = [d EXCEPT !.toplevels = e.toplevels, !.tile = e.tile]
  /\ e \in Fields /\ IsInjective(e.toplevels)
  /\ ToSet(e.toplevels) = ToSet(d.toplevels) \cup {w}
  /\ DOMAIN e.tile = ToSet(e.toplevels) /\ \A v \in DOMAIN e.tile : e.tile[v] \in Box

\* A leaf comes.
LEMMA GrownIs ==
  ASSUME Constants, NEW d \in Fields, IsInjective(d.toplevels),
         NEW w \in Window \ ToSet(d.toplevels),
         NEW t \in Tilings
  PROVE  Grew(d, Grown(d, w, t), w)
<1> DEFINE s == <<w>> \o d.toplevels
           tile == Boxes(s, t)
           e == [d EXCEPT !.toplevels = s, !.tile = tile]
<1>1. d.toplevels \in Seq(Window) /\ IsInjective(d.toplevels)
  BY DEF Fields
<1>2. s \in Seq(Window) /\ IsInjective(s) /\ ToSet(s) = ToSet(d.toplevels) \cup {w}
  BY <1>1, PutInFront
<1>3. Grown(d, w, t) = e
  BY DEF Grown, Planted
<1> HIDE DEF s
<1>4. /\ DOMAIN tile = ToSet(s) /\ ToSet(s) \in SUBSET Window
      /\ \A v \in ToSet(s) : tile[v] \in Box
  <2>1. ToSet(s) \subseteq Window
    BY <1>2, MembersIn
  <2>2. t \in [Window -> Split]
    BY DEF Tilings
  <2> QED BY <2>1, <2>2 DEF Boxes, Box
<1>5. tile \in [ToSet(s) -> Box]
  BY <1>4 DEF Boxes
<1> HIDE DEF tile
<1>6. tile \in UNION {[S -> Box] : S \in SUBSET Window}
  BY <1>4, <1>5
<1>7. e \in Fields /\ e.toplevels = s /\ e.tile = tile
  BY <1>2, <1>6 DEF Fields
<1>8. Grew(d, e, w)
  BY <1>2, <1>4, <1>7 DEF Grew
<1> HIDE DEF e
<1> QED BY <1>3, <1>8

\* What the going of the leaf of w changes.
Shrank(d, e, w) ==
  /\ e = [d EXCEPT !.toplevels = e.toplevels, !.tile = e.tile]
  /\ e \in Fields /\ IsInjective(e.toplevels)
  /\ ToSet(e.toplevels) = ToSet(d.toplevels) \ {w}
  /\ DOMAIN d.tile = ToSet(d.toplevels) => DOMAIN e.tile = ToSet(e.toplevels)
  /\ (\A v \in DOMAIN d.tile : d.tile[v] \in Box) =>
       \A v \in DOMAIN e.tile : e.tile[v] \in Box

\* A leaf goes.
LEMMA PrunedIs ==
  ASSUME Constants, NEW d \in Fields, IsInjective(d.toplevels), NEW w \in Window,
         NEW t \in Tilings
  PROVE  Shrank(d, Pruned(d, w, t), w)
<1> DEFINE s == RemoveFirst(d.toplevels, w)
           tile == Boxes(s, t)
           e == [d EXCEPT !.toplevels = s, !.tile = tile]
<1>1. d.toplevels \in Seq(Window) /\ IsInjective(d.toplevels)
  BY DEF Fields
<1>2. s \in Seq(Window) /\ IsInjective(s) /\ ToSet(s) = ToSet(d.toplevels) \ {w}
  BY <1>1, TakeOut
<1>3. Pruned(d, w, t) = IF w \in ToSet(d.toplevels) THEN e ELSE d
  BY DEF Pruned, Planted
<1> HIDE DEF s
<1>4. /\ DOMAIN tile = ToSet(s) /\ ToSet(s) \in SUBSET Window
      /\ \A v \in ToSet(s) : tile[v] \in Box
  <2>1. ToSet(s) \subseteq Window
    BY <1>2, MembersIn
  <2>2. t \in [Window -> Split]
    BY DEF Tilings
  <2> QED BY <2>1, <2>2 DEF Boxes, Box
<1>5. tile \in [ToSet(s) -> Box]
  BY <1>4 DEF Boxes
<1> HIDE DEF tile
<1>6. tile \in UNION {[S -> Box] : S \in SUBSET Window}
  BY <1>4, <1>5
<1>7. e \in Fields /\ e.toplevels = s /\ e.tile = tile
  BY <1>2, <1>6 DEF Fields
<1>8. d = [d EXCEPT !.toplevels = d.toplevels, !.tile = d.tile]
  BY DEF Fields
<1>9. CASE w \in ToSet(d.toplevels)
  <2>1. Shrank(d, e, w)
    BY <1>2, <1>4, <1>7 DEF Shrank
  <2> HIDE DEF e
  <2> QED BY <1>3, <1>9, <2>1
<1>10. CASE w \notin ToSet(d.toplevels)
  <2>1. ToSet(d.toplevels) = ToSet(d.toplevels) \ {w}
    BY <1>10
  <2>2. Shrank(d, d, w)
    BY <1>1, <1>8, <2>1 DEF Shrank
  <2> HIDE DEF e
  <2> QED BY <1>3, <1>10, <2>2
<1> QED BY <1>9, <1>10

\* The end of monocle changes nothing until the next arrangement.
LEMMA MonocleMayEnd ==
  ASSUME NEW d, NEW C, Settling(d, C), NEW empty \in BOOLEAN
  PROVE  LET e == LeaveMonocle(d, empty)
         IN /\ Settling(e, C) /\ SameGrab(d, e) /\ SameFocus(d, e)
            /\ e.float = d.float /\ e.mapped = d.mapped /\ e.floating = d.floating
            /\ e.full = d.full /\ e.saved_floating = d.saved_floating
<1> DEFINE e == LeaveMonocle(d, empty)
<1>1. d \in Fields /\ Framed(d) /\ Focused(d) /\ Aware(d) /\ Gripped(d, C) /\ FloatsSent(d, C)
  BY DEF Settling
<1>2. d.monocle \in BOOLEAN
  BY <1>1 DEF Fields
<1>3. (d.monocle /\ ~ empty) \in BOOLEAN
  OBVIOUS
<1>4. /\ e \in Fields /\ e.mapped = d.mapped /\ e.floating = d.floating
      /\ e.full = d.full /\ e.saved_floating = d.saved_floating
      /\ e.toplevels = d.toplevels /\ e.tile = d.tile /\ e.float = d.float
      /\ e.drawn = d.drawn /\ e.req = d.req /\ e.asked = d.asked
      /\ SameGrab(d, e) /\ SameFocus(d, e)
  BY <1>1, <1>3 DEF LeaveMonocle, Fields, SameGrab, SameFocus
<1> HIDE DEF e
<1>5. Framed(e) /\ Focused(e) /\ Aware(e) /\ Gripped(e, C)
  BY <1>1, <1>4 DEF Framed, Focused, Aware, Recalls, Gripped, SameFocus, SameGrab
<1>6. FloatsSent(e, C)
  BY <1>1, <1>4 DEF FloatsSent, Sent, SameGrab
<1> QED BY <1>4, <1>5, <1>6 DEF Settling, e

\* A floating window turned into a tile.
AsTile(d, w, t) == Grown([d EXCEPT !.floating = @ \ {w}], w, t)

LEMMA BackToTile ==
  ASSUME Constants, NEW d, NEW C, Settling(d, C), NEW w \in d.floating, NEW t \in Tilings
  PROVE  LET e == AsTile(d, w, t)
         IN /\ Settling(e, C \cup ({w} \cap {d.grabbed})) /\ SameGrab(d, e)
            /\ e.float = d.float /\ e.mapped = d.mapped /\ e.floating = d.floating \ {w}
            /\ e.full = d.full /\ e.saved_floating = d.saved_floating
<1> DEFINE f == [d EXCEPT !.floating = @ \ {w}]
           e == Grown(f, w, t)
           E == C \cup ({w} \cap {d.grabbed})
<1>1. d \in Fields /\ Framed(d) /\ Focused(d) /\ Aware(d) /\ Gripped(d, C) /\ FloatsSent(d, C)
  BY DEF Settling
<1>2. w \in Window /\ w \in d.mapped /\ w \notin d.full /\ w \notin ToSet(d.toplevels)
  BY <1>1 DEF Framed, Fields
<1>3. f \in Fields /\ f.toplevels = d.toplevels /\ IsInjective(f.toplevels)
  BY <1>1 DEF Fields, Framed
<1> HIDE DEF f
<1>4. /\ e = [f EXCEPT !.toplevels = e.toplevels, !.tile = e.tile]
      /\ e \in Fields /\ IsInjective(e.toplevels)
      /\ ToSet(e.toplevels) = ToSet(f.toplevels) \cup {w}
      /\ DOMAIN e.tile = ToSet(e.toplevels) /\ \A v \in DOMAIN e.tile : e.tile[v] \in Box
  <2>1. w \in Window \ ToSet(f.toplevels)
    BY <1>2, <1>3
  <2>2. Grew(f, e, w)
    BY <1>3, <2>1, GrownIs
  <2> HIDE DEF e
  <2> QED BY <2>2 DEF Grew
<1> HIDE DEF e
<1>5. /\ e.mapped = f.mapped /\ e.floating = f.floating
      /\ e.full = f.full /\ e.saved_floating = f.saved_floating /\ e.float = f.float
      /\ e.drawn = f.drawn /\ e.req = f.req /\ e.asked = f.asked
      /\ SameGrab(f, e) /\ SameFocus(f, e)
  BY <1>3, <1>4 DEF Fields, SameGrab, SameFocus
<1>6. /\ f.mapped = d.mapped /\ f.floating = d.floating \ {w}
      /\ f.full = d.full /\ f.saved_floating = d.saved_floating /\ f.float = d.float
      /\ f.drawn = d.drawn /\ f.req = d.req /\ f.asked = d.asked
      /\ SameGrab(d, f) /\ SameFocus(d, f)
  BY <1>1 DEF f, Fields, SameGrab, SameFocus
<1>7. /\ e.mapped = d.mapped /\ e.floating = d.floating \ {w}
      /\ e.full = d.full /\ e.saved_floating = d.saved_floating /\ e.float = d.float
      /\ e.drawn = d.drawn /\ e.req = d.req /\ e.asked = d.asked
      /\ SameGrab(d, e) /\ SameFocus(d, e)
  BY <1>5, <1>6 DEF SameGrab, SameFocus
<1>8. Framed(e)
  BY <1>1, <1>2, <1>3, <1>4, <1>7 DEF Framed
<1>9. Focused(e) /\ Aware(e)
  BY <1>1, <1>7 DEF Focused, Aware, Recalls, SameFocus
<1>10. Gripped(e, E)
  BY <1>1, <1>7 DEF Gripped, SameGrab
<1>11. FloatsSent(e, E)
  BY <1>1, <1>7 DEF FloatsSent, Sent, SameGrab
<1> QED BY <1>4, <1>7, <1>8, <1>9, <1>10, <1>11 DEF Settling, AsTile, e, f

\* A tile turned into a floating window, which has not taken its box yet.
LEMMA OutOfTile ==
  ASSUME Constants, NEW d, NEW C, Settling(d, C),
         NEW w \in d.mapped \ (d.floating \cup d.full), NEW t \in Tilings
  PROVE  LET e == [Pruned(d, w, t) EXCEPT !.floating = @ \cup {w}]
         IN /\ Settling(e, C \cup {w}) /\ SameGrab(d, e)
            /\ e.float = d.float /\ e.mapped = d.mapped /\ e.floating = d.floating \cup {w}
            /\ e.full = d.full /\ e.saved_floating = d.saved_floating
<1> DEFINE f == Pruned(d, w, t)
           e == [f EXCEPT !.floating = @ \cup {w}]
<1>1. d \in Fields /\ Framed(d) /\ Focused(d) /\ Aware(d) /\ Gripped(d, C) /\ FloatsSent(d, C)
  BY DEF Settling
<1>2. w \in Window /\ IsInjective(d.toplevels)
  BY <1>1 DEF Fields, Framed
<1>3. /\ f = [d EXCEPT !.toplevels = f.toplevels, !.tile = f.tile]
      /\ f \in Fields /\ IsInjective(f.toplevels)
      /\ ToSet(f.toplevels) = ToSet(d.toplevels) \ {w}
      /\ DOMAIN d.tile = ToSet(d.toplevels) => DOMAIN f.tile = ToSet(f.toplevels)
      /\ (\A v \in DOMAIN d.tile : d.tile[v] \in Box) =>
           \A v \in DOMAIN f.tile : f.tile[v] \in Box
  <2>1. Shrank(d, f, w)
    BY <1>1, <1>2, PrunedIs
  <2> HIDE DEF f
  <2> QED BY <2>1 DEF Shrank
<1> HIDE DEF f
<1>4. /\ f.mapped = d.mapped /\ f.floating = d.floating
      /\ f.full = d.full /\ f.saved_floating = d.saved_floating /\ f.float = d.float
      /\ f.drawn = d.drawn /\ f.req = d.req /\ f.asked = d.asked
      /\ SameGrab(d, f) /\ SameFocus(d, f)
  BY <1>1, <1>3 DEF Fields, SameGrab, SameFocus
<1>5. /\ e \in Fields /\ e.mapped = f.mapped /\ e.floating = f.floating \cup {w}
      /\ e.full = f.full /\ e.saved_floating = f.saved_floating /\ e.float = f.float
      /\ e.drawn = f.drawn /\ e.req = f.req /\ e.asked = f.asked
      /\ e.toplevels = f.toplevels /\ e.tile = f.tile
      /\ SameGrab(f, e) /\ SameFocus(f, e)
  BY <1>2, <1>3 DEF Fields, SameGrab, SameFocus
<1> HIDE DEF e
<1>6. /\ e.mapped = d.mapped /\ e.floating = d.floating \cup {w}
      /\ e.full = d.full /\ e.saved_floating = d.saved_floating /\ e.float = d.float
      /\ e.drawn = d.drawn /\ e.req = d.req /\ e.asked = d.asked
      /\ SameGrab(d, e) /\ SameFocus(d, e)
  BY <1>4, <1>5 DEF SameGrab, SameFocus
<1>7. Framed(e)
  <2>1. e.floating \cup e.full \subseteq e.mapped /\ e.floating \cap e.full = {}
    BY <1>1, <1>6 DEF Framed
  <2>2. /\ ToSet(d.toplevels) = d.mapped \ (d.floating \cup (d.full \cap d.saved_floating))
        /\ DOMAIN d.tile = ToSet(d.toplevels) /\ \A v \in DOMAIN d.tile : d.tile[v] \in Box
    BY <1>1 DEF Framed
  <2>3. ToSet(e.toplevels) = e.mapped \ (e.floating \cup (e.full \cap e.saved_floating))
    BY <1>3, <1>5, <1>6, <2>2
  <2>4. DOMAIN e.tile = ToSet(e.toplevels) /\ \A v \in DOMAIN e.tile : e.tile[v] \in Box
    BY <1>3, <1>5, <2>2
  <2> QED BY <1>3, <1>5, <2>1, <2>3, <2>4 DEF Framed
<1>8. Focused(e) /\ Aware(e)
  BY <1>1, <1>6 DEF Focused, Aware, Recalls, SameFocus
<1>9. Gripped(e, C \cup {w})
  BY <1>1, <1>6 DEF Gripped, SameGrab
<1>10. FloatsSent(e, C \cup {w})
  BY <1>1, <1>6 DEF FloatsSent, Sent, SameGrab
<1> QED BY <1>5, <1>6, <1>7, <1>8, <1>9, <1>10 DEF Settling, e, f

\* What crossing the boundary leaves, if a grab of the window itself is excused.
CrossesOver(d, e, w, C) ==
  /\ Laid(e, C \cup ({w} \cap {d.grabbed})) /\ SameGrab(d, e) /\ e.focused = w
  /\ e.mapped = d.mapped /\ e.full = d.full
  /\ e.floating = IF w \in d.floating THEN d.floating \ {w} ELSE d.floating \cup {w}
  /\ d.grabbed = w /\ w \notin C => w \in d.floating

\* Crossing the boundary keeps what was sent.
LEMMA ToggleFloatingSends ==
  ASSUME Constants, NEW d, NEW C, Laid(d, C), NEW w \in d.mapped \ d.full,
         NEW t \in Tilings
  PROVE  CrossesOver(d, toggle_floating(d, w, t), w, C)
<1> DEFINE E == C \cup ({w} \cap {d.grabbed})
           e == toggle_floating(d, w, t)
<1>1. /\ Settling(d, C) /\ d \in Fields /\ w \in Window /\ Gripped(d, C)
      /\ d.float \in [Window -> Floated] /\ w # None
  BY DEF Laid, Settling, Fields, Constants
<1>2. d.grabbed = w /\ w \notin C => w \in d.floating
  BY <1>1 DEF Gripped
<1>3. ASSUME NEW g, Settling(g, E), SameGrab(d, g), g.mapped = d.mapped, g.full = d.full
      PROVE  LET h == focus_toplevel(bsp_arrange(g), w)
             IN /\ Laid(h, E) /\ SameGrab(d, h) /\ h.focused = w
                /\ h.mapped = d.mapped /\ h.full = d.full /\ h.floating = g.floating
  <2> DEFINE a == bsp_arrange(g)
             h == focus_toplevel(a, w)
  <2>1. Laid(a, E) /\ SameLayout(g, a) /\ SameGrab(g, a)
    BY <1>3, ArrangeSends
  <2> HIDE DEF a
  <2>2. w \in a.mapped
    BY <1>3, <2>1 DEF SameLayout
  <2>3. Laid(h, E) /\ SameLayout(a, h) /\ SameGrab(a, h) /\ h.focused = w
    BY <2>1, <2>2, FocusSends
  <2> HIDE DEF h
  <2>4. SameGrab(d, h)
    BY <1>3, <2>1, <2>3 DEF SameGrab
  <2>5. h.mapped = d.mapped /\ h.full = d.full /\ h.floating = g.floating
    BY <1>3, <2>1, <2>3 DEF SameLayout
  <2> QED BY <2>3, <2>4, <2>5 DEF h, a
<1>4. CASE w \in d.floating
  <2> DEFINE g == AsTile(d, w, t)
             h == focus_toplevel(bsp_arrange(g), w)
  <2>1. /\ Settling(g, E) /\ SameGrab(d, g) /\ g.mapped = d.mapped /\ g.full = d.full
        /\ g.floating = d.floating \ {w}
    BY <1>1, <1>4, BackToTile
  <2>2. e = h
    BY <1>4 DEF toggle_floating, AsTile
  <2> HIDE DEF g
  <2>3. /\ Laid(h, E) /\ SameGrab(d, h) /\ h.focused = w
        /\ h.mapped = d.mapped /\ h.full = d.full /\ h.floating = g.floating
    BY <1>3, <2>1
  <2> HIDE DEF e, h, E
  <2>4. CrossesOver(d, h, w, C)
    BY <1>2, <1>4, <2>1, <2>3 DEF CrossesOver, E
  <2> QED BY <2>2, <2>4 DEF e
<1>5. CASE w \notin d.floating
  <2> DEFINE f == [Pruned(d, w, t) EXCEPT !.floating = @ \cup {w}]
             p == PutFloat(f, w, d.float[w])
             g == LeaveMonocle(p, Tiled(p) = {})
             h == focus_toplevel(bsp_arrange(g), w)
  <2>1. /\ Settling(f, C \cup {w}) /\ SameGrab(d, f)
        /\ f.float = d.float /\ f.mapped = d.mapped /\ f.floating = d.floating \cup {w}
        /\ f.full = d.full
    BY <1>1, <1>5, OutOfTile
  <2>2. e = h
    BY <1>5 DEF toggle_floating
  <2> HIDE DEF f
  <2>3. f.grabbed = w => w \in C
    BY <1>2, <1>5, <2>1 DEF SameGrab
  <2>4. w \in f.floating /\ d.float[w] \in Floated
    BY <1>1, <2>1
  <2>5. Settling(p, C) /\ SameLayout(f, p) /\ SameGrab(f, p)
    BY <2>1, <2>3, <2>4, PutFloatSends
  <2> HIDE DEF p
  <2>6. Settling(p, E)
    BY <2>5, MoreExcused
  <2>7. (Tiled(p) = {}) \in BOOLEAN
    OBVIOUS
  <2>8. /\ Settling(g, E) /\ SameGrab(p, g)
        /\ g.mapped = p.mapped /\ g.floating = p.floating /\ g.full = p.full
    BY <2>6, <2>7, MonocleMayEnd
  <2> HIDE DEF g
  <2>9. SameGrab(d, g) /\ g.mapped = d.mapped /\ g.full = d.full /\ g.floating = d.floating \cup {w}
    BY <2>1, <2>5, <2>8 DEF SameGrab, SameLayout
  <2>10. /\ Laid(h, E) /\ SameGrab(d, h) /\ h.focused = w
         /\ h.mapped = d.mapped /\ h.full = d.full /\ h.floating = g.floating
    BY <1>3, <2>8, <2>9
  <2> HIDE DEF e, h, E
  <2>11. CrossesOver(d, h, w, C)
    BY <1>2, <1>5, <2>9, <2>10 DEF CrossesOver, E
  <2> QED BY <2>2, <2>11 DEF e
<1> QED BY <1>4, <1>5

\* A fullscreen window covers the screen and has been asked to.
LEMMA EnterFullscreenSends ==
  ASSUME Constants, NEW d, NEW C, Laid(d, C), NEW w \in d.mapped \ d.full
  PROVE  LET e == toggle_fullscreen(d, w)
         IN /\ Laid(e, C \cup ({w} \cap {d.grabbed})) /\ SameGrab(d, e) /\ SameFocus(d, e)
            /\ e.mapped = d.mapped
<1> DEFINE E == C \cup ({w} \cap {d.grabbed})
           f == [d EXCEPT !.full = @ \cup {w}, !.floating = @ \ {w},
                          !.saved_floating =
                             IF w \in d.floating THEN @ \cup {w} ELSE @ \ {w}]
           p == Place(f, w, Screen.at)
           e == toplevel_set_size(p, w, Screen.size)
<1>1. /\ d \in Fields /\ Framed(d) /\ Focused(d) /\ Aware(d) /\ Gripped(d, C)
      /\ FloatsSent(d, C) /\ w \in Window
  BY DEF Laid, Settling, Fields
<1>2. toggle_fullscreen(d, w) = e
  BY DEF toggle_fullscreen
<1>3. /\ f \in Fields /\ f.mapped = d.mapped /\ f.floating = d.floating \ {w}
      /\ f.full = d.full \cup {w} /\ f.float = d.float
      /\ f.saved_floating = IF w \in d.floating THEN d.saved_floating \cup {w}
                            ELSE d.saved_floating \ {w}
      /\ f.toplevels = d.toplevels /\ f.tile = d.tile
      /\ f.drawn = d.drawn /\ f.req = d.req /\ f.asked = d.asked
      /\ SameGrab(d, f) /\ SameFocus(d, f)
  BY <1>1 DEF Fields, SameGrab, SameFocus
<1> HIDE DEF f
<1>4. Screen.at \in Spot /\ Screen.size \in Extent
  BY BoxParts DEF Box
<1>5. /\ p \in Fields /\ SameLayout(f, p) /\ SameGrab(f, p) /\ SameFocus(f, p)
      /\ p.float = f.float /\ p.req = f.req /\ p.asked = f.asked
      /\ p.drawn[w] = Screen.at /\ \A v \in Window \ {w} : p.drawn[v] = f.drawn[v]
  <2>1. f \in Fields
    BY <1>3
  <2> HIDE DEF e
  <2> QED BY <1>1, <1>4, <2>1, PlaceIs
<1> HIDE DEF p
<1>6. /\ e \in Fields /\ SameLayout(p, e) /\ SameGrab(p, e) /\ SameFocus(p, e)
      /\ e.float = p.float /\ e.drawn = p.drawn
      /\ e.req[w] = Screen.size /\ e.asked[w].size = Screen.size
      /\ \A v \in Window \ {w} : Untouched(p, e, v)
  BY <1>1, <1>4, <1>5, SetSize
<1> HIDE DEF e
<1>7. /\ SameGrab(d, e) /\ SameFocus(d, e) /\ e.float = d.float
      /\ \A v \in Window \ {w} : Untouched(d, e, v)
  BY <1>3, <1>5, <1>6 DEF SameGrab, SameFocus, Untouched
<1>8. /\ e.mapped = d.mapped /\ e.floating = d.floating \ {w}
      /\ e.full = d.full \cup {w} /\ e.toplevels = d.toplevels /\ e.tile = d.tile
      /\ e.saved_floating = IF w \in d.floating THEN d.saved_floating \cup {w}
                            ELSE d.saved_floating \ {w}
  BY <1>3, <1>5, <1>6 DEF SameLayout
<1>9. Framed(e)
  BY <1>1, <1>8 DEF Framed
<1>10. Focused(e)
  BY <1>1, <1>7, <1>8 DEF Focused, SameFocus
<1>11. Aware(e)
  <2>1. Recalls(e, w)
    BY <1>6 DEF Recalls
  <2>2. \A v \in Window \ {w} : Recalls(e, v)
    BY <1>1, <1>7 DEF Aware, Recalls, Untouched
  <2> QED BY <1>1, <1>7, <1>8, <2>1, <2>2 DEF Aware, Untouched
<1>12. Gripped(e, E)
  BY <1>1, <1>7, <1>8 DEF Gripped, SameGrab
<1>13. FloatsSent(e, E)
  <2>1. Sent(e, w, Screen)
    BY <1>5, <1>6 DEF Sent
  <2>2. \A v \in e.floating \ E : Sent(e, v, e.float[v])
    <3> TAKE v \in e.floating \ E
    <3>1. v \in Window \ {w} /\ v \in d.floating \ C
      BY <1>1, <1>8 DEF Fields
    <3> QED BY <1>1, <1>7, <3>1, SentStays DEF FloatsSent
  <2>3. \A v \in e.full \ E : v # w => Sent(e, v, Screen)
    <3> TAKE v \in e.full \ E
    <3> SUFFICES ASSUME v # w PROVE Sent(e, v, Screen)
      OBVIOUS
    <3>1. v \in Window \ {w} /\ v \in d.full \ C
      BY <1>1, <1>8 DEF Fields
    <3> QED BY <1>1, <1>7, <3>1, SentStays DEF FloatsSent
  <2> QED BY <2>1, <2>2, <2>3 DEF FloatsSent
<1>14. TilesSent(e, E)
  BY <1>8 DEF TilesSent
<1> QED BY <1>2, <1>6, <1>7, <1>8, <1>9, <1>10, <1>11, <1>12, <1>13, <1>14 DEF Laid, Settling

\* A window that leaves fullscreen is arranged, or put where it floated before.
LEMMA LeaveFullscreenSends ==
  ASSUME Constants, NEW d, NEW C, Laid(d, C), NEW w \in d.full
  PROVE  LET e == toggle_fullscreen(d, w)
         IN /\ Laid(e, C \cup ({w} \cap {d.grabbed})) /\ SameGrab(d, e) /\ SameFocus(d, e)
            /\ e.mapped = d.mapped
<1> DEFINE E == C \cup ({w} \cap {d.grabbed})
           f == [d EXCEPT !.full = @ \ {w}]
           o == [f EXCEPT !.floating = @ \cup {w}]
           p == PutFloat(o, w, d.float[w])
           g == IF w \in d.saved_floating THEN p ELSE f
           e == bsp_arrange(g)
<1>1. /\ d \in Fields /\ Framed(d) /\ Focused(d) /\ Aware(d) /\ Gripped(d, C)
      /\ FloatsSent(d, C) /\ w \in Window /\ w \in d.mapped /\ w \notin d.floating
      /\ d.float[w] \in Floated
  BY DEF Laid, Settling, Fields, Framed
<1>2. /\ f \in Fields /\ f.mapped = d.mapped /\ f.floating = d.floating
      /\ f.full = d.full \ {w} /\ f.float = d.float
      /\ f.saved_floating = d.saved_floating
      /\ f.toplevels = d.toplevels /\ f.tile = d.tile
      /\ f.drawn = d.drawn /\ f.req = d.req /\ f.asked = d.asked
      /\ SameGrab(d, f) /\ SameFocus(d, f)
  BY <1>1 DEF Fields, SameGrab, SameFocus
<1>3. toggle_fullscreen(d, w) = e
  BY <1>1 DEF toggle_fullscreen, Fields
<1> HIDE DEF f
<1>4. Settling(g, E) /\ SameGrab(d, g) /\ SameFocus(d, g) /\ g.mapped = d.mapped
  <2>1. CASE w \in d.saved_floating
    <3>1. /\ o \in Fields /\ o.mapped = f.mapped /\ o.floating = f.floating \cup {w}
          /\ o.full = f.full /\ o.saved_floating = f.saved_floating /\ o.float = f.float
          /\ o.toplevels = f.toplevels /\ o.tile = f.tile
          /\ o.drawn = f.drawn /\ o.req = f.req /\ o.asked = f.asked
          /\ SameGrab(f, o) /\ SameFocus(f, o)
      BY <1>1, <1>2 DEF Fields, SameGrab, SameFocus
    <3> HIDE DEF o, e
    <3>2. /\ o.mapped = d.mapped /\ o.floating = d.floating \cup {w}
          /\ o.full = d.full \ {w} /\ o.saved_floating = d.saved_floating /\ o.float = d.float
          /\ o.toplevels = d.toplevels /\ o.tile = d.tile
          /\ o.drawn = d.drawn /\ o.req = d.req /\ o.asked = d.asked
          /\ SameGrab(d, o) /\ SameFocus(d, o)
      BY <1>2, <3>1 DEF SameGrab, SameFocus
    <3>3. Framed(o)
      BY <1>1, <2>1, <3>2 DEF Framed
    <3>4. Focused(o) /\ Aware(o)
      BY <1>1, <3>2 DEF Focused, Aware, Recalls, SameFocus
    <3>5. Gripped(o, E \cup {w})
      BY <1>1, <3>2 DEF Gripped, SameGrab
    <3>6. FloatsSent(o, E \cup {w})
      BY <1>1, <3>2 DEF FloatsSent, Sent, SameGrab
    <3>7. Settling(o, E \cup {w})
      BY <3>1, <3>3, <3>4, <3>5, <3>6 DEF Settling
    <3>8. o.grabbed = w => w \in E
      BY <3>2 DEF SameGrab
    <3>9. w \in o.floating
      BY <3>2
    <3>10. Settling(p, E) /\ SameLayout(o, p) /\ SameGrab(o, p) /\ SameFocus(o, p)
      BY <1>1, <3>7, <3>8, <3>9, PutFloatSends
    <3>11. g = p
      BY <2>1
    <3> HIDE DEF g, p
    <3> QED BY <3>2, <3>10, <3>11 DEF SameLayout, SameGrab, SameFocus
  <2>2. CASE w \notin d.saved_floating
    <3>1. g = f
      BY <2>2
    <3>2. Framed(f)
      BY <1>1, <1>2, <2>2 DEF Framed
    <3>3. Focused(f) /\ Aware(f)
      BY <1>1, <1>2 DEF Focused, Aware, Recalls, SameFocus
    <3>4. Gripped(f, E)
      BY <1>1, <1>2 DEF Gripped, SameGrab
    <3>5. FloatsSent(f, E)
      BY <1>1, <1>2 DEF FloatsSent, Sent, SameGrab
    <3>6. f \in Fields /\ SameGrab(d, f) /\ SameFocus(d, f) /\ f.mapped = d.mapped
      BY <1>2
    <3> HIDE DEF g
    <3> QED BY <3>1, <3>2, <3>3, <3>4, <3>5, <3>6 DEF Settling
  <2> QED BY <2>1, <2>2
<1> HIDE DEF g
<1>5. Laid(e, E) /\ SameLayout(g, e) /\ SameGrab(g, e) /\ SameFocus(g, e)
  BY <1>4, ArrangeSends
<1> HIDE DEF e
<1>6. SameGrab(d, e) /\ SameFocus(d, e) /\ e.mapped = d.mapped
  BY <1>4, <1>5 DEF SameGrab, SameFocus, SameLayout
<1> QED BY <1>3, <1>5, <1>6

\* Either way everything has been sent.
LEMMA ToggleFullscreenSends ==
  ASSUME Constants, NEW d, NEW C, Laid(d, C), NEW w \in d.mapped
  PROVE  LET e == toggle_fullscreen(d, w)
         IN /\ Laid(e, C \cup ({w} \cap {d.grabbed})) /\ SameGrab(d, e) /\ SameFocus(d, e)
            /\ e.mapped = d.mapped
<1>1. CASE w \in d.full
  BY <1>1, LeaveFullscreenSends
<1>2. CASE w \notin d.full
  BY <1>2, EnterFullscreenSends
<1> QED BY <1>1, <1>2

\* Into monocle and out of it.
LEMMA ToggleMonocleSends ==
  ASSUME Constants, NEW d, NEW C, Laid(d, C)
  PROVE  LET e == toggle_monocle(d)
         IN Laid(e, C) /\ SameGrab(d, e) /\ e.mapped = d.mapped
<1> DEFINE f == [d EXCEPT !.monocle = ~ @]
           a == bsp_arrange(f)
<1>1. /\ d \in Fields /\ Framed(d) /\ Focused(d) /\ Aware(d) /\ Gripped(d, C)
      /\ FloatsSent(d, C)
  BY DEF Laid, Settling
<1>2. d.monocle \in BOOLEAN
  BY <1>1 DEF Fields
<1>3. (~ d.monocle) \in BOOLEAN
  OBVIOUS
<1>4. /\ f \in Fields /\ f.mapped = d.mapped /\ f.floating = d.floating
      /\ f.full = d.full /\ f.saved_floating = d.saved_floating
      /\ f.toplevels = d.toplevels /\ f.tile = d.tile /\ f.float = d.float
      /\ f.drawn = d.drawn /\ f.req = d.req /\ f.asked = d.asked
      /\ SameGrab(d, f) /\ SameFocus(d, f)
  BY <1>1, <1>3 DEF Fields, SameGrab, SameFocus
<1>5. toggle_monocle(d) = IF f.toplevels = <<>> THEN f ELSE a
  BY DEF toggle_monocle
<1> HIDE DEF f
<1>6. Framed(f) /\ Focused(f) /\ Aware(f) /\ Gripped(f, C)
  BY <1>1, <1>4 DEF Framed, Focused, Aware, Recalls, Gripped, SameFocus, SameGrab
<1>7. FloatsSent(f, C)
  BY <1>1, <1>4 DEF FloatsSent, Sent, SameGrab
<1>8. Settling(f, C)
  BY <1>4, <1>6, <1>7 DEF Settling
<1>9. CASE f.toplevels = <<>>
  <2>1. ToSet(f.toplevels) = {}
    BY <1>9 DEF ToSet
  <2>2. Housed(f)
    BY <1>6, FramedIsHoused
  <2>3. Shown(f) = {}
    BY <2>1, <2>2 DEF Housed, Shown
  <2> QED BY <1>4, <1>5, <1>8, <1>9, <2>3 DEF Laid, TilesSent
<1>10. CASE f.toplevels # <<>>
  <2>1. Laid(a, C) /\ SameLayout(f, a) /\ SameGrab(f, a)
    BY <1>8, ArrangeSends
  <2> HIDE DEF a
  <2> QED BY <1>4, <1>5, <1>10, <2>1 DEF SameGrab, SameLayout
<1> QED BY <1>9, <1>10

\* The size that waits is sent,
LEMMA PendingIsSent ==
  ASSUME Constants, NEW d, NEW C, Laid(d, C), d.pending # None
  PROVE  LET e == [toplevel_set_size(d, d.grabbed, d.pending) EXCEPT !.pending = None]
         IN /\ Laid(e, C) /\ SameLayout(d, e) /\ SameFocus(d, e) /\ e.float = d.float
            /\ e.mode = d.mode /\ e.grabbed = d.grabbed /\ e.crossed = d.crossed
            /\ e.pending = None
<1> DEFINE w == d.grabbed
           f == toplevel_set_size(d, w, d.pending)
           e == [f EXCEPT !.pending = None]
<1>1. /\ d \in Fields /\ Framed(d) /\ Focused(d) /\ Aware(d) /\ Gripped(d, C)
      /\ FloatsSent(d, C) /\ TilesSent(d, C) /\ d.mapped \subseteq Window
  BY DEF Laid, Settling, Fields
<1>2. w \in d.mapped /\ w # None /\ d.pending \in Extent
  BY <1>1 DEF Gripped, Fields
<1>3. /\ f \in Fields /\ SameLayout(d, f) /\ SameGrab(d, f) /\ SameFocus(d, f)
      /\ f.float = d.float /\ f.drawn = d.drawn
      /\ f.req[w] = d.pending /\ f.asked[w].size = d.pending
      /\ \A v \in Window \ {w} : Untouched(d, f, v)
  <2>1. w \in Window /\ d \in Fields /\ d.pending \in Extent
    BY <1>1, <1>2
  <2> HIDE DEF w, e
  <2> QED BY <2>1, SetSize
<1> HIDE DEF f
<1>4. /\ e \in Fields /\ e.mapped = f.mapped /\ e.floating = f.floating
      /\ e.full = f.full /\ e.saved_floating = f.saved_floating
      /\ e.toplevels = f.toplevels /\ e.tile = f.tile /\ e.monocle = f.monocle
      /\ e.focused = f.focused /\ e.last = f.last /\ e.float = f.float
      /\ e.drawn = f.drawn /\ e.req = f.req /\ e.asked = f.asked
      /\ e.mode = f.mode /\ e.grabbed = f.grabbed /\ e.crossed = f.crossed
      /\ e.pending = None
  BY <1>3 DEF Fields
<1> HIDE DEF e
<1>5. /\ SameLayout(d, e) /\ SameFocus(d, e) /\ e.float = d.float /\ e.drawn = d.drawn
      /\ e.mode = d.mode /\ e.grabbed = d.grabbed /\ e.crossed = d.crossed
      /\ e.req[w] = d.pending /\ e.asked[w].size = d.pending
      /\ \A v \in Window \ {w} : Untouched(d, e, v)
  BY <1>3, <1>4 DEF SameLayout, SameFocus, SameGrab, Untouched
<1>6. Framed(e) /\ Focused(e)
  BY <1>1, <1>5, SameFrame
<1>7. Aware(e)
  <2>1. Recalls(e, w)
    BY <1>5 DEF Recalls
  <2>2. \A v \in Window \ {w} : Recalls(e, v)
    BY <1>1, <1>5 DEF Aware, Recalls, Untouched
  <2> HIDE DEF w
  <2> QED BY <1>1, <1>2, <1>5, <2>1, <2>2 DEF Aware, SameLayout, Untouched
<1>8. Gripped(e, C)
  BY <1>1, <1>4, <1>5 DEF Gripped, SameLayout
<1>9. w \notin C => w \in d.floating /\ d.pending = d.float[w].size
  BY <1>1, <1>2 DEF Gripped
<1>10. ASSUME NEW v \in Window, v # w, NEW b
       PROVE  (Sent(d, v, b) => Sent(e, v, b)) /\ (Served(d, v, b) => Served(e, v, b))
  BY <1>5, <1>10 DEF Sent, Served, Untouched, SameLayout
<1>11. w \notin C => Sent(e, w, d.float[w])
  BY <1>1, <1>5, <1>9 DEF FloatsSent, Sent
<1>12. /\ \A v \in d.floating \cup d.full : v \in Window
       /\ \A v \in Shown(d) : v \in Window /\ v \notin d.floating
       /\ d.floating \cap d.full = {}
  BY <1>1 DEF Framed, Shown, Tiled
<1>13. FloatsSent(e, C)
  <2>1. \A v \in d.floating \ C : Sent(e, v, d.float[v])
    BY <1>1, <1>10, <1>11, <1>12 DEF FloatsSent
  <2>2. \A v \in d.full \ C : Sent(e, v, Screen)
    BY <1>1, <1>9, <1>10, <1>12 DEF FloatsSent
  <2> QED BY <1>5, <2>1, <2>2 DEF FloatsSent, SameLayout
<1>14. TilesSent(e, C)
  <2>1. Shown(e) = Shown(d) /\ \A v : Given(e, v) = Given(d, v)
    BY <1>5, SameShown
  <2>2. e.full = d.full
    BY <1>5 DEF SameLayout
  <2> QED BY <1>1, <1>9, <1>10, <1>12, <2>1, <2>2 DEF TilesSent
<1> QED BY <1>4, <1>5, <1>6, <1>7, <1>8, <1>13, <1>14 DEF Laid, Settling, e, f

\* before the grab ends.
LEMMA ResetSends ==
  ASSUME Constants, NEW d, NEW C, Laid(d, C)
  PROVE  LET e == reset_cursor_mode(d)
         IN /\ Laid(e, C) /\ SameLayout(d, e) /\ SameFocus(d, e) /\ e.float = d.float
            /\ e.crossed = d.crossed /\ e.grabbed = None
<1> DEFINE s == [toplevel_set_size(d, d.grabbed, d.pending) EXCEPT !.pending = None]
           g == IF d.pending # None /\ d.grabbed # None THEN s ELSE d
           e == [g EXCEPT !.mode = "passthrough", !.grabbed = None]
<1>1. reset_cursor_mode(d) = e
  BY DEF reset_cursor_mode
<1>2. d.pending # None => d.grabbed # None
  BY DEF Laid, Settling, Gripped
<1>3. /\ Laid(g, C) /\ SameLayout(d, g) /\ SameFocus(d, g) /\ g.float = d.float
      /\ g.crossed = d.crossed /\ g.pending = None
  <2>1. CASE d.pending # None
    <3>1. /\ Laid(s, C) /\ SameLayout(d, s) /\ SameFocus(d, s) /\ s.float = d.float
          /\ s.crossed = d.crossed /\ s.pending = None
      BY <2>1, PendingIsSent
    <3>2. g = s
      BY <1>2, <2>1
    <3> HIDE DEF s, g
    <3> QED BY <3>1, <3>2
  <2>2. CASE d.pending = None
    <3>1. g = d
      BY <2>2
    <3> HIDE DEF g
    <3> QED BY <2>2, <3>1 DEF SameLayout, SameFocus
  <2> QED BY <2>1, <2>2
<1> HIDE DEF g
<1>4. /\ g \in Fields /\ Framed(g) /\ Focused(g) /\ Aware(g) /\ FloatsSent(g, C)
      /\ TilesSent(g, C)
  BY <1>3 DEF Laid, Settling
<1>5. /\ e \in Fields /\ SameLayout(g, e) /\ SameFocus(g, e) /\ e.float = g.float
      /\ e.drawn = g.drawn /\ e.req = g.req /\ e.asked = g.asked
      /\ e.mode = "passthrough" /\ e.grabbed = None /\ e.crossed = g.crossed
      /\ e.pending = None
  <2>1. /\ e \in Fields /\ e.mode = "passthrough" /\ e.grabbed = None
    BY <1>4 DEF Fields
  <2>2. /\ e.mapped = g.mapped /\ e.floating = g.floating /\ e.full = g.full
        /\ e.saved_floating = g.saved_floating /\ e.toplevels = g.toplevels
        /\ e.tile = g.tile /\ e.monocle = g.monocle
        /\ e.focused = g.focused /\ e.last = g.last /\ e.float = g.float
        /\ e.drawn = g.drawn /\ e.req = g.req /\ e.asked = g.asked
        /\ e.crossed = g.crossed /\ e.pending = g.pending
    BY <1>4 DEF Fields
  <2> HIDE DEF e
  <2> QED BY <1>3, <2>1, <2>2 DEF SameLayout, SameFocus
<1> HIDE DEF e
<1>6. Framed(e) /\ Focused(e)
  BY <1>4, <1>5, SameFrame
<1>7. Aware(e)
  BY <1>4, <1>5 DEF Aware, Recalls, SameLayout
<1>8. Gripped(e, C)
  BY <1>5 DEF Gripped
<1>9. /\ \A w \in d.floating : d.float[w].size # None
      /\ \A w \in Shown(d) : Given(d, w).size # None
      /\ Screen.size # None
  <2>1. d \in Fields /\ Framed(d)
    BY DEF Laid, Settling
  <2>2. \A w \in d.floating : d.float[w] \in Floated
    BY <2>1 DEF Fields
  <2>3. \A w \in Shown(d) : Given(d, w) \in Box
    BY <2>1 DEF Shown, Tiled, Given, Framed, Box
  <2>4. Screen \in Box
    BY DEF Box
  <2> QED BY <2>2, <2>3, <2>4, FloatedParts, BoxParts, NoneIsNoExtent
<1>10. \A w, b : b.size # None /\ Sent(g, w, b) => Sent(e, w, b)
  BY <1>3, <1>5 DEF Sent
<1>11. FloatsSent(e, C)
  BY <1>3, <1>4, <1>5, <1>9, <1>10 DEF FloatsSent, SameLayout
<1>12. TilesSent(e, C)
  <2>1. /\ Shown(e) = Shown(g) /\ \A v : Given(e, v) = Given(g, v)
        /\ Shown(g) = Shown(d) /\ \A v : Given(g, v) = Given(d, v)
    BY <1>3, <1>5, SameShown
  <2>2. e.full = g.full /\ e.monocle = g.monocle /\ e.req = g.req
    BY <1>5 DEF SameLayout
  <2> QED BY <1>4, <1>9, <1>10, <2>1, <2>2 DEF TilesSent, Served
<1>13. /\ SameLayout(d, e) /\ SameFocus(d, e) /\ e.float = d.float
       /\ e.crossed = d.crossed /\ e.grabbed = None
  BY <1>3, <1>5 DEF SameLayout, SameFocus
<1> QED BY <1>1, <1>5, <1>6, <1>7, <1>8, <1>11, <1>12, <1>13 DEF Laid, Settling

\* Windows are excused by crossing them.
LEMMA CrossingSends ==
  ASSUME NEW d, NEW C, Laid(d, C), NEW S \in SUBSET Window
  PROVE  LET e == Crosses(d, S)
         IN /\ Laid(e, C) /\ SameLayout(d, e) /\ SameFocus(d, e) /\ e.float = d.float
            /\ e.mode = d.mode /\ e.grabbed = d.grabbed /\ e.pending = d.pending
            /\ e.crossed = d.crossed \cup S
<1> DEFINE e == Crosses(d, S)
<1>1. /\ d \in Fields /\ Framed(d) /\ Focused(d) /\ Aware(d) /\ Gripped(d, C)
      /\ FloatsSent(d, C) /\ TilesSent(d, C)
  BY DEF Laid, Settling
<1>2. /\ e \in Fields /\ SameLayout(d, e) /\ SameFocus(d, e) /\ e.float = d.float
      /\ e.drawn = d.drawn /\ e.req = d.req /\ e.asked = d.asked
      /\ e.mode = d.mode /\ e.grabbed = d.grabbed /\ e.pending = d.pending
      /\ e.crossed = d.crossed \cup S
  BY <1>1 DEF Crosses, Fields, SameLayout, SameFocus
<1> HIDE DEF e
<1>3. Framed(e) /\ Focused(e)
  BY <1>1, <1>2, SameFrame
<1>4. Aware(e) /\ Gripped(e, C)
  BY <1>1, <1>2 DEF Aware, Recalls, SameLayout, Gripped
<1>5. FloatsSent(e, C)
  BY <1>1, <1>2 DEF FloatsSent, Sent, SameLayout
<1>6. TilesSent(e, C)
  <2>1. Shown(e) = Shown(d) /\ \A v : Given(e, v) = Given(d, v)
    BY <1>2, SameShown
  <2> QED BY <1>1, <1>2, <2>1 DEF TilesSent, Served, Sent, SameLayout
<1> QED BY <1>2, <1>3, <1>4, <1>5, <1>6 DEF Laid, Settling, e

Hold(d, w, mode) == [d EXCEPT !.grabbed = w, !.mode = mode]

\* A grab begins: of a floating window or an excused one, and so are the two
\* windows if another one's size is waiting.
LEMMA GrabSends ==
  ASSUME Constants, NEW d, NEW C, Laid(d, C), NEW w \in d.mapped, w \in d.floating \cup C,
         NEW mode \in {"move", "resize"},
         d.pending # None /\ d.grabbed # w => {w, d.grabbed} \subseteq C
  PROVE  Laid(Hold(d, w, mode), C) /\ Hold(d, w, mode).crossed = d.crossed
<1> DEFINE e == Hold(d, w, mode)
<1>1. /\ d \in Fields /\ Framed(d) /\ Focused(d) /\ Aware(d) /\ Gripped(d, C)
      /\ FloatsSent(d, C) /\ TilesSent(d, C) /\ w \in Window /\ w # None
  BY DEF Laid, Settling, Fields, Constants
<1>2. /\ e \in Fields /\ SameLayout(d, e) /\ SameFocus(d, e) /\ e.float = d.float
      /\ e.drawn = d.drawn /\ e.req = d.req /\ e.asked = d.asked
      /\ e.mode = mode /\ e.grabbed = w /\ e.pending = d.pending /\ e.crossed = d.crossed
  BY <1>1 DEF Hold, Fields, SameLayout, SameFocus
<1> HIDE DEF e
<1>3. Framed(e) /\ Focused(e)
  BY <1>1, <1>2, SameFrame
<1>4. Aware(e)
  BY <1>1, <1>2 DEF Aware, Recalls, SameLayout
<1>5. Gripped(e, C)
  BY <1>1, <1>2 DEF Gripped, SameLayout
<1>6. ASSUME NEW v \in Window \ C, NEW b, b.size # None, Sent(d, v, b)
      PROVE  Sent(e, v, b)
  BY <1>1, <1>2, <1>6 DEF Sent
<1>7. /\ \A v \in d.floating \cup d.full : v \in Window
      /\ \A v \in Shown(d) : v \in Window
      /\ \A v \in d.floating : d.float[v].size # None
      /\ \A v \in Shown(d) : Given(d, v).size # None
      /\ Screen.size # None
  <2>1. \A v \in d.floating : d.float[v] \in Floated
    BY <1>1 DEF Fields
  <2>2. \A v \in Shown(d) : Given(d, v) \in Box
    BY <1>1 DEF Shown, Tiled, Given, Framed, Box
  <2>3. Screen \in Box
    BY DEF Box
  <2>4. /\ \A v \in d.floating \cup d.full : v \in Window
        /\ \A v \in Shown(d) : v \in Window
    BY <1>1 DEF Fields, Shown, Tiled
  <2> QED BY <2>1, <2>2, <2>3, <2>4, FloatedParts, BoxParts, NoneIsNoExtent
<1>8. FloatsSent(e, C)
  BY <1>1, <1>2, <1>6, <1>7 DEF FloatsSent, SameLayout
<1>9. TilesSent(e, C)
  <2>1. Shown(e) = Shown(d) /\ \A v : Given(e, v) = Given(d, v)
    BY <1>2, SameShown
  <2> QED BY <1>1, <1>2, <1>6, <1>7, <2>1 DEF TilesSent, Served, SameLayout
<1> QED BY <1>2, <1>3, <1>4, <1>5, <1>8, <1>9 DEF Laid, Settling, e

\* What has not been crossed is as it should be.
Settled(d) == Laid(d, d.crossed)

\* A toggle during the window's own grab.
LEMMA ToggledSends ==
  ASSUME Constants, NEW e, NEW w \in Window, Laid(e, e.crossed \cup ({w} \cap {ws.grabbed}))
  PROVE  /\ Settled(Toggled(w, e)) /\ SameLayout(e, Toggled(w, e))
         /\ SameFocus(e, Toggled(w, e)) /\ Toggled(w, e).float = e.float
         /\ Toggled(w, e).mode = e.mode /\ Toggled(w, e).grabbed = e.grabbed
         /\ Toggled(w, e).pending = e.pending
<1> DEFINE f == Crosses(e, {w})
<1>1. CASE ws.grabbed = w
  <2>1. {w} \in SUBSET Window
    OBVIOUS
  <2>2. /\ Laid(f, e.crossed \cup ({w} \cap {ws.grabbed})) /\ SameLayout(e, f)
        /\ SameFocus(e, f) /\ f.float = e.float
        /\ f.mode = e.mode /\ f.grabbed = e.grabbed /\ f.pending = e.pending
        /\ f.crossed = e.crossed \cup {w}
    BY <2>1, CrossingSends
  <2>3. Toggled(w, e) = f
    BY <1>1 DEF Toggled
  <2> HIDE DEF f
  <2>4. e.crossed \cup ({w} \cap {ws.grabbed}) = f.crossed
    BY <1>1, <2>2
  <2> QED BY <2>2, <2>3, <2>4 DEF Settled
<1>2. CASE ws.grabbed # w
  <2>1. Toggled(w, e) = e
    BY <1>2 DEF Toggled
  <2>2. e.crossed \cup ({w} \cap {ws.grabbed}) = e.crossed
    BY <1>2
  <2> QED BY <2>1, <2>2 DEF Settled, SameLayout, SameFocus
<1> QED BY <1>1, <1>2

\* A drag that begins leaves the rest as it should be.
LEMMA BeginInteractiveSends ==
  ASSUME Constants, NEW d, Settled(d), NEW w \in d.mapped,
         NEW mode \in {"move", "resize"}, NEW t \in Tilings
  PROVE  Settled(begin_interactive(d, w, mode, t))
<1> DEFINE h == IF w \in d.floating THEN d ELSE toggle_floating(d, w, t)
           S == (IF d.pending # None /\ d.grabbed # w THEN {w, d.grabbed} ELSE {})
                  \cup ({w} \cap d.full)
           x == Crosses(h, S)
           e == Hold(x, w, mode)
<1>1. /\ d \in Fields /\ Gripped(d, d.crossed) /\ w \in Window /\ Framed(d)
      /\ Laid(d, d.crossed) /\ d.mapped \subseteq Window
  BY DEF Settled, Laid, Settling, Fields
<1>2. CASE w \in d.floating \/ mode = "move"
  <2>1. begin_interactive(d, w, mode, t) = e
    BY <1>2 DEF begin_interactive, Hold
  <2>2. S \in SUBSET Window /\ (w \in d.full => w \in S)
        /\ (d.pending # None /\ d.grabbed # w => {w, d.grabbed} \subseteq S)
    BY <1>1 DEF Gripped
  <2> HIDE DEF S
  <2>3. /\ Laid(h, d.crossed \cup S) /\ SameGrab(d, h) /\ h.mapped = d.mapped
        /\ w \in h.floating \cup d.full \cup d.crossed
    <3>1. CASE w \in d.floating
      <4>1. h = d
        BY <3>1
      <4> HIDE DEF h
      <4>2. Laid(d, d.crossed \cup S)
        BY <1>1, MoreExcused
      <4> QED BY <3>1, <4>1, <4>2 DEF SameGrab
    <3>2. CASE w \notin d.floating /\ w \in d.full
      <4>1. h = d
        BY <3>2 DEF toggle_floating
      <4> HIDE DEF h
      <4>2. Laid(d, d.crossed \cup S)
        BY <1>1, MoreExcused
      <4> QED BY <3>2, <4>1, <4>2 DEF SameGrab
    <3>3. CASE w \notin d.floating /\ w \notin d.full
      <4> DEFINE g == toggle_floating(d, w, t)
      <4>1. h = g
        BY <3>3
      <4> HIDE DEF h
      <4>2. /\ Laid(h, d.crossed \cup ({w} \cap {d.grabbed})) /\ SameGrab(d, h)
            /\ h.mapped = d.mapped /\ h.floating = d.floating \cup {w}
            /\ d.grabbed = w /\ w \notin d.crossed => w \in d.floating
        <5>1. w \in d.mapped \ d.full
          BY <3>3
        <5>2. CrossesOver(d, g, w, d.crossed)
          BY <1>1, <5>1, ToggleFloatingSends
        <5> HIDE DEF g
        <5> QED BY <3>3, <4>1, <5>2 DEF CrossesOver
      <4>3. d.crossed \cup ({w} \cap {d.grabbed}) \subseteq d.crossed \cup S
        BY <3>3, <4>2
      <4>4. Laid(h, d.crossed \cup S)
        BY <4>2, <4>3, MoreExcused
      <4> QED BY <4>2, <4>4
    <3> QED BY <3>1, <3>2, <3>3
  <2> HIDE DEF h
  <2>4. /\ Laid(x, d.crossed \cup S) /\ SameLayout(h, x) /\ x.grabbed = h.grabbed
        /\ x.pending = h.pending /\ x.crossed = h.crossed \cup S
    BY <2>2, <2>3, CrossingSends
  <2> HIDE DEF x
  <2>5. /\ w \in x.mapped /\ w \in x.floating \cup (d.crossed \cup S)
        /\ x.pending # None /\ x.grabbed # w => {w, x.grabbed} \subseteq d.crossed \cup S
        /\ x.crossed = d.crossed \cup S
    BY <2>2, <2>3, <2>4 DEF SameLayout, SameGrab
  <2>6. Laid(e, d.crossed \cup S) /\ e.crossed = x.crossed
    <3> DEFINE E == d.crossed \cup S
    <3>1. Laid(x, E) /\ w \in x.floating \cup E
      BY <2>4, <2>5
    <3>2. w \in x.mapped /\ (x.pending # None /\ x.grabbed # w => {w, x.grabbed} \subseteq E)
      BY <2>5
    <3> HIDE DEF E
    <3>3. Laid(e, E) /\ e.crossed = x.crossed
      BY <3>1, <3>2, GrabSends
    <3> QED BY <3>3 DEF E
  <2> HIDE DEF e
  <2> QED BY <2>1, <2>5, <2>6 DEF Settled
<1>3. CASE ~ (w \in d.floating \/ mode = "move")
  BY <1>3 DEF begin_interactive
<1> QED BY <1>2, <1>3

----------------------------------------------------------------------------
(* The handlers. *)

\* The box of a drag, and that of a new window, are boxes of floating windows.
LEMMA DragIsFloated ==
  ASSUME Constants, NEW b \in FloatBox \cup {Default}
  PROVE  b \in Floated
<1>1. b \in Box
  BY DEF Box
<1>2. b = [at |-> b.at, size |-> b.size]
  BY <1>1 DEF Constants
<1> QED BY <1>2 DEF Floated

\* A new tile: the leaf is there before bsp_arrange looks.
LEMMA MapTiledSettles ==
  ASSUME Constants, Settled(ws), NEW w \in Window, NEW t \in Tilings, MapTiled(w, t)
  PROVE  Settled(ws')
<1> DEFINE f == [ws EXCEPT !.mapped = @ \cup {w}]
           g == Grown(f, w, t)
           a == bsp_arrange(g)
           e == focus_toplevel(a, w)
           C == ws.crossed
<1>1. /\ ws \in Fields /\ Framed(ws) /\ Focused(ws) /\ Aware(ws) /\ Gripped(ws, C)
      /\ FloatsSent(ws, C)
  BY DEF Settled, Laid, Settling
<1>2. w \notin ws.mapped /\ ws' = IF a.full = {} THEN e ELSE a
  BY DEF MapTiled, Do
<1> HIDE DEF C
<1>3. /\ f \in Fields /\ f.mapped = ws.mapped \cup {w} /\ f.floating = ws.floating
      /\ f.full = ws.full /\ f.saved_floating = ws.saved_floating
      /\ f.toplevels = ws.toplevels /\ f.tile = ws.tile /\ f.float = ws.float
      /\ f.drawn = ws.drawn /\ f.req = ws.req /\ f.asked = ws.asked
      /\ SameGrab(ws, f) /\ SameFocus(ws, f)
  BY <1>1 DEF Fields, SameGrab, SameFocus
<1> HIDE DEF f
<1>4. w \in Window \ ToSet(f.toplevels) /\ w \notin ws.floating /\ w \notin ws.full
      /\ IsInjective(f.toplevels)
  BY <1>1, <1>2, <1>3 DEF Framed
<1>5. /\ g = [f EXCEPT !.toplevels = g.toplevels, !.tile = g.tile]
      /\ g \in Fields /\ IsInjective(g.toplevels)
      /\ ToSet(g.toplevels) = ToSet(f.toplevels) \cup {w}
      /\ DOMAIN g.tile = ToSet(g.toplevels) /\ \A v \in DOMAIN g.tile : g.tile[v] \in Box
  <2>1. Grew(f, g, w)
    BY <1>3, <1>4, GrownIs
  <2> HIDE DEF g
  <2> QED BY <2>1 DEF Grew
<1> HIDE DEF g
<1>6. /\ g.mapped = f.mapped /\ g.floating = f.floating
      /\ g.full = f.full /\ g.saved_floating = f.saved_floating /\ g.float = f.float
      /\ g.drawn = f.drawn /\ g.req = f.req /\ g.asked = f.asked
      /\ SameGrab(f, g) /\ SameFocus(f, g)
  BY <1>3, <1>5 DEF Fields, SameGrab, SameFocus
<1>7. /\ g.mapped = ws.mapped \cup {w} /\ g.floating = ws.floating
      /\ g.full = ws.full /\ g.saved_floating = ws.saved_floating /\ g.float = ws.float
      /\ g.drawn = ws.drawn /\ g.req = ws.req /\ g.asked = ws.asked
      /\ SameGrab(ws, g) /\ SameFocus(ws, g)
  BY <1>3, <1>6 DEF SameGrab, SameFocus
<1>8. Framed(g)
  BY <1>1, <1>3, <1>4, <1>5, <1>7 DEF Framed
<1>9. Focused(g) /\ Aware(g)
  BY <1>1, <1>7 DEF Focused, Aware, Recalls, SameFocus
<1>10. Gripped(g, C)
  BY <1>1, <1>7 DEF Gripped, SameGrab
<1>11. FloatsSent(g, C)
  BY <1>1, <1>7 DEF FloatsSent, Sent, SameGrab
<1>12. Settling(g, C)
  BY <1>5, <1>8, <1>9, <1>10, <1>11 DEF Settling
<1>13. Laid(a, C) /\ SameLayout(g, a) /\ SameGrab(g, a)
  BY <1>12, ArrangeSends
<1> HIDE DEF a
<1>14. w \in a.mapped
  BY <1>7, <1>13 DEF SameLayout
<1>15. Laid(e, C) /\ SameGrab(a, e)
  BY <1>13, <1>14, FocusSends
<1> HIDE DEF e
<1>16. a.crossed = C /\ e.crossed = C
  BY <1>7, <1>13, <1>15 DEF SameGrab, C
<1> QED BY <1>2, <1>13, <1>15, <1>16 DEF Settled

\* A window that is mapped to float.
LEMMA NewFloat ==
  ASSUME Constants, Settled(ws), NEW w \in Window \ ws.mapped
  PROVE  LET f == [ws EXCEPT !.mapped = @ \cup {w}, !.floating = @ \cup {w}]
         IN /\ Settling(f, ws.crossed \cup {w}) /\ TilesSent(f, ws.crossed \cup {w})
            /\ f.grabbed # w /\ f.mapped = ws.mapped \cup {w} /\ w \in f.floating
            /\ f.float[w] = Default /\ f.req[w] = None
            /\ f.crossed = ws.crossed
<1> DEFINE f == [ws EXCEPT !.mapped = @ \cup {w}, !.floating = @ \cup {w}]
           C == ws.crossed
<1>1. /\ ws \in Fields /\ Framed(ws) /\ Focused(ws) /\ Aware(ws) /\ Gripped(ws, C)
      /\ FloatsSent(ws, C) /\ TilesSent(ws, C)
  BY DEF Settled, Laid, Settling
<1> HIDE DEF C
<1>2. /\ f \in Fields /\ f.mapped = ws.mapped \cup {w} /\ f.floating = ws.floating \cup {w}
      /\ f.full = ws.full /\ f.saved_floating = ws.saved_floating
      /\ f.toplevels = ws.toplevels /\ f.tile = ws.tile /\ f.monocle = ws.monocle
      /\ f.float = ws.float
      /\ f.drawn = ws.drawn /\ f.req = ws.req /\ f.asked = ws.asked
      /\ SameGrab(ws, f) /\ SameFocus(ws, f)
  BY <1>1 DEF Fields, SameGrab, SameFocus
<1> HIDE DEF f
<1>3. Framed(f)
  BY <1>1, <1>2 DEF Framed
<1>4. Focused(f) /\ Aware(f)
  BY <1>1, <1>2 DEF Focused, Aware, Recalls, SameFocus
<1>5. Gripped(f, C \cup {w})
  BY <1>1, <1>2 DEF Gripped, SameGrab
<1>6. FloatsSent(f, C \cup {w})
  BY <1>1, <1>2 DEF FloatsSent, Sent, SameGrab
<1>7. TilesSent(f, C \cup {w})
  <2>1. Tiled(f) = Tiled(ws)
    BY <1>1, <1>2 DEF Tiled, Framed
  <2>2. Shown(f) = Shown(ws) /\ \A v : Given(f, v) = Given(ws, v)
    BY <1>2, <2>1 DEF Shown, Given, ActiveTiled, SameFocus
  <2> QED BY <1>1, <1>2, <2>2 DEF TilesSent, Served, Sent, SameGrab
<1>8. f.grabbed # w
  <2>1. w # None
    BY DEF Constants
  <2> QED BY <1>1, <1>2, <2>1 DEF Gripped, SameGrab
<1>9. f.float[w] = Default /\ f.req[w] = None
  BY <1>1, <1>2 DEF Aware
<1>10. w \in f.floating /\ f.crossed = ws.crossed
  BY <1>2 DEF SameGrab
<1> QED BY <1>2, <1>3, <1>4, <1>5, <1>6, <1>7, <1>8, <1>9, <1>10 DEF Settling, f, C

\* A new window that a rule floats is put and asked for its size.
LEMMA MapByRuleSettles ==
  ASSUME Constants, Settled(ws), NEW w \in Window, MapByRule(w)
  PROVE  Settled(ws')
<1> DEFINE f == [ws EXCEPT !.mapped = @ \cup {w}, !.floating = @ \cup {w}]
           p == PutFloat(f, w, Default)
           e == focus_toplevel(p, w)
           C == ws.crossed
<1>1. w \in Window \ ws.mapped /\ ws' = e
  BY DEF MapByRule, Do
<1>2. /\ Settling(f, C \cup {w}) /\ TilesSent(f, C \cup {w})
      /\ f.grabbed # w /\ f.mapped = ws.mapped \cup {w} /\ w \in f.floating /\ f.crossed = C
  BY <1>1, NewFloat
<1> HIDE DEF f
<1>3. Default \in Floated
  BY DragIsFloated
<1>4. Settling(p, C) /\ TilesSent(p, C) /\ SameLayout(f, p) /\ SameGrab(f, p)
  <2>1. f.grabbed = w => w \in C \/ f.pending = None
    BY <1>2
  <2> HIDE DEF p, C
  <2> QED BY <1>2, <1>3, <2>1, PutFloatSends DEF p
<1> HIDE DEF p
<1>5. w \in p.mapped /\ Laid(p, C)
  BY <1>2, <1>4 DEF SameLayout, Laid
<1>6. Laid(e, C) /\ SameGrab(p, e)
  BY <1>5, FocusSends
<1> HIDE DEF e
<1>7. e.crossed = C
  BY <1>2, <1>4, <1>6 DEF SameGrab
<1> QED BY <1>1, <1>6, <1>7 DEF Settled

\* A configure past the cached request.
LEMMA ConfigureIs ==
  ASSUME Constants, NEW d \in Fields, NEW w \in Window, NEW b \in Box
  PROVE  LET e == Configure(d, w, b)
         IN /\ e \in Fields /\ SameLayout(d, e) /\ SameGrab(d, e) /\ SameFocus(d, e)
            /\ e.float = d.float /\ e.drawn = d.drawn /\ e.req = d.req
            /\ e.asked[w].size = b.size
            /\ \A v \in Window \ {w} : Untouched(d, e, v)
<1> DEFINE a == Asked(w, b)
           e == [d EXCEPT !.asked[w] = a]
<1>1. a \in [at : Spot, size : Extent \cup {None}] /\ a.size = b.size
  BY BoxParts, AskedIs
<1>2. Configure(d, w, b) = e
  BY DEF Configure
<1> HIDE DEF a
<1>3. /\ e.asked = [d.asked EXCEPT ![w] = a] /\ e.req = d.req
      /\ SameLayout(d, e) /\ SameGrab(d, e) /\ SameFocus(d, e)
      /\ e.float = d.float /\ e.drawn = d.drawn
      /\ d.asked \in [Window -> [at : Spot, size : Extent \cup {None}]]
  BY DEF Fields, SameLayout, SameGrab, SameFocus
<1>4. e \in Fields
  BY <1>1 DEF Fields
<1> HIDE DEF e
<1>5. e.asked[w] = a /\ \A v \in Window \ {w} : Untouched(d, e, v)
  BY <1>3 DEF Untouched
<1> QED BY <1>1, <1>2, <1>3, <1>4, <1>5

\* A dialog is asked past the cache, which is empty for a new window.
LEMMA MapFloatingSettles ==
  ASSUME Constants, Settled(ws), NEW w \in Window, MapFloating(w)
  PROVE  Settled(ws')
<1> DEFINE f == [ws EXCEPT !.mapped = @ \cup {w}, !.floating = @ \cup {w}]
           p == Place(f, w, Default.at)
           q == Configure(p, w, Default)
           e == focus_toplevel(q, w)
           C == ws.crossed
<1>1. w \in Window \ ws.mapped /\ ws' = e
  BY DEF MapFloating, Do
<1>2. /\ Settling(f, C \cup {w}) /\ TilesSent(f, C \cup {w})
      /\ f.grabbed # w /\ f.mapped = ws.mapped \cup {w} /\ w \in f.floating
      /\ f.float[w] = Default /\ f.req[w] = None /\ f.crossed = C
  BY <1>1, NewFloat
<1> HIDE DEF f, C
<1>3. Default \in Floated /\ Default \in Box /\ Default.at \in Spot /\ f \in Fields
  BY <1>2, DragIsFloated, BoxParts DEF Box, Settling
<1>4. /\ p \in Fields /\ SameLayout(f, p) /\ SameGrab(f, p) /\ SameFocus(f, p)
      /\ p.float = f.float /\ p.req = f.req /\ p.asked = f.asked
      /\ p.drawn[w] = Default.at /\ \A v \in Window \ {w} : p.drawn[v] = f.drawn[v]
  <2> HIDE DEF q, e
  <2> QED BY <1>3, PlaceIs
<1> HIDE DEF p
<1>5. /\ q \in Fields /\ SameLayout(p, q) /\ SameGrab(p, q) /\ SameFocus(p, q)
      /\ q.float = p.float /\ q.drawn = p.drawn /\ q.req = p.req
      /\ q.asked[w].size = Default.size
      /\ \A v \in Window \ {w} : Untouched(p, q, v)
  <2> HIDE DEF e
  <2> QED BY <1>3, <1>4, ConfigureIs
<1> HIDE DEF q
<1>6. /\ SameLayout(f, q) /\ SameGrab(f, q) /\ SameFocus(f, q)
      /\ q.float[w] = Default /\ (\A v \in Window \ {w} : q.float[v] = f.float[v])
      /\ q.drawn[w] = Default.at /\ Recalls(q, w)
      /\ \A v \in Window \ {w} : Untouched(f, q, v)
  BY <1>2, <1>4, <1>5 DEF SameLayout, SameGrab, SameFocus, Recalls, Untouched
<1>7. Settling(q, C) /\ TilesSent(q, C)
  <2>1. f.grabbed = w => w \in C \/ f.pending = None
    BY <1>2
  <2>2. Settling(q, C) /\ (TilesSent(f, C \cup {w}) => TilesSent(q, C))
    BY <1>2, <1>3, <1>5, <1>6, <2>1, FloatIsSent
  <2> QED BY <1>2, <2>2
<1>8. w \in q.mapped /\ Laid(q, C)
  BY <1>2, <1>6, <1>7 DEF SameLayout, Laid
<1>9. Laid(e, C) /\ SameGrab(q, e)
  BY <1>8, FocusSends
<1> HIDE DEF e
<1>10. e.crossed = C
  BY <1>2, <1>6, <1>9 DEF SameGrab
<1> QED BY <1>1, <1>9, <1>10 DEF Settled

\* Another window is focused.
LEMMA FocusSettles ==
  ASSUME Constants, Settled(ws), NEW w \in Window, Focus(w)
  PROVE  Settled(ws')
<1> DEFINE e == focus_toplevel(ws, w)
<1>1. w \in ws.mapped /\ ws' = e
  BY DEF Focus, Do
<1>2. Laid(e, ws.crossed) /\ SameGrab(ws, e)
  BY <1>1, FocusSends DEF Settled
<1> HIDE DEF e
<1> QED BY <1>1, <1>2 DEF Settled, SameGrab

\* A window is floated or put back into its tile.
LEMMA ToggleFloatingSettles ==
  ASSUME Constants, Settled(ws), NEW w \in Window, NEW t \in Tilings, ToggleFloating(w, t)
  PROVE  Settled(ws')
<1> DEFINE e == toggle_floating(ws, w, t)
<1>1. w \in ws.mapped \ ws.full /\ ws' = Toggled(w, e)
  BY DEF ToggleFloating, Do
<1>2. Laid(e, ws.crossed \cup ({w} \cap {ws.grabbed})) /\ SameGrab(ws, e)
  <2>1. CrossesOver(ws, e, w, ws.crossed)
    BY <1>1, ToggleFloatingSends DEF Settled
  <2> HIDE DEF e
  <2> QED BY <2>1 DEF CrossesOver
<1> HIDE DEF e
<1> QED BY <1>1, <1>2, ToggledSends DEF SameGrab

\* A window goes fullscreen or leaves it.
LEMMA ToggleFullscreenSettles ==
  ASSUME Constants, Settled(ws), NEW w \in Window, ToggleFullscreen(w)
  PROVE  Settled(ws')
<1> DEFINE e == toggle_fullscreen(ws, w)
<1>1. w \in ws.mapped /\ ws' = Toggled(w, e)
  BY DEF ToggleFullscreen, Do
<1>2. Laid(e, ws.crossed \cup ({w} \cap {ws.grabbed})) /\ SameGrab(ws, e)
  BY <1>1, ToggleFullscreenSends DEF Settled
<1> HIDE DEF e
<1> QED BY <1>1, <1>2, ToggledSends DEF SameGrab

\* The tiles are stacked or laid out again.
LEMMA ToggleMonocleSettles ==
  ASSUME Constants, Settled(ws), ToggleMonocle
  PROVE  Settled(ws')
<1> DEFINE e == toggle_monocle(ws)
<1>1. ws' = e
  BY DEF ToggleMonocle, Do
<1>2. Laid(e, ws.crossed) /\ SameGrab(ws, e)
  BY ToggleMonocleSends DEF Settled
<1> HIDE DEF e
<1> QED BY <1>1, <1>2 DEF Settled, SameGrab

\* The focused window goes back into its tile, by up to three toggles in a row.
LEMMA SetBspModeSettles ==
  ASSUME Constants, Settled(ws), NEW t \in Tilings, SetBspMode(t)
  PROVE  Settled(ws')
<1> DEFINE w == ws.focused
           a == toggle_fullscreen(ws, w)
           d == IF w \in ws.full THEN Toggled(w, a) ELSE ws
           b == toggle_floating(d, w, t)
           e == IF w \in d.floating THEN Toggled(w, b) ELSE d
           m == toggle_monocle(e)
<1>1. w # None /\ ws' = IF e.monocle THEN m ELSE e
  BY DEF SetBspMode, Do
<1>2. w \in ws.mapped /\ w \in Window /\ ws.mapped \subseteq Window
  BY <1>1 DEF Settled, Laid, Settling, Focused, Fields
<1> HIDE DEF w
<1>3. Settled(d) /\ d.grabbed = ws.grabbed /\ d.mapped = ws.mapped
  <2>1. CASE w \in ws.full
    <3>1. /\ Laid(a, ws.crossed \cup ({w} \cap {ws.grabbed})) /\ SameGrab(ws, a)
          /\ a.mapped = ws.mapped
      BY <1>2, ToggleFullscreenSends DEF Settled
    <3> HIDE DEF a
    <3>2. Laid(a, a.crossed \cup ({w} \cap {ws.grabbed}))
      BY <3>1 DEF SameGrab
    <3>3. Settled(Toggled(w, a)) /\ SameLayout(a, Toggled(w, a)) /\ Toggled(w, a).grabbed = a.grabbed
      BY <1>2, <3>2, ToggledSends
    <3>4. d = Toggled(w, a)
      BY <2>1
    <3> HIDE DEF d
    <3> QED BY <3>1, <3>3, <3>4 DEF SameLayout, SameGrab
  <2>2. CASE w \notin ws.full
    BY <2>2
  <2> QED BY <2>1, <2>2
<1> HIDE DEF d
<1>4. Settled(e)
  <2>1. CASE w \in d.floating
    <3>1. w \in d.mapped \ d.full
      BY <1>2, <1>3, <2>1 DEF Settled, Laid, Settling, Framed
    <3>2. Laid(b, d.crossed \cup ({w} \cap {d.grabbed})) /\ SameGrab(d, b)
      <4>1. CrossesOver(d, b, w, d.crossed)
        BY <1>3, <3>1, ToggleFloatingSends DEF Settled
      <4> HIDE DEF b
      <4> QED BY <4>1 DEF CrossesOver
    <3> HIDE DEF b
    <3>3. Laid(b, b.crossed \cup ({w} \cap {ws.grabbed}))
      BY <1>3, <3>2 DEF SameGrab
    <3>4. Settled(Toggled(w, b))
      BY <1>2, <3>3, ToggledSends
    <3> QED BY <2>1, <3>4
  <2>2. CASE w \notin d.floating
    BY <1>3, <2>2
  <2> QED BY <2>1, <2>2
<1> HIDE DEF e
<1>5. Laid(m, e.crossed) /\ SameGrab(e, m)
  BY <1>4, ToggleMonocleSends DEF Settled
<1> HIDE DEF m
<1>6. Settled(m)
  BY <1>5 DEF Settled, SameGrab
<1> QED BY <1>1, <1>4, <1>6

\* The same tiles get other boxes.
LEMMA RearrangeSettles ==
  ASSUME Constants, Settled(ws), NEW t \in Tilings, Rearrange(t)
  PROVE  Settled(ws')
<1> DEFINE tile == Boxes(ws.toplevels, t)
           d == [ws EXCEPT !.toplevels = ws.toplevels, !.tile = tile]
           e == bsp_arrange(d)
<1>1. /\ ws \in Fields /\ Framed(ws) /\ Focused(ws) /\ Aware(ws)
      /\ Gripped(ws, ws.crossed) /\ FloatsSent(ws, ws.crossed)
  BY DEF Settled, Laid, Settling
<1>2. ws' = e
  BY DEF Rearrange, Do, Planted
<1>3. /\ DOMAIN tile = ToSet(ws.toplevels) /\ ToSet(ws.toplevels) \in SUBSET Window
      /\ \A v \in ToSet(ws.toplevels) : tile[v] \in Box
  <2>1. ToSet(ws.toplevels) \subseteq Window
    BY <1>1, MembersIn DEF Fields
  <2>2. t \in [Window -> Split]
    BY DEF Tilings
  <2> QED BY <2>1, <2>2 DEF Boxes, Box
<1>4. tile \in UNION {[S -> Box] : S \in SUBSET Window}
  <2>1. tile \in [ToSet(ws.toplevels) -> Box]
    BY <1>3 DEF Boxes
  <2> HIDE DEF tile
  <2> QED BY <1>3, <2>1
<1> HIDE DEF tile
<1>5. /\ d \in Fields /\ d.mapped = ws.mapped /\ d.floating = ws.floating
      /\ d.full = ws.full /\ d.saved_floating = ws.saved_floating
      /\ d.toplevels = ws.toplevels /\ d.tile = tile /\ d.float = ws.float
      /\ d.drawn = ws.drawn /\ d.req = ws.req /\ d.asked = ws.asked
      /\ SameGrab(ws, d) /\ SameFocus(ws, d)
  BY <1>1, <1>4 DEF Fields, SameGrab, SameFocus
<1> HIDE DEF d
<1>6. Framed(d) /\ Focused(d) /\ Aware(d) /\ Gripped(d, ws.crossed)
  BY <1>1, <1>3, <1>5
     DEF Framed, Focused, Aware, Recalls, Gripped, SameFocus, SameGrab
<1>7. FloatsSent(d, ws.crossed)
  BY <1>1, <1>5 DEF FloatsSent, Sent, SameGrab
<1>8. Settling(d, ws.crossed)
  BY <1>5, <1>6, <1>7 DEF Settling
<1>9. Laid(e, ws.crossed) /\ SameGrab(d, e)
  BY <1>8, ArrangeSends
<1> HIDE DEF e
<1> QED BY <1>2, <1>5, <1>9 DEF Settled, SameGrab

\* A resize during a grab excuses the window whose size it overtakes.
LEMMA OvertakenSettles ==
  ASSUME NEW w \in Window, NEW e, SameGrab(ws, e),
         Laid(e, ws.crossed \cup (IF ws.grabbed = w /\ ws.pending # None THEN {w} ELSE {}))
  PROVE  Settled(Overtakes(w, e))
<1> DEFINE f == Crosses(e, {w})
<1>1. CASE ws.grabbed = w /\ ws.pending # None
  <2>1. {w} \in SUBSET Window /\ Laid(e, ws.crossed \cup {w})
    BY <1>1
  <2>2. Laid(f, ws.crossed \cup {w}) /\ f.crossed = e.crossed \cup {w}
    BY <2>1, CrossingSends
  <2>3. Overtakes(w, e) = f
    BY <1>1 DEF Overtakes
  <2> HIDE DEF f
  <2> QED BY <2>2, <2>3 DEF SameGrab, Settled
<1>2. CASE ~ (ws.grabbed = w /\ ws.pending # None)
  <2>1. Laid(e, ws.crossed)
    <3>1. ws.crossed \cup {} = ws.crossed
      OBVIOUS
    <3> QED BY <1>2, <3>1
  <2> QED BY <1>2, <2>1 DEF Overtakes, SameGrab, Settled
<1> QED BY <1>1, <1>2

\* The keys move or resize a floating window.
LEMMA ResizeFloatSettles ==
  ASSUME Constants, Settled(ws), NEW b \in FloatBox, ResizeFloat(b)
  PROVE  Settled(ws')
<1> DEFINE w == ws.focused
           e == PutFloat(ws, w, b)
           A == ws.crossed \cup (IF ws.grabbed = w /\ ws.pending # None THEN {w} ELSE {})
<1>1. w \in ws.floating /\ ws' = Overtakes(w, e)
  BY DEF ResizeFloat, Do
<1>2. w \in Window /\ b \in Floated
  BY <1>1, DragIsFloated DEF Settled, Laid, Settling, Fields
<1>3. Settling(ws, A \cup {w}) /\ TilesSent(ws, A \cup {w})
  BY MoreExcused DEF Settled, Laid
<1>4. ws.grabbed = w => w \in A \/ ws.pending = None
  OBVIOUS
<1>5. Settling(e, A) /\ SameGrab(ws, e) /\ TilesSent(e, A)
  <2> HIDE DEF A, w
  <2> QED BY <1>1, <1>2, <1>3, <1>4, PutFloatSends
<1> HIDE DEF e, w
<1> QED BY <1>1, <1>2, <1>5, OvertakenSettles DEF Laid

\* A floating X11 window is asked for what it wants and a tile for its leaf; in
\* monocle the next arrangement cannot know of that.
LEMMA RequestConfigureSettles ==
  ASSUME Constants, Settled(ws), NEW w \in Window, NEW b \in FloatBox,
         RequestConfigure(w, b)
  PROVE  Settled(ws')
<1>1. /\ ws \in Fields /\ Framed(ws) /\ Focused(ws) /\ Aware(ws)
      /\ Gripped(ws, ws.crossed) /\ FloatsSent(ws, ws.crossed) /\ TilesSent(ws, ws.crossed)
  BY DEF Settled, Laid, Settling
<1>2. b \in Floated /\ b \in Box /\ b.at \in Spot
  BY DragIsFloated, BoxParts DEF Box
<1>3. w \in X11 /\ w \in ws.mapped
  BY DEF RequestConfigure
<1>4. CASE w \in ws.floating /\ ws' = Overtakes(w, Place([Configure(ws, w, b) EXCEPT !.float[w] = b], w, b.at))
  <2> DEFINE q == Configure(ws, w, b)
             f == [q EXCEPT !.float[w] = b]
             e == Place(f, w, b.at)
             A == ws.crossed \cup (IF ws.grabbed = w /\ ws.pending # None THEN {w} ELSE {})
  <2>1. /\ q \in Fields /\ SameLayout(ws, q) /\ SameGrab(ws, q) /\ SameFocus(ws, q)
        /\ q.float = ws.float /\ q.drawn = ws.drawn /\ q.req = ws.req
        /\ q.asked[w].size = b.size
        /\ \A v \in Window \ {w} : Untouched(ws, q, v)
    BY <1>1, <1>2, ConfigureIs
  <2> HIDE DEF q
  <2>2. /\ f \in Fields /\ SameLayout(q, f) /\ SameGrab(q, f) /\ SameFocus(q, f)
        /\ f.drawn = q.drawn /\ f.req = q.req /\ f.asked = q.asked
        /\ f.float = [q.float EXCEPT ![w] = b] /\ q.float \in [Window -> Floated]
    BY <1>2, <2>1 DEF Fields, SameLayout, SameGrab, SameFocus
  <2> HIDE DEF f
  <2>3. /\ e \in Fields /\ SameLayout(f, e) /\ SameGrab(f, e) /\ SameFocus(f, e)
        /\ e.float = f.float /\ e.req = f.req /\ e.asked = f.asked
        /\ e.drawn[w] = b.at /\ \A v \in Window \ {w} : e.drawn[v] = f.drawn[v]
    BY <1>2, <2>2, PlaceIs
  <2>4. ws' = Overtakes(w, e)
    BY <1>4 DEF f, q
  <2> HIDE DEF e
  <2>5. SameLayout(ws, e) /\ SameGrab(ws, e) /\ SameFocus(ws, e)
    BY <2>1, <2>2, <2>3 DEF SameLayout, SameGrab, SameFocus
  <2>6. /\ e.float[w] = b /\ (\A v \in Window \ {w} : e.float[v] = ws.float[v])
        /\ e.drawn[w] = b.at /\ e.asked[w].size = b.size
        /\ \A v \in Window \ {w} : Untouched(ws, e, v)
    BY <2>1, <2>2, <2>3 DEF Untouched
  <2>7. Recalls(e, w)
    BY <1>3 DEF Recalls
  <2>8. Settling(ws, A \cup {w}) /\ TilesSent(ws, A \cup {w})
    BY MoreExcused DEF Settled, Laid
  <2>9. ws.grabbed = w => w \in A \/ ws.pending = None
    OBVIOUS
  <2>10. Settling(e, A) /\ TilesSent(e, A)
    <3> HIDE DEF A
    <3> QED BY <1>2, <1>4, <2>3, <2>5, <2>6, <2>7, <2>8, <2>9, FloatIsSent
  <2> QED BY <2>4, <2>5, <2>10, OvertakenSettles DEF Laid
<1>5. CASE w \in Tiled(ws) /\ ws' = Configure(ws, w, ws.tile[w])
  <2> DEFINE e == Configure(ws, w, ws.tile[w])
             C == ws.crossed
  <2>1. ws.tile[w] \in Box
    BY <1>1, <1>5 DEF Framed, Tiled
  <2>2. /\ e \in Fields /\ SameLayout(ws, e) /\ SameGrab(ws, e) /\ SameFocus(ws, e)
        /\ e.float = ws.float /\ e.drawn = ws.drawn /\ e.req = ws.req
        /\ e.asked[w].size = ws.tile[w].size
        /\ \A v \in Window \ {w} : Untouched(ws, e, v)
    BY <1>1, <2>1, ConfigureIs
  <2>3. ws' = e
    BY <1>5
  <2> HIDE DEF e
  <2>4. Framed(e) /\ Focused(e) /\ Gripped(e, C)
    BY <1>1, <2>2, SameFrame, SameGrip
  <2>5. Aware(e)
    <3>1. Recalls(e, w)
      BY <1>3 DEF Recalls
    <3>2. \A v \in Window \ {w} : Recalls(e, v)
      BY <1>1, <2>2 DEF Aware, Recalls, Untouched
    <3> QED BY <1>1, <1>3, <2>2, <3>1, <3>2 DEF Aware, SameLayout
  <2>6. /\ \A v \in ws.floating \cup ws.full : v \in Window \ {w}
        /\ \A v \in Shown(ws) : v \in Window
    BY <1>1, <1>5 DEF Tiled, Shown, Fields
  <2>7. FloatsSent(e, C)
    BY <1>1, <2>2, <2>6, SentStays DEF FloatsSent, SameLayout
  <2>8. ASSUME NEW v \in Shown(ws) \ C, ws.full = {} PROVE Served(e, v, Given(ws, v))
    <3>1. Served(ws, v, Given(ws, v))
      BY <1>1, <2>8 DEF TilesSent
    <3>2. CASE v # w
      BY <2>2, <2>6, <2>8, <3>1, <3>2, ServedStays DEF SameLayout
    <3>3. CASE v = w
      <4>1. e.drawn[w] = Given(ws, w).at /\ (e.monocle => e.req[w] = Given(ws, w).size)
        BY <2>2, <3>1, <3>3 DEF Served, Sent, SameLayout
      <4>2. CASE ws.monocle
        BY <1>3, <2>2, <3>3, <4>1, <4>2 DEF Served, Sent, SameLayout
      <4>3. CASE ~ ws.monocle
        BY <2>2, <3>3, <4>1, <4>3 DEF Given, Served, Sent, SameLayout
      <4> QED BY <4>2, <4>3
    <3> QED BY <3>2, <3>3
  <2>9. TilesSent(e, C)
    <3>1. Shown(e) = Shown(ws) /\ (\A v : Given(e, v) = Given(ws, v)) /\ e.full = ws.full
      BY <2>2, SameShown DEF SameLayout
    <3> QED BY <2>8, <3>1 DEF TilesSent
  <2> QED BY <2>2, <2>3, <2>4, <2>5, <2>7, <2>9 DEF Laid, Settling, Settled, SameGrab
<1> QED BY <1>4, <1>5 DEF RequestConfigure, Do

\* A drag begins, of a window that is focused first,
LEMMA DragMoveSettles ==
  ASSUME Constants, Settled(ws), NEW w \in Window, NEW t \in Tilings, DragMove(w, t)
  PROVE  Settled(ws')
<1> DEFINE d == focus_toplevel(ws, w)
<1>1. w \in ws.mapped /\ ws' = begin_interactive(d, w, "move", t)
  BY DEF DragMove, Do
<1>2. Laid(d, ws.crossed) /\ SameLayout(ws, d) /\ SameGrab(ws, d)
  BY <1>1, FocusSends DEF Settled
<1> HIDE DEF d
<1>3. Settled(d) /\ w \in d.mapped
  BY <1>1, <1>2 DEF Settled, SameGrab, SameLayout
<1> QED BY <1>1, <1>3, BeginInteractiveSends

\* Nothing happens to a fullscreen window.
LEMMA FloatingOrFullSends ==
  ASSUME Constants, NEW d, NEW C, Laid(d, C), NEW w \in d.mapped, NEW t \in Tilings
  PROVE  /\ Laid(toggle_floating(d, w, t), C \cup ({w} \cap {d.grabbed}))
         /\ SameGrab(d, toggle_floating(d, w, t))
         /\ toggle_floating(d, w, t).mapped = d.mapped
<1>1. CASE w \in d.full
  <2>1. toggle_floating(d, w, t) = d
    BY <1>1 DEF toggle_floating
  <2>2. Laid(d, C \cup ({w} \cap {d.grabbed}))
    BY MoreExcused
  <2> QED BY <2>1, <2>2 DEF SameGrab
<1>2. CASE w \notin d.full
  <2> DEFINE e == toggle_floating(d, w, t)
  <2>1. w \in d.mapped \ d.full
    BY <1>2
  <2>2. /\ Laid(e, C \cup ({w} \cap {d.grabbed})) /\ SameGrab(d, e) /\ e.focused = w
        /\ e.mapped = d.mapped /\ e.full = d.full
        /\ e.floating = IF w \in d.floating THEN d.floating \ {w} ELSE d.floating \cup {w}
        /\ d.grabbed = w /\ w \notin C => w \in d.floating
    <3>1. CrossesOver(d, e, w, C)
      BY <2>1, ToggleFloatingSends
    <3> HIDE DEF e
    <3> QED BY <3>1 DEF CrossesOver
  <2> QED BY <2>2
<1> QED BY <1>1, <1>2

\* and a tile is floated before it is resized.
LEMMA DragResizeSettles ==
  ASSUME Constants, Settled(ws), NEW w \in Window, NEW t \in Tilings, DragResize(w, t)
  PROVE  Settled(ws')
<1> DEFINE d == focus_toplevel(ws, w)
           a == toggle_floating(d, w, t)
           e == IF w \in d.floating THEN d ELSE Toggled(w, a)
<1>1. w \in ws.mapped /\ ws' = begin_interactive(e, w, "resize", t)
  BY DEF DragResize, Do
<1>2. Laid(d, ws.crossed) /\ SameLayout(ws, d) /\ SameGrab(ws, d)
  BY <1>1, FocusSends DEF Settled
<1> HIDE DEF d
<1>3. Settled(d) /\ w \in d.mapped /\ d.grabbed = ws.grabbed
  BY <1>1, <1>2 DEF Settled, SameGrab, SameLayout
<1>4. Settled(e) /\ w \in e.mapped
  <2>1. CASE w \in d.floating
    BY <1>3, <2>1
  <2>2. CASE w \notin d.floating
    <3>1. Laid(a, d.crossed \cup ({w} \cap {ws.grabbed})) /\ SameGrab(d, a) /\ a.mapped = d.mapped
      <4>1. Laid(d, d.crossed)
        BY <1>3 DEF Settled
      <4>2. /\ Laid(a, d.crossed \cup ({w} \cap {d.grabbed})) /\ SameGrab(d, a)
            /\ a.mapped = d.mapped
        BY <1>3, <4>1, FloatingOrFullSends
      <4> QED BY <1>3, <4>2
    <3> HIDE DEF a
    <3>2. Laid(a, a.crossed \cup ({w} \cap {ws.grabbed}))
      BY <3>1 DEF SameGrab
    <3>3. Settled(Toggled(w, a)) /\ SameLayout(a, Toggled(w, a))
      BY <3>2, ToggledSends
    <3>4. e = Toggled(w, a)
      BY <2>2
    <3> HIDE DEF e
    <3> QED BY <1>3, <3>1, <3>3, <3>4 DEF SameLayout
  <2> QED BY <2>1, <2>2
<1> HIDE DEF e
<1> QED BY <1>1, <1>4, BeginInteractiveSends

\* A client asks for a drag.
LEMMA RequestGrabSettles ==
  ASSUME Constants, Settled(ws), NEW w \in Window, NEW mode \in {"move", "resize"},
         NEW t \in Tilings, RequestGrab(w, mode, t)
  PROVE  Settled(ws')
BY BeginInteractiveSends DEF RequestGrab, Do

\* The grabbed window is moved.
LEMMA FloatMoves ==
  ASSUME Constants, NEW d, NEW C, Laid(d, C), d.grabbed \in d.floating \ C,
         NEW e \in Fields, SameLayout(d, e), SameFocus(d, e),
         e.mode = d.mode, e.grabbed = d.grabbed, e.crossed = d.crossed,
         e.pending \in {None, e.float[d.grabbed].size},
         \A v \in Window \ {d.grabbed} : e.float[v] = d.float[v] /\ Untouched(d, e, v),
         Recalls(e, d.grabbed),
         Sent(e, d.grabbed, e.float[d.grabbed])
  PROVE  Laid(e, C)
<1>1. /\ d \in Fields /\ Framed(d) /\ Focused(d) /\ Aware(d) /\ Gripped(d, C)
      /\ FloatsSent(d, C) /\ TilesSent(d, C) /\ d.mapped \subseteq Window
  BY DEF Laid, Settling, Fields
<1>2. /\ d.grabbed \in d.mapped /\ d.grabbed \in Window /\ d.grabbed \notin d.full
      /\ d.grabbed \notin Tiled(d) /\ d.grabbed # None
  BY <1>1 DEF Framed, Tiled, Constants
<1>3. Framed(e) /\ Focused(e)
  BY <1>1, SameFrame
<1>4. Aware(e)
  <2>1. \A v \in Window : Recalls(e, v)
    BY <1>1 DEF Aware, Recalls, Untouched
  <2> QED BY <1>1, <1>2, <2>1 DEF Aware, SameLayout, Untouched
<1>5. Gripped(e, C)
  BY <1>1, <1>2 DEF Gripped, SameLayout
<1>6. ASSUME NEW v \in Window, v # d.grabbed, NEW b
      PROVE  (Sent(d, v, b) => Sent(e, v, b)) /\ (Served(d, v, b) => Served(e, v, b))
  BY <1>6 DEF Sent, Served, Untouched, SameLayout
<1>7. FloatsSent(e, C)
  <2>1. \A v \in d.floating \ C : Sent(e, v, e.float[v])
    BY <1>1, <1>6 DEF FloatsSent, Framed
  <2>2. \A v \in d.full \ C : Sent(e, v, Screen)
    BY <1>1, <1>2, <1>6 DEF FloatsSent, Framed
  <2> QED BY <2>1, <2>2 DEF FloatsSent, SameLayout
<1>8. TilesSent(e, C)
  <2>1. Shown(e) = Shown(d) /\ \A v : Given(e, v) = Given(d, v)
    BY SameShown
  <2>2. \A v \in Shown(d) : v \in Window /\ v # d.grabbed
    BY <1>1, <1>2 DEF Shown, Tiled
  <2>3. e.full = d.full
    BY DEF SameLayout
  <2> QED BY <1>1, <1>6, <2>1, <2>2, <2>3 DEF TilesSent
<1> QED BY <1>3, <1>4, <1>5, <1>7, <1>8 DEF Laid, Settling

\* A move keeps the size that was asked for, a resize leaves the new one to the end
\* of the frame.
LEMMA MotionSettles ==
  ASSUME Constants, Settled(ws), ws.crossed = {}, NEW b \in FloatBox, Motion(b)
  PROVE  Settled(ws')
<1> DEFINE w == ws.grabbed
           d == Place(ws, w, b.at)
           m == [d EXCEPT !.float[w].at = b.at]
           r == [[d EXCEPT !.float[w] = b] EXCEPT !.pending = b.size]
<1>1. /\ ws \in Fields /\ Framed(ws) /\ Focused(ws) /\ Aware(ws) /\ Gripped(ws, {})
      /\ FloatsSent(ws, {}) /\ TilesSent(ws, {}) /\ Laid(ws, {})
  BY DEF Settled, Laid, Settling
<1>2. ws.mode # "passthrough"
  BY DEF Motion
<1>3. w \in ws.floating /\ w # None /\ (ws.pending # None => ws.pending = ws.float[w].size)
  BY <1>1, <1>2 DEF Gripped
<1>4. b \in Floated /\ b \in Box /\ b.at \in Spot /\ b.size \in Extent
  BY DragIsFloated, BoxParts DEF Box
<1>5. w \in Window /\ ws.float[w] \in Floated
  BY <1>1, <1>3 DEF Fields
<1> HIDE DEF w
<1>6. /\ d \in Fields /\ SameLayout(ws, d) /\ SameGrab(ws, d) /\ SameFocus(ws, d)
      /\ d.float = ws.float /\ d.req = ws.req /\ d.asked = ws.asked
      /\ d.drawn[w] = b.at /\ \A v \in Window \ {w} : d.drawn[v] = ws.drawn[v]
  <2> HIDE DEF m, r
  <2> QED BY <1>1, <1>4, <1>5, PlaceIs
<1> HIDE DEF d
<1>7. w \in d.floating
  BY <1>3, <1>6 DEF SameLayout
<1>8. Recalls(ws, w)
  BY <1>1, <1>5 DEF Aware
<1>9. ws' = m \/ ws' = r
  BY <1>7 DEF Motion, Do, d, w
<1>10. CASE ws' = m
  <2>1. d.float \in [Window -> Floated]
    BY <1>6 DEF Fields
  <2>2. /\ ws.float[w] = [at |-> ws.float[w].at, size |-> ws.float[w].size]
        /\ [ws.float[w] EXCEPT !.at = b.at] \in Floated
        /\ [ws.float[w] EXCEPT !.at = b.at].at = b.at
        /\ [ws.float[w] EXCEPT !.at = b.at].size = ws.float[w].size
    BY <1>4, <1>5 DEF Floated
  <2>3. /\ m \in Fields /\ SameLayout(d, m) /\ SameGrab(d, m) /\ SameFocus(d, m)
        /\ m.drawn = d.drawn /\ m.req = d.req /\ m.asked = d.asked
        /\ m.float = [d.float EXCEPT ![w] = [ws.float[w] EXCEPT !.at = b.at]]
    BY <1>5, <1>6, <2>1, <2>2 DEF Fields, SameLayout, SameGrab, SameFocus
  <2> HIDE DEF m
  <2>4. /\ SameLayout(ws, m) /\ SameFocus(ws, m) /\ SameGrab(ws, m)
        /\ \A v \in Window \ {w} : m.float[v] = ws.float[v] /\ Untouched(ws, m, v)
    BY <1>6, <2>1, <2>3 DEF SameLayout, SameFocus, SameGrab, Untouched
  <2>5. m.float[w].at = b.at /\ m.float[w].size = ws.float[w].size
    BY <1>5, <2>1, <2>2, <2>3
  <2>6. Recalls(m, w)
    BY <1>6, <1>8, <2>3 DEF Recalls
  <2>7. Sent(ws, w, ws.float[w])
    BY <1>1, <1>3 DEF FloatsSent
  <2>8. Sent(m, w, m.float[w])
    BY <1>6, <2>3, <2>4, <2>5, <2>7 DEF Sent, SameGrab
  <2>9. m.pending \in {None, m.float[w].size}
    BY <1>3, <2>4, <2>5 DEF SameGrab
  <2>10. Laid(m, {})
    <3>1. ws.grabbed = w
      BY DEF w
    <3> QED BY <1>1, <1>3, <2>3, <2>4, <2>6, <2>8, <2>9, <3>1, FloatMoves DEF SameGrab
  <2> QED BY <1>10, <2>4, <2>10 DEF Settled, SameGrab
<1>11. CASE ws' = r
  <2>1. d.float \in [Window -> Floated]
    BY <1>6 DEF Fields
  <2>3. /\ r \in Fields /\ SameLayout(d, r) /\ SameFocus(d, r)
        /\ r.mode = d.mode /\ r.grabbed = d.grabbed /\ r.crossed = d.crossed
        /\ r.pending = b.size
        /\ r.drawn = d.drawn /\ r.req = d.req /\ r.asked = d.asked
        /\ r.float = [d.float EXCEPT ![w] = b]
    BY <1>4, <1>5, <1>6, <2>1 DEF Fields, SameLayout, SameFocus
  <2> HIDE DEF r
  <2>4. /\ SameLayout(ws, r) /\ SameFocus(ws, r)
        /\ r.mode = ws.mode /\ r.grabbed = ws.grabbed /\ r.crossed = ws.crossed
        /\ \A v \in Window \ {w} : r.float[v] = ws.float[v] /\ Untouched(ws, r, v)
    BY <1>6, <2>1, <2>3 DEF SameLayout, SameFocus, SameGrab, Untouched
  <2>5. r.float[w] = b
    BY <1>5, <2>1, <2>3
  <2>6. Recalls(r, w)
    BY <1>6, <1>8, <2>3 DEF Recalls
  <2>7. ws.grabbed = w
    BY DEF w
  <2>8. Sent(r, w, r.float[w])
    BY <1>6, <2>3, <2>4, <2>5, <2>7 DEF Sent
  <2>9. r.pending \in {None, r.float[w].size}
    BY <2>3, <2>5
  <2>10. Laid(r, {})
    BY <1>1, <1>3, <2>3, <2>4, <2>6, <2>7, <2>8, <2>9, FloatMoves
  <2> QED BY <1>11, <2>4, <2>10 DEF Settled
<1> QED BY <1>9, <1>10, <1>11

\* The end of the frame sends it,
LEMMA FrameSettles ==
  ASSUME Constants, Settled(ws), Frame
  PROVE  Settled(ws')
<1> DEFINE e == [toplevel_set_size(ws, ws.grabbed, ws.pending) EXCEPT !.pending = None]
<1>1. ws.pending # None /\ ws' = e
  BY DEF Frame, Do
<1>2. Laid(e, ws.crossed) /\ e.crossed = ws.crossed
  BY <1>1, PendingIsSent DEF Settled
<1> HIDE DEF e
<1> QED BY <1>1, <1>2 DEF Settled

\* and so does the end of the grab.
LEMMA EndGrabSettles ==
  ASSUME Constants, Settled(ws), EndGrab
  PROVE  Settled(ws')
<1> DEFINE e == reset_cursor_mode(ws)
<1>1. ws' = e
  BY DEF EndGrab, Do
<1>2. Laid(e, ws.crossed) /\ e.crossed = ws.crossed
  BY ResetSends DEF Settled
<1> HIDE DEF e
<1> QED BY <1>1, <1>2 DEF Settled

\* A window goes, and its size and grab with it; the focus passes on after the others
\* have been arranged.
LEMMA UnmapSettles ==
  ASSUME Constants, Settled(ws), NEW w \in Window, NEW t \in Tilings, Unmap(w, t)
  PROVE  Settled(ws')
<1> DEFINE r == reset_cursor_mode(ws)
           d == IF ws.grabbed = w THEN r ELSE ws
           p == Pruned(d, w, t)
           nowhere == [at |-> None, size |-> None]
           e == [p EXCEPT
                   !.mapped = @ \ {w}, !.floating = @ \ {w}, !.full = @ \ {w},
                   !.saved_floating = @ \ {w},
                   !.float[w] = Default, !.drawn[w] = None, !.req[w] = None,
                   !.asked[w] = nowhere,
                   !.last = IF @ = w THEN None ELSE @,
                   !.crossed = @ \ {w}]
           next == {v \in e.mapped : v \notin e.full \cap e.saved_floating}
           empty == IF w \in X11 THEN Len(e.toplevels) <= 1 ELSE Tiled(e) = {}
           k == [e EXCEPT !.focused = IF @ = w THEN None ELSE @]
           f == LeaveMonocle(k, empty)
           C == ws.crossed
           E == C \ {w}
<1>1. /\ w \in ws.mapped
      /\ \/ \E v \in next : ws' = GiveFocus(bsp_arrange([f EXCEPT !.focused = v]), v)
         \/ ws' = bsp_arrange(f)
  BY Zenon DEF Unmap, Do
<1>2. Laid(d, C) /\ SameLayout(ws, d) /\ d.crossed = C /\ d.grabbed # w
  <2>1. CASE ws.grabbed = w
    <3>1. Laid(r, C) /\ SameLayout(ws, r) /\ r.crossed = C /\ r.grabbed = None
      BY ResetSends DEF Settled
    <3>2. d = r /\ w # None
      BY <2>1 DEF Constants
    <3> HIDE DEF r, d
    <3> QED BY <3>1, <3>2
  <2>2. CASE ws.grabbed # w
    BY <2>2 DEF SameLayout, Settled
  <2> QED BY <2>1, <2>2
<1> HIDE DEF d, C
<1>3. /\ d \in Fields /\ Framed(d) /\ Focused(d) /\ Aware(d) /\ Gripped(d, C)
      /\ FloatsSent(d, C) /\ IsInjective(d.toplevels) /\ w # None
  BY <1>2 DEF Laid, Settling, Framed, Constants
<1>4. /\ p = [d EXCEPT !.toplevels = p.toplevels, !.tile = p.tile]
      /\ p \in Fields /\ IsInjective(p.toplevels)
      /\ ToSet(p.toplevels) = ToSet(d.toplevels) \ {w}
      /\ DOMAIN d.tile = ToSet(d.toplevels) => DOMAIN p.tile = ToSet(p.toplevels)
      /\ (\A v \in DOMAIN d.tile : d.tile[v] \in Box) =>
           \A v \in DOMAIN p.tile : p.tile[v] \in Box
  <2> HIDE DEF f, k, next, empty, e
  <2>1. Shrank(d, p, w)
    BY <1>3, PrunedIs
  <2> HIDE DEF p
  <2> QED BY <2>1 DEF Shrank
<1> HIDE DEF p
<1>5. /\ p.mapped = d.mapped /\ p.floating = d.floating
      /\ p.full = d.full /\ p.saved_floating = d.saved_floating /\ p.float = d.float
      /\ p.drawn = d.drawn /\ p.req = d.req /\ p.asked = d.asked
      /\ SameGrab(d, p) /\ SameFocus(d, p)
  BY <1>3, <1>4 DEF Fields, SameGrab, SameFocus
<1>6. Default \in Floated /\ nowhere \in [at : Spot, size : Extent \cup {None}] /\ None \in Spot
  BY DragIsFloated DEF Spot
<1> HIDE DEF nowhere
<1> DEFINE float == [p.float EXCEPT ![w] = Default]
           drawn == [p.drawn EXCEPT ![w] = None]
           req == [p.req EXCEPT ![w] = None]
           asked == [p.asked EXCEPT ![w] = nowhere]
           last == IF p.last = w THEN None ELSE p.last
<1>7. /\ p.mapped \ {w} \in SUBSET Window /\ p.floating \ {w} \in SUBSET Window
       /\ p.full \ {w} \in SUBSET Window /\ p.saved_floating \ {w} \in SUBSET Window
       /\ p.crossed \ {w} \in SUBSET Window /\ last \in Window \cup {None}
       /\ float \in [Window -> Floated] /\ drawn \in [Window -> Spot]
       /\ req \in [Window -> Extent \cup {None}]
       /\ asked \in [Window -> [at : Spot, size : Extent \cup {None}]]
  BY <1>4, <1>6 DEF Fields
<1>8. e = [p EXCEPT
              !.mapped = p.mapped \ {w}, !.floating = p.floating \ {w}, !.full = p.full \ {w},
              !.saved_floating = p.saved_floating \ {w},
              !.float = float, !.drawn = drawn, !.req = req, !.asked = asked,
              !.last = last, !.crossed = p.crossed \ {w}]
  BY <1>4 DEF Fields
<1> HIDE DEF e, float, drawn, req, asked, last
<1>9. /\ e \in Fields
      /\ e.mapped = p.mapped \ {w} /\ e.floating = p.floating \ {w}
      /\ e.full = p.full \ {w} /\ e.saved_floating = p.saved_floating \ {w}
      /\ e.float = float /\ e.drawn = drawn
      /\ e.req = req /\ e.asked = asked
      /\ e.last = last /\ e.crossed = p.crossed \ {w}
      /\ e.focused = p.focused /\ e.mode = p.mode /\ e.grabbed = p.grabbed
      /\ e.pending = p.pending /\ e.toplevels = p.toplevels /\ e.tile = p.tile
  <2> DEFINE m == p.mapped \ {w}
             o == p.floating \ {w}
             u == p.full \ {w}
             s == p.saved_floating \ {w}
             c == p.crossed \ {w}
  <2>1. e = [p EXCEPT !.mapped = m, !.floating = o, !.full = u, !.saved_floating = s,
                      !.float = float, !.drawn = drawn, !.req = req, !.asked = asked,
                      !.last = last, !.crossed = c]
    BY <1>8
  <2>2. /\ m \in SUBSET Window /\ o \in SUBSET Window /\ u \in SUBSET Window
        /\ s \in SUBSET Window /\ c \in SUBSET Window
    BY <1>7
  <2> HIDE DEF m, o, u, s, c
  <2>3. e \in Fields
    <3> DEFINE g == [p EXCEPT !.mapped = m, !.floating = o, !.full = u, !.saved_floating = s,
                              !.crossed = c]
               h == [g EXCEPT !.float = float, !.drawn = drawn, !.req = req]
    <3>1. g \in Fields
      BY <1>4, <2>2 DEF Fields
    <3>2. e = [h EXCEPT !.asked = asked, !.last = last]
      BY <1>4, <2>1 DEF Fields
    <3> HIDE DEF g
    <3>3. h \in Fields
      BY <1>7, <3>1 DEF Fields
    <3> HIDE DEF h
    <3>4. last \in Window \cup {None}
          /\ asked \in [Window -> [at : Spot, size : Extent \cup {None}]]
      BY <1>7
    <3> QED
      BY <3>2, <3>3, <3>4 DEF Fields
  <2>4. /\ e.mapped = m /\ e.floating = o /\ e.full = u /\ e.saved_floating = s
        /\ e.float = float /\ e.drawn = drawn /\ e.req = req /\ e.asked = asked
        /\ e.last = last /\ e.crossed = c
    BY <1>4, <2>1 DEF Fields
  <2>5. /\ e.focused = p.focused /\ e.mode = p.mode /\ e.grabbed = p.grabbed
        /\ e.pending = p.pending /\ e.toplevels = p.toplevels /\ e.tile = p.tile
    BY <1>4, <2>1 DEF Fields
  <2> QED BY <2>3, <2>4, <2>5 DEF m, o, u, s, c
<1>10. /\ k \in Fields /\ SameLayout(e, k) /\ SameGrab(e, k)
      /\ k.float = e.float /\ k.drawn = e.drawn /\ k.req = e.req /\ k.asked = e.asked
      /\ k.last = e.last /\ k.focused = IF e.focused = w THEN None ELSE e.focused
  BY <1>9 DEF Fields, SameLayout, SameGrab
<1> HIDE DEF k
<1>11. /\ k.mapped = d.mapped \ {w} /\ k.floating = d.floating \ {w}
      /\ k.full = d.full \ {w} /\ k.saved_floating = d.saved_floating \ {w}
      /\ k.toplevels = p.toplevels /\ k.tile = p.tile
      /\ k.crossed = E /\ k.mode = d.mode /\ k.grabbed = d.grabbed /\ k.pending = d.pending
      /\ k.last = (IF d.last = w THEN None ELSE d.last)
      /\ k.focused = (IF d.focused = w THEN None ELSE d.focused)
  BY <1>2, <1>5, <1>9, <1>10 DEF SameLayout, SameGrab, SameFocus, last
<1>12. /\ k.float[w] = Default /\ k.req[w] = None
       /\ \A v \in Window \ {w} : k.float[v] = d.float[v] /\ Untouched(d, k, v)
  <2>1. /\ p.float \in [Window -> Floated] /\ p.drawn \in [Window -> Spot]
        /\ p.req \in [Window -> Extent \cup {None}]
        /\ p.asked \in [Window -> [at : Spot, size : Extent \cup {None}]]
    BY <1>4 DEF Fields
  <2> QED BY <1>5, <1>9, <1>10, <2>1 DEF Untouched, float, drawn, req, asked
<1> HIDE DEF E
<1>13. Framed(k)
  BY <1>3, <1>4, <1>11 DEF Framed
<1>14. Focused(k)
  BY <1>3, <1>11 DEF Focused
<1>15. Aware(k)
  <2>1. Recalls(k, w)
    BY <1>12 DEF Recalls
  <2>2. \A v \in Window \ {w} : Recalls(k, v)
    BY <1>3, <1>12 DEF Aware, Recalls, Untouched
  <2> QED BY <1>3, <1>11, <1>12, <2>1, <2>2 DEF Aware, Untouched
<1>16. Gripped(k, E)
  <2>1. d.grabbed # None => d.grabbed \in Window \ {w}
    BY <1>2, <1>3 DEF Gripped, Fields
  <2> QED BY <1>2, <1>3, <1>11, <1>12, <2>1 DEF Gripped, E
<1>17. FloatsSent(k, E)
  <2>1. ASSUME NEW v \in Window \ {w}, NEW b, Sent(d, v, b) PROVE Sent(k, v, b)
    BY <1>11, <1>12, <2>1 DEF Sent, Untouched
  <2>2. d.floating \subseteq Window /\ d.full \subseteq Window
    BY <1>3 DEF Fields
  <2> QED BY <1>3, <1>11, <1>12, <2>1, <2>2 DEF FloatsSent, E
<1>18. Settling(k, E)
  BY <1>10, <1>13, <1>14, <1>15, <1>16, <1>17 DEF Settling
<1>19. Settling(f, E) /\ SameGrab(k, f) /\ f.mapped = k.mapped
  <2>1. empty \in BOOLEAN
    <3>1. Len(e.toplevels) \in Nat
      BY <1>9 DEF Fields
    <3>2. (Len(e.toplevels) <= 1) \in BOOLEAN /\ (Tiled(e) = {}) \in BOOLEAN
      BY <3>1
    <3> QED BY <3>2
  <2> HIDE DEF empty
  <2> QED BY <1>18, <2>1, MonocleMayEnd
<1> HIDE DEF f
<1>20. CASE ws' = bsp_arrange(f)
  <2> DEFINE a == bsp_arrange(f)
  <2>1. Laid(a, E) /\ SameGrab(f, a)
    BY <1>19, ArrangeSends
  <2> HIDE DEF a
  <2> QED BY <1>11, <1>19, <1>20, <2>1 DEF Settled, SameGrab, a
<1>21. ASSUME NEW v \in next, ws' = GiveFocus(bsp_arrange([f EXCEPT !.focused = v]), v)
       PROVE  Settled(ws')
  <2> DEFINE g == [f EXCEPT !.focused = v]
             a == bsp_arrange(g)
             h == GiveFocus(a, v)
  <2>1. v \in f.mapped /\ f \in Fields /\ f.mapped \subseteq Window
    BY <1>10, <1>19, <1>21 DEF SameLayout, Settling, Fields
  <2>2. /\ g \in Fields /\ SameLayout(f, g) /\ SameGrab(f, g)
        /\ g.float = f.float /\ g.drawn = f.drawn /\ g.req = f.req /\ g.asked = f.asked
        /\ g.last = f.last /\ g.focused = v
    BY <2>1 DEF Fields, SameLayout, SameGrab
  <2> HIDE DEF g
  <2>3. Settling(g, E)
    <3>1. /\ Framed(f) /\ Focused(f) /\ Aware(f) /\ Gripped(f, E) /\ FloatsSent(f, E)
      BY <1>19 DEF Settling
    <3>2. Framed(g) /\ Gripped(g, E)
      BY <2>2, <3>1, SameFrame, SameGrip
    <3>3. Focused(g)
      BY <2>1, <2>2, <3>1 DEF Focused, SameLayout
    <3>4. Aware(g)
      BY <2>2, <3>1 DEF Aware, Recalls, SameLayout
    <3>5. FloatsSent(g, E)
      BY <2>2, <3>1 DEF FloatsSent, Sent, SameLayout, SameGrab
    <3> QED BY <2>2, <3>2, <3>3, <3>4, <3>5 DEF Settling
  <2>4. Laid(a, E) /\ SameLayout(g, a) /\ SameGrab(g, a)
    BY <2>3, ArrangeSends
  <2> HIDE DEF a
  <2>5. v \in a.mapped
    BY <2>1, <2>2, <2>4 DEF SameLayout
  <2>6. Laid(h, E) /\ SameGrab(a, h)
    BY <2>4, <2>5, GiveFocusSends
  <2>7. ws' = h
    BY <1>21 DEF a, g
  <2> HIDE DEF h
  <2> QED BY <1>11, <1>19, <2>2, <2>4, <2>6, <2>7 DEF Settled, SameGrab
<1> QED BY <1>1, <1>20, <1>21

----------------------------------------------------------------------------
(* What is sent stays so. *)

\* There are no windows at first.
LEMMA InitSettles == ASSUME Constants, Init PROVE Settled(ws)
<1>1. ws.mapped = {} /\ ws.floating = {} /\ ws.full = {} /\ ws.saved_floating = {}
      /\ ws.toplevels = <<>> /\ ws.tile = <<>> /\ ws.monocle = FALSE
      /\ ws.focused = None /\ ws.last = None
      /\ ws.float = [w \in Window |-> Default] /\ ws.drawn = [w \in Window |-> None]
      /\ ws.req = [w \in Window |-> None]
      /\ ws.asked = [w \in Window |-> [at |-> None, size |-> None]]
      /\ ws.mode = "passthrough" /\ ws.grabbed = None /\ ws.pending = None /\ ws.crossed = {}
  BY DEF Init
<1>2. Default \in Floated
  BY DragIsFloated
<1>3. ToSet(ws.toplevels) = {} /\ DOMAIN ws.tile = {} /\ ws.toplevels \in Seq(Window)
      /\ IsInjective(ws.toplevels)
  BY <1>1 DEF ToSet, IsInjective
<1>4. ws.tile \in UNION {[S -> Box] : S \in SUBSET Window}
  <2>1. ws.tile \in [{} -> Box]
    BY <1>1
  <2>2. {} \in SUBSET Window
    OBVIOUS
  <2> QED BY <2>1, <2>2
<1>5. ws.asked \in [Window -> [at : Spot, size : Extent \cup {None}]]
      /\ ws.float \in [Window -> Floated] /\ ws.drawn \in [Window -> Spot]
      /\ ws.req \in [Window -> Extent \cup {None}]
  BY <1>1, <1>2 DEF Spot
<1>6. ws = [mapped |-> ws.mapped, floating |-> ws.floating, full |-> ws.full,
            saved_floating |-> ws.saved_floating, toplevels |-> ws.toplevels,
            tile |-> ws.tile, monocle |-> ws.monocle, focused |-> ws.focused,
            last |-> ws.last, float |-> ws.float, drawn |-> ws.drawn, req |-> ws.req,
            asked |-> ws.asked, mode |-> ws.mode, grabbed |-> ws.grabbed,
            pending |-> ws.pending, crossed |-> ws.crossed]
  BY DEF Init
<1>7. ws \in Fields
  BY <1>1, <1>3, <1>4, <1>5, <1>6 DEF Fields
<1>8. Framed(ws) /\ Focused(ws) /\ Aware(ws) /\ Gripped(ws, {}) /\ FloatsSent(ws, {})
  BY <1>1, <1>3 DEF Framed, Focused, Aware, Recalls, Gripped, FloatsSent
<1>9. TilesSent(ws, {})
  BY <1>1 DEF TilesSent, Shown, Tiled
<1> QED BY <1>1, <1>7, <1>8, <1>9 DEF Settled, Laid, Settling

\* Whatever a window, a key or the pointer does,
LEMMA StepSettles ==
  ASSUME Constants, Settled(ws), ws.crossed = {}, Step
  PROVE  Settled(ws')
<1>1. CASE \E w \in Window :
             \/ MapByRule(w) \/ MapFloating(w) \/ Focus(w) \/ ToggleFullscreen(w)
             \/ \E b \in FloatBox : RequestConfigure(w, b)
             \/ \E t \in Tilings :
                  \/ MapTiled(w, t) \/ ToggleFloating(w, t)
                  \/ DragMove(w, t) \/ DragResize(w, t)
                  \/ \E mode \in {"move", "resize"} : RequestGrab(w, mode, t)
  <2> PICK w \in Window :
        \/ MapByRule(w) \/ MapFloating(w) \/ Focus(w) \/ ToggleFullscreen(w)
        \/ \E b \in FloatBox : RequestConfigure(w, b)
        \/ \E t \in Tilings :
             \/ MapTiled(w, t) \/ ToggleFloating(w, t)
             \/ DragMove(w, t) \/ DragResize(w, t)
             \/ \E mode \in {"move", "resize"} : RequestGrab(w, mode, t)
    BY <1>1
  <2>1. CASE MapByRule(w)
    BY <2>1, MapByRuleSettles
  <2>2. CASE MapFloating(w)
    BY <2>2, MapFloatingSettles
  <2>3. CASE Focus(w)
    BY <2>3, FocusSettles
  <2>4. CASE ToggleFullscreen(w)
    BY <2>4, ToggleFullscreenSettles
  <2>5. CASE \E b \in FloatBox : RequestConfigure(w, b)
    BY <2>5, RequestConfigureSettles
  <2>6. ASSUME NEW t \in Tilings,
               \/ MapTiled(w, t) \/ ToggleFloating(w, t)
               \/ DragMove(w, t) \/ DragResize(w, t)
               \/ \E mode \in {"move", "resize"} : RequestGrab(w, mode, t)
        PROVE  Settled(ws')
    <3>1. CASE MapTiled(w, t)
      BY <3>1, MapTiledSettles
    <3>2. CASE ToggleFloating(w, t)
      BY <3>2, ToggleFloatingSettles
    <3>3. CASE DragMove(w, t)
      BY <3>3, DragMoveSettles
    <3>4. CASE DragResize(w, t)
      BY <3>4, DragResizeSettles
    <3>5. CASE \E mode \in {"move", "resize"} : RequestGrab(w, mode, t)
      BY <3>5, RequestGrabSettles
    <3> QED BY <2>6, <3>1, <3>2, <3>3, <3>4, <3>5
  <2> QED BY <2>1, <2>2, <2>3, <2>4, <2>5, <2>6
<1>2. CASE \E b \in FloatBox : ResizeFloat(b) \/ Motion(b)
  BY <1>2, ResizeFloatSettles, MotionSettles
<1>3. CASE ToggleMonocle
  BY <1>3, ToggleMonocleSettles
<1>4. CASE Frame
  BY <1>4, FrameSettles
<1>5. CASE EndGrab
  BY <1>5, EndGrabSettles
<1>6. CASE \E t \in Tilings : SetBspMode(t) \/ Rearrange(t)
  BY <1>6, SetBspModeSettles, RearrangeSettles
<1> QED BY <1>1, <1>2, <1>3, <1>4, <1>5, <1>6 DEF Step

\* and whatever window goes, what is not crossed is as it should be.
LEMMA NextSettles ==
  ASSUME Constants, Settled(ws), [Next]_ws
  PROVE  Settled(ws')
<1>1. CASE ws.crossed = {} /\ Step
  BY <1>1, StepSettles
<1>2. CASE \E w \in Window, t \in Tilings : Unmap(w, t)
  BY <1>2, UnmapSettles
<1>3. CASE UNCHANGED ws
  BY <1>3 DEF Settled
<1> QED BY <1>1, <1>2, <1>3 DEF Next

\* That is more than SizesAreSent,
LEMMA SettledSends == ASSUME Settled(ws) PROVE SizesAreSent
<1>1. /\ ws \in Fields /\ Framed(ws) /\ FloatsSent(ws, ws.crossed) /\ TilesSent(ws, ws.crossed)
  BY DEF Settled, Laid, Settling
<1>2. ASSUME NEW w \in Visible \ ws.crossed PROVE Sent(ws, w, Wanted(w))
  <2>1. CASE w \in ws.full
    BY <1>1, <1>2, <2>1 DEF FloatsSent, Wanted
  <2>2. CASE w \notin ws.full /\ w \in ws.floating
    BY <1>1, <1>2, <2>2 DEF FloatsSent, Wanted
  <2>3. CASE w \notin ws.full /\ w \notin ws.floating
    <3>1. ws.full = {} /\ w \in Shown(ws)
      BY <1>2, <2>3 DEF Visible, Tiled
    <3> QED BY <1>1, <1>2, <2>3, <3>1 DEF TilesSent, Served, Wanted
  <2> QED BY <2>1, <2>2, <2>3
<1> QED BY <1>2 DEF SizesAreSent, Sent

\* and has the types.
LEMMA SettledTypeOK == ASSUME Settled(ws) PROVE TypeOK
<1>1. /\ ws \in Fields /\ Framed(ws) /\ Focused(ws) /\ Gripped(ws, ws.crossed)
  BY DEF Settled, Laid, Settling
<1>2. ToSet(ws.toplevels) \subseteq ws.mapped
  BY <1>1 DEF Framed
<1>3. \A w \in Window : \E b, c \in FloatBox \cup {Default} :
        ws.float[w] = [at |-> b.at, size |-> c.size]
  <2> TAKE w \in Window
  <2> DEFINE f == ws.float[w]
  <2>1. f \in Floated
    BY <1>1 DEF Fields
  <2> HIDE DEF f
  <2>2. f = [at |-> f.at, size |-> f.size] /\ f.at \in {b.at : b \in FloatBox \cup {Default}}
        /\ f.size \in {b.size : b \in FloatBox \cup {Default}}
    BY <2>1 DEF Floated
  <2>3. PICK b \in FloatBox \cup {Default} : f.at = b.at
    BY <2>2
  <2>4. PICK c \in FloatBox \cup {Default} : f.size = c.size
    BY <2>2
  <2>5. f = [at |-> b.at, size |-> c.size]
    BY <2>2, <2>3, <2>4
  <2> QED BY <2>5 DEF f
<1>4. ws.monocle \in BOOLEAN /\ ws.mapped \subseteq Window
      /\ ws.mode \in {"passthrough", "move", "resize"}
  BY <1>1 DEF Fields
<1>5. (ws.mode = "passthrough") = (ws.grabbed = None)
  BY <1>1 DEF Gripped
<1> QED BY <1>1, <1>2, <1>3, <1>4, <1>5 DEF TypeOK, Framed, Focused, Gripped

\* Whatever windows, toggles, grabs and pointer frames come in between, for any number
\* of windows and any boxes: a window that can be seen is drawn where its state says,
\* and its client has been asked for that size, or will be at the end of the frame or
\* of the grab (bsp_arrange.c, floating.c, cursor.c).
THEOREM SizesStaySent == ASSUME Constants PROVE Spec => []SizesAreSent
<1>1. Init => Settled(ws)
  BY InitSettles
<1>2. Settled(ws) /\ [Next]_ws => Settled(ws)'
  BY NextSettles
<1>3. Settled(ws) => SizesAreSent
  BY SettledSends
<1> QED
  BY <1>1, <1>2, <1>3, PTL DEF Spec
=============================================================================
