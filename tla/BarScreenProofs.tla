-------------------------- MODULE BarScreenProofs --------------------------
(***************************************************************************)
(* ScreenIsCurrent, for any number of workspaces and of buffers and        *)
(* screens of any widths.  Its first part follows from an inductive        *)
(* invariant, Follows: the bar has heard all that it was told (Settled),   *)
(* or a whole number of the events of the last batch, the rest of which is *)
(* on the wire (Hearing).  For that a batch has to replace what was told   *)
(* before (BatchHeard), and for the picture to be the right one a frame    *)
(* has to be due once the event of the active workspace is in (HeardTo).   *)
(*                                                                         *)
(* The second part holds of every picture (PicturesApart).  The places of  *)
(* the items are sums of widths, by folds over sequences, of which Lemmas  *)
(* has what is needed (FoldExists, FoldPrefix).                            *)
(***************************************************************************)
EXTENDS BarScreen, Lemmas

(* There are outputs of some widths, and None is no number. *)
Constants == Spaces \in Nat /\ Widths \subseteq Nat /\ Buffers \in Nat /\ None \notin Int

----------------------------------------------------------------------------
(* The items on the bar. *)

(* What adds up the widths of the first of the items, with the gaps. *)
SumsUp(g, items, n) ==
  /\ Extent(items) = g[1 .. n] /\ g[{}] = 0
  /\ \A k \in 0 .. n - 1 : g[1 .. k + 1] = g[1 .. k] + items[k + 1].w + 1
  /\ \A k \in 0 .. n : g[1 .. k] \in Int

(* The width of items is the sum, with the gaps. *)
LEMMA ExtentSums ==
  ASSUME NEW n \in Nat, NEW items, DOMAIN items = 1 .. n,
         \A i \in 1 .. n : items[i].w \in Int
  PROVE  \E g : SumsUp(g, items, n)
<1> DEFINE step == [i \in 1 .. n |-> [v \in Int |-> v + items[i].w + 1]]
           base == 0
           V == Int
           eq(g) == g = [s \in SUBSET (1 .. n) |->
                     IF s = {} THEN 0 ELSE g[s \ {Max(s)}] + items[Max(s)].w + 1]
           iter == CHOOSE g : eq(g)
<1>1. Extent(items) = iter[1 .. n]
  BY DEF Extent, FoldLeft, MapThenFoldSet, ItemGap
<1>2. /\ \A i \in 1 .. n : \A v \in Int : step[i][v] = v + items[i].w + 1
      /\ base = 0
  OBVIOUS
<1> HIDE DEF step, base
<1>13. \A i \in 1 .. n : \A v \in V : step[i][v] \in V
  <2> TAKE i \in 1 .. n
  <2> TAKE v \in V
  <2>1. items[i].w \in Int
    OBVIOUS
  <2>2. step[i][v] = v + items[i].w + 1
    BY <1>2
  <2> HIDE DEF step
  <2> QED BY <2>1, <2>2
<1>14. base \in V
  BY <1>2
<1>3. PICK f \in [SUBSET (1 .. n) -> V] : Folds(f, n, base, step)
  BY <1>13, <1>14, FoldExists
<1> HIDE DEF V
<1>4. \A s \in SUBSET (1 .. n) :
        f[s] = IF s = {} THEN 0 ELSE f[s \ {Max(s)}] + items[Max(s)].w + 1
  <2> TAKE s \in SUBSET (1 .. n)
  <2>1. CASE s = {}
    BY <1>2, <1>3, <2>1 DEF Folds
  <2>2. CASE s # {}
    <3>1. Max(s) \in 1 .. n /\ s \ {Max(s)} \in SUBSET (1 .. n)
      BY <2>2, MaxIs
    <3>2. f[s] = step[Max(s)][f[s \ {Max(s)}]]
      BY <1>3, <2>2 DEF Folds
    <3> QED BY <1>2, <2>2, <3>1, <3>2 DEF V
  <2> QED BY <2>1, <2>2
<1>5. eq(f)
  BY <1>4
<1>6. eq(iter)
  BY <1>5
<1> HIDE DEF iter
<1>7. iter = [s \in SUBSET (1 .. n) |->
                IF s = {} THEN 0 ELSE iter[s \ {Max(s)}] + items[Max(s)].w + 1]
  BY <1>6
<1>8. \A s \in SUBSET (1 .. n) :
        iter[s] = IF s = {} THEN 0 ELSE iter[s \ {Max(s)}] + items[Max(s)].w + 1
  BY <1>7
<1>9. iter[{}] = base
  BY <1>2, <1>8
<1>10. ASSUME NEW s \in (SUBSET (1 .. n)) \ {{}}, iter[s \ {Max(s)}] \in V
       PROVE  iter[s] = step[Max(s)][iter[s \ {Max(s)}]]
  <2>1. Max(s) \in 1 .. n
    BY MaxIs
  <2>2. iter[s] = iter[s \ {Max(s)}] + items[Max(s)].w + 1
    BY <1>8
  <2> QED BY <1>2, <1>10, <2>1, <2>2 DEF V
<1>11. /\ \A k \in 0 .. n : iter[1 .. k] \in V
       /\ \A k \in 0 .. n - 1 : iter[1 .. k + 1] = step[k + 1][iter[1 .. k]]
  <2>1. \A s \in (SUBSET (1 .. n)) \ {{}} :
          iter[s \ {Max(s)}] \in V => iter[s] = step[Max(s)][iter[s \ {Max(s)}]]
    BY <1>10
  <2>2. n \in Nat
    OBVIOUS
  <2>3. \A k \in 0 .. n : iter[1 .. k] \in V
    BY <1>9, <1>13, <1>14, <2>1, <2>2, FoldPrefix
  <2>4. Climbs(iter, n, step)
    BY <1>9, <1>13, <1>14, <2>1, <2>2, FoldPrefix
  <2> QED BY <2>3, <2>4 DEF Climbs
<1>12. ASSUME NEW k \in 0 .. n - 1
       PROVE  iter[1 .. k + 1] = iter[1 .. k] + items[k + 1].w + 1
  <2>1. k \in 0 .. n /\ k + 1 \in 1 .. n
    OBVIOUS
  <2> QED BY <1>2, <1>11, <2>1 DEF V
<1>15. SumsUp(iter, items, n)
  BY <1>1, <1>2, <1>9, <1>11, <1>12 DEF V, SumsUp
<1> QED BY <1>15

(* So it is of one item and of two. *)
LEMMA ExtentIs ==
  ASSUME NEW a, NEW b, a.w \in Int, b.w \in Int
  PROVE  Extent(<<a>>) = a.w + 1 /\ Extent(<<a, b>>) = a.w + b.w + 2
<1> DEFINE one == <<a>>
           two == <<a, b>>
<1>1. DOMAIN one = 1 .. 1 /\ one[1] = a /\ DOMAIN two = 1 .. 2 /\ two[1] = a /\ two[2] = b
  OBVIOUS
<1> HIDE DEF one, two
<1>2. Extent(one) = a.w + 1
  <2>1. PICK g : SumsUp(g, one, 1)
    <3> DEFINE n == 1
    <3>1. n \in Nat /\ DOMAIN one = 1 .. n /\ \A i \in 1 .. n : one[i].w \in Int
      BY <1>1
    <3> HIDE DEF n
    <3>2. \E g : SumsUp(g, one, n)
      BY <3>1, ExtentSums
    <3> QED BY <3>2 DEF n
  <2>2. 1 .. 0 = {}
    OBVIOUS
  <2>3. /\ Extent(one) = g[1 .. 1] /\ g[{}] = 0
        /\ g[1 .. 0 + 1] = g[1 .. 0] + one[0 + 1].w + 1
    BY <2>1 DEF SumsUp
  <2> QED BY <1>1, <2>2, <2>3
<1>3. Extent(two) = a.w + b.w + 2
  <2>1. PICK g : SumsUp(g, two, 2)
    <3> DEFINE n == 2
    <3>1. n \in Nat /\ DOMAIN two = 1 .. n /\ \A i \in 1 .. n : two[i].w \in Int
      BY <1>1
    <3> HIDE DEF n
    <3>2. \E g : SumsUp(g, two, n)
      BY <3>1, ExtentSums
    <3> QED BY <3>2 DEF n
  <2>2. 1 .. 0 = {}
    OBVIOUS
  <2>3. /\ Extent(two) = g[1 .. 2] /\ g[{}] = 0
        /\ g[1 .. 0 + 1] = g[1 .. 0] + two[0 + 1].w + 1
        /\ g[1 .. 1 + 1] = g[1 .. 1] + two[1 + 1].w + 1
    BY <2>1 DEF SumsUp
  <2> QED BY <1>1, <2>2, <2>3
<1> QED BY <1>2, <1>3 DEF one, two

(* Labels side by side from the left. *)
LabelAt(z, k) == z.x = 3 * k - 2 /\ z.w = 2
Labels == {zones \in Seq([x : Int, w : Int, type : {"workspace"}, data : Int]) :
             \A k \in 1 .. Len(zones) : LabelAt(zones[k], k)}

(* The numbers of the workspaces shown are such labels. *)
LEMMA LeftZonesStand ==
  ASSUME Constants, NEW shown
  PROVE  LeftZones(shown) \in Labels
<1> DEFINE n == Spaces
           sq == [i \in 1 .. n |-> i - 1]
           put(zones, i) == Append(zones, Zone(EdgePad + Len(zones) * (Label + SpaceGap),
                                               Label, "workspace", i))
           step == [i \in 1 .. n |-> [v \in Labels |->
                      IF sq[i] \notin shown THEN v ELSE put(v, sq[i])]]
           base == <<>>
           eq(g) == g = [s \in SUBSET (1 .. n) |->
                     IF s = {} THEN <<>>
                     ELSE IF sq[Max(s)] \notin shown THEN g[s \ {Max(s)}]
                          ELSE put(g[s \ {Max(s)}], sq[Max(s)])]
           iter == CHOOSE g : eq(g)
<1>0. n \in Nat /\ DOMAIN sq = 1 .. n /\ \A i \in 1 .. n : sq[i] = i - 1
  BY DEF Constants
<1>1. LeftZones(shown) = iter[1 .. n]
  BY <1>0 DEF LeftZones, FoldLeft, MapThenFoldSet
<1>2. ASSUME NEW v \in Labels, NEW i \in Int
      PROVE  put(v, i) \in Labels
  <2> DEFINE T == [x : Int, w : Int, type : {"workspace"}, data : Int]
             z == Zone(EdgePad + Len(v) * (Label + SpaceGap), Label, "workspace", i)
  <2>1. v \in Seq(T) /\ Len(v) \in Nat /\ \A k \in 1 .. Len(v) : LabelAt(v[k], k)
    BY DEF Labels
  <2>2. z \in T /\ LabelAt(z, Len(v) + 1)
    BY <2>1 DEF Zone, EdgePad, Label, SpaceGap, LabelAt
  <2> HIDE DEF z, T
  <2>3. /\ Append(v, z) \in Seq(T) /\ Len(Append(v, z)) = Len(v) + 1
        /\ \A k \in 1 .. Len(v) : Append(v, z)[k] = v[k]
        /\ Append(v, z)[Len(v) + 1] = z
    BY <2>1, <2>2, AppendProperties
  <2>4. \A k \in 1 .. Len(v) + 1 : LabelAt(Append(v, z)[k], k)
    <3> TAKE k \in 1 .. Len(v) + 1
    <3>1. k \in 1 .. Len(v) \/ k = Len(v) + 1
      BY <2>1
    <3> QED BY <2>1, <2>2, <2>3, <3>1
  <2>5. Append(v, z) \in Labels
    BY <2>3, <2>4 DEF Labels, T
  <2> QED BY <2>5 DEF z
<1> HIDE DEF put
<1>3. /\ \A i \in 1 .. n : \A v \in Labels :
            step[i][v] = IF sq[i] \notin shown THEN v ELSE put(v, sq[i])
      /\ base = <<>>
  OBVIOUS
<1>4. \A i \in 1 .. n : \A v \in Labels : step[i][v] \in Labels
  BY <1>0, <1>2, <1>3
<1>5. base \in Labels
  <2>1. <<>> \in Seq([x : Int, w : Int, type : {"workspace"}, data : Int]) /\ Len(<<>>) = 0
    OBVIOUS
  <2> QED BY <2>1 DEF Labels
<1> HIDE DEF step, base, sq, n
<1>6. PICK f \in [SUBSET (1 .. n) -> Labels] : Folds(f, n, base, step)
  BY <1>0, <1>4, <1>5, FoldExists
<1>7. \A s \in SUBSET (1 .. n) :
        f[s] = IF s = {} THEN <<>>
               ELSE IF sq[Max(s)] \notin shown THEN f[s \ {Max(s)}]
                    ELSE put(f[s \ {Max(s)}], sq[Max(s)])
  <2> TAKE s \in SUBSET (1 .. n)
  <2>1. CASE s = {}
    BY <1>3, <1>6, <2>1 DEF Folds
  <2>2. CASE s # {}
    <3>1. Max(s) \in 1 .. n /\ s \ {Max(s)} \in SUBSET (1 .. n)
      BY <1>0, <2>2, MaxIs
    <3>2. f[s] = step[Max(s)][f[s \ {Max(s)}]]
      BY <1>6, <2>2 DEF Folds
    <3> QED BY <1>3, <2>2, <3>1, <3>2
  <2> QED BY <2>1, <2>2
<1>8. eq(f)
  BY <1>7
<1>9. eq(iter)
  BY <1>8
<1> HIDE DEF iter
<1>10. \A s \in SUBSET (1 .. n) :
         iter[s] = IF s = {} THEN <<>>
                   ELSE IF sq[Max(s)] \notin shown THEN iter[s \ {Max(s)}]
                        ELSE put(iter[s \ {Max(s)}], sq[Max(s)])
  BY <1>9
<1>11. iter[{}] = base
  BY <1>3, <1>10
<1>12. ASSUME NEW s \in (SUBSET (1 .. n)) \ {{}}, iter[s \ {Max(s)}] \in Labels
       PROVE  iter[s] = step[Max(s)][iter[s \ {Max(s)}]]
  <2>1. Max(s) \in 1 .. n
    BY <1>0, MaxIs
  <2> QED BY <1>3, <1>10, <1>12, <2>1
<1>13. \A k \in 0 .. n : iter[1 .. k] \in Labels
  BY <1>0, <1>4, <1>5, <1>11, <1>12, FoldPrefix
<1>14. n \in 0 .. n
  BY <1>0
<1> QED BY <1>1, <1>13, <1>14

(* The greater and the smaller of two numbers. *)
LEMMA OfTwo ==
  ASSUME NEW a \in Int, NEW b \in Int
  PROVE  /\ Max({a, b}) \in {a, b} /\ Max({a, b}) >= a /\ Max({a, b}) >= b
         /\ Min({a, b}) \in {a, b} /\ Min({a, b}) <= a /\ Min({a, b}) <= b
<1>1. \E x \in {a, b} : \A y \in {a, b} : x >= y
  <2>1. CASE a >= b
    BY <2>1
  <2>2. CASE ~ a >= b
    BY <2>2
  <2> QED BY <2>1, <2>2
<1>2. \E x \in {a, b} : \A y \in {a, b} : x <= y
  <2>1. CASE a <= b
    BY <2>1
  <2>2. CASE ~ a <= b
    BY <2>2
  <2> QED BY <2>1, <2>2
<1>3. Max({a, b}) \in {a, b} /\ \A y \in {a, b} : Max({a, b}) >= y
  BY <1>1 DEF Max
<1>4. Min({a, b}) \in {a, b} /\ \A y \in {a, b} : Min({a, b}) <= y
  BY <1>2 DEF Min
<1> QED BY <1>3, <1>4

(* The centre keeps clear of the left, and the right block of the centre;  *)
(* both are on the screen if there is room.                                *)
LEMMA CentreFits ==
  ASSUME NEW width \in Nat, NEW n \in Nat, NEW right \in Nat
  PROVE  LET cx2 == Centre2(width, n * (Label + SpaceGap), right)
             edge == RightEdge(width, cx2, right)
         IN /\ cx2 \in Int /\ edge \in Int
            /\ cx2 \div 2 >= 3 * n + 1
            /\ edge - right >= cx2 \div 2 + 5
            /\ 3 * n + right + 9 <= width => edge <= width
<1> DEFINE left == n * (Label + SpaceGap)
           min_pos == EdgePad + left + (IF left > 0 THEN BlockGap ELSE 0)
           max_pos == width - EdgePad - right - BlockGap
           a == width
           b == 2 * max_pos - CentreWidth
           m == Min({a, b})
           c == m - CentreWidth
           d == 2 * min_pos
           cx2 == Max({c, d})
           e == 2 * (width - EdgePad - right)
           f == cx2 + 2 * (CentreWidth + BlockGap)
           M == Max({e, f})
           edge == M \div 2 + right
<1>1. left = 3 * n
  BY DEF Label, SpaceGap
<1>2. /\ min_pos \in Int /\ min_pos >= 3 * n + 1 /\ min_pos <= 3 * n + 3
  BY <1>1 DEF EdgePad, BlockGap
<1>3. max_pos = width - right - 3 /\ a \in Int /\ b \in Int /\ b = 2 * max_pos - 3
  BY DEF EdgePad, BlockGap, CentreWidth
<1>4. cx2 = Centre2(width, left, right) /\ edge = RightEdge(width, cx2, right)
  BY DEF Centre2, RightEdge
<1> HIDE DEF a, b
<1>5. m \in Int /\ m <= b
  <2>1. m \in {a, b} /\ m <= b
    BY <1>3, OfTwo
  <2> HIDE DEF m
  <2> QED BY <1>3, <2>1
<1> HIDE DEF m, left, min_pos, max_pos
<1>6. c \in Int /\ d \in Int /\ c = m - 3 /\ d = 2 * min_pos
  BY <1>2, <1>5 DEF CentreWidth
<1> HIDE DEF c, d
<1>7. cx2 \in {c, d} /\ cx2 >= d
  BY <1>6, OfTwo
<1> HIDE DEF cx2
<1>8. cx2 \in Int /\ cx2 >= 2 * (3 * n + 1)
  BY <1>2, <1>6, <1>7
<1>9. e \in Int /\ f \in Int /\ e = 2 * (width - 1 - right) /\ f = cx2 + 10
  BY <1>8 DEF EdgePad, CentreWidth, BlockGap
<1> HIDE DEF e, f
<1>10. M \in {e, f} /\ M >= f
  BY <1>9, OfTwo
<1> HIDE DEF M
<1>11. M \in Int
  BY <1>9, <1>10
<1>12. cx2 \div 2 >= 3 * n + 1
  BY <1>8
<1>13. M \div 2 >= cx2 \div 2 + 5
  BY <1>8, <1>9, <1>10, <1>11
<1>14. ASSUME 3 * n + right + 9 <= width
       PROVE  edge <= width
  <2>1. cx2 <= 2 * (width - right - 5)
    BY <1>2, <1>3, <1>5, <1>6, <1>7, <1>14
  <2>2. M <= 2 * (width - right)
    BY <1>8, <1>9, <1>10, <2>1
  <2> QED BY <1>11, <2>2
<1>15. edge \in Int /\ edge - right = M \div 2
  BY <1>11
<1> HIDE DEF edge
<1>16. edge - right >= cx2 \div 2 + 5
  BY <1>13, <1>15
<1> QED BY <1>4, <1>8, <1>12, <1>14, <1>15, <1>16 DEF left

(* The place and the extent of an item. *)
Stands(z, x, w) == z.x = x /\ z.w = w

(* The right block ends at its edge. *)
LEMMA RightZonesStand ==
  ASSUME NEW detailed \in BOOLEAN, NEW edge \in Int
  PROVE  LET items == RightItems(detailed)
             zones == RightZones(items, edge)
             w == IF detailed THEN 3 ELSE 1
         IN /\ Extent(items) = w + 4
            /\ zones \in Seq({zones[1], zones[2]}) /\ Len(zones) = 2
            /\ Stands(zones[1], edge - 2, 2)
            /\ Stands(zones[2], edge - w - 3, w)
<1> DEFINE w == IF detailed THEN 3 ELSE 1
           net == [type |-> "network", w |-> 2]
           mem == [type |-> "ram", w |-> w]
           items == <<net, mem>>
           zones == RightZones(items, edge)
<1>1. RightItems(detailed) = items
  BY DEF RightItems
<1>2. w \in Int /\ net.w = 2 /\ mem.w = w
  OBVIOUS
<1> HIDE DEF w, net, mem
<1>3. Extent(<<net>>) = 3 /\ Extent(items) = w + 4
  BY <1>2, ExtentIs
<1>4. SubSeq(items, 1, 1) = <<net>> /\ SubSeq(items, 1, 2) = items
  <2> DEFINE T == {net, mem}
             u == 1
             one == SubSeq(items, u, u)
             a == <<net>>
  <2>1. items \in Seq(T) /\ Len(items) = 2 /\ items[1] = net
    OBVIOUS
  <2>2. a \in Seq(T) /\ Len(a) = 1 /\ a[1] = net
    OBVIOUS
  <2> HIDE DEF T, items, a
  <2>3. SubSeq(items, 1, 2) = items
    BY <2>1, SubSeqFull
  <2>6. u \in Int /\ u = 1 /\ u <= u /\ (u - u) + 1 = 1 /\ (u + 1) - 1 = 1
    OBVIOUS
  <2>7. \A i \in u .. u : items[i] \in T
    BY <2>1 DEF T
  <2> HIDE DEF u
  <2>4. one \in Seq(T) /\ Len(one) = 1 /\ one[1] = net
    <3>1. /\ one \in Seq(T) /\ Len(one) = IF u <= u THEN (u - u) + 1 ELSE 0
          /\ \A i \in 1 .. (u - u) + 1 : one[i] = items[(u + i) - 1]
      BY <2>6, <2>7, SubSeqProperties
    <3>2. 1 \in 1 .. (u - u) + 1
      BY <2>6
    <3> QED BY <2>1, <2>6, <3>1, <3>2
  <2> HIDE DEF one
  <2>5. one = a
    BY <2>2, <2>4, SeqEqual
  <2> QED BY <2>3, <2>5, <2>6 DEF one, a
<1>5. DOMAIN items = {1, 2} /\ items[1] = net /\ items[2] = mem
  OBVIOUS
<1> HIDE DEF items
<1>6. /\ DOMAIN zones = {1, 2}
      /\ \A k \in {1, 2} :
           zones[k] = Zone(edge - Extent(SubSeq(items, 1, k)) + ItemGap, items[k].w,
                           items[k].type, None)
  BY <1>5 DEF RightZones
<1>7. /\ zones[1] = Zone(edge - 3 + ItemGap, 2, net.type, None)
      /\ zones[2] = Zone(edge - (w + 4) + ItemGap, w, mem.type, None)
  BY <1>2, <1>3, <1>4, <1>5, <1>6
<1>8. Stands(zones[1], edge - 2, 2) /\ Stands(zones[2], edge - w - 3, w)
  BY <1>2, <1>7 DEF Stands, Zone, ItemGap
<1>9. zones \in [1 .. 2 -> {zones[1], zones[2]}]
  <2>1. zones = [k \in {1, 2} |-> zones[k]]
    BY <1>5 DEF RightZones
  <2>2. 1 .. 2 = {1, 2}
    OBVIOUS
  <2> HIDE DEF zones
  <2> QED BY <2>1, <2>2
<1>10. zones \in Seq({zones[1], zones[2]}) /\ Len(zones) = 2
  <2> HIDE DEF zones
  <2> QED BY <1>9
<1> QED BY <1>1, <1>3, <1>8, <1>10 DEF w

(* No picture has two items in one place, or one beyond a screen that has  *)
(* room for all.                                                           *)
LEMMA PicturesApart ==
  ASSUME Constants, NEW picture, picture.width \in Widths,
         picture.ram_detailed \in BOOLEAN
  PROVE  ItemsApart(picture)
<1> DEFINE left == LeftZones(picture.shown)
           n == Len(left)
           w == IF picture.ram_detailed THEN 3 ELSE 1
           items == RightItems(picture.ram_detailed)
           right == Extent(items) - ItemGap
           cx2 == Centre2(picture.width, n * (Label + SpaceGap), right)
           edge == RightEdge(picture.width, cx2, right)
           time == Zone(cx2 \div 2, CentreWidth, "time", None)
           rest == RightZones(items, edge)
           zones == left \o <<time>> \o rest
           taken == EdgePad + n * (Label + SpaceGap) + BlockGap
                    + CentreWidth + BlockGap + Extent(items)
<1>1. picture.width \in Nat
  BY DEF Constants
<1>2. left \in Labels
  BY LeftZonesStand
<1>3. zones = Zones(picture)
  BY DEF Zones
<1> DEFINE T == [x : Int, w : Int, type : {"workspace"}, data : Int]
<1>4. left \in Seq(T) /\ \A k \in 1 .. n : LabelAt(left[k], k)
  BY <1>2 DEF Labels
<1>5. n \in Nat
  <2> HIDE DEF left, T
  <2> QED BY <1>4
<1>6. w \in Int /\ w >= 1
  OBVIOUS
<1>7. Extent(items) = w + 4
  <2> DEFINE e == 0
  <2>1. e \in Int
    OBVIOUS
  <2> QED BY <2>1, RightZonesStand
<1> HIDE DEF w
<1>8. right = w + 3 /\ right \in Nat
  BY <1>6, <1>7 DEF ItemGap
<1>9. taken = 3 * n + right + 9
  BY <1>5, <1>6, <1>7, <1>8 DEF EdgePad, Label, SpaceGap, BlockGap, CentreWidth
<1> HIDE DEF right, n, items
<1>10. /\ cx2 \in Int /\ edge \in Int
       /\ cx2 \div 2 >= 3 * n + 1
       /\ edge - right >= cx2 \div 2 + 5
       /\ 3 * n + right + 9 <= picture.width => edge <= picture.width
  BY <1>1, <1>5, <1>8, CentreFits
<1> HIDE DEF cx2, edge
<1>11. /\ rest \in Seq({rest[1], rest[2]}) /\ Len(rest) = 2
       /\ Stands(rest[1], edge - 2, 2) /\ Stands(rest[2], edge - w - 3, w)
  BY <1>10, RightZonesStand DEF w, items
<1>12. Stands(time, cx2 \div 2, 3)
  BY DEF Stands, Zone, CentreWidth
<1> HIDE DEF left, time, rest
<1>13. /\ Len(zones) = n + 3
       /\ DOMAIN zones = 1 .. n + 3
       /\ \A k \in 1 .. n : zones[k] = left[k]
       /\ zones[n + 1] = time /\ zones[n + 2] = rest[1] /\ zones[n + 3] = rest[2]
  <2> DEFINE U == T \cup {time, rest[1], rest[2]}
             middle == <<time>>
  <2>1. left \in Seq(U) /\ middle \in Seq(U) /\ Len(middle) = 1 /\ middle[1] = time
    <3>1. T \subseteq U
      OBVIOUS
    <3>2. left \in Seq(U)
      <4> HIDE DEF T, U
      <4> QED BY <1>4, <3>1, SeqMonotonic
    <3> QED BY <3>2
  <2>2. rest \in Seq(U)
    <3>1. {rest[1], rest[2]} \subseteq U
      OBVIOUS
    <3> HIDE DEF U
    <3> QED BY <1>11, <3>1, SeqMonotonic
  <2> HIDE DEF U, middle, T
  <2>3. /\ left \o middle \in Seq(U) /\ Len(left \o middle) = n + 1
        /\ \A i \in 1 .. n + 1 :
             (left \o middle)[i] = IF i <= n THEN left[i] ELSE middle[i - n]
    <3>1. Len(left) = n /\ Len(left) + Len(middle) = n + 1
      BY <2>1 DEF n
    <3>2. /\ left \o middle \in Seq(U) /\ Len(left \o middle) = Len(left) + Len(middle)
          /\ \A i \in 1 .. Len(left) + Len(middle) :
               (left \o middle)[i] = IF i <= Len(left) THEN left[i]
                                     ELSE middle[i - Len(left)]
      BY <2>1, ConcatProperties
    <3> QED BY <3>1, <3>2
  <2> DEFINE front == left \o middle
  <2> HIDE DEF front
  <2>4. /\ front \o rest \in Seq(U) /\ Len(front \o rest) = n + 3
        /\ \A i \in 1 .. n + 3 :
             (front \o rest)[i] = IF i <= n + 1 THEN front[i] ELSE rest[i - (n + 1)]
    <3>1. front \in Seq(U) /\ Len(front) = n + 1
      BY <2>3 DEF front
    <3>2. Len(front) + Len(rest) = n + 3
      BY <1>5, <1>11, <3>1
    <3>3. /\ front \o rest \in Seq(U) /\ Len(front \o rest) = Len(front) + Len(rest)
          /\ \A i \in 1 .. Len(front) + Len(rest) :
               (front \o rest)[i] = IF i <= Len(front) THEN front[i]
                                    ELSE rest[i - Len(front)]
      BY <2>2, <3>1, ConcatProperties
    <3> QED BY <3>1, <3>2, <3>3
  <2>5. zones = front \o rest
    BY DEF front, middle
  <2> HIDE DEF zones
  <2>6. Len(zones) = n + 3 /\ DOMAIN zones = 1 .. n + 3
    BY <2>4, <2>5, LenProperties
  <2>7. \A k \in 1 .. n : zones[k] = left[k]
    <3> TAKE k \in 1 .. n
    <3>1. k \in 1 .. n + 3 /\ k \in 1 .. n + 1 /\ k <= n /\ k <= n + 1
      BY <1>5
    <3> QED BY <2>3, <2>4, <2>5, <3>1 DEF front
  <2>8. zones[n + 1] = time
    <3>1. n + 1 \in 1 .. n + 3 /\ n + 1 \in 1 .. n + 1 /\ ~ n + 1 <= n /\ (n + 1) - n = 1
      BY <1>5
    <3> QED BY <2>1, <2>3, <2>4, <2>5, <3>1 DEF front
  <2>9. zones[n + 2] = rest[1] /\ zones[n + 3] = rest[2]
    <3>1. /\ n + 2 \in 1 .. n + 3 /\ ~ n + 2 <= n + 1 /\ (n + 2) - (n + 1) = 1
          /\ n + 3 \in 1 .. n + 3 /\ ~ n + 3 <= n + 1 /\ (n + 3) - (n + 1) = 2
      BY <1>5
    <3> QED BY <2>4, <2>5, <3>1
  <2> QED BY <2>6, <2>7, <2>8, <2>9
<1> HIDE DEF zones, T
<1> DEFINE X(i) == IF i <= n THEN 3 * i - 2
                   ELSE IF i = n + 1 THEN cx2 \div 2
                   ELSE IF i = n + 2 THEN edge - 2 ELSE edge - w - 3
           W(i) == IF i <= n THEN 2
                   ELSE IF i = n + 1 THEN 3
                   ELSE IF i = n + 2 THEN 2 ELSE w
<1>14. \A i \in 1 .. n + 3 : zones[i].x = X(i) /\ zones[i].w = W(i)
  <2> TAKE i \in 1 .. n + 3
  <2>1. CASE i <= n
    <3>1. i \in 1 .. n
      BY <1>5, <2>1
    <3>2. zones[i].x = 3 * i - 2 /\ zones[i].w = 2
      BY <1>4, <1>13, <3>1 DEF LabelAt
    <3> QED BY <2>1, <3>2
  <2>2. CASE i = n + 1
    BY <1>5, <1>12, <1>13, <2>2 DEF Stands
  <2>3. CASE i = n + 2
    BY <1>5, <1>11, <1>13, <2>3 DEF Stands
  <2>4. CASE i = n + 3
    BY <1>5, <1>11, <1>13, <2>4 DEF Stands
  <2> QED BY <1>5, <2>1, <2>2, <2>3, <2>4
<1>15. \A i, j \in 1 .. n + 3 : i # j => X(i) + W(i) <= X(j) \/ X(j) + W(j) <= X(i)
  <2> SUFFICES ASSUME NEW i \in 1 .. n + 3, NEW j \in 1 .. n + 3, i < j
               PROVE  X(i) + W(i) <= X(j) \/ X(j) + W(j) <= X(i)
    <3> HIDE DEF X, W
    <3>1. \A i, j \in 1 .. n + 3 : i # j => i < j \/ j < i
      BY <1>5
    <3> QED BY <3>1
  <2>1. CASE j <= n
    BY <1>5, <2>1
  <2>2. CASE j > n /\ i <= n
    BY <1>5, <1>6, <1>8, <1>10, <2>2
  <2>3. CASE i > n
    BY <1>5, <1>6, <1>8, <1>10, <2>3
  <2> QED BY <1>5, <2>1, <2>2, <2>3
<1>16. ASSUME taken <= picture.width
       PROVE  \A i \in 1 .. n + 3 : X(i) + W(i) <= picture.width
  <2>1. edge <= picture.width
    BY <1>9, <1>10, <1>16
  <2> TAKE i \in 1 .. n + 3
  <2>2. CASE i <= n
    BY <1>1, <1>5, <1>6, <1>8, <1>10, <2>1, <2>2
  <2>3. CASE i > n
    BY <1>1, <1>5, <1>6, <1>8, <1>10, <2>1, <2>3
  <2> QED BY <1>5, <2>2, <2>3
<1> HIDE DEF X, W, taken
<1>17. /\ \A i, j \in DOMAIN zones :
            i # j => \/ zones[i].x + zones[i].w <= zones[j].x
                     \/ zones[j].x + zones[j].w <= zones[i].x
       /\ taken <= picture.width =>
            \A i \in DOMAIN zones : zones[i].x + zones[i].w <= picture.width
  BY <1>13, <1>14, <1>15, <1>16
<1> QED BY <1>3, <1>17 DEF ItemsApart, taken, n, left, items

----------------------------------------------------------------------------
(* The invariant. *)

Events == {Done} \cup [id : Space, active : BOOLEAN, occupied : BOOLEAN]
Pictures == [active : SUBSET Space, shown : SUBSET Space, ram_detailed : BOOLEAN,
             width : Widths]

Bars == [told : Told, wire : Seq(Events), active : SUBSET Space, occupied : SUBSET Space,
         ws_count : 0 .. Spaces, ws_batch_pending : BOOLEAN, need_redraw : BOOLEAN,
         configured : BOOLEAN, width : Widths, ram_detailed : BOOLEAN,
         frame_pending : BOOLEAN, busy : 0 .. Buffers, screen : Pictures \cup {None},
         open : BOOLEAN]

EventAt(told, i) ==
  IF i <= Spaces THEN Event(i - 1, told.active = i - 1, i - 1 \in told.occupied) ELSE Done

(* What is left of a batch when k of its events have been received. *)
Left(told, k) == [j \in 1 .. Spaces + 1 - k |-> EventAt(told, k + j)]

(* The bar has heard all that the compositor told, *)
Settled(b) ==
  /\ b.wire = <<>> /\ b.ws_batch_pending
  /\ b.active = {b.told.active} /\ b.occupied = b.told.occupied
  /\ b.active \cup b.occupied \subseteq 0 .. b.ws_count - 1

(* or the first k events of it.  With the one of the active workspace a     *)
(* frame has become due, or one was drawn since.                            *)
HeardTo(b, k) ==
  /\ IF k = 0 THEN b.ws_batch_pending \/ (b.active = {} /\ b.occupied = {})
     ELSE /\ ~ b.ws_batch_pending
          /\ b.active = {b.told.active} \cap 0 .. k - 1
          /\ b.occupied = b.told.occupied \cap 0 .. k - 1
  /\ k > b.told.active => b.need_redraw \/ b.open

Hearing(b, k) ==
  b.wire = Left(b.told, k) /\ (b.ws_batch_pending <=> k = 0) /\ HeardTo(b, k)

(* A picture of what was told, if nothing is left to be drawn. *)
Current(b) ==
  b.configured /\ b.wire = <<>> /\ ~ b.need_redraw /\ ~ b.open =>
    b.screen = Picture({b.told.active}, b.told.occupied \cup {b.told.active}, b)

Follows(b) ==
  /\ b \in Bars /\ Current(b)
  /\ Settled(b) \/ \E k \in 0 .. Spaces : Hearing(b, k)

(* What of the bar an event leaves as it was. *)
SameScreen(r, b) ==
  /\ r.told = b.told /\ r.wire = b.wire /\ r.configured = b.configured /\ r.width = b.width
  /\ r.ram_detailed = b.ram_detailed /\ r.frame_pending = b.frame_pending
  /\ r.busy = b.busy /\ r.screen = b.screen /\ r.open = b.open

(* The workspaces have a last one. *)
LEMMA CountExists ==
  ASSUME Constants, NEW S \in SUBSET Space
  PROVE  \E n \in 0 .. Spaces : S \subseteq 0 .. n - 1 /\ (n = 0 \/ n - 1 \in S)
<1> DEFINE N == {n \in 0 .. Spaces : S \subseteq 0 .. n - 1}
<1>0. Spaces \in Nat
  BY DEF Constants
<1>1. N \in SUBSET Nat /\ Spaces \in N
  BY <1>0 DEF Space
<1>2. PICK n \in N : \A m \in N : n <= m
  <2>1. N # {}
    BY <1>1
  <2> HIDE DEF N
  <2> QED BY <1>1, <2>1, LeastNumber
<1>3. ASSUME n # 0
      PROVE  n - 1 \in S
  <2> SUFFICES ASSUME n - 1 \notin S PROVE FALSE
    OBVIOUS
  <2>1. \A i \in S : i \in 0 .. (n - 1) - 1
    <3> TAKE i \in S
    <3>1. i \in 0 .. n - 1 /\ i # n - 1 /\ n \in 0 .. Spaces
      BY <1>2
    <3> QED BY <1>0, <1>3, <3>1
  <2>2. n - 1 \in 0 .. Spaces
    BY <1>0, <1>2, <1>3
  <2>3. n - 1 \in N
    BY <2>1, <2>2
  <2>4. n <= n - 1
    BY <1>2, <2>3
  <2> QED BY <1>0, <1>2, <2>4
<1> QED BY <1>2, <1>3

(* The event of a workspace. *)
LEMMA WorkspaceHeard ==
  ASSUME Constants, NEW b \in Bars, NEW e \in [id : Space, active : BOOLEAN, occupied : BOOLEAN]
  PROVE  LET r == ws_workspace(b, e)
             active == IF b.ws_batch_pending THEN {} ELSE b.active
             occupied == IF b.ws_batch_pending THEN {} ELSE b.occupied
         IN /\ r \in Bars /\ SameScreen(r, b) /\ ~ r.ws_batch_pending
            /\ r.active = Put(active, e.id, e.active)
            /\ r.occupied = Put(occupied, e.id, e.occupied)
            /\ b.need_redraw => r.need_redraw
            /\ e.id \notin active /\ e.active => r.need_redraw
<1> DEFINE active == IF b.ws_batch_pending THEN {} ELSE b.active
           occupied == IF b.ws_batch_pending THEN {} ELSE b.occupied
           c == IF b.ws_batch_pending
                THEN [b EXCEPT !.active = {}, !.occupied = {}, !.ws_batch_pending = FALSE]
                ELSE b
           r == ws_workspace(b, e)
<1>1. /\ c \in Bars /\ SameScreen(c, b) /\ ~ c.ws_batch_pending
      /\ c.active = active /\ c.occupied = occupied /\ c.need_redraw = b.need_redraw
  <2>1. CASE b.ws_batch_pending
    BY <2>1 DEF Bars, SameScreen
  <2>2. CASE ~ b.ws_batch_pending
    BY <2>2 DEF SameScreen
  <2> QED BY <2>1, <2>2
<1>2. r = [c EXCEPT !.need_redraw = @ \/ (e.id \in c.active) # e.active
                                      \/ (e.id \in c.occupied) # e.occupied,
                    !.active = Put(@, e.id, e.active),
                    !.occupied = Put(@, e.id, e.occupied)]
  BY DEF ws_workspace
<1> HIDE DEF c, r
<1>3. Put(active, e.id, e.active) \in SUBSET Space
  BY <1>1 DEF Put, Bars
<1>4. Put(occupied, e.id, e.occupied) \in SUBSET Space
  BY <1>1 DEF Put, Bars
<1> HIDE DEF active, occupied
<1> DEFINE now == Put(active, e.id, e.active)
           then == Put(occupied, e.id, e.occupied)
           due == \/ c.need_redraw \/ (e.id \in c.active) # e.active
                  \/ (e.id \in c.occupied) # e.occupied
<1>5. due \in BOOLEAN
  OBVIOUS
<1>6. r = [c EXCEPT !.need_redraw = due, !.active = now, !.occupied = then]
  BY <1>1, <1>2
<1>7. c.need_redraw => due
  OBVIOUS
<1>8. e.id \notin active /\ e.active => due
  BY <1>1
<1> HIDE DEF now, then, due
<1>9. now \in SUBSET Space /\ then \in SUBSET Space
  BY <1>3, <1>4 DEF now, then
<1>10. r \in Bars /\ SameScreen(r, c) /\ r.ws_batch_pending = c.ws_batch_pending
       /\ r.active = now /\ r.occupied = then /\ r.need_redraw = due
  BY <1>1, <1>5, <1>6, <1>9 DEF Bars, SameScreen
<1> QED BY <1>1, <1>7, <1>8, <1>10 DEF r, active, occupied, now, then, SameScreen

(* The end of a batch. *)
LEMMA DoneHeard ==
  ASSUME Constants, NEW b \in Bars
  PROVE  LET r == ws_done(b)
         IN /\ r \in Bars /\ SameScreen(r, b) /\ r.ws_batch_pending
            /\ r.active = b.active /\ r.occupied = b.occupied
            /\ r.need_redraw = b.need_redraw
            /\ r.active \cup r.occupied \subseteq 0 .. r.ws_count - 1
<1> DEFINE S == b.active \cup b.occupied
           good(n) == S \subseteq 0 .. (n - 1) /\ (n = 0 \/ n - 1 \in S)
           n == CHOOSE m \in 0 .. Spaces : good(m)
           r == ws_done(b)
<1>1. S \in SUBSET Space
  BY DEF Bars
<1>2. \E m \in 0 .. Spaces : good(m)
  <2> HIDE DEF S
  <2> QED BY <1>1, CountExists
<1>3. n \in 0 .. Spaces /\ S \subseteq 0 .. (n - 1)
  BY <1>2
<1>4. r = [b EXCEPT !.ws_batch_pending = TRUE, !.ws_count = n]
  BY DEF ws_done
<1> HIDE DEF n, r
<1>5. /\ r \in Bars /\ SameScreen(r, b) /\ r.ws_batch_pending
      /\ r.active = b.active /\ r.occupied = b.occupied
      /\ r.need_redraw = b.need_redraw /\ r.ws_count = n
  BY <1>3, <1>4 DEF Bars, SameScreen
<1> QED BY <1>3, <1>5 DEF r

(* The events of a batch are told apart by their numbers. *)
LEMMA EventsAre ==
  ASSUME Constants, NEW told \in Told, NEW i \in 1 .. Spaces + 1
  PROVE  /\ EventAt(told, i) \in Events
         /\ i = Spaces + 1 => EventAt(told, i) = Done
         /\ i <= Spaces =>
              /\ EventAt(told, i) \in [id : Space, active : BOOLEAN, occupied : BOOLEAN]
              /\ EventAt(told, i) # Done /\ EventAt(told, i).id = i - 1
              /\ EventAt(told, i).active <=> told.active = i - 1
              /\ EventAt(told, i).occupied <=> i - 1 \in told.occupied
<1>0. Spaces \in Nat
  BY DEF Constants
<1>1. CASE i = Spaces + 1
  BY <1>0, <1>1 DEF EventAt, Events
<1>2. CASE i <= Spaces
  <2> DEFINE a == told.active = i - 1
             o == i - 1 \in told.occupied
             e == Event(i - 1, a, o)
  <2>1. EventAt(told, i) = e
    BY <1>2 DEF EventAt
  <2>2. i - 1 \in Space /\ i - 1 \in Int
    BY <1>0, <1>2 DEF Space
  <2>3. a \in BOOLEAN /\ o \in BOOLEAN
    OBVIOUS
  <2> HIDE DEF a, o
  <2>4. /\ e \in [id : Space, active : BOOLEAN, occupied : BOOLEAN]
        /\ e.id = i - 1 /\ e.active = a /\ e.occupied = o
    BY <2>2, <2>3 DEF Event
  <2>5. Done.id = None
    BY DEF Done, Event
  <2>6. e # Done
    BY <2>2, <2>4, <2>5 DEF Constants
  <2>7. i # Spaces + 1
    BY <1>0, <1>2
  <2> HIDE DEF e
  <2> QED BY <2>1, <2>4, <2>6, <2>7 DEF Events, a, o
<1> QED BY <1>0, <1>1, <1>2

(* One event more. *)
LEMMA HeardNext ==
  ASSUME Constants, NEW b \in Bars, NEW k \in 0 .. Spaces, HeardTo(b, k)
  PROVE  LET r == Heard(b, EventAt(b.told, k + 1))
         IN /\ r \in Bars /\ SameScreen(r, b)
            /\ k < Spaces => HeardTo(r, k + 1)
            /\ k = Spaces => /\ r.need_redraw \/ r.open
                             /\ r.ws_batch_pending
                             /\ r.active = {r.told.active} /\ r.occupied = r.told.occupied
                             /\ r.active \cup r.occupied \subseteq 0 .. r.ws_count - 1
<1> DEFINE e == EventAt(b.told, k + 1)
           r == Heard(b, e)
           told == b.told
<1>0. Spaces \in Nat
  BY DEF Constants
<1>1. told \in Told
  BY DEF Bars
<1>2. k + 1 \in 1 .. Spaces + 1 /\ (k + 1) - 1 = k
  BY <1>0
<1>3. told.active \in Space /\ told.occupied \in SUBSET Space /\ told.active \in Int
  BY <1>0, <1>1 DEF Told, Space
<1>4. CASE k = Spaces
  <2>1. e = Done
    BY <1>0, <1>1, <1>2, <1>4, EventsAre
  <2>2. r = ws_done(b)
    BY <2>1 DEF Heard
  <2> HIDE DEF r
  <2>3. /\ r \in Bars /\ SameScreen(r, b) /\ r.ws_batch_pending
        /\ r.active = b.active /\ r.occupied = b.occupied
        /\ r.need_redraw = b.need_redraw
        /\ r.active \cup r.occupied \subseteq 0 .. r.ws_count - 1
    BY <2>2, DoneHeard
  <2>4. k > told.active /\ k # 0
    BY <1>0, <1>3, <1>4 DEF Space
  <2>5. b.active = {told.active} /\ b.occupied = told.occupied
    <3>1. b.active = {told.active} \cap Space /\ b.occupied = told.occupied \cap Space
      BY <1>4, <2>4 DEF HeardTo, Space
    <3> QED BY <1>3, <3>1
  <2>6. b.need_redraw \/ b.open
    BY <2>4 DEF HeardTo
  <2>7. r.told = b.told /\ r.open = b.open
    BY <2>3 DEF SameScreen
  <2> HIDE DEF e
  <2>8. ~ k < Spaces
    BY <1>0, <1>4
  <2> QED BY <2>3, <2>5, <2>6, <2>7, <2>8 DEF r, e
<1>5. CASE k < Spaces
  <2>1. /\ e \in [id : Space, active : BOOLEAN, occupied : BOOLEAN]
        /\ e # Done /\ e.id = k
        /\ e.active <=> told.active = k
        /\ e.occupied <=> k \in told.occupied
    <3>1. k + 1 <= Spaces
      BY <1>0, <1>5
    <3> HIDE DEF told
    <3> QED BY <1>1, <1>2, <3>1, EventsAre DEF told
  <2>2. r = ws_workspace(b, e)
    BY <2>1 DEF Heard
  <2> DEFINE active == IF b.ws_batch_pending THEN {} ELSE b.active
             occupied == IF b.ws_batch_pending THEN {} ELSE b.occupied
  <2> HIDE DEF r, e
  <2>3. /\ r \in Bars /\ SameScreen(r, b) /\ ~ r.ws_batch_pending
        /\ r.active = Put(active, e.id, e.active)
        /\ r.occupied = Put(occupied, e.id, e.occupied)
        /\ b.need_redraw => r.need_redraw
        /\ e.id \notin active /\ e.active => r.need_redraw
    BY <2>1, <2>2, WorkspaceHeard
  <2>4. active = {told.active} \cap 0 .. k - 1 /\ occupied = told.occupied \cap 0 .. k - 1
    <3>1. CASE k = 0
      <4>1. 0 .. k - 1 = {}
        BY <3>1
      <4> QED BY <3>1, <4>1 DEF HeardTo
    <3>2. CASE k # 0
      BY <3>2 DEF HeardTo
    <3> QED BY <3>1, <3>2
  <2> HIDE DEF active, occupied
  <2>5. 0 .. k = (0 .. k - 1) \cup {k} /\ k \notin 0 .. k - 1
    BY <1>0
  <2>6. r.active = {told.active} \cap 0 .. k
    BY <2>1, <2>3, <2>4, <2>5 DEF Put
  <2>7. r.occupied = told.occupied \cap 0 .. k
    BY <2>1, <2>3, <2>4, <2>5 DEF Put
  <2>8. r.told = told /\ r.open = b.open
    BY <2>3 DEF SameScreen
  <2>9. k + 1 > told.active => r.need_redraw \/ r.open
    <3> SUFFICES ASSUME k + 1 > told.active PROVE r.need_redraw \/ r.open
      OBVIOUS
    <3>1. CASE k > told.active
      BY <2>3, <2>8, <3>1 DEF HeardTo
    <3>2. CASE k = told.active
      <4>1. e.id \notin active /\ e.active
        BY <2>1, <2>4, <2>5, <3>2
      <4> QED BY <2>3, <4>1
    <3> QED BY <1>0, <1>3, <3>1, <3>2
  <2>10. HeardTo(r, k + 1)
    <3>1. k + 1 # 0 /\ (k + 1) - 1 = k
      BY <1>0
    <3> QED BY <2>3, <2>6, <2>7, <2>8, <2>9, <3>1 DEF HeardTo
  <2>11. k # Spaces
    BY <1>0, <1>5
  <2> QED BY <2>3, <2>10, <2>11 DEF r, e
<1> QED BY <1>0, <1>4, <1>5

(* What is on the wire. *)
LEMMA LeftIs ==
  ASSUME Constants, NEW told \in Told, NEW k \in 0 .. Spaces
  PROVE  /\ Left(told, k) \in Seq(Events) /\ Left(told, k) # <<>>
         /\ Head(Left(told, k)) = EventAt(told, k + 1)
         /\ Tail(Left(told, k)) = IF k = Spaces THEN <<>> ELSE Left(told, k + 1)
<1> DEFINE l == Left(told, k)
           n == Spaces + 1 - k
           t == Left(told, k + 1)
<1>1. Spaces \in Nat /\ n \in Nat /\ n >= 1 /\ n - 1 = Spaces + 1 - (k + 1)
  BY DEF Constants
<1>2. l = [j \in 1 .. n |-> EventAt(told, k + j)] /\ t = [j \in 1 .. n - 1 |-> EventAt(told, k + 1 + j)]
  BY <1>1 DEF Left
<1>3. \A j \in 1 .. n : k + j \in 1 .. Spaces + 1
  BY <1>1
<1> HIDE DEF l, n, t
<1>4. \A j \in 1 .. n : EventAt(told, k + j) \in Events
  BY <1>3, EventsAre
<1>5. l \in Seq(Events) /\ Len(l) = n /\ \A j \in 1 .. n : l[j] = EventAt(told, k + j)
  BY <1>1, <1>2, <1>4
<1>6. l # <<>> /\ Head(l) = EventAt(told, k + 1)
  BY <1>1, <1>5
<1>7. \A j \in 1 .. n - 1 : j + 1 \in 1 .. n /\ k + 1 + j = k + (j + 1)
  BY <1>1
<1>8. t \in Seq(Events) /\ Len(t) = n - 1 /\ \A j \in 1 .. n - 1 : t[j] = EventAt(told, k + (j + 1))
  <2>1. n - 1 \in Nat
    BY <1>1
  <2>2. \A j \in 1 .. n - 1 : EventAt(told, k + 1 + j) \in Events
    BY <1>4, <1>7
  <2>3. t \in [1 .. n - 1 -> Events]
    BY <1>2, <2>2
  <2>4. t \in Seq(Events) /\ Len(t) = n - 1
    BY <2>1, <2>3
  <2>5. \A j \in 1 .. n - 1 : t[j] = EventAt(told, k + 1 + j)
    BY <1>2
  <2> QED BY <1>7, <2>4, <2>5
<1>9. /\ Tail(l) \in Seq(Events) /\ Len(Tail(l)) = n - 1
      /\ \A j \in 1 .. n - 1 : Tail(l)[j] = l[j + 1]
  BY <1>5, <1>6, HeadTailProperties
<1>10. Tail(l) = t
  <2>1. \A j \in 1 .. Len(t) : t[j] = Tail(l)[j]
    BY <1>5, <1>7, <1>8, <1>9
  <2>2. Len(t) = Len(Tail(l))
    BY <1>8, <1>9
  <2> QED BY <1>8, <1>9, <2>1, <2>2, SeqEqual
<1>11. ASSUME k = Spaces
       PROVE  Tail(l) = <<>>
  <2>1. Len(Tail(l)) = 0
    BY <1>1, <1>9, <1>11 DEF n
  <2> QED BY <1>9, <2>1, EmptySeq
<1> QED BY <1>5, <1>6, <1>10, <1>11 DEF l, t

(* A batch is sent whole. *)
LEMMA BatchIs ==
  ASSUME Constants, NEW told \in Told
  PROVE  Batch(told) = Left(told, 0) /\ <<>> \o Batch(told) = Left(told, 0)
<1> DEFINE f == [i \in 1 .. Spaces |-> Event(i - 1, told.active = i - 1, i - 1 \in told.occupied)]
           d == <<Done>>
           k == 0
           l == Left(told, k)
<1>1. Spaces \in Nat /\ k \in 0 .. Spaces
  BY DEF Constants
<1>2. \A i \in 1 .. Spaces : f[i] = EventAt(told, i) /\ f[i] \in Events
  <2> TAKE i \in 1 .. Spaces
  <2>1. i \in 1 .. Spaces + 1 /\ i <= Spaces
    BY <1>1
  <2>2. f[i] = EventAt(told, i)
    BY <2>1 DEF EventAt
  <2> HIDE DEF f
  <2> QED BY <2>1, <2>2, EventsAre
<1>3. f \in Seq(Events) /\ Len(f) = Spaces
  <2>1. f = [i \in 1 .. Spaces |-> f[i]]
    OBVIOUS
  <2> HIDE DEF f
  <2> QED BY <1>1, <1>2, <2>1
<1>4. d \in Seq(Events) /\ Len(d) = 1 /\ d[1] = Done
  BY DEF Events
<1>5. Batch(told) = f \o d
  BY DEF Batch
<1>6. /\ l = [j \in 1 .. Spaces + 1 - k |-> EventAt(told, k + j)]
      /\ Spaces + 1 - k = Spaces + 1 /\ \A j \in Int : k + j = j
  BY <1>1 DEF Left
<1> HIDE DEF f, d, l, k
<1>7. l \in Seq(Events) /\ l = Left(told, k)
  BY <1>1, LeftIs DEF l
<1>8. Len(l) = Spaces + 1 /\ \A j \in 1 .. Spaces + 1 : l[j] = EventAt(told, j)
  BY <1>1, <1>6, <1>7
<1>9. /\ f \o d \in Seq(Events) /\ Len(f \o d) = Spaces + 1
      /\ \A i \in 1 .. Spaces + 1 : (f \o d)[i] = IF i <= Spaces THEN f[i] ELSE d[i - Spaces]
  <2>1. /\ f \o d \in Seq(Events) /\ Len(f \o d) = Len(f) + Len(d)
        /\ \A i \in 1 .. Len(f) + Len(d) : (f \o d)[i] = IF i <= Len(f) THEN f[i] ELSE d[i - Len(f)]
    BY <1>3, <1>4, ConcatProperties
  <2> QED BY <1>3, <1>4, <2>1
<1>10. \A i \in 1 .. Spaces + 1 : (f \o d)[i] = EventAt(told, i)
  <2> TAKE i \in 1 .. Spaces + 1
  <2>1. CASE i <= Spaces
    BY <1>1, <1>2, <1>9, <2>1
  <2>2. CASE i = Spaces + 1
    <3>1. i - Spaces = 1 /\ ~ i <= Spaces
      BY <1>1, <2>2
    <3>2. EventAt(told, i) = Done
      BY <2>2, EventsAre
    <3> QED BY <1>4, <1>9, <3>1, <3>2
  <2>3. i <= Spaces \/ i = Spaces + 1
    BY <1>1
  <2> QED BY <2>1, <2>2, <2>3
<1>11. f \o d = l
  BY <1>7, <1>8, <1>9, <1>10, SeqEqual
<1>12. <<>> \o l = l
  BY <1>7, ConcatEmptySeq
<1> QED BY <1>5, <1>7, <1>11, <1>12 DEF k

(* Events heard one after the other, from a bar that knows of no workspace. *)
LEMMA BatchHeard ==
  ASSUME Constants, NEW b \in Bars, b.active = {}, b.occupied = {}, b.wire = <<>>,
         ~ b.configured
  PROVE  LET r == FoldLeft(Heard, b, Batch(b.told))
         IN r \in Bars /\ Settled(r) /\ ~ r.configured
<1> DEFINE told == b.told
           n == Spaces + 1
           sq == Batch(told)
           step == [i \in 1 .. n |-> [v \in Bars |-> Heard(v, sq[i])]]
           eq(g) == g = [s \in SUBSET (1 .. n) |->
                     IF s = {} THEN b ELSE Heard(g[s \ {Max(s)}], sq[Max(s)])]
           iter == CHOOSE g : eq(g)
<1>0. Spaces \in Nat /\ n \in Nat /\ told \in Told
  BY DEF Constants, Bars
<1>1. DOMAIN sq = 1 .. n /\ \A i \in 1 .. n : sq[i] = EventAt(told, i)
  <2>1. sq = Left(told, 0)
    BY <1>0, BatchIs
  <2>2. Spaces + 1 - 0 = n /\ \A i \in 1 .. n : 0 + i = i
    BY <1>0
  <2> HIDE DEF sq, n
  <2> QED BY <2>1, <2>2 DEF Left
<1>2. FoldLeft(Heard, b, Batch(b.told)) = iter[1 .. n]
  BY <1>1 DEF FoldLeft, MapThenFoldSet
<1> HIDE DEF sq, n, told
<1>3. \A i \in 1 .. n : \A v \in Bars : step[i][v] = Heard(v, sq[i])
  OBVIOUS
<1> HIDE DEF step
<1>4. ASSUME NEW v \in Bars, NEW e \in Events
      PROVE  Heard(v, e) \in Bars /\ SameScreen(Heard(v, e), v)
  <2>1. CASE e = Done
    BY <2>1, DoneHeard DEF Heard
  <2>2. CASE e # Done
    <3>1. e \in [id : Space, active : BOOLEAN, occupied : BOOLEAN]
      BY <2>2 DEF Events
    <3> QED BY <2>2, <3>1, WorkspaceHeard DEF Heard
  <2> QED BY <2>1, <2>2
<1>5. \A i \in 1 .. n : sq[i] \in Events
  BY <1>0, <1>1, EventsAre DEF n
<1>6. \A i \in 1 .. n : \A v \in Bars : step[i][v] \in Bars
  BY <1>3, <1>4, <1>5
<1>7. PICK f \in [SUBSET (1 .. n) -> Bars] : Folds(f, n, b, step)
  BY <1>0, <1>6, FoldExists
<1>8. \A s \in SUBSET (1 .. n) : f[s] = IF s = {} THEN b ELSE Heard(f[s \ {Max(s)}], sq[Max(s)])
  <2> TAKE s \in SUBSET (1 .. n)
  <2>1. CASE s = {}
    BY <1>7, <2>1 DEF Folds
  <2>2. CASE s # {}
    <3>1. Max(s) \in 1 .. n /\ s \ {Max(s)} \in SUBSET (1 .. n)
      BY <1>0, <2>2, MaxIs
    <3>2. f[s] = step[Max(s)][f[s \ {Max(s)}]]
      BY <1>7, <2>2 DEF Folds
    <3> QED BY <1>3, <2>2, <3>1, <3>2
  <2> QED BY <2>1, <2>2
<1>9. eq(f)
  BY <1>8
<1>10. eq(iter)
  BY <1>9
<1> HIDE DEF iter
<1>11. \A s \in SUBSET (1 .. n) :
         iter[s] = IF s = {} THEN b ELSE Heard(iter[s \ {Max(s)}], sq[Max(s)])
  BY <1>10
<1>12. iter[{}] = b
  BY <1>11
<1>13. ASSUME NEW s \in (SUBSET (1 .. n)) \ {{}}, iter[s \ {Max(s)}] \in Bars
       PROVE  iter[s] = step[Max(s)][iter[s \ {Max(s)}]]
  <2>1. Max(s) \in 1 .. n
    BY <1>0, MaxIs
  <2> QED BY <1>3, <1>11, <1>13, <2>1
<1> DEFINE bars == Bars
<1> HIDE DEF bars
<1>14. (\A k \in 0 .. n : iter[1 .. k] \in bars) /\ Climbs(iter, n, step)
  <2>1. \A s \in (SUBSET (1 .. n)) \ {{}} :
          iter[s \ {Max(s)}] \in bars => iter[s] = step[Max(s)][iter[s \ {Max(s)}]]
    BY <1>13 DEF bars
  <2>2. b \in bars /\ \A i \in 1 .. n : \A v \in bars : step[i][v] \in bars
    BY <1>6 DEF bars
  <2>3. \A k \in 0 .. n : iter[1 .. k] \in bars
    BY <1>0, <1>12, <2>1, <2>2, FoldPrefix
  <2>4. Climbs(iter, n, step)
    BY <1>0, <1>12, <2>1, <2>2, FoldPrefix
  <2> QED BY <2>3, <2>4
<1>15. \A k \in 0 .. n - 1 :
         iter[1 .. k] \in Bars /\ iter[1 .. k + 1] = Heard(iter[1 .. k], EventAt(told, k + 1))
  <2> TAKE k \in 0 .. n - 1
  <2>1. k \in 0 .. n /\ k + 1 \in 1 .. n
    BY <1>0
  <2> QED BY <1>1, <1>3, <1>14, <2>1 DEF Climbs, bars
<1> DEFINE ok(k) == HeardTo(iter[1 .. k], k) /\ SameScreen(iter[1 .. k], b)
           N == {k \in Nat : k <= Spaces => ok(k)}
<1>16. 0 \in N
  <2>1. 1 .. 0 = {}
    OBVIOUS
  <2>2. ~ 0 > b.told.active
    BY <1>0 DEF told, Told, Space
  <2>3. HeardTo(b, 0)
    BY <2>2 DEF HeardTo
  <2>4. SameScreen(b, b)
    BY DEF SameScreen
  <2> QED BY <1>12, <2>1, <2>3, <2>4
<1>17. ASSUME NEW k \in 0 .. Spaces, ok(k)
       PROVE  /\ iter[1 .. k + 1] = Heard(iter[1 .. k], EventAt(iter[1 .. k].told, k + 1))
              /\ iter[1 .. k] \in Bars /\ HeardTo(iter[1 .. k], k)
  <2>1. k \in 0 .. n - 1
    BY <1>0 DEF n
  <2>2. iter[1 .. k].told = told
    BY <1>17 DEF SameScreen, told
  <2> QED BY <1>15, <1>17, <2>1, <2>2
<1>18. \A k \in N \cap Nat : k + 1 \in N
  <2> SUFFICES ASSUME NEW k \in N \cap Nat, k + 1 <= Spaces PROVE ok(k + 1)
    OBVIOUS
  <2>1. k \in 0 .. Spaces /\ k < Spaces
    BY <1>0
  <2>2. ok(k)
    BY <1>0, <2>1
  <2> DEFINE c == iter[1 .. k]
  <2>3. /\ iter[1 .. k + 1] = Heard(c, EventAt(c.told, k + 1))
        /\ c \in Bars /\ HeardTo(c, k) /\ SameScreen(c, b)
    BY <1>17, <2>1, <2>2
  <2> HIDE DEF c, N
  <2>4. HeardTo(iter[1 .. k + 1], k + 1) /\ SameScreen(iter[1 .. k + 1], c)
    BY <2>1, <2>3, HeardNext
  <2>5. SameScreen(iter[1 .. k + 1], b)
    BY <2>3, <2>4 DEF SameScreen
  <2> QED BY <2>4, <2>5
<1>19. ok(Spaces)
  <2> HIDE DEF N, ok
  <2>1. Nat \subseteq N
    BY <1>16, <1>18, Induction
  <2>2. Spaces \in N /\ Spaces <= Spaces
    BY <1>0, <2>1
  <2> QED BY <2>2 DEF N
<1> DEFINE c == iter[1 .. Spaces]
           r == iter[1 .. n]
           k == Spaces
<1>20. k \in 0 .. Spaces /\ k = Spaces /\ n = k + 1
  BY <1>0 DEF n
<1>21. /\ r = Heard(c, EventAt(c.told, k + 1))
       /\ c \in Bars /\ HeardTo(c, k) /\ SameScreen(c, b)
  <2>1. ok(k)
    BY <1>19
  <2> HIDE DEF ok, k
  <2>2. /\ iter[1 .. k + 1] = Heard(iter[1 .. k], EventAt(iter[1 .. k].told, k + 1))
        /\ iter[1 .. k] \in Bars /\ HeardTo(iter[1 .. k], k)
    BY <1>17, <1>20, <2>1
  <2> QED BY <1>20, <2>1, <2>2 DEF ok
<1> HIDE DEF c, r, k
<1>22. /\ r \in Bars /\ SameScreen(r, c) /\ r.ws_batch_pending
       /\ r.active = {r.told.active} /\ r.occupied = r.told.occupied
       /\ r.active \cup r.occupied \subseteq 0 .. r.ws_count - 1
  BY <1>20, <1>21, HeardNext
<1>23. r.wire = <<>> /\ ~ r.configured
  BY <1>21, <1>22 DEF SameScreen
<1>24. r \in Bars /\ Settled(r) /\ ~ r.configured
  BY <1>22, <1>23 DEF Settled
<1> QED BY <1>2, <1>24 DEF r

(* The invariant holds initially. *)
LEMMA InitFollows ==
  ASSUME Constants, Init
  PROVE  Follows(bar)
<1>1. PICK told \in Told, width \in Widths :
        bar = FoldLeft(Heard,
          [told |-> told, wire |-> <<>>, active |-> {}, occupied |-> {}, ws_count |-> 0,
           ws_batch_pending |-> FALSE, need_redraw |-> FALSE, configured |-> FALSE,
           width |-> width, ram_detailed |-> FALSE, frame_pending |-> FALSE, busy |-> 0,
           screen |-> None, open |-> FALSE],
          Batch(told))
  BY DEF Init
<1> DEFINE b == [told |-> told, wire |-> <<>>, active |-> {}, occupied |-> {}, ws_count |-> 0,
           ws_batch_pending |-> FALSE, need_redraw |-> FALSE, configured |-> FALSE,
           width |-> width, ram_detailed |-> FALSE, frame_pending |-> FALSE, busy |-> 0,
           screen |-> None, open |-> FALSE]
<1>2. b \in Bars
  <2>1. 0 \in 0 .. Spaces /\ 0 \in 0 .. Buffers /\ <<>> \in Seq(Events)
    BY DEF Constants
  <2> QED BY <2>1 DEF Bars
<1>3. b.active = {} /\ b.occupied = {} /\ b.wire = <<>> /\ ~ b.configured /\ b.told = told
  OBVIOUS
<1>4. bar = FoldLeft(Heard, b, Batch(b.told))
  BY <1>1
<1> HIDE DEF b
<1>5. bar \in Bars /\ Settled(bar) /\ ~ bar.configured
  BY <1>2, <1>3, <1>4, BatchHeard
<1> QED BY <1>5 DEF Follows, Current

(* What a frame or a reading leaves as it was, b the bar after it. *)
SameSpaces(b) ==
  /\ b.told = bar.told /\ b.wire = bar.wire /\ b.active = bar.active
  /\ b.occupied = bar.occupied /\ b.ws_count = bar.ws_count
  /\ b.ws_batch_pending = bar.ws_batch_pending

(* Of what is told all stays heard that was, if a due frame stays due or is *)
(* drawn within the batch.                                                  *)
LEMMA StaysHeard ==
  ASSUME Follows(bar), NEW b, SameSpaces(b),
         bar.need_redraw \/ bar.open => b.need_redraw \/ b.open \/ b.ws_batch_pending
  PROVE  Settled(b) \/ \E k \in 0 .. Spaces : Hearing(b, k)
<1>1. CASE Settled(bar)
  BY <1>1 DEF SameSpaces, Settled
<1>2. CASE \E k \in 0 .. Spaces : Hearing(bar, k)
  <2>1. PICK k \in 0 .. Spaces : Hearing(bar, k)
    BY <1>2
  <2>2. bar.told \in Told /\ bar.told.active \in Nat
    BY DEF Follows, Bars, Told, Space
  <2>3. k > bar.told.active => ~ bar.ws_batch_pending
    BY <2>1, <2>2 DEF Hearing
  <2>4. HeardTo(b, k)
    BY <2>1, <2>3 DEF Hearing, HeardTo, SameSpaces
  <2>5. Hearing(b, k)
    BY <2>1, <2>4 DEF Hearing, SameSpaces
  <2> QED BY <2>5
<1> QED BY <1>1, <1>2 DEF Follows

(* A frame. *)
LEMMA DrawFollows ==
  ASSUME Constants, Follows(bar), Draw
  PROVE  Follows(bar')
<1> DEFINE b == bar'
           r == render_frame(bar)
           shown == (bar.active \cup bar.occupied) \cap 0 .. (bar.ws_count - 1)
           active == bar.active \cap 0 .. (bar.ws_count - 1)
           p == Picture(active, shown, bar)
<1>1. bar \in Bars /\ bar.need_redraw /\ ~ bar.frame_pending /\ b = Drawn(bar)
  BY DEF Draw, Follows
<1>2. CASE ~ HasBuffer(bar)
  <2>1. b = bar
    BY <1>1, <1>2 DEF Drawn, render_frame
  <2> QED BY <2>1
<1>3. CASE HasBuffer(bar)
  <2>1. active \in SUBSET Space /\ shown \in SUBSET Space
    BY <1>1 DEF Bars
  <2> HIDE DEF active, shown
  <2>2. p \in Pictures
    BY <1>1, <2>1 DEF Picture, Pictures, Bars
  <2> DEFINE mid == ~ bar.ws_batch_pending
             busy == bar.busy + 1
  <2>3. r = [bar EXCEPT !.busy = busy, !.frame_pending = TRUE, !.open = mid, !.screen = p]
    BY <1>3 DEF render_frame, active, shown
  <2>4. busy \in 0 .. Buffers /\ mid \in BOOLEAN
    BY <1>1, <1>3 DEF HasBuffer, Bars, Constants
  <2> HIDE DEF p, r, mid, busy
  <2>5. r.frame_pending
    BY <1>1, <2>3 DEF Bars
  <2>6. b = [r EXCEPT !.need_redraw = FALSE]
    BY <1>1, <2>5 DEF Drawn, r
  <2>7. r \in Bars /\ r.open = mid /\ r.screen = p /\ r.need_redraw = bar.need_redraw
        /\ r.ram_detailed = bar.ram_detailed /\ r.width = bar.width /\ SameSpaces(r)
    BY <1>1, <2>2, <2>3, <2>4 DEF Bars, SameSpaces
  <2>8. /\ b \in Bars /\ b.open = mid /\ b.screen = p /\ ~ b.need_redraw
        /\ b.ram_detailed = bar.ram_detailed /\ b.width = bar.width /\ SameSpaces(b)
    BY <2>6, <2>7 DEF Bars, SameSpaces
  <2>9. b.open \/ b.ws_batch_pending
    BY <2>8 DEF mid, SameSpaces
  <2>10. Settled(b) \/ \E k \in 0 .. Spaces : Hearing(b, k)
    BY <2>8, <2>9, StaysHeard
  <2>11. Current(b)
    <3> SUFFICES ASSUME b.wire = <<>>
                 PROVE  b.screen = Picture({b.told.active}, b.told.occupied \cup {b.told.active}, b)
      BY DEF Current
    <3>1. Settled(bar)
      <4>1. bar.wire = <<>> /\ bar.told \in Told
        BY <1>1, <2>8 DEF SameSpaces, Bars
      <4>2. \A k \in 0 .. Spaces : ~ Hearing(bar, k)
        BY <4>1, LeftIs DEF Hearing
      <4> QED BY <4>2 DEF Follows
    <3>2. active = {b.told.active} /\ shown = b.told.occupied \cup {b.told.active}
      <4>1. bar.active = {b.told.active} /\ bar.occupied = b.told.occupied
        BY <2>8, <3>1 DEF Settled, SameSpaces
      <4> QED BY <3>1, <4>1 DEF active, shown, Settled
    <3>3. p = Picture(active, shown, b)
      BY <2>8 DEF p, Picture
    <3> QED BY <2>8, <3>2, <3>3
  <2> QED BY <2>8, <2>10, <2>11 DEF Follows
<1> QED BY <1>2, <1>3

(* A batch is sent. *)
LEMMA TellFollows ==
  ASSUME Constants, Follows(bar), NEW told \in Told, Tell(told)
  PROVE  Follows(bar')
<1> DEFINE b == bar'
           l == Left(told, 0)
<1>1. bar \in Bars /\ bar.wire = <<>>
  BY DEF Tell, Follows
<1>2. 0 \in 0 .. Spaces
  BY DEF Constants
<1>3. l \in Seq(Events) /\ l # <<>>
  <2> DEFINE k == 0
  <2>1. k \in 0 .. Spaces
    BY <1>2
  <2> HIDE DEF k
  <2>2. Left(told, k) \in Seq(Events) /\ Left(told, k) # <<>>
    BY <2>1, LeftIs
  <2> QED BY <2>2 DEF k
<1>4. b = [bar EXCEPT !.told = told, !.wire = l]
  <2>1. bar.wire \o Batch(told) = l
    BY <1>1, BatchIs
  <2>2. b = [bar EXCEPT !.told = told, !.wire = @ \o Batch(told)]
    BY DEF Tell
  <2> HIDE DEF b, l
  <2> QED BY <2>1, <2>2
<1> HIDE DEF b, l
<1>5. /\ b \in Bars /\ b.told = told /\ b.wire = l
      /\ b.ws_batch_pending = bar.ws_batch_pending
  BY <1>1, <1>3, <1>4 DEF Bars
<1>6. bar.ws_batch_pending
  <2>1. \A k \in 0 .. Spaces : ~ Hearing(bar, k)
    <3>1. bar.told \in Told
      BY <1>1 DEF Bars
    <3> QED BY <1>1, <3>1, LeftIs DEF Hearing
  <2> QED BY <2>1 DEF Follows, Settled
<1>7. Hearing(b, 0)
  <2>1. ~ 0 > told.active
    BY DEF Told, Space
  <2>2. b.ws_batch_pending /\ ~ 0 > b.told.active
    BY <1>5, <1>6, <2>1
  <2>3. HeardTo(b, 0)
    BY <2>2 DEF HeardTo
  <2> QED BY <1>5, <2>2, <2>3 DEF Hearing, l
<1>8. Current(b)
  BY <1>3, <1>5 DEF Current
<1>9. Follows(b)
  BY <1>2, <1>5, <1>7, <1>8 DEF Follows
<1> QED BY <1>9 DEF b

(* An event is received. *)
LEMMA ReceiveFollows ==
  ASSUME Constants, Follows(bar), Receive
  PROVE  Follows(bar')
<1> DEFINE b == bar'
<1>1. bar \in Bars /\ bar.wire # <<>> /\ bar.told \in Told
  BY DEF Receive, Follows, Bars
<1>2. PICK k \in 0 .. Spaces : Hearing(bar, k)
  BY <1>1 DEF Follows, Settled
<1> DEFINE e == EventAt(bar.told, k + 1)
           r == Heard(bar, e)
           t == IF k = Spaces THEN <<>> ELSE Left(bar.told, k + 1)
<1>0. Spaces \in Nat
  BY DEF Constants
<1>3. Head(bar.wire) = e /\ Tail(bar.wire) = t
  BY <1>1, <1>2, LeftIs DEF Hearing
<1>4. HeardTo(bar, k)
  BY <1>2 DEF Hearing
<1>5. /\ r \in Bars /\ SameScreen(r, bar)
      /\ k < Spaces => HeardTo(r, k + 1)
      /\ k = Spaces => /\ r.need_redraw \/ r.open
                       /\ r.ws_batch_pending
                       /\ r.active = {r.told.active} /\ r.occupied = r.told.occupied
                       /\ r.active \cup r.occupied \subseteq 0 .. r.ws_count - 1
  BY <1>1, <1>4, HeardNext
<1>6. r.wire = bar.wire /\ r.told = bar.told
  BY <1>5 DEF SameScreen
<1>7. b = [r EXCEPT !.wire = t]
  BY <1>3, <1>6 DEF Receive
<1>8. t \in Seq(Events)
  <2>1. k # Spaces => k + 1 \in 0 .. Spaces
    BY <1>0
  <2> HIDE DEF t
  <2>2. CASE k = Spaces
    BY <2>2 DEF t
  <2>3. CASE k # Spaces
    BY <1>1, <2>1, <2>3, LeftIs DEF t
  <2> QED BY <2>2, <2>3
<1> HIDE DEF r, t, b
<1>9. /\ b \in Bars /\ b.wire = t /\ b.told = bar.told /\ b.need_redraw = r.need_redraw
      /\ b.open = r.open /\ b.ws_batch_pending = r.ws_batch_pending
      /\ b.active = r.active /\ b.occupied = r.occupied /\ b.ws_count = r.ws_count
  BY <1>5, <1>6, <1>7, <1>8 DEF Bars
<1>10. CASE k = Spaces
  <2>1. t = <<>>
    BY <1>10 DEF t
  <2>2. Settled(b)
    BY <1>5, <1>6, <1>9, <1>10, <2>1 DEF Settled
  <2>3. b.need_redraw \/ b.open
    BY <1>5, <1>9, <1>10
  <2>4. Follows(b)
    BY <1>9, <2>2, <2>3 DEF Follows, Current
  <2> QED BY <2>4 DEF b
<1>11. CASE k < Spaces
  <2>1. k + 1 \in 0 .. Spaces /\ k + 1 # 0 /\ k # Spaces
    BY <1>0, <1>11
  <2>2. t = Left(b.told, k + 1) /\ t # <<>>
    BY <1>1, <1>9, <2>1, LeftIs DEF t
  <2>3. HeardTo(r, k + 1)
    BY <1>5, <1>11
  <2>4. HeardTo(b, k + 1)
    BY <1>6, <1>9, <2>3 DEF HeardTo
  <2>5. Hearing(b, k + 1)
    BY <1>9, <2>1, <2>2, <2>3, <2>4 DEF Hearing, HeardTo
  <2>6. Current(b)
    BY <1>9, <2>2 DEF Current
  <2>7. Follows(b)
    BY <1>9, <2>1, <2>5, <2>6 DEF Follows
  <2> QED BY <2>7 DEF b
<1> QED BY <1>0, <1>10, <1>11

(* What else happens changes nothing of what is told, and asks for a frame *)
(* if it changes what is to be drawn.                                      *)
LEMMA OtherFollows ==
  ASSUME Constants, Follows(bar), NEW width \in Widths,
         \/ layer_surface_configure(width) \/ frame_done \/ buffer_handle_release
         \/ Reading \/ pointer_button
  PROVE  Follows(bar')
<1> DEFINE b == bar'
<1>1. bar \in Bars
  BY DEF Follows
<1>2. /\ b \in Bars /\ SameSpaces(b) /\ b.open = bar.open /\ b.screen = bar.screen
      /\ \/ b.need_redraw
         \/ /\ b.need_redraw = bar.need_redraw /\ b.configured = bar.configured
            /\ b.width = bar.width /\ b.ram_detailed = bar.ram_detailed
  <2>1. CASE layer_surface_configure(width)
    BY <1>1, <2>1 DEF layer_surface_configure, Bars, SameSpaces
  <2>2. CASE frame_done
    BY <1>1, <2>2 DEF frame_done, Bars, SameSpaces
  <2>3. CASE buffer_handle_release
    <3> DEFINE busy == bar.busy - 1
    <3>1. busy \in 0 .. Buffers
      BY <1>1, <2>3 DEF buffer_handle_release, Bars, Constants
    <3>2. b = [bar EXCEPT !.busy = busy]
      BY <2>3 DEF buffer_handle_release
    <3> HIDE DEF b, busy
    <3> QED BY <1>1, <3>1, <3>2 DEF Bars, SameSpaces
  <2>4. CASE Reading
    BY <1>1, <2>4 DEF Reading, Bars, SameSpaces
  <2>5. CASE pointer_button
    <3> DEFINE detailed == ~ bar.ram_detailed
    <3>1. detailed \in BOOLEAN
      OBVIOUS
    <3>2. b = [bar EXCEPT !.ram_detailed = detailed, !.need_redraw = TRUE]
      BY <2>5 DEF pointer_button
    <3> HIDE DEF b, detailed
    <3> QED BY <1>1, <3>1, <3>2 DEF Bars, SameSpaces
  <2> QED BY <2>1, <2>2, <2>3, <2>4, <2>5
<1> HIDE DEF b
<1>3. Settled(b) \/ \E k \in 0 .. Spaces : Hearing(b, k)
  BY <1>2, StaysHeard
<1>4. Current(b)
  <2>1. CASE b.need_redraw
    BY <2>1 DEF Current
  <2>2. CASE ~ b.need_redraw
    <3>1. Current(bar) /\ b.told = bar.told /\ b.wire = bar.wire
      BY <1>2 DEF Follows, SameSpaces
    <3> QED BY <1>2, <2>2, <3>1 DEF Current, Picture
  <2> QED BY <2>1, <2>2
<1>5. Follows(b)
  BY <1>2, <1>3, <1>4 DEF Follows
<1> QED BY <1>5 DEF b

(* The invariant is kept. *)
LEMMA NextFollows ==
  ASSUME Constants, Follows(bar), [Next]_bar
  PROVE  Follows(bar')
<1>1. ASSUME Next
      PROVE  Follows(bar')
  <2>1. CASE Draw
    BY <2>1, DrawFollows
  <2>2. CASE Receive
    BY <2>2, ReceiveFollows
  <2>3. CASE frame_done \/ buffer_handle_release \/ Reading \/ pointer_button
    <3> DEFINE width == bar.width
    <3>1. width \in Widths
      BY DEF Follows, Bars
    <3> HIDE DEF width
    <3> QED BY <2>3, <3>1, OtherFollows
  <2>4. CASE \E told \in Told : Tell(told)
    BY <2>4, TellFollows
  <2>5. CASE \E width \in Widths : layer_surface_configure(width)
    BY <2>5, OtherFollows
  <2> QED BY <1>1, <2>1, <2>2, <2>3, <2>4, <2>5 DEF Next
<1>2. CASE UNCHANGED bar
  BY <1>2
<1> QED BY <1>1, <1>2

(* With the invariant the screen is current, and no two items overlap *)
(* (render.c:135-330).                                                *)
LEMMA FollowsIsCurrent ==
  ASSUME Constants, Follows(bar)
  PROVE  ScreenIsCurrent
<1>1. bar \in Bars /\ Current(bar)
  BY DEF Follows
<1>2. ASSUME bar.screen # None
      PROVE  ItemsApart(bar.screen)
  <2> DEFINE p == bar.screen
  <2>1. p \in Pictures
    BY <1>1, <1>2 DEF Bars
  <2>2. p.width \in Widths /\ p.ram_detailed \in BOOLEAN
    BY <2>1 DEF Pictures
  <2> HIDE DEF p
  <2>3. ItemsApart(p)
    BY <2>2, PicturesApart
  <2> QED BY <2>3 DEF p
<1> QED BY <1>1, <1>2 DEF Current, ScreenIsCurrent

(* The invariant has the types in it. *)
LEMMA FollowsTyped ==
  ASSUME Constants, Follows(bar)
  PROVE  TypeOK
<1>1. bar \in Bars
  BY DEF Follows
<1> QED BY <1>1 DEF Bars, TypeOK
=============================================================================
