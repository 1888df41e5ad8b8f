--------------------------- MODULE LauncherProofs ---------------------------
(***************************************************************************)
(* ShowsBestMatches and SelectionIsAResult, for any lines, desktop files   *)
(* and keys.  The walk of score.c over a line is a fold over its bytes,    *)
(* and it is greedy; WalkFinds and WalkMissesNone say that it therefore    *)
(* takes the whole query exactly if the query can be found in the line.    *)
(* So a line that matches a query matches all that the query begins with,  *)
(* and looking at the survivors of the last query is enough when a byte is *)
(* added (CandidatesMatch).  For that the survivors have to be those of    *)
(* prev_input, which Launches keeps.                                       *)
(*                                                                         *)
(* A desktop file is read by a fold over its lines (FileRead), so each     *)
(* name in the list stands for a command that a file offers by that name   *)
(* (DrunOffers).                                                           *)
(***************************************************************************)
EXTENDS Launcher, Lemmas, FiniteSetTheorems

(* What is typed and what is read are bytes. *)
Text == Seq(STRING)

----------------------------------------------------------------------------
(* Matching. *)

(* A byte of the line the walk comes to. *)
Taken(w, h, needle, line) ==
  IF w.ni = Len(needle) \/ line[h] # needle[w.ni + 1] THEN w
  ELSE [ni    |-> w.ni + 1,
        prev  |-> h,
        first |-> IF w.ni = 0 THEN h ELSE w.first,
        score |-> w.score + 10
                  + (IF h = w.prev + 1 THEN 5 ELSE 0)
                  + (IF h > 1 /\ line[h - 1] \in Separator THEN 8 ELSE 0)]

(* Where the walk starts, what it can come to, *)
Start == [ni |-> 0, prev |-> -1, first |-> 0, score |-> 0]

Walked(needle) == {w \in [ni : 0 .. Len(needle), prev : Int, first : Int, score : Int] :
                     w.score >= 10 * w.ni}

(* and the walk itself. *)
Walks(walk, needle, line) ==
  /\ walk[0] = Start
  /\ \A h \in 1 .. Len(line) : walk[h] = Taken(walk[h - 1], h, needle, line)

(* A byte taken is another ten tenths at least. *)
LEMMA TakenWalked ==
  ASSUME NEW needle \in Text, NEW line \in Text, NEW h \in 1 .. Len(line),
         NEW w \in Walked(needle)
  PROVE  Taken(w, h, needle, line) \in Walked(needle)
<1> DEFINE five == IF h = w.prev + 1 THEN 5 ELSE 0
           eight == IF h > 1 /\ line[h - 1] \in Separator THEN 8 ELSE 0
<1>1. /\ w \in [ni : 0 .. Len(needle), prev : Int, first : Int, score : Int]
      /\ w.ni \in 0 .. Len(needle) /\ w.prev \in Int /\ w.first \in Int
      /\ w.score \in Int /\ w.score >= 10 * w.ni /\ Len(needle) \in Nat /\ h \in Int
  BY DEF Walked, Text
<1>2. CASE w.ni = Len(needle) \/ line[h] # needle[w.ni + 1]
  BY <1>2 DEF Taken
<1>3. CASE ~ (w.ni = Len(needle) \/ line[h] # needle[w.ni + 1])
  <2> DEFINE first == IF w.ni = 0 THEN h ELSE w.first
             t == [ni |-> w.ni + 1, prev |-> h, first |-> first,
                   score |-> w.score + 10 + five + eight]
  <2>1. Taken(w, h, needle, line) = t
    BY <1>3 DEF Taken
  <2>2. five \in Int /\ five >= 0 /\ eight \in Int /\ eight >= 0 /\ first \in Int
    BY <1>1
  <2> HIDE DEF five, eight, first
  <2>3. w.score + 10 + five + eight \in Int
    BY <1>1, <2>2
  <2>4. w.score + 10 + five + eight >= 10 * (w.ni + 1)
    BY <1>1, <2>2
  <2>5. w.ni + 1 \in 0 .. Len(needle)
    BY <1>1, <1>3
  <2>6. t \in [ni : 0 .. Len(needle), prev : Int, first : Int, score : Int]
    BY <1>1, <2>2, <2>3, <2>5
  <2> QED BY <2>1, <2>4, <2>6 DEF Walked
<1> QED BY <1>2, <1>3

(* The walk that score_match defines by recursion exists. *)
LEMMA WalkExists ==
  ASSUME NEW needle \in Text, NEW line \in Text
  PROVE  \E walk \in [0 .. Len(line) -> Walked(needle)] :
           /\ Walks(walk, needle, line)
           /\ score_match(needle, line) =
                IF needle = <<>> THEN 10
                ELSE IF walk[Len(line)].ni < Len(needle) THEN 0
                ELSE walk[Len(line)].score + (IF walk[Len(line)].first = 1 THEN 5 ELSE 0)
<1> DEFINE N == 0 .. Len(line)
           pre == [n \in N |-> n - 1]
           base == [n \in N |-> Start]
           V == Walked(needle)
           step == [n \in N |-> [v \in V |-> Taken(v, n, needle, line)]]
           zero == {0}
           eq(walk) == walk = [h \in N |-> IF h = 0 THEN Start
                                           ELSE Taken(walk[h - 1], h, needle, line)]
           chosen == CHOOSE walk : eq(walk)
<1>1. Len(line) \in Nat /\ N \in SUBSET Nat /\ 0 \in N
  BY DEF Text
<1>2. \A n \in N \ {0} : pre[n] = n - 1 /\ pre[n] \in N /\ n \in 1 .. Len(line)
  BY <1>1
<1>3. Start \in V
  BY DEF Start, Walked, Text
<1>4. \A n \in N \cap zero : base[n] = Start /\ base[n] \in V
  BY <1>3
<1>5. \A n \in N \ zero : \A v \in V : step[n][v] = Taken(v, n, needle, line) /\ step[n][v] \in V
  BY <1>2, TakenWalked
<1>6. Grounded(N, zero, pre)
  BY <1>1, <1>2, NumbersGrounded
<1> HIDE DEF zero, step, base, pre, V, N
<1>7. \A n \in N \ zero : pre[n] \in N /\ (\A v \in V : step[n][v] \in V)
  BY <1>2, <1>5 DEF zero
<1>8. PICK f \in [N -> V] : Solves(f, N, zero, pre, base, step)
  BY <1>4, <1>6, <1>7, Recursion
<1>9. f[0] = Start
  BY <1>1, <1>4, <1>8 DEF Solves, zero
<1>10. \A n \in N \ {0} : f[n] = Taken(f[n - 1], n, needle, line)
  <2> TAKE n \in N \ {0}
  <2>1. f[n] = step[n][f[pre[n]]] /\ pre[n] = n - 1 /\ n - 1 \in N
    BY <1>2, <1>8 DEF Solves, zero
  <2> QED BY <1>5, <2>1 DEF zero
<1>11. eq(f)
  BY <1>9, <1>10
<1>12. eq(chosen)
  BY <1>11
<1> HIDE DEF chosen
<1>13. chosen = f
  <2> DEFINE S == {n \in Nat : n \in N => chosen[n] = f[n]}
  <2>1. 0 \in S
    BY <1>9, <1>12
  <2>2. \A n \in S \cap Nat : n + 1 \in S
    <3> TAKE n \in S \cap Nat
    <3>1. CASE n + 1 \in N
      <4>1. n \in N /\ n + 1 \in N \ {0} /\ (n + 1) - 1 = n
        BY <1>1, <3>1 DEF N
      <4>2. chosen[n + 1] = Taken(chosen[n], n + 1, needle, line)
        BY <1>12, <4>1
      <4>3. f[n + 1] = Taken(f[n], n + 1, needle, line)
        BY <1>10, <4>1
      <4> QED BY <4>1, <4>2, <4>3
    <3> QED BY <3>1
  <2> HIDE DEF S
  <2>3. Nat \subseteq S
    BY <2>1, <2>2, Induction
  <2>4. \A n \in N : chosen[n] = f[n]
    BY <1>1, <2>3 DEF S
  <2>5. chosen = [n \in N |-> chosen[n]]
    BY <1>12
  <2> QED BY <1>8, <2>4, <2>5
<1>14. score_match(needle, line) =
         IF needle = <<>> THEN 10
         ELSE IF chosen[Len(line)].ni < Len(needle) THEN 0
         ELSE chosen[Len(line)].score + (IF chosen[Len(line)].first = 1 THEN 5 ELSE 0)
  BY DEF score_match, chosen, N, Taken, Start
<1>15. Walks(f, needle, line)
  BY <1>1, <1>9, <1>10 DEF Walks, N
<1> QED BY <1>8, <1>13, <1>14, <1>15 DEF N, V

(* Bytes found where they are, one after the other, up to a place. *)
Embeds(at, m, needle, line, h) ==
  /\ at \in [1 .. m -> 1 .. Len(line)]
  /\ \A i \in 1 .. m : line[at[i]] = needle[i] /\ at[i] <= h
  /\ \A i, j \in 1 .. m : i < j => at[i] < at[j]

(* What the walk takes, it finds in this order. *)
LEMMA WalkFinds ==
  ASSUME NEW needle \in Text, NEW line \in Text,
         NEW walk \in [0 .. Len(line) -> Walked(needle)], Walks(walk, needle, line)
  PROVE  \A h \in 0 .. Len(line) : \E at : Embeds(at, walk[h].ni, needle, line, h)
<1> DEFINE S == {h \in Nat : h \in 0 .. Len(line) =>
                   \E at : Embeds(at, walk[h].ni, needle, line, h)}
<1>0. Len(line) \in Nat /\ Len(needle) \in Nat
  BY DEF Text
<1>1. 0 \in S
  <2> DEFINE at == [i \in 1 .. 0 |-> 1]
  <2>1. walk[0].ni = 0
    BY DEF Walks, Start
  <2>2. Embeds(at, 0, needle, line, 0)
    BY <1>0 DEF Embeds
  <2> QED BY <2>1, <2>2
<1>2. \A h \in S \cap Nat : h + 1 \in S
  <2> TAKE h \in S \cap Nat
  <2> SUFFICES ASSUME h + 1 \in 0 .. Len(line)
               PROVE  \E at : Embeds(at, walk[h + 1].ni, needle, line, h + 1)
    OBVIOUS
  <2> DEFINE w == walk[h]
             n == w.ni
             k == h + 1
  <2>1. h \in 0 .. Len(line) /\ k \in 1 .. Len(line) /\ k - 1 = h /\ h \in Nat
    BY <1>0
  <2>2. w \in Walked(needle) /\ n \in 0 .. Len(needle)
    BY <2>1 DEF Walked
  <2>3. PICK at : Embeds(at, n, needle, line, h)
    BY <2>1
  <2>4. walk[k] = Taken(w, k, needle, line)
    BY <2>1 DEF Walks
  <2> HIDE DEF w
  <2>5. CASE n = Len(needle) \/ line[k] # needle[n + 1]
    <3>1. walk[k].ni = n
      BY <2>4, <2>5 DEF Taken
    <3>2. Embeds(at, n, needle, line, k)
      BY <1>0, <2>1, <2>2, <2>3 DEF Embeds
    <3> QED BY <3>1, <3>2
  <2>6. CASE ~ (n = Len(needle) \/ line[k] # needle[n + 1])
    <3> DEFINE more == [i \in 1 .. n + 1 |-> IF i <= n THEN at[i] ELSE k]
    <3>1. walk[k].ni = n + 1
      BY <2>4, <2>6 DEF Taken
    <3> HIDE DEF n
    <3>2. \A i \in 1 .. n : at[i] \in 1 .. Len(line) /\ at[i] <= h /\ line[at[i]] = needle[i]
      BY <2>3 DEF Embeds
    <3>3. \A i \in 1 .. n + 1 : /\ i <= n => i \in 1 .. n /\ more[i] = at[i]
                                /\ i > n => i = n + 1 /\ more[i] = k
      BY <2>2
    <3>4. more \in [1 .. n + 1 -> 1 .. Len(line)]
      BY <2>1, <2>2, <3>2
    <3> HIDE DEF more
    <3>5. \A i \in 1 .. n + 1 : line[more[i]] = needle[i] /\ more[i] <= k
      <4> TAKE i \in 1 .. n + 1
      <4>1. CASE i <= n
        BY <2>1, <3>2, <3>3, <4>1
      <4>2. CASE i > n
        BY <2>1, <2>6, <3>3, <4>2 DEF n
      <4> QED BY <2>2, <4>1, <4>2
    <3>6. \A i, j \in 1 .. n + 1 : i < j => more[i] < more[j]
      <4> TAKE i, j \in 1 .. n + 1
      <4> HAVE i < j
      <4>1. i <= n
        BY <2>2
      <4>2. CASE j <= n
        BY <2>3, <3>3, <4>1, <4>2 DEF Embeds
      <4>3. CASE j > n
        BY <2>1, <3>2, <3>3, <4>1, <4>3
      <4> QED BY <2>2, <4>2, <4>3
    <3>7. Embeds(more, n + 1, needle, line, k)
      BY <3>4, <3>5, <3>6 DEF Embeds
    <3> QED BY <3>1, <3>7
  <2> QED BY <2>5, <2>6
<1> HIDE DEF S
<1>3. Nat \subseteq S
  BY <1>1, <1>2, Induction
<1> QED BY <1>0, <1>3 DEF S

(* As it takes each byte where that first fits, no other way gets further. *)
LEMMA WalkMissesNone ==
  ASSUME NEW needle \in Text, NEW line \in Text,
         NEW walk \in [0 .. Len(line) -> Walked(needle)], Walks(walk, needle, line)
  PROVE  \A h \in 0 .. Len(line) : \A m \in 0 .. Len(needle) :
           (\E at : Embeds(at, m, needle, line, h)) => m <= walk[h].ni
<1> DEFINE Gets(h) == \A m \in 0 .. Len(needle) :
                        (\E at : Embeds(at, m, needle, line, h)) => m <= walk[h].ni
           S == {h \in Nat : h \in 0 .. Len(line) => Gets(h)}
<1>0. Len(line) \in Nat /\ Len(needle) \in Nat
  BY DEF Text
<1>1. 0 \in S
  <2> SUFFICES ASSUME NEW m \in 0 .. Len(needle), NEW at, Embeds(at, m, needle, line, 0)
               PROVE  m <= walk[0].ni
    OBVIOUS
  <2>1. walk[0].ni = 0
    BY DEF Walks, Start
  <2>2. m = 0
    <3> SUFFICES ASSUME m # 0 PROVE FALSE
      OBVIOUS
    <3>1. 1 \in 1 .. m
      BY <1>0
    <3>2. at[1] \in 1 .. Len(line) /\ at[1] <= 0
      BY <3>1 DEF Embeds
    <3> QED BY <1>0, <3>2
  <2> QED BY <2>1, <2>2
<1>2. \A h \in S \cap Nat : h + 1 \in S
  <2> TAKE h \in S \cap Nat
  <2> DEFINE k == h + 1
             w == walk[h]
             n == w.ni
  <2> SUFFICES ASSUME k \in 0 .. Len(line), NEW m \in 0 .. Len(needle), NEW at,
                      Embeds(at, m, needle, line, k)
               PROVE  m <= walk[k].ni
    OBVIOUS
  <2>1. h \in 0 .. Len(line) /\ k \in 1 .. Len(line) /\ k - 1 = h /\ h \in Nat
    BY <1>0
  <2>2. w \in Walked(needle) /\ n \in 0 .. Len(needle)
    BY <2>1 DEF Walked
  <2>3. walk[k] = Taken(w, k, needle, line)
    BY <2>1 DEF Walks
  <2>4. Gets(h)
    BY <2>1
  <2> HIDE DEF w
  <2>5. n <= walk[k].ni /\ walk[k].ni \in Int
    <3>1. walk[k].ni = n \/ walk[k].ni = n + 1
      BY <2>3 DEF Taken
    <3> QED BY <2>2, <3>1
  <2>6. CASE m = 0
    BY <2>2, <2>5, <2>6
  <2>7. CASE m # 0
    <3>1. m \in 1 .. m /\ m - 1 \in 0 .. Len(needle) /\ m \in Nat
      BY <1>0, <2>7
    <3>2. /\ at[m] \in 1 .. Len(line) /\ at[m] <= k /\ line[at[m]] = needle[m]
          /\ \A i \in 1 .. m - 1 : at[i] < at[m]
      BY <3>1 DEF Embeds
    <3>3. \A i \in 1 .. m - 1 : at[i] <= h
      <4> TAKE i \in 1 .. m - 1
      <4>1. i \in 1 .. m
        BY <3>1
      <4>2. at[i] \in 1 .. Len(line)
        BY <4>1 DEF Embeds
      <4> QED BY <1>0, <2>1, <3>2, <4>2
    <3> DEFINE less == [i \in 1 .. m - 1 |-> at[i]]
    <3>4. Embeds(less, m - 1, needle, line, h)
      <4>1. \A i \in 1 .. m - 1 : i \in 1 .. m /\ less[i] = at[i]
        BY <3>1
      <4>2. less \in [1 .. m - 1 -> 1 .. Len(line)]
        BY <4>1 DEF Embeds
      <4> HIDE DEF less
      <4> QED BY <3>3, <4>1, <4>2 DEF Embeds
    <3> HIDE DEF less
    <3>5. m - 1 <= n
      BY <2>4, <3>1, <3>4 DEF w
    <3>6. CASE m <= n
      BY <2>2, <2>5, <3>1, <3>6
    <3>7. CASE ~ (m <= n)
      <4>1. n = m - 1 /\ n + 1 = m /\ n # Len(needle)
        BY <1>0, <2>2, <3>1, <3>5, <3>7
      <4>2. at[m] = k
        <5> SUFFICES ASSUME at[m] # k PROVE FALSE
          OBVIOUS
        <5>1. at[m] <= h
          BY <1>0, <2>1, <3>2
        <5>2. \A i \in 1 .. m : at[i] <= h
          BY <3>1, <3>3, <5>1
        <5>3. Embeds(at, m, needle, line, h)
          BY <5>2 DEF Embeds
        <5> QED BY <2>2, <2>4, <3>1, <3>7, <5>3 DEF w
      <4>3. walk[k].ni = n + 1
        BY <2>3, <3>2, <4>1, <4>2 DEF Taken
      <4> QED BY <4>1, <4>3
    <3> QED BY <3>6, <3>7
  <2> QED BY <2>6, <2>7
<1> HIDE DEF S
<1>3. Nat \subseteq S
  BY <1>1, <1>2, Induction
<1> QED BY <1>0, <1>3 DEF S

(* A score above zero is a match. *)
LEMMA ScoreIsMatch ==
  ASSUME NEW needle \in Text, NEW line \in Text
  PROVE  /\ score_match(needle, line) \in Int
         /\ score_match(needle, line) > 0 <=> Matches(needle, line)
<1>0. Len(line) \in Nat /\ Len(needle) \in Nat
  BY DEF Text
<1>1. PICK walk \in [0 .. Len(line) -> Walked(needle)] :
        /\ Walks(walk, needle, line)
        /\ score_match(needle, line) =
             IF needle = <<>> THEN 10
             ELSE IF walk[Len(line)].ni < Len(needle) THEN 0
             ELSE walk[Len(line)].score + (IF walk[Len(line)].first = 1 THEN 5 ELSE 0)
  BY WalkExists
<1> DEFINE end == walk[Len(line)]
           m == Len(needle)
<1>2. end \in Walked(needle) /\ end.ni \in 0 .. m /\ end.score \in Int /\ end.score >= 10 * end.ni
  BY <1>0, <1>1 DEF Walked
<1>3. Matches(needle, line) <=> \E at : Embeds(at, m, needle, line, Len(line))
  BY <1>0 DEF Matches, Embeds
<1>4. Matches(needle, line) <=> end.ni = m
  <2>1. ASSUME Matches(needle, line) PROVE end.ni = m
    <3>1. m <= end.ni
      BY <1>0, <1>1, <1>3, <2>1, WalkMissesNone
    <3> QED BY <1>0, <1>2, <3>1
  <2>2. ASSUME end.ni = m PROVE Matches(needle, line)
    BY <1>0, <1>1, <1>3, <2>2, WalkFinds
  <2> QED BY <2>1, <2>2
<1>5. CASE needle = <<>>
  <2>1. score_match(needle, line) = 10
    BY <1>1, <1>5
  <2>2. end.ni = m
    BY <1>2, <1>5
  <2> QED BY <1>4, <2>1, <2>2
<1>6. CASE needle # <<>>
  <2>1. m > 0
    BY <1>0, <1>6, EmptySeq DEF Text
  <2> DEFINE extra == IF end.first = 1 THEN 5 ELSE 0
  <2>2. extra \in Int /\ extra >= 0
    OBVIOUS
  <2>3. score_match(needle, line) = IF end.ni < m THEN 0 ELSE end.score + extra
    BY <1>1, <1>6
  <2> HIDE DEF extra, end, m
  <2>4. CASE end.ni < m
    BY <1>2, <1>4, <2>3, <2>4
  <2>5. CASE ~ (end.ni < m)
    <3>1. end.ni = m /\ end.score + extra > 0 /\ end.score + extra \in Int
      BY <1>0, <1>2, <2>1, <2>2, <2>5 DEF m
    <3> QED BY <1>4, <2>3, <2>5, <3>1
  <2> QED BY <2>4, <2>5
<1> QED BY <1>5, <1>6

(* What matches a longer query matches its beginning. *)
LEMMA MatchesLess ==
  ASSUME NEW query \in Text, NEW less \in Text, NEW line \in Text,
         Len(less) <= Len(query), less = SubSeq(query, 1, Len(less)),
         Matches(query, line)
  PROVE  Matches(less, line)
<1> DEFINE n == Len(query)
           m == Len(less)
<1>1. n \in Nat /\ m \in Nat /\ m <= n
  BY DEF Text
<1>2. PICK at \in [1 .. n -> 1 .. Len(line)] :
        /\ \A i \in 1 .. n : line[at[i]] = query[i]
        /\ \A i, j \in 1 .. n : i < j => at[i] < at[j]
  BY DEF Matches
<1>3. \A i \in 1 .. m : i \in 1 .. n /\ less[i] = query[i]
  BY <1>1 DEF Text
<1> DEFINE first == [i \in 1 .. m |-> at[i]]
<1>4. first \in [1 .. m -> 1 .. Len(line)] /\ \A i \in 1 .. m : first[i] = at[i]
  BY <1>3
<1> HIDE DEF first
<1>5. /\ \A i \in 1 .. m : line[first[i]] = less[i]
      /\ \A i, j \in 1 .. m : i < j => first[i] < first[j]
  BY <1>2, <1>3, <1>4
<1> QED BY <1>4, <1>5 DEF Matches

(* All lines match the empty query. *)
LEMMA AllMatchNothing ==
  ASSUME NEW line \in Text
  PROVE  Matches(<<>>, line)
<1>1. <<>> \in Text /\ score_match(<<>>, line) > 0
  <2>1. <<>> \in Text
    BY DEF Text
  <2>2. score_match(<<>>, line) = 10
    BY <2>1, WalkExists
  <2> QED BY <2>1, <2>2
<1> QED BY <1>1, ScoreIsMatch

(* The scores. *)
LEMMA ScoreIs ==
  ASSUME NEW query \in Text, NEW line \in Text
  PROVE  /\ Score(query, line) \in Int
         /\ query # <<>> => (Score(query, line) > 0 <=> Matches(query, line))
BY ScoreIsMatch DEF Score

(* The lines that match. *)
Matching(query, lines) == {e \in DOMAIN lines : Matches(query, lines[e])}

(* Whether it looks at all lines or at the survivors only, filter_update    *)
(* finds those that match.                                                  *)
LEMMA CandidatesMatch ==
  ASSUME NEW query \in Text, NEW lines \in Seq(Text), prev_input \in Text,
         Appended(query) => cand = Matching(prev_input, lines)
  PROVE  Candidates(query, lines) = Matching(query, lines)
<1>1. \A e \in DOMAIN lines : lines[e] \in Text
  OBVIOUS
<1>2. CASE query = <<>>
  BY <1>1, <1>2, AllMatchNothing DEF Candidates, Matching
<1>3. CASE query # <<>> /\ ~ Appended(query)
  BY <1>1, <1>3, ScoreIs DEF Candidates, Matching
<1>4. CASE query # <<>> /\ Appended(query)
  <2>1. cand = Matching(prev_input, lines)
    BY <1>4
  <2>2. Len(prev_input) <= Len(query) /\ prev_input = SubSeq(query, 1, Len(prev_input))
    BY <1>4 DEF Appended, Text
  <2>3. Matching(query, lines) \subseteq cand
    BY <1>1, <2>1, <2>2, MatchesLess DEF Matching
  <2>4. Candidates(query, lines) = {e \in cand : Score(query, lines[e]) > 0}
    BY <1>4 DEF Candidates
  <2>5. cand \subseteq DOMAIN lines
    BY <2>1 DEF Matching
  <2>6. \A e \in cand : Score(query, lines[e]) > 0 <=> Matches(query, lines[e])
    BY <1>1, <1>4, <2>5, ScoreIs
  <2>7. \A e : e \in Candidates(query, lines) <=> e \in Matching(query, lines)
    BY <2>3, <2>4, <2>5, <2>6 DEF Matching
  <2> QED BY <2>7
<1> QED BY <1>2, <1>3, <1>4

----------------------------------------------------------------------------
(* The list. *)

(* What never grows from one to the next never grows. *)
LEMMA NeverGrows ==
  ASSUME NEW n \in Nat, NEW f \in [1 .. n -> Int],
         \A i \in 1 .. n - 1 : f[i] >= f[i + 1]
  PROVE  \A i, j \in 1 .. n : i <= j => f[i] >= f[j]
<1> DEFINE S == {k \in Nat : \A i \in 1 .. n : i + k \in 1 .. n => f[i] >= f[i + k]}
<1>1. 0 \in S
  <2>1. \A i \in 1 .. n : i + 0 = i /\ f[i] \in Int
    OBVIOUS
  <2> QED BY <2>1
<1>2. \A k \in S \cap Nat : k + 1 \in S
  <2> TAKE k \in S \cap Nat
  <2> SUFFICES ASSUME NEW i \in 1 .. n, i + (k + 1) \in 1 .. n
               PROVE  f[i] >= f[i + (k + 1)]
    OBVIOUS
  <2> DEFINE j == i + k
  <2>1. j \in 1 .. n - 1 /\ j \in 1 .. n /\ j + 1 = i + (k + 1) /\ j + 1 \in 1 .. n
    OBVIOUS
  <2>2. f[i] >= f[j]
    BY <2>1
  <2>3. f[j] >= f[j + 1]
    BY <2>1
  <2>4. f[i] \in Int /\ f[j] \in Int /\ f[j + 1] \in Int
    BY <2>1
  <2> HIDE DEF j
  <2>5. f[i] >= f[j + 1]
    <3> DEFINE a == f[i]
               b == f[j]
               c == f[j + 1]
    <3>1. a \in Int /\ b \in Int /\ c \in Int /\ a >= b /\ b >= c
      BY <2>2, <2>3, <2>4
    <3> HIDE DEF a, b, c
    <3>2. a >= c
      BY <3>1
    <3> QED BY <3>2 DEF a, c
  <2> QED BY <2>1, <2>5
<1> HIDE DEF S
<1>3. Nat \subseteq S
  BY <1>1, <1>2, Induction
<1> SUFFICES ASSUME NEW i \in 1 .. n, NEW j \in 1 .. n, i <= j PROVE f[i] >= f[j]
  OBVIOUS
<1>4. j - i \in S /\ i + (j - i) = j
  BY <1>3
<1> QED BY <1>4 DEF S

(* SetToSeqs has the lists of all members, each once. *)
LEMMA ListIs ==
  ASSUME NEW found, IsFiniteSet(found), NEW s \in SetToSeqs(found)
  PROVE  /\ Cardinality(found) \in Nat
         /\ s \in [1 .. Cardinality(found) -> found]
         /\ \A i, j \in 1 .. Cardinality(found) : i # j => s[i] # s[j]
         /\ \A e \in found : \E i \in 1 .. Cardinality(found) : s[i] = e
<1> DEFINE n == Cardinality(found)
<1>1. n \in Nat
  BY FS_CardinalityType
<1>2. s \in [1 .. n -> found] /\ \A i, j \in 1 .. n : i # j => s[i] # s[j]
  BY DEF SetToSeqs
<1>3. s \in Injection(1 .. n, found)
  BY <1>2 DEF Injection, IsInjective
<1>4. IsFiniteSet(1 .. n) /\ Cardinality(1 .. n) = n
  BY <1>1, FS_Interval
<1>5. s \in Surjection(1 .. n, found)
  BY <1>3, <1>4, FS_Injection
<1>6. \A e \in found : \E i \in 1 .. n : s[i] = e
  BY <1>5 DEF Surjection
<1> QED BY <1>1, <1>2, <1>6

(* ShowsBestMatches of a list, a query and lines. *)
ShowsBest(list, query, lines) ==
  LET matching == Matching(query, lines)
      best == Range(list)
  IN /\ best \subseteq matching
     /\ Cardinality(best) = Len(list)
     /\ Len(list) = Least(Cardinality(matching), MaxScoreResults)
     /\ BestFirst(list, query, lines)
     /\ \A e \in best, f \in matching \ best : Score(query, lines[e]) >= Score(query, lines[f])

(* The first of all the matching lines, sorted, are the best ones. *)
LEMMA ResultsAreBest ==
  ASSUME NEW query \in Text, NEW lines \in Seq(Text), MaxScoreResults \in Nat,
         NEW list \in Results(Matching(query, lines), query, lines)
  PROVE  list \in Seq(DOMAIN lines) /\ ShowsBest(list, query, lines)
<1> DEFINE found == Matching(query, lines)
           n == Cardinality(found)
           k == Least(n, MaxScoreResults)
           value(e) == Score(query, lines[e])
<1>1. found \subseteq DOMAIN lines /\ IsFiniteSet(found)
  <2>1. DOMAIN lines = 1 .. Len(lines) /\ Len(lines) \in Nat
    OBVIOUS
  <2>2. IsFiniteSet(DOMAIN lines)
    BY <2>1, FS_Interval
  <2>3. found \in SUBSET DOMAIN lines
    BY DEF Matching
  <2> QED BY <2>2, <2>3, FS_Subset
<1>2. \A e \in found : value(e) \in Int
  BY <1>1, ScoreIs
<1>3. PICK s \in SetToSeqs(found) :
        BestFirst(s, query, lines) /\ list = SubSeq(s, 1, Least(Len(s), MaxScoreResults))
  BY DEF Results
<1> HIDE DEF found
<1>4. /\ n \in Nat /\ s \in [1 .. n -> found]
      /\ \A i, j \in 1 .. n : i # j => s[i] # s[j]
      /\ \A e \in found : \E i \in 1 .. n : s[i] = e
  BY <1>1, ListIs
<1> HIDE DEF n
<1>5. s \in Seq(found) /\ Len(s) = n
  BY <1>4
<1>6. k \in 0 .. n
  BY <1>4 DEF Least
<1>7. list = SubSeq(s, 1, k)
  BY <1>3, <1>5
<1> HIDE DEF k
<1>8. /\ list \in [1 .. k -> found] /\ Len(list) = k /\ list \in Seq(found)
      /\ \A i \in 1 .. k : i \in 1 .. n /\ list[i] = s[i]
  <2>1. \A i \in 1 .. k : i \in 1 .. n /\ s[i] \in found
    BY <1>4, <1>6
  <2>2. list = [i \in 1 .. k |-> s[i]]
    BY <1>5, <1>6, <1>7
  <2>3. Len(list) = k
    BY <1>6, <2>2
  <2> QED BY <1>6, <2>1, <2>2, <2>3
<1>9. list \in Seq(DOMAIN lines)
  BY <1>1, <1>8
<1>10. Range(list) \subseteq found
  BY <1>8 DEF Range
<1>11. Cardinality(Range(list)) = k
  <2> DEFINE best == Range(list)
  <2>1. list \in Surjection(1 .. k, best) /\ list \in Injection(1 .. k, best)
    BY <1>4, <1>8 DEF Range, Surjection, Injection, IsInjective
  <2>2. ExistsBijection(1 .. k, best)
    BY <2>1 DEF ExistsBijection, Bijection
  <2>3. IsFiniteSet(1 .. k) /\ Cardinality(1 .. k) = k
    BY <1>6, FS_Interval
  <2> QED BY <2>2, <2>3, FS_Bijection
<1>12. \A i \in 1 .. n - 1 : value(s[i]) >= value(s[i + 1])
  BY <1>3, <1>5 DEF BestFirst
<1> DEFINE f == [i \in 1 .. n |-> value(s[i])]
<1>13. \A i, j \in 1 .. n : i <= j => value(s[i]) >= value(s[j])
  <2>1. f \in [1 .. n -> Int] /\ \A i \in 1 .. n : f[i] = value(s[i])
    BY <1>2, <1>4
  <2>2. \A i \in 1 .. n - 1 : f[i] >= f[i + 1]
    <3> TAKE i \in 1 .. n - 1
    <3>1. i \in 1 .. n /\ i + 1 \in 1 .. n
      BY <1>4
    <3> QED BY <1>12, <2>1, <3>1
  <2> HIDE DEF f
  <2>3. \A i, j \in 1 .. n : i <= j => f[i] >= f[j]
    BY <1>4, <2>1, <2>2, NeverGrows
  <2> QED BY <2>1, <2>3
<1>14. BestFirst(list, query, lines)
  <2> SUFFICES ASSUME NEW i \in 1 .. k - 1 PROVE value(list[i]) >= value(list[i + 1])
    BY <1>8 DEF BestFirst
  <2>1. i \in 1 .. k /\ i + 1 \in 1 .. k /\ i \in 1 .. n - 1
    BY <1>4, <1>6
  <2> QED BY <1>8, <1>12, <2>1
<1>15. \A e \in Range(list), g \in found \ Range(list) : value(e) >= value(g)
  <2> TAKE e \in Range(list), g \in found \ Range(list)
  <2>1. PICK i \in 1 .. k : list[i] = e
    BY <1>8 DEF Range
  <2>2. PICK j \in 1 .. n : s[j] = g
    BY <1>4
  <2>3. j \notin 1 .. k
    <3> SUFFICES ASSUME j \in 1 .. k PROVE FALSE
      OBVIOUS
    <3>1. list[j] = g
      BY <1>8, <2>2
    <3> QED BY <1>8, <3>1 DEF Range
  <2>4. i <= j /\ i \in 1 .. n /\ s[i] = e
    BY <1>4, <1>6, <1>8, <2>1, <2>3
  <2> QED BY <1>13, <2>2, <2>4
<1> QED BY <1>8, <1>9, <1>10, <1>11, <1>14, <1>15 DEF ShowsBest, found, n, k

----------------------------------------------------------------------------
(* Desktop files. *)

(* A line is a section or gives a key a value; names and commands are texts. *)
FileLine == {l \in [key : STRING, value : Text \cup STRING] :
               l.key \in {"Name", "Exec"} => l.value \in Text}
File == Seq(FileLine)

(* The section that counts. *)
Title == "Desktop Entry"
Section == [key |-> "[", value |-> Title]

(* The k-th line is in the section. *)
Here(lines, k) ==
  \E h \in 1 .. k : lines[h] = Section /\ \A g \in h + 1 .. k : lines[g].key # "["

(* The lines up to the k-th that count for a key. *)
Entry(lines, key, k) == {i \in 1 .. k : lines[i].key = key /\ Here(lines, i)}

(* What is read of a key is the value of the last of these lines. *)
IsLast(lines, key, k, value) ==
  \E i \in Entry(lines, key, k) :
    value = lines[i].value /\ \A j \in Entry(lines, key, k) : j <= i

(* Without one it is empty. *)
ReadOf(lines, key, k, value) ==
  IF Entry(lines, key, k) = {} THEN value = <<>> ELSE IsLast(lines, key, k, value)

(* What is read of a file up to the k-th line. *)
ReadUpTo(file, lines, k) ==
  /\ file.here <=> Here(lines, k)
  /\ file.NoDisplay <=> \E i \in Entry(lines, "NoDisplay", k) : lines[i].value = "true"
  /\ ReadOf(lines, "Name", k, file.Name) /\ ReadOf(lines, "Exec", k, file.Exec)

(* The values of the fold, and where it starts. *)
ReadFiles == [here : BOOLEAN, NoDisplay : BOOLEAN, Name : Text, Exec : Text]
NoneRead == [here |-> FALSE, NoDisplay |-> FALSE, Name |-> <<>>, Exec |-> <<>>]

(* What a line changes. *)
LEMMA LineRead ==
  ASSUME NEW file \in ReadFiles, NEW line \in FileLine
  PROVE  /\ ReadLine(file, line) \in ReadFiles
         /\ ReadLine(file, line).here =
              IF line.key = "[" THEN line.value = Title ELSE file.here
         /\ ReadLine(file, line).NoDisplay =
              (file.NoDisplay \/ (line.key = "NoDisplay" /\ file.here /\ line.value = "true"))
         /\ ReadLine(file, line).Name =
              IF line.key = "Name" /\ file.here THEN line.value ELSE file.Name
         /\ ReadLine(file, line).Exec =
              IF line.key = "Exec" /\ file.here THEN line.value ELSE file.Exec
<1> DEFINE r == ReadLine(file, line)
           here == line.value = Title
           no == file.NoDisplay \/ (file.here /\ line.value = "true")
<1>1. /\ file = [here |-> file.here, NoDisplay |-> file.NoDisplay, Name |-> file.Name,
                 Exec |-> file.Exec]
      /\ file.here \in BOOLEAN /\ file.NoDisplay \in BOOLEAN
      /\ file.Name \in Text /\ file.Exec \in Text
  BY DEF ReadFiles
<1>2. line.key \in {"Name", "Exec"} => line.value \in Text
  BY DEF FileLine
<1>3. here \in BOOLEAN /\ no \in BOOLEAN
  OBVIOUS
<1>4. CASE line.key = "["
  <2>1. r = [here |-> here, NoDisplay |-> file.NoDisplay, Name |-> file.Name,
             Exec |-> file.Exec]
    BY <1>1, <1>4 DEF ReadLine, Title
  <2> HIDE DEF here, no, r
  <2>2. /\ r \in ReadFiles /\ r.here = here /\ r.NoDisplay = file.NoDisplay
        /\ r.Name = file.Name /\ r.Exec = file.Exec
    BY <1>1, <1>3, <2>1 DEF ReadFiles
  <2>3. r.NoDisplay = (file.NoDisplay \/ (line.key = "NoDisplay" /\ file.here /\ line.value = "true"))
    BY <1>1, <1>4, <2>2
  <2> QED BY <1>4, <2>2, <2>3 DEF here, r
<1>5. CASE line.key = "NoDisplay"
  <2>1. r = [here |-> file.here, NoDisplay |-> no, Name |-> file.Name, Exec |-> file.Exec]
    BY <1>1, <1>5 DEF ReadLine
  <2> HIDE DEF here, no, r
  <2> QED BY <1>1, <1>3, <1>5, <2>1 DEF ReadFiles, no, r
<1>6. CASE line.key = "Name"
  <2>1. r = [here |-> file.here, NoDisplay |-> file.NoDisplay,
             Name |-> IF file.here THEN line.value ELSE file.Name, Exec |-> file.Exec]
    BY <1>1, <1>6 DEF ReadLine
  <2> HIDE DEF here, no, r
  <2> QED BY <1>1, <1>2, <1>6, <2>1 DEF ReadFiles, r
<1>7. CASE line.key = "Exec"
  <2>1. r = [here |-> file.here, NoDisplay |-> file.NoDisplay, Name |-> file.Name,
             Exec |-> IF file.here THEN line.value ELSE file.Exec]
    BY <1>1, <1>7 DEF ReadLine
  <2> HIDE DEF here, no, r
  <2> QED BY <1>1, <1>2, <1>7, <2>1 DEF ReadFiles, r
<1>8. CASE line.key \notin {"[", "NoDisplay", "Name", "Exec"}
  <2>1. r = file
    BY <1>8 DEF ReadLine
  <2> HIDE DEF r
  <2> QED BY <1>1, <1>8, <2>1 DEF r
<1> QED BY <1>4, <1>5, <1>6, <1>7, <1>8

(* One line more. *)
LEMMA OneLineMore ==
  ASSUME NEW lines \in File, NEW k \in 0 .. Len(lines) - 1
  PROVE  /\ Here(lines, k + 1) <=>
              IF lines[k + 1].key = "[" THEN lines[k + 1].value = Title
              ELSE Here(lines, k)
         /\ \A key : key # "[" =>
              Entry(lines, key, k + 1) =
                Entry(lines, key, k)
                  \cup (IF lines[k + 1].key = key /\ Here(lines, k) THEN {k + 1} ELSE {})
<1> DEFINE m == k + 1
           line == lines[m]
<1>1. Len(lines) \in Nat /\ m \in 1 .. Len(lines) /\ k \in Nat /\ line \in FileLine
  BY DEF File
<1>2. line = [key |-> line.key, value |-> line.value]
  BY <1>1 DEF FileLine
<1> HIDE DEF line
<1>3. line = Section <=> (line.key = "[" /\ line.value = Title)
  <2>1. line = Section => (line.key = "[" /\ line.value = Title)
    BY DEF Section
  <2> QED BY <1>2, <2>1 DEF Section
<1>4. ASSUME line.key = "[" PROVE Here(lines, m) <=> line.value = Title
  <2>1. ASSUME Here(lines, m) PROVE line = Section
    <3>1. PICK h \in 1 .. m : lines[h] = Section /\ \A g \in h + 1 .. m : lines[g].key # "["
      BY <2>1 DEF Here
    <3>2. h = m
      <4> SUFFICES ASSUME h # m PROVE FALSE
        OBVIOUS
      <4>1. m \in h + 1 .. m
        BY <1>1
      <4> QED BY <1>4, <3>1, <4>1 DEF line
    <3> QED BY <3>1, <3>2 DEF line
  <2>2. ASSUME line = Section PROVE Here(lines, m)
    <3>1. m \in 1 .. m /\ m + 1 .. m = {}
      BY <1>1
    <3> QED BY <2>2, <3>1 DEF Here, line
  <2> QED BY <1>3, <1>4, <2>1, <2>2
<1>5. ASSUME line.key # "[" PROVE Here(lines, m) <=> Here(lines, k)
  <2>1. ASSUME Here(lines, m) PROVE Here(lines, k)
    <3>1. PICK h \in 1 .. m : lines[h] = Section /\ \A g \in h + 1 .. m : lines[g].key # "["
      BY <2>1 DEF Here
    <3>2. h \in 1 .. k
      <4>1. h # m
        BY <1>3, <1>5, <3>1 DEF line
      <4> QED BY <1>1, <4>1
    <3>3. \A g \in h + 1 .. k : g \in h + 1 .. m
      BY <1>1
    <3> QED BY <3>1, <3>2, <3>3 DEF Here
  <2>2. ASSUME Here(lines, k) PROVE Here(lines, m)
    <3>1. PICK h \in 1 .. k : lines[h] = Section /\ \A g \in h + 1 .. k : lines[g].key # "["
      BY <2>2 DEF Here
    <3>2. \A g \in h + 1 .. m : g \in h + 1 .. k \/ g = m
      BY <1>1
    <3>3. h \in 1 .. m
      BY <1>1
    <3> QED BY <1>5, <3>1, <3>2, <3>3 DEF Here, line
  <2> QED BY <2>1, <2>2
<1>6. ASSUME NEW key, key # "["
      PROVE  Entry(lines, key, m) =
               Entry(lines, key, k) \cup (IF line.key = key /\ Here(lines, k) THEN {m} ELSE {})
  <2>1. \A i : i \in 1 .. m <=> (i \in 1 .. k \/ i = m)
    BY <1>1
  <2>2. line.key = key => (Here(lines, m) <=> Here(lines, k))
    BY <1>5, <1>6
  <2>3. Entry(lines, key, m) = {i \in 1 .. m : lines[i].key = key /\ Here(lines, i)}
    BY DEF Entry
  <2>4. Entry(lines, key, k) = {i \in 1 .. k : lines[i].key = key /\ Here(lines, i)}
    BY DEF Entry
  <2>5. \A i : i \in Entry(lines, key, m) <=>
               i \in Entry(lines, key, k) \/ (i = m /\ line.key = key /\ Here(lines, k))
    BY <2>1, <2>2, <2>3, <2>4 DEF line
  <2> QED BY <2>5
<1> QED BY <1>4, <1>5, <1>6 DEF line

(* A key read up to one line more. *)
LEMMA KeyRead ==
  ASSUME NEW lines \in File, NEW k \in 0 .. Len(lines) - 1,
         NEW key \in {"Name", "Exec"}, NEW value, ReadOf(lines, key, k, value)
  PROVE  ReadOf(lines, key, k + 1,
                IF lines[k + 1].key = key /\ Here(lines, k) THEN lines[k + 1].value ELSE value)
<1> DEFINE m == k + 1
           old == Entry(lines, key, k)
           now == Entry(lines, key, m)
<1>1. key # "[" /\ k \in Nat
  BY DEF File
<1>2. now = old \cup (IF lines[m].key = key /\ Here(lines, k) THEN {m} ELSE {})
  BY <1>1, OneLineMore
<1>3. \A i \in old : i \in 1 .. k /\ i <= m
  BY <1>1 DEF Entry
<1> HIDE DEF old, now
<1>4. CASE lines[m].key = key /\ Here(lines, k)
  <2>1. m \in now /\ (\A j \in now : j <= m) /\ now # {}
    BY <1>1, <1>2, <1>3, <1>4
  <2>2. IsLast(lines, key, m, lines[m].value)
    BY <2>1 DEF IsLast, now
  <2> QED BY <1>4, <2>1, <2>2 DEF ReadOf, now
<1>5. CASE ~ (lines[m].key = key /\ Here(lines, k))
  <2>1. now = old
    BY <1>2, <1>5
  <2> QED BY <1>5, <2>1 DEF ReadOf, IsLast, now, old
<1> QED BY <1>4, <1>5

(* The file read up to one line more. *)
LEMMA FileReadOn ==
  ASSUME NEW lines \in File, NEW k \in 0 .. Len(lines) - 1, NEW file \in ReadFiles,
         ReadUpTo(file, lines, k)
  PROVE  /\ ReadLine(file, lines[k + 1]) \in ReadFiles
         /\ ReadUpTo(ReadLine(file, lines[k + 1]), lines, k + 1)
<1> DEFINE m == k + 1
           line == lines[m]
           r == ReadLine(file, line)
<1>1. line \in FileLine /\ k \in Nat
  <2>1. m \in 1 .. Len(lines)
    BY DEF File
  <2> QED BY <2>1 DEF File
<1>2. /\ r \in ReadFiles
      /\ r.here = IF line.key = "[" THEN line.value = Title ELSE file.here
      /\ r.NoDisplay = (file.NoDisplay \/ (line.key = "NoDisplay" /\ file.here /\ line.value = "true"))
      /\ r.Name = IF line.key = "Name" /\ file.here THEN line.value ELSE file.Name
      /\ r.Exec = IF line.key = "Exec" /\ file.here THEN line.value ELSE file.Exec
  BY <1>1, LineRead
<1>3. /\ file.here <=> Here(lines, k)
      /\ file.NoDisplay <=> \E i \in Entry(lines, "NoDisplay", k) : lines[i].value = "true"
      /\ ReadOf(lines, "Name", k, file.Name) /\ ReadOf(lines, "Exec", k, file.Exec)
      /\ file.here \in BOOLEAN /\ file.NoDisplay \in BOOLEAN
  BY DEF ReadUpTo, ReadFiles
<1> HIDE DEF r
<1>4. r.here <=> Here(lines, m)
  BY <1>2, <1>3, OneLineMore
<1>5. r.NoDisplay <=> \E i \in Entry(lines, "NoDisplay", m) : lines[i].value = "true"
  <2>1. Entry(lines, "NoDisplay", m) =
          Entry(lines, "NoDisplay", k)
            \cup (IF line.key = "NoDisplay" /\ Here(lines, k) THEN {m} ELSE {})
    <3>1. "NoDisplay" # "["
      OBVIOUS
    <3> HIDE DEF line
    <3> QED BY <3>1, OneLineMore DEF line
  <2> QED BY <1>2, <1>3, <2>1
<1>6. ReadOf(lines, "Name", m, r.Name)
  <2>1. r.Name = IF line.key = "Name" /\ Here(lines, k) THEN line.value ELSE file.Name
    BY <1>2, <1>3
  <2> QED BY <1>3, <2>1, KeyRead
<1>7. ReadOf(lines, "Exec", m, r.Exec)
  <2>1. r.Exec = IF line.key = "Exec" /\ Here(lines, k) THEN line.value ELSE file.Exec
    BY <1>2, <1>3
  <2> QED BY <1>3, <2>1, KeyRead
<1> QED BY <1>2, <1>4, <1>5, <1>6, <1>7 DEF ReadUpTo, r

(* A file of lines, as parse_desktop_file reads it. *)
LEMMA FileRead ==
  ASSUME NEW lines \in File
  PROVE  LET file == FoldLeft(ReadLine, NoneRead, lines)
         IN file \in ReadFiles /\ ReadUpTo(file, lines, Len(lines))
<1> DEFINE n == Len(lines)
           step == [i \in 1 .. n |-> [v \in ReadFiles |-> ReadLine(v, lines[i])]]
           base == NoneRead
           V == ReadFiles
           eq(g) == g = [s \in SUBSET (1 .. n) |->
                     IF s = {} THEN NoneRead
                     ELSE ReadLine(g[s \ {Max(s)}], lines[Max(s)])]
           iter == CHOOSE g : eq(g)
<1>0. n \in Nat /\ DOMAIN lines = 1 .. n /\ \A i \in 1 .. n : lines[i] \in FileLine
  BY DEF File
<1>1. FoldLeft(ReadLine, NoneRead, lines) = iter[1 .. n]
  BY <1>0 DEF FoldLeft, MapThenFoldSet
<1>2. /\ \A i \in 1 .. n : \A v \in V : step[i][v] = ReadLine(v, lines[i])
      /\ base = NoneRead
  OBVIOUS
<1>3. \A i \in 1 .. n : \A v \in V : step[i][v] \in V
  BY <1>0, <1>2, LineRead
<1>4. base \in V
  BY DEF ReadFiles, NoneRead, Text
<1> HIDE DEF step, base, n, V
<1>5. PICK f \in [SUBSET (1 .. n) -> V] : Folds(f, n, base, step)
  BY <1>0, <1>3, <1>4, FoldExists
<1>6. \A s \in SUBSET (1 .. n) :
        f[s] = IF s = {} THEN NoneRead ELSE ReadLine(f[s \ {Max(s)}], lines[Max(s)])
  <2> TAKE s \in SUBSET (1 .. n)
  <2>1. CASE s = {}
    BY <1>2, <1>5, <2>1 DEF Folds
  <2>2. CASE s # {}
    <3>1. Max(s) \in 1 .. n /\ s \ {Max(s)} \in SUBSET (1 .. n)
      BY <1>0, <2>2, MaxIs
    <3>2. f[s] = step[Max(s)][f[s \ {Max(s)}]]
      BY <1>5, <2>2 DEF Folds
    <3> QED BY <1>2, <1>5, <2>2, <3>1, <3>2
  <2> QED BY <2>1, <2>2
<1>7. eq(f)
  BY <1>5, <1>6
<1>8. eq(iter)
  BY <1>7
<1> HIDE DEF iter
<1>9. \A s \in SUBSET (1 .. n) :
        iter[s] = IF s = {} THEN NoneRead ELSE ReadLine(iter[s \ {Max(s)}], lines[Max(s)])
  BY <1>8
<1>10. iter[{}] = base
  BY <1>2, <1>9
<1>11. ASSUME NEW s \in (SUBSET (1 .. n)) \ {{}}, iter[s \ {Max(s)}] \in V
       PROVE  iter[s] = step[Max(s)][iter[s \ {Max(s)}]]
  <2>1. Max(s) \in 1 .. n
    BY <1>0, MaxIs
  <2> QED BY <1>2, <1>9, <1>11, <2>1
<1>12. (\A k \in 0 .. n : iter[1 .. k] \in V) /\ Climbs(iter, n, step)
  BY <1>0, <1>3, <1>4, <1>10, <1>11, FoldPrefix
<1> DEFINE S == {k \in Nat : k \in 0 .. n => ReadUpTo(iter[1 .. k], lines, k)}
<1>13. 0 \in S
  <2>1. iter[1 .. 0] = NoneRead
    BY <1>2, <1>10
  <2>2. Entry(lines, "Name", 0) = {} /\ Entry(lines, "Exec", 0) = {}
        /\ Entry(lines, "NoDisplay", 0) = {} /\ ~ Here(lines, 0)
    BY DEF Entry, Here
  <2>3. ReadUpTo(NoneRead, lines, 0)
    BY <2>2 DEF ReadUpTo, ReadOf, NoneRead
  <2> QED BY <2>1, <2>3
<1>14. \A k \in S \cap Nat : k + 1 \in S
  <2> TAKE k \in S \cap Nat
  <2> SUFFICES ASSUME k + 1 \in 0 .. n PROVE ReadUpTo(iter[1 .. k + 1], lines, k + 1)
    OBVIOUS
  <2>1. k \in 0 .. n - 1 /\ k \in 0 .. n /\ k + 1 \in 1 .. n
    BY <1>0
  <2>2. ReadUpTo(iter[1 .. k], lines, k)
    BY <2>1
  <2>3. iter[1 .. k] \in V
    BY <1>12, <2>1
  <2>4. iter[1 .. k + 1] = ReadLine(iter[1 .. k], lines[k + 1])
    BY <1>2, <1>12, <2>1, <2>3 DEF Climbs
  <2> QED BY <2>1, <2>2, <2>3, <2>4, FileReadOn DEF V, n
<1> HIDE DEF S
<1>15. Nat \subseteq S
  BY <1>13, <1>14, Induction
<1>16. n \in 0 .. n /\ ReadUpTo(iter[1 .. n], lines, n)
  BY <1>0, <1>15 DEF S
<1> QED BY <1>1, <1>12, <1>16 DEF V, n

(* What it takes from a file is what the file offers. *)
LEMMA TakenIsOffered ==
  ASSUME NEW lines \in File, NEW file \in ReadFiles, ReadUpTo(file, lines, Len(lines)),
         ~ file.NoDisplay, file.Name # <<>>, file.Exec # <<>>
  PROVE  Offers(lines, file.Name, Expanded(file.Exec))
<1> DEFINE n == Len(lines)
           entry(key) == {i \in DOMAIN lines :
             /\ lines[i].key = key
             /\ \E h \in 1 .. i : /\ lines[h] = [key |-> "[", value |-> Title]
                                  /\ \A g \in h + 1 .. i : lines[g].key # "["}
           last(key) == CHOOSE i \in entry(key) : \A j \in entry(key) : j <= i
<1>1. DOMAIN lines = 1 .. n /\ n \in Nat
  BY DEF File
<1>2. \A key : entry(key) = Entry(lines, key, n)
  BY <1>1 DEF Entry, Here, Section
<1> HIDE DEF entry
<1>3. ASSUME NEW key, NEW value, ReadOf(lines, key, n, value), value # <<>>
      PROVE  entry(key) # {} /\ lines[last(key)].value = value
  <2>1. PICK i \in entry(key) : value = lines[i].value /\ \A j \in entry(key) : j <= i
    BY <1>2, <1>3 DEF ReadOf, IsLast
  <2>2. last(key) \in entry(key) /\ \A j \in entry(key) : j <= last(key)
    BY <2>1
  <2>3. \A j \in entry(key) : j \in Int
    BY <1>1, <1>2 DEF Entry
  <2>4. last(key) = i
    <3> HIDE DEF last
    <3> QED BY <2>1, <2>2, <2>3
  <2> QED BY <2>1, <2>4
<1> HIDE DEF last
<1>4. ReadOf(lines, "Name", n, file.Name) /\ ReadOf(lines, "Exec", n, file.Exec)
  BY DEF ReadUpTo
<1>5. /\ entry("Name") # {} /\ lines[last("Name")].value = file.Name
      /\ entry("Exec") # {} /\ lines[last("Exec")].value = file.Exec
  BY <1>3, <1>4
<1>6. \A i \in entry("NoDisplay") : lines[i].value # "true"
  BY <1>2 DEF ReadUpTo
<1>7. Offers(lines, file.Name, Expanded(file.Exec)) <=>
        /\ entry("Name") # {} /\ entry("Exec") # {}
        /\ lines[last("Name")].value = file.Name
        /\ Expanded(lines[last("Exec")].value) = Expanded(file.Exec)
        /\ \A i \in entry("NoDisplay") : lines[i].value # "true"
  BY DEF Offers, entry, last, Title
<1> QED BY <1>5, <1>6, <1>7

(* The lines are texts, the files are files, and no two keys are one. *)
Constants ==
  /\ Lines \in Seq(Text) /\ Dirs \in Seq(Seq(File)) /\ Home \in Seq(File)
  /\ \A k \in DOMAIN Utf8 : Utf8[k] \in Text
  /\ DOMAIN Utf8 \cap (Moves \cup {"BackSpace", "u", "w"}) = {}
  /\ MaxScoreResults \in Nat /\ MaxItems \in Nat /\ InputMax \in Nat

(* A desktop file that may be shown offers this command by this name. *)
Offered(name, exec) ==
  \E dir \in Range(Dirs) \cup {Home} :
    \E file \in Range(dir) : Offers(file, name, exec)

(* What may be found in the files. *)
Found == {r \in {[name |-> t, exec |-> Expanded(u)] : t \in Text, u \in Text} :
            Offered(r.name, r.exec)}

(* One file. *)
LEMMA ParsedIsOffered ==
  ASSUME Constants, NEW dir \in Range(Dirs) \cup {Home}, NEW i \in 1 .. Len(dir),
         NEW found \in Seq(Found)
  PROVE  parse_desktop_file(found, dir[i]) \in Seq(Found)
<1> DEFINE lines == dir[i]
           file == FoldLeft(ReadLine, NoneRead, lines)
           r == [name |-> file.Name, exec |-> Expanded(file.Exec)]
<1>1. dir \in Seq(File)
  BY DEF Constants, Range
<1>2. lines \in File /\ lines \in Range(dir)
  BY <1>1 DEF Range
<1>3. file \in ReadFiles /\ ReadUpTo(file, lines, Len(lines))
  BY <1>2, FileRead
<1>4. parse_desktop_file(found, lines) =
        IF file.NoDisplay \/ file.Name = <<>> \/ file.Exec = <<>> THEN found
        ELSE Append(found, r)
  BY DEF parse_desktop_file, NoneRead
<1> HIDE DEF file, lines
<1>5. CASE file.NoDisplay \/ file.Name = <<>> \/ file.Exec = <<>>
  BY <1>4, <1>5 DEF lines
<1>6. CASE ~ (file.NoDisplay \/ file.Name = <<>> \/ file.Exec = <<>>)
  <2>1. Offers(lines, file.Name, Expanded(file.Exec))
    BY <1>2, <1>3, <1>6, TakenIsOffered
  <2>2. file.Name \in Text /\ file.Exec \in Text
    BY <1>3 DEF ReadFiles
  <2>3. Offered(file.Name, Expanded(file.Exec))
    BY <1>2, <2>1 DEF Offered
  <2>4. r \in Found
    BY <2>2, <2>3 DEF Found
  <2> HIDE DEF r
  <2>5. Append(found, r) \in Seq(Found)
    BY <2>4
  <2> QED BY <1>4, <1>6, <2>5 DEF lines
<1> QED BY <1>5, <1>6

(* One directory. *)
LEMMA ScannedAreOffered ==
  ASSUME Constants, NEW dir \in Range(Dirs) \cup {Home}, NEW found \in Seq(Found)
  PROVE  scan_dir(found, dir) \in Seq(Found)
<1> DEFINE n == Len(dir)
           V == Seq(Found)
           step == [i \in 1 .. n |-> [v \in V |-> parse_desktop_file(v, dir[i])]]
           eq(g) == g = [s \in SUBSET (1 .. n) |->
                     IF s = {} THEN found
                     ELSE parse_desktop_file(g[s \ {Max(s)}], dir[Max(s)])]
           iter == CHOOSE g : eq(g)
<1>0. n \in Nat /\ DOMAIN dir = 1 .. n
  <2>1. dir \in Seq(File)
    BY DEF Constants, Range
  <2> QED BY <2>1
<1>1. scan_dir(found, dir) = iter[1 .. n]
  BY <1>0 DEF scan_dir, FoldLeft, MapThenFoldSet
<1>2. \A i \in 1 .. n : \A v \in V : step[i][v] = parse_desktop_file(v, dir[i])
  OBVIOUS
<1>3. \A i \in 1 .. n : \A v \in V : step[i][v] \in V
  BY <1>2, ParsedIsOffered
<1>4. found \in V
  OBVIOUS
<1> HIDE DEF step, n, V
<1>5. PICK f \in [SUBSET (1 .. n) -> V] : Folds(f, n, found, step)
  BY <1>0, <1>3, <1>4, FoldExists
<1>6. \A s \in SUBSET (1 .. n) :
        f[s] = IF s = {} THEN found ELSE parse_desktop_file(f[s \ {Max(s)}], dir[Max(s)])
  <2> TAKE s \in SUBSET (1 .. n)
  <2>1. CASE s = {}
    BY <1>5, <2>1 DEF Folds
  <2>2. CASE s # {}
    <3>1. Max(s) \in 1 .. n /\ s \ {Max(s)} \in SUBSET (1 .. n)
      BY <1>0, <2>2, MaxIs
    <3>2. f[s] = step[Max(s)][f[s \ {Max(s)}]]
      BY <1>5, <2>2 DEF Folds
    <3> QED BY <1>2, <1>5, <2>2, <3>1, <3>2
  <2> QED BY <2>1, <2>2
<1>7. eq(f)
  BY <1>5, <1>6
<1>8. eq(iter)
  BY <1>7
<1> HIDE DEF iter
<1>9. \A s \in SUBSET (1 .. n) :
        iter[s] = IF s = {} THEN found
                  ELSE parse_desktop_file(iter[s \ {Max(s)}], dir[Max(s)])
  BY <1>8
<1>10. iter[{}] = found
  BY <1>9
<1>11. ASSUME NEW s \in (SUBSET (1 .. n)) \ {{}}, iter[s \ {Max(s)}] \in V
       PROVE  iter[s] = step[Max(s)][iter[s \ {Max(s)}]]
  <2>1. Max(s) \in 1 .. n
    BY <1>0, MaxIs
  <2> QED BY <1>2, <1>9, <1>11, <2>1
<1>12. \A k \in 0 .. n : iter[1 .. k] \in V
  BY <1>0, <1>3, <1>4, <1>10, <1>11, FoldPrefix
<1>13. n \in 0 .. n
  BY <1>0
<1> QED BY <1>1, <1>12, <1>13 DEF V

(* All directories, and the user's own one. *)
LEMMA EntriesAreOffered ==
  ASSUME Constants
  PROVE  DesktopEntries \in Seq(Found)
<1> DEFINE n == Len(Dirs)
           V == Seq(Found)
           base == <<>>
           put(v, dir) == IF Len(v) < MaxEntries THEN scan_dir(v, dir) ELSE v
           step == [i \in 1 .. n |-> [v \in V |-> put(v, Dirs[i])]]
           eq(g) == g = [s \in SUBSET (1 .. n) |->
                     IF s = {} THEN <<>> ELSE put(g[s \ {Max(s)}], Dirs[Max(s)])]
           iter == CHOOSE g : eq(g)
<1>0. n \in Nat /\ DOMAIN Dirs = 1 .. n /\ \A i \in 1 .. n : Dirs[i] \in Range(Dirs)
  BY DEF Constants, Range
<1>1. DesktopEntries = scan_dir(iter[1 .. n], Home)
  BY <1>0 DEF DesktopEntries, FoldLeft, MapThenFoldSet
<1>2. /\ \A i \in 1 .. n : \A v \in V : step[i][v] = put(v, Dirs[i])
      /\ base = <<>>
  OBVIOUS
<1>3. \A i \in 1 .. n : \A v \in V : step[i][v] \in V
  <2> TAKE i \in 1 .. n
  <2> TAKE v \in V
  <2>1. scan_dir(v, Dirs[i]) \in V
    BY <1>0, ScannedAreOffered
  <2> QED BY <1>2, <2>1
<1>4. base \in V
  OBVIOUS
<1> HIDE DEF step, base, n, V, put
<1>5. PICK f \in [SUBSET (1 .. n) -> V] : Folds(f, n, base, step)
  BY <1>0, <1>3, <1>4, FoldExists
<1>6. \A s \in SUBSET (1 .. n) :
        f[s] = IF s = {} THEN <<>> ELSE put(f[s \ {Max(s)}], Dirs[Max(s)])
  <2> TAKE s \in SUBSET (1 .. n)
  <2>1. CASE s = {}
    BY <1>2, <1>5, <2>1 DEF Folds
  <2>2. CASE s # {}
    <3>1. Max(s) \in 1 .. n /\ s \ {Max(s)} \in SUBSET (1 .. n)
      BY <1>0, <2>2, MaxIs
    <3>2. f[s] = step[Max(s)][f[s \ {Max(s)}]]
      BY <1>5, <2>2 DEF Folds
    <3> QED BY <1>2, <1>5, <2>2, <3>1, <3>2
  <2> QED BY <2>1, <2>2
<1>7. eq(f)
  BY <1>5, <1>6
<1>8. eq(iter)
  BY <1>7
<1> HIDE DEF iter
<1>9. \A s \in SUBSET (1 .. n) :
        iter[s] = IF s = {} THEN <<>> ELSE put(iter[s \ {Max(s)}], Dirs[Max(s)])
  BY <1>8
<1>10. iter[{}] = base
  BY <1>2, <1>9
<1>11. ASSUME NEW s \in (SUBSET (1 .. n)) \ {{}}, iter[s \ {Max(s)}] \in V
       PROVE  iter[s] = step[Max(s)][iter[s \ {Max(s)}]]
  <2>1. Max(s) \in 1 .. n
    BY <1>0, MaxIs
  <2> QED BY <1>2, <1>9, <1>11, <2>1
<1>12. \A k \in 0 .. n : iter[1 .. k] \in V
  BY <1>0, <1>3, <1>4, <1>10, <1>11, FoldPrefix
<1>13. iter[1 .. n] \in V
  BY <1>0, <1>12
<1> QED BY <1>1, <1>13, ScannedAreOffered DEF V

(* The names and the commands, in the order of the names. *)
LEMMA DrunOffers ==
  ASSUME Constants, NEW o \in SortedOrders, mode_drun(o)
  PROVE  /\ entries \in Seq(Text) /\ DOMAIN exec_cmds = DOMAIN entries
         /\ \A i \in DOMAIN entries : Offered(entries[i], exec_cmds[i])
<1> DEFINE found == DesktopEntries
<1>1. found \in Seq(Found)
  BY EntriesAreOffered
<1> HIDE DEF found
<1>2. DOMAIN found = 1 .. Len(found) /\ Len(found) \in Nat
  BY <1>1
<1>3. IsFiniteSet(DOMAIN found)
  BY <1>2, FS_Interval
<1> DEFINE n == Cardinality(DOMAIN found)
<1>4. o \in SetToSeqs(DOMAIN found)
  BY DEF SortedOrders, found
<1>5. n \in Nat /\ o \in [1 .. n -> DOMAIN found]
  BY <1>3, <1>4, ListIs
<1> HIDE DEF n
<1>6. /\ entries = [i \in 1 .. n |-> found[o[i]].name]
      /\ exec_cmds = [i \in 1 .. n |-> found[o[i]].exec]
  BY <1>5 DEF mode_drun, found
<1>7. \A i \in 1 .. n : found[o[i]] \in Found
  BY <1>1, <1>5
<1>8. \A r \in Found : r.name \in Text /\ Offered(r.name, r.exec)
  BY DEF Found
<1>9. entries \in Seq(Text)
  BY <1>5, <1>6, <1>7, <1>8
<1> QED BY <1>6, <1>7, <1>8, <1>9

----------------------------------------------------------------------------
(* The invariant. *)

(* The list is that of the query as it is now, *)
Listed ==
  /\ entries \in Seq(Text) /\ input \in Text /\ prev_input = input
  /\ cand = Matching(input, entries)
  /\ filtered \in Seq(DOMAIN entries) /\ ShowsBest(filtered, input, entries)

(* the selection is in it, *)
Selected ==
  /\ cursor \in Int
  /\ ~ strayed => cursor >= 0 /\ (filtered # <<>> => cursor < Len(filtered))

(* every name stands for a command it offers, *)
Offering ==
  /\ mode \in {"dmenu", "drun"}
  /\ mode = "drun" => /\ DOMAIN exec_cmds = DOMAIN entries
                      /\ \A i \in DOMAIN entries : Offered(entries[i], exec_cmds[i])

(* and what was chosen is what was selected. *)
Chosen ==
  outcome = "entry" =>
    LET name == entries[filtered[cursor + 1]]
    IN IF mode = "dmenu" THEN given = name ELSE Offered(name, given)

(* It is kept by every step (NextLaunches). *)
Launches == Listed /\ Selected /\ Offering /\ Chosen

(* filter_update brings the list up to date and leaves the selection in it. *)
LEMMA FilterLists ==
  ASSUME Constants, NEW query \in Text, NEW lines \in Seq(Text), filter_update(query, lines),
         prev_input \in Text, Appended(query) => cand = Matching(prev_input, lines),
         cursor \in Int
  PROVE  /\ prev_input' = query /\ cand' = Matching(query, lines)
         /\ filtered' \in Seq(DOMAIN lines) /\ ShowsBest(filtered', query, lines)
         /\ cursor' \in Int
         /\ cursor >= 0 => cursor' >= 0 /\ (filtered' # <<>> => cursor' < Len(filtered'))
<1>1. /\ cand' = Candidates(query, lines) /\ prev_input' = query
      /\ filtered' \in Results(Candidates(query, lines), query, lines)
      /\ cursor' = Clamp(cursor, Len(filtered'))
  BY DEF filter_update
<1>2. Candidates(query, lines) = Matching(query, lines)
  BY CandidatesMatch
<1> DEFINE list == filtered'
<1>3. list \in Results(Matching(query, lines), query, lines)
  BY <1>1, <1>2
<1> HIDE DEF list
<1>4. list \in Seq(DOMAIN lines) /\ ShowsBest(list, query, lines)
  BY <1>3, ResultsAreBest DEF Constants
<1>5. Len(list) \in Nat /\ (list # <<>> => Len(list) > 0)
  BY <1>4, EmptySeq
<1>6. /\ cursor' = Clamp(cursor, Len(list))
  BY <1>1 DEF list
<1>7. cursor' \in Int /\ (cursor >= 0 => cursor' >= 0 /\ (list # <<>> => cursor' < Len(list)))
  <2> HIDE DEF list
  <2>1. CASE cursor >= Len(list)
    BY <1>5, <1>6, <2>1 DEF Clamp, Greatest
  <2>2. CASE ~ (cursor >= Len(list))
    BY <1>5, <1>6, <2>2 DEF Clamp
  <2> QED BY <2>1, <2>2
<1> QED BY <1>1, <1>2, <1>4, <1>7 DEF list

(* What a key makes of the query is a query that has room. *)
LEMMA QueryIs ==
  ASSUME Constants, input \in Text, NEW k, Edits(k)
  PROVE  /\ Query(k) \in Text
         /\ Len(Query(k)) <= InputMax \/ Len(Query(k)) <= Len(input)
<1> USE DEF Text
<1>1. CASE k \in DOMAIN Utf8
  <2>1. k # "BackSpace" /\ k # "u" /\ k # "w"
    BY <1>1 DEF Constants
  <2>2. Query(k) = input \o Utf8[k]
    BY <1>1, <2>1 DEF Query
  <2>3. Utf8[k] \in Seq(STRING)
    BY <1>1 DEF Constants
  <2>4. Len(input) + Len(Utf8[k]) <= InputMax
    BY <1>1, <2>1 DEF Edits
  <2> QED BY <2>2, <2>3, <2>4
<1>2. CASE k = "BackSpace" /\ input # <<>>
  <2>1. k \notin DOMAIN Utf8
    BY <1>2 DEF Constants
  <2>2. Query(k) = SubSeq(input, 1, Len(input) - 1)
    BY <1>2, <2>1 DEF Query
  <2>3. Len(input) \in Nat /\ Len(input) # 0
    BY <1>2, EmptySeq
  <2>4. \A i \in 1 .. Len(input) - 1 : input[i] \in STRING
    BY <2>3
  <2> DEFINE n == Len(input) - 1
  <2>5. n \in 0 .. Len(input) /\ n <= Len(input)
    BY <2>3
  <2> HIDE DEF n
  <2>6. SubSeq(input, 1, n) \in Seq(STRING) /\ Len(SubSeq(input, 1, n)) = n
    BY <2>3, <2>5
  <2> QED BY <2>2, <2>5, <2>6 DEF n
<1>3. CASE k = "u"
  <2>1. k \notin DOMAIN Utf8
    BY <1>3 DEF Constants
  <2>2. Query(k) = <<>>
    BY <1>3, <2>1 DEF Query
  <2>3. Len(<<>>) = 0 /\ Len(input) \in Nat
    BY EmptySeq
  <2> QED BY <2>2, <2>3
<1>4. CASE k = "w"
  <2> DEFINE blank(c) == c = " "
             I == {i \in 1 .. Len(Reverse(input)) : ~ blank(Reverse(input)[i])}
             trimmed == IF I # {} THEN Min(I) ELSE 0
             words == IF trimmed = 0 THEN <<>> ELSE SubSeq(input, 1, Len(input) - trimmed + 1)
             J == {i \in 1 .. Len(words) : blank(words[i])}
             m == IF J # {} THEN Max(J) ELSE 0
  <2>1. k \notin DOMAIN Utf8
    BY <1>4 DEF Constants
  <2>2. Query(k) = SubSeq(words, 1, m)
    BY <1>4, <2>1 DEF Query, SelectInSeq, SelectLastInSeq
  <2>3. Len(input) \in Nat /\ Len(Reverse(input)) = Len(input)
    BY DEF Reverse
  <2> HIDE DEF blank
  <2>4. trimmed \in 0 .. Len(input)
    <3>1. I \subseteq 1 .. Len(input)
      BY <2>3
    <3>2. I \in SUBSET Nat
      BY <3>1
    <3>3. I # {} => Min(I) \in I
      <4> HIDE DEF I
      <4> QED BY <3>2, MinIsIn
    <3> DEFINE least == Min(I)
    <3> HIDE DEF I
    <3>4. I # {} => least \in 1 .. Len(input)
      BY <3>1, <3>3
    <3>5. trimmed = IF I # {} THEN least ELSE 0
      OBVIOUS
    <3> HIDE DEF trimmed, least
    <3> QED BY <2>3, <3>4, <3>5
  <2> HIDE DEF trimmed
  <2>5. words \in Seq(STRING) /\ Len(words) \in Nat /\ Len(words) <= Len(input)
    <3>1. CASE trimmed = 0
      <4>1. words = <<>> /\ <<>> \in Seq(STRING) /\ Len(<<>>) = 0
        BY <3>1, EmptySeq
      <4> HIDE DEF words
      <4> QED BY <2>3, <4>1
    <3>2. CASE trimmed # 0
      <4>1. Len(input) - trimmed + 1 \in 0 .. Len(input)
        BY <2>3, <2>4, <3>2
      <4> DEFINE n == Len(input) - trimmed + 1
      <4> HIDE DEF n
      <4>2. SubSeq(input, 1, n) \in Seq(STRING) /\ Len(SubSeq(input, 1, n)) = n
        BY <4>1 DEF n
      <4>3. words = SubSeq(input, 1, n)
        BY <3>2 DEF n
      <4>4. n \in Nat /\ n <= Len(input)
        BY <2>3, <4>1 DEF n
      <4> HIDE DEF words
      <4> QED BY <4>2, <4>3, <4>4
    <3> QED BY <3>1, <3>2
  <2> HIDE DEF words
  <2>6. m \in 0 .. Len(words)
    <3>1. J \in SUBSET (1 .. Len(words))
      OBVIOUS
    <3>2. J # {} => Max(J) \in J
      <4> HIDE DEF J
      <4> QED BY <2>5, <3>1, MaxIs
    <3> DEFINE most == Max(J)
    <3> HIDE DEF J
    <3>3. J # {} => most \in 1 .. Len(words)
      BY <3>1, <3>2
    <3>4. m = IF J # {} THEN most ELSE 0
      OBVIOUS
    <3> HIDE DEF m, most
    <3> QED BY <2>5, <3>3, <3>4
  <2> HIDE DEF m
  <2>7. SubSeq(words, 1, m) \in Seq(STRING) /\ Len(SubSeq(words, 1, m)) = m
    BY <2>5, <2>6
  <2> QED BY <2>2, <2>3, <2>5, <2>6, <2>7
<1> QED BY <1>1, <1>2, <1>3, <1>4 DEF Edits

(* At the start all lines are listed and the first one is selected. *)
LEMMA InitLaunches == ASSUME Constants, Init PROVE Launches
<1>1. <<>> \in Text
  BY DEF Text
<1>2. entries \in Seq(Text) /\ Offering
  <2>1. CASE mode = "dmenu"
    <3>1. PICK n \in 0 .. Least(1, Len(Lines)) : entries = SubSeq(Lines, 1, n)
      <4>1. mode # "drun"
        BY <2>1
      <4> QED BY <4>1 DEF Init
    <3>2. Lines \in Seq(Text)
      BY DEF Constants
    <3>3. n \in 0 .. Len(Lines)
      BY <3>2 DEF Least
    <3>4. entries \in Seq(Text)
      BY <3>1, <3>2, <3>3
    <3> QED BY <2>1, <3>4 DEF Offering
  <2>2. CASE mode = "drun"
    <3>1. PICK o \in SortedOrders : mode_drun(o)
      <4>1. mode # "dmenu"
        BY <2>2
      <4> QED BY <4>1 DEF Init
    <3> QED BY <2>2, <3>1, DrunOffers DEF Offering
  <2> QED BY <2>1, <2>2 DEF Init
<1>3. /\ input = <<>> /\ prev_input = <<>> /\ cand = DOMAIN entries
      /\ filtered \in Results(cand, <<>>, entries)
      /\ cursor = 0 /\ strayed = FALSE /\ outcome \in {"open", "closed"}
  BY DEF Init
<1>4. Matching(<<>>, entries) = DOMAIN entries
  <2>1. \A e \in DOMAIN entries : Matches(<<>>, entries[e])
    <3> TAKE e \in DOMAIN entries
    <3>1. entries[e] \in Text
      BY <1>2
    <3> QED BY <3>1, AllMatchNothing
  <2> QED BY <2>1 DEF Matching
<1>5. filtered \in Seq(DOMAIN entries) /\ ShowsBest(filtered, <<>>, entries)
  <2>1. filtered \in Results(Matching(<<>>, entries), <<>>, entries)
    BY <1>3, <1>4
  <2>2. MaxScoreResults \in Nat
    BY DEF Constants
  <2> QED BY <1>1, <1>2, <2>1, <2>2, ResultsAreBest
<1>6. Listed
  BY <1>1, <1>2, <1>3, <1>4, <1>5 DEF Listed
<1>7. filtered # <<>> => 0 < Len(filtered)
  BY <1>5, EmptySeq
<1>8. Selected
  BY <1>3, <1>7 DEF Selected
<1>9. Chosen
  BY <1>3 DEF Chosen
<1> QED BY <1>2, <1>6, <1>8, <1>9 DEF Launches

(* An edit of the query. *)
LEMMA EditLaunches ==
  ASSUME Constants, Listed, Selected, NEW k, Edit(k), UNCHANGED entries
  PROVE  Listed' /\ Selected'
<1>1. /\ Edits(k) /\ input' = Query(k) /\ filter_update(Query(k), entries)
      /\ strayed' = strayed /\ entries' = entries
  BY DEF Edit
<1>2. Query(k) \in Text
  BY <1>1, QueryIs DEF Listed
<1> DEFINE query == Query(k)
<1>3. /\ entries \in Seq(Text) /\ prev_input \in Text /\ cand = Matching(prev_input, entries)
      /\ cursor \in Int
  BY DEF Listed, Selected
<1> HIDE DEF query
<1>4. /\ prev_input' = query /\ cand' = Matching(query, entries)
      /\ filtered' \in Seq(DOMAIN entries) /\ ShowsBest(filtered', query, entries)
      /\ cursor' \in Int
      /\ cursor >= 0 => cursor' >= 0 /\ (filtered' # <<>> => cursor' < Len(filtered'))
  BY <1>1, <1>2, <1>3, FilterLists DEF query
<1>5. Listed'
  BY <1>1, <1>2, <1>3, <1>4 DEF Listed, query
<1>6. Selected'
  BY <1>1, <1>4 DEF Selected
<1> QED BY <1>5, <1>6

(* A key that moves the selection. *)
LEMMA MoveLaunches ==
  ASSUME Constants, Listed, Selected, NEW k, Move(k), UNCHANGED entries
  PROVE  Listed' /\ Selected'
<1> DEFINE n == Len(filtered)
<1>1. n \in Nat /\ (filtered # <<>> => n > 0) /\ MaxItems \in Nat /\ cursor \in Int
  BY EmptySeq DEF Listed, Selected, Constants
<1>2. /\ k \in Moves /\ cursor' = Moved(k)
      /\ strayed' = (strayed \/ (k \in {"PageDown", "End"} /\ filtered = <<>>))
      /\ UNCHANGED <<input, prev_input, cand, filtered, entries>>
  BY DEF Move
<1>3. Listed'
  BY <1>2 DEF Listed
<1> HIDE DEF n
<1>4. /\ cursor' \in Int
      /\ ~ strayed' => cursor' >= 0 /\ (filtered # <<>> => cursor' < n)
  <2>0. ~ strayed' => ~ strayed /\ (filtered = <<>> => k \notin {"PageDown", "End"})
    BY <1>2
  <2>1. ~ strayed => cursor >= 0 /\ (filtered # <<>> => cursor < n)
    BY DEF Selected, n
  <2>2. CASE k = "Up"
    <3>1. cursor' = IF cursor > 0 THEN cursor - 1 ELSE cursor
      BY <1>2, <2>2 DEF Moved
    <3> QED BY <1>1, <2>0, <2>1, <3>1
  <2>3. CASE k = "Down"
    <3>1. cursor' = IF cursor < n - 1 THEN cursor + 1 ELSE cursor
      BY <1>2, <2>3 DEF Moved, LastResult, n
    <3> QED BY <1>1, <2>0, <2>1, <3>1
  <2>4. CASE k = "PageUp"
    <3>1. cursor' = IF cursor - MaxItems > 0 THEN cursor - MaxItems ELSE 0
      BY <1>2, <2>4 DEF Moved, Greatest
    <3> QED BY <1>1, <2>0, <2>1, <3>1
  <2>5. CASE k = "PageDown"
    <3>1. cursor' = IF cursor + MaxItems < n - 1 THEN cursor + MaxItems ELSE n - 1
      BY <1>2, <2>5 DEF Moved, Least, LastResult, n
    <3> QED BY <1>1, <2>0, <2>1, <2>5, <3>1
  <2>6. CASE k = "Home"
    <3>1. cursor' = 0
      BY <1>2, <2>6 DEF Moved
    <3> QED BY <1>1, <2>0, <2>1, <3>1
  <2>7. CASE k = "End"
    <3>1. cursor' = n - 1
      BY <1>2, <2>7 DEF Moved, LastResult, n
    <3> QED BY <1>1, <2>0, <2>1, <2>7, <3>1
  <2>8. CASE k = "Tab"
    <3>1. cursor' = IF filtered = <<>> THEN cursor ELSE (cursor + 1) % n
      BY <1>2, <2>8 DEF Moved, n
    <3>2. filtered # <<>> => (cursor + 1) % n \in 0 .. n - 1
      BY <1>1
    <3> QED BY <1>1, <2>0, <2>1, <3>1, <3>2
  <2> QED BY <1>2, <2>2, <2>3, <2>4, <2>5, <2>6, <2>7, <2>8 DEF Moves
<1>5. Selected'
  BY <1>2, <1>4 DEF Selected, n
<1> QED BY <1>3, <1>5

(* More lines. *)
LEMMA PumpLaunches ==
  ASSUME Constants, Listed, Selected, Pump
  PROVE  Listed' /\ Selected'
<1>1. PICK n \in Len(entries) + 1 .. Len(Lines) :
        entries' = SubSeq(Lines, 1, n) /\ filter_update(input, entries')
  BY DEF Pump
<1>2. input' = input /\ strayed' = strayed
  BY DEF Pump
<1> DEFINE lines == SubSeq(Lines, 1, n)
<1>3. Len(entries) \in Nat /\ Lines \in Seq(Text)
  BY DEF Listed, Constants
<1>4. lines \in Seq(Text)
  BY <1>3
<1>5. entries' = lines /\ filter_update(input, lines)
  BY <1>1
<1> HIDE DEF lines
<1>6. /\ prev_input \in Text /\ input \in Text /\ prev_input = input /\ cursor \in Int
  BY DEF Listed, Selected
<1>7. ~ Appended(input)
  <2>1. Len(input) \in Nat
    BY <1>6 DEF Text
  <2> QED BY <1>6, <2>1 DEF Appended
<1>8. /\ prev_input' = input /\ cand' = Matching(input, lines)
      /\ filtered' \in Seq(DOMAIN lines) /\ ShowsBest(filtered', input, lines)
      /\ cursor' \in Int
      /\ cursor >= 0 => cursor' >= 0 /\ (filtered' # <<>> => cursor' < Len(filtered'))
  BY <1>4, <1>5, <1>6, <1>7, FilterLists
<1>9. Listed'
  BY <1>2, <1>4, <1>5, <1>6, <1>8 DEF Listed
<1>10. Selected'
  BY <1>2, <1>8 DEF Selected
<1> QED BY <1>9, <1>10

(* What is chosen is the selected line or the command of the selected name. *)
LEMMA EndLaunches ==
  ASSUME Constants, Launches, End
  PROVE  Launches'
<1>1. UNCHANGED <<loaded, input, prev_input, cand, filtered, cursor, strayed>>
  BY DEF End
<1>2. Listed' /\ Selected' /\ Offering'
  BY <1>1 DEF Launches, Listed, Selected, Offering, loaded
<1>3. Chosen'
  <2> SUFFICES ASSUME outcome' = "entry"
               PROVE  LET name == entries[filtered[cursor + 1]]
                      IN IF mode = "dmenu" THEN given' = name ELSE Offered(name, given')
    BY <1>1 DEF Chosen, loaded
  <2> DEFINE e == filtered[cursor + 1]
  <2>1. emit
    BY DEF End
  <2>2. /\ SelectedEntry
        /\ given' = IF mode = "drun" THEN exec_cmds[e] ELSE entries[e]
    BY <2>1 DEF emit
  <2>3. e \in DOMAIN entries
    <3>1. cursor \in Int /\ cursor >= 0 /\ cursor < Len(filtered)
      BY <2>2 DEF SelectedEntry, Launches, Selected
    <3>2. filtered \in Seq(DOMAIN entries)
      BY DEF Launches, Listed
    <3>3. cursor + 1 \in 1 .. Len(filtered)
      BY <3>1, <3>2
    <3> QED BY <3>2, <3>3
  <2> HIDE DEF e
  <2>4. CASE mode = "drun"
    <3>1. Offered(entries[e], exec_cmds[e])
      BY <2>3, <2>4 DEF Launches, Offering
    <3> QED BY <2>2, <2>4, <3>1 DEF e
  <2>5. CASE mode = "dmenu"
    BY <2>2, <2>5 DEF e
  <2> QED BY <2>4, <2>5 DEF Launches, Offering
<1> QED BY <1>2, <1>3 DEF Launches

(* A key. *)
LEMMA EffectLaunches ==
  ASSUME Constants, Launches, Open, NEW k, Effect(k)
  PROVE  Launches'
<1>1. Edit(k) \/ Move(k)
  BY DEF Effect
<1>2. UNCHANGED <<loaded, choice>>
  BY DEF Effect
<1>3. Listed' /\ Selected'
  BY <1>1, <1>2, EditLaunches, MoveLaunches DEF Launches, loaded
<1>4. Offering'
  BY <1>2 DEF Launches, Offering, loaded
<1>5. Chosen'
  BY <1>2 DEF Chosen, choice, Open
<1> QED BY <1>3, <1>4, <1>5 DEF Launches

(* Every step keeps the invariant. *)
LEMMA NextLaunches ==
  ASSUME Constants, Launches, [Next]_vars
  PROVE  Launches'
<1> DEFINE same == UNCHANGED <<loaded, input, prev_input, cand, filtered, cursor, choice,
                               strayed>>
<1>1. ASSUME same PROVE Launches'
  BY <1>1 DEF Launches, Listed, Selected, Offering, Chosen, loaded, choice
<1> HIDE DEF same
<1>2. CASE Next
  <2>1. CASE \E k \in DOMAIN Utf8 \cup Moves \cup {"BackSpace", "u", "w"} : Press(k)
    BY <2>1, EffectLaunches DEF Press
  <2>2. CASE PressInVain
    BY <1>1, <2>2 DEF PressInVain, same
  <2>3. CASE Repeat
    BY <2>3, EffectLaunches DEF Repeat
  <2>4. CASE Release
    BY <1>1, <2>4 DEF Release, same
  <2>5. CASE End
    BY <2>5, EndLaunches
  <2>6. CASE Pump
    <3>1. Listed' /\ Selected'
      BY <2>6, PumpLaunches DEF Launches
    <3>2. Offering'
      <4>1. mode = "dmenu" /\ mode' = mode
        BY <2>6 DEF Pump
      <4> QED BY <4>1 DEF Offering
    <3>3. Chosen'
      <4>1. outcome = "open" /\ outcome' = outcome
        BY <2>6 DEF Pump, Open, choice
      <4> QED BY <4>1 DEF Chosen
    <3> QED BY <3>1, <3>2, <3>3 DEF Launches
  <2>7. CASE Draw
    BY <1>1, <2>7 DEF Draw, same
  <2>8. CASE Over
    BY <1>1, <2>8 DEF Over, same, vars
  <2> QED BY <1>2, <2>1, <2>2, <2>3, <2>4, <2>5, <2>6, <2>7, <2>8 DEF Next
<1>3. CASE UNCHANGED vars
  BY <1>1, <1>3 DEF same, vars
<1> QED BY <1>2, <1>3

(* The list shows the best of all matching lines (filter.c:130-236). *)
LEMMA LaunchesBest == ASSUME Constants, Launches PROVE ShowsBestMatches
BY DEF Launches, Listed, ShowsBest, ShowsBestMatches, Matching

(* What is selected and chosen is a result (input.c, mode_drun.c). *)
LEMMA LaunchesSelected == ASSUME Constants, Launches PROVE SelectionIsAResult
<1>1. filtered # <<>> /\ ~ strayed => cursor \in 0 .. Len(filtered) - 1
  <2>1. Len(filtered) \in Nat
    BY DEF Launches, Listed
  <2> QED BY <2>1 DEF Launches, Selected
<1>2. outcome = "entry" =>
        LET name == entries[filtered[cursor + 1]]
        IN IF mode = "dmenu" THEN given = name ELSE Offered(name, given)
  BY DEF Launches, Chosen
<1> QED BY <1>1, <1>2 DEF SelectionIsAResult, Offered

----------------------------------------------------------------------------
(* The types. *)

(* What TypeOK says besides what follows from Launches; the selection is in  *)
(* the list, or it is the first or -1.                                       *)
Typed ==
  /\ mode = "dmenu" => IsPrefix(entries, Lines) /\ exec_cmds = <<>>
  /\ mode = "drun" => Len(entries) = Len(exec_cmds)
  /\ Len(input) <= InputMax
  /\ cursor >= -1 /\ cursor <= Greatest(Len(filtered) - 1, 0)
  /\ visible_start \in -1 .. Len(entries) + 1
  /\ repeat_key \in Repeating \cup {NoRepeat}
  /\ outcome \in {"open", "closed", "raw", "entry"}
  /\ need_redraw \in BOOLEAN /\ strayed \in BOOLEAN

(* The list has no more members than there are lines. *)
LEMMA ListFits ==
  ASSUME NEW lines \in Seq(Text), NEW query \in Text, MaxScoreResults \in Nat,
         NEW list \in Seq(DOMAIN lines), ShowsBest(list, query, lines)
  PROVE  Len(list) \in 0 .. Len(lines)
<1> DEFINE n == Cardinality(Matching(query, lines))
<1>1. DOMAIN lines = 1 .. Len(lines) /\ Len(lines) \in Nat /\ Len(list) \in Nat
  OBVIOUS
<1>2. IsFiniteSet(DOMAIN lines) /\ Cardinality(DOMAIN lines) = Len(lines)
  <2> DEFINE m == Len(lines)
  <2>1. m \in Nat /\ DOMAIN lines = 1 .. m
    BY <1>1
  <2> HIDE DEF m
  <2>2. IsFiniteSet(1 .. m) /\ Cardinality(1 .. m) = m
    BY <2>1, FS_Interval
  <2> QED BY <2>1, <2>2 DEF m
<1>3. Matching(query, lines) \in SUBSET DOMAIN lines
  BY DEF Matching
<1>4. n \in Nat /\ n <= Len(lines)
  BY <1>2, <1>3, FS_Subset, FS_CardinalityType
<1>5. Len(list) = Least(n, MaxScoreResults)
  BY DEF ShowsBest
<1> HIDE DEF n
<1> QED BY <1>1, <1>4, <1>5 DEF Least

(* With the invariant they make TypeOK. *)
LEMMA LaunchesTyped == ASSUME Constants, Launches, Typed PROVE TypeOK
<1>1. /\ entries \in Seq(Text) /\ input \in Text /\ prev_input = input
      /\ filtered \in Seq(DOMAIN entries) /\ ShowsBest(filtered, input, entries)
      /\ cand = Matching(input, entries) /\ cursor \in Int
  BY DEF Launches, Listed, Selected
<1>2. Len(filtered) \in 0 .. Len(entries) /\ Len(entries) \in Nat
  BY <1>1, ListFits DEF Constants
<1>3. cursor \in -1 .. Len(entries)
  BY <1>1, <1>2 DEF Typed, Greatest
<1>4. cand \subseteq DOMAIN entries /\ Range(filtered) \subseteq cand
  BY <1>1 DEF ShowsBest, Matching
<1> QED BY <1>1, <1>3, <1>4 DEF Typed, TypeOK

(* What was read so far is the beginning of what will be. *)
LEMMA ReadIsPrefix ==
  ASSUME Lines \in Seq(Text), NEW n \in 0 .. Len(Lines)
  PROVE  IsPrefix(SubSeq(Lines, 1, n), Lines) /\ Len(SubSeq(Lines, 1, n)) = n
<1> DEFINE s == SubSeq(Lines, 1, n)
<1>1. s \in Seq(Text) /\ Len(s) = n /\ n <= Len(Lines)
  OBVIOUS
<1>2. SubSeq(s, 1, Len(s)) = s
  <2> HIDE DEF s
  <2> QED BY <1>1
<1> QED BY <1>1, <1>2 DEF IsPrefix

(* The types hold at the start, *)
LEMMA InitTyped == ASSUME Constants, Init PROVE Typed
<1>1. Launches
  BY InitLaunches
<1>2. Len(filtered) \in Nat /\ Len(entries) \in Nat
  BY <1>1 DEF Launches, Listed
<1>3. mode = "dmenu" => IsPrefix(entries, Lines) /\ exec_cmds = <<>>
  <2> SUFFICES ASSUME mode = "dmenu"
               PROVE  IsPrefix(entries, Lines) /\ exec_cmds = <<>>
    OBVIOUS
  <2>1. mode # "drun"
    OBVIOUS
  <2>2. /\ exec_cmds = <<>>
        /\ \E n \in 0 .. Least(1, Len(Lines)) : entries = SubSeq(Lines, 1, n)
    BY <2>1 DEF Init
  <2>3. PICK n \in 0 .. Least(1, Len(Lines)) : entries = SubSeq(Lines, 1, n)
    BY <2>2
  <2>4. Lines \in Seq(Text) /\ n \in 0 .. Len(Lines)
    BY DEF Constants, Least
  <2> QED BY <2>2, <2>3, <2>4, ReadIsPrefix
<1>4. mode = "drun" => Len(entries) = Len(exec_cmds)
  <2> SUFFICES ASSUME mode = "drun" PROVE Len(entries) = Len(exec_cmds)
    OBVIOUS
  <2>1. mode # "dmenu"
    OBVIOUS
  <2>2. PICK o \in SortedOrders : mode_drun(o)
    BY <2>1 DEF Init
  <2> DEFINE S == {DesktopEntries[o[i]].exec : i \in DOMAIN o}
  <2>3. entries \in Seq(Text) /\ DOMAIN exec_cmds = DOMAIN entries
    BY <2>2, DrunOffers
  <2>4. exec_cmds \in [DOMAIN o -> S]
    BY <2>2 DEF mode_drun
  <2>5. DOMAIN entries = 1 .. Len(entries) /\ exec_cmds \in [1 .. Len(entries) -> S]
    <3>1. DOMAIN entries = 1 .. Len(entries)
      BY <2>3
    <3> HIDE DEF S
    <3>2. DOMAIN exec_cmds = DOMAIN o
      BY <2>4
    <3> QED BY <2>3, <2>4, <3>1, <3>2
  <2> HIDE DEF S
  <2>6. exec_cmds \in Seq(S)
    BY <1>2, <2>5
  <2>7. DOMAIN exec_cmds = 1 .. Len(exec_cmds) /\ Len(exec_cmds) \in Nat
    BY <2>6
  <2> QED BY <1>2, <2>3, <2>5, <2>7
<1>5. Len(input) <= InputMax
  BY DEF Init, Constants
<1>6. cursor = 0 /\ visible_start = 0 /\ need_redraw = TRUE /\ strayed = FALSE
      /\ repeat_key = NoRepeat /\ outcome \in {"open", "closed"}
  BY DEF Init
<1>7. cursor <= Greatest(Len(filtered) - 1, 0) /\ cursor >= -1
  BY <1>2, <1>6 DEF Greatest
<1>8. visible_start \in -1 .. Len(entries) + 1
  BY <1>2, <1>6
<1> QED BY <1>3, <1>4, <1>5, <1>6, <1>7, <1>8 DEF Typed

(* clamping leaves the selection in the list or at its start, *)
LEMMA ClampFits ==
  ASSUME NEW c \in Int, c >= -1, NEW n \in Nat
  PROVE  Clamp(c, n) >= -1 /\ Clamp(c, n) <= Greatest(n - 1, 0)
BY DEF Clamp, Greatest

(* and so does an edit; *)
LEMMA EditTyped ==
  ASSUME Constants, Launches, Typed, NEW k, Edit(k), UNCHANGED entries
  PROVE  /\ Len(input') <= InputMax /\ need_redraw' = TRUE /\ strayed' = strayed
         /\ cursor' >= -1 /\ cursor' <= Greatest(Len(filtered') - 1, 0)
<1>1. /\ Edits(k) /\ input' = Query(k) /\ filter_update(Query(k), entries)
      /\ strayed' = strayed
  BY DEF Edit
<1>2. Len(input') <= InputMax
  BY <1>1, QueryIs DEF Launches, Listed, Typed, Text, Constants
<1>3. Listed'
  BY EditLaunches DEF Launches
<1>4. Len(filtered') \in Nat
  BY <1>3 DEF Listed
<1>5. cursor' = Clamp(cursor, Len(filtered')) /\ need_redraw' = TRUE
  BY <1>1 DEF filter_update
<1>6. cursor \in Int /\ cursor >= -1
  BY DEF Launches, Selected, Typed
<1> QED BY <1>1, <1>2, <1>4, <1>5, <1>6, ClampFits

(* a move, *)
LEMMA MoveTyped ==
  ASSUME Constants, Launches, Typed, NEW k, Move(k)
  PROVE  /\ input' = input /\ filtered' = filtered
         /\ need_redraw' \in BOOLEAN /\ strayed' \in BOOLEAN
         /\ cursor' >= -1 /\ cursor' <= Greatest(Len(filtered) - 1, 0)
<1> DEFINE n == Len(filtered)
           last == Greatest(n - 1, 0)
<1>1. /\ k \in Moves /\ cursor' = Moved(k) /\ input' = input /\ filtered' = filtered
      /\ need_redraw' \in BOOLEAN /\ strayed' \in BOOLEAN
  BY DEF Move, Typed
<1>2. /\ n \in Nat /\ (filtered # <<>> => n > 0) /\ MaxItems \in Nat
      /\ cursor \in Int /\ cursor >= -1 /\ cursor <= last
  BY EmptySeq DEF Launches, Listed, Selected, Constants, Typed
<1>3. last \in Int /\ last >= 0 /\ last >= n - 1
  BY <1>2 DEF Greatest
<1>4. LastResult = n - 1
  BY DEF LastResult
<1> HIDE DEF n, last
<1>5. cursor' >= -1 /\ cursor' <= last
  <2>1. CASE k = "Up"
    <3>1. cursor' = IF cursor > 0 THEN cursor - 1 ELSE cursor
      BY <1>1, <2>1 DEF Moved
    <3> QED BY <1>2, <1>3, <3>1
  <2>2. CASE k = "Down"
    <3>1. cursor' = IF cursor < n - 1 THEN cursor + 1 ELSE cursor
      BY <1>1, <1>4, <2>2 DEF Moved
    <3> QED BY <1>2, <1>3, <3>1
  <2>3. CASE k = "PageUp"
    <3>1. cursor' = IF cursor - MaxItems > 0 THEN cursor - MaxItems ELSE 0
      BY <1>1, <2>3 DEF Moved, Greatest
    <3> QED BY <1>2, <1>3, <3>1
  <2>4. CASE k = "PageDown"
    <3>1. cursor' = IF cursor + MaxItems < n - 1 THEN cursor + MaxItems ELSE n - 1
      BY <1>1, <1>4, <2>4 DEF Moved, Least
    <3> QED BY <1>2, <1>3, <3>1
  <2>5. CASE k = "Home"
    <3>1. cursor' = 0
      BY <1>1, <2>5 DEF Moved
    <3> QED BY <1>3, <3>1
  <2>6. CASE k = "End"
    <3>1. cursor' = n - 1
      BY <1>1, <1>4, <2>6 DEF Moved
    <3> QED BY <1>2, <1>3, <3>1
  <2>7. CASE k = "Tab"
    <3>1. cursor' = IF filtered = <<>> THEN cursor ELSE (cursor + 1) % n
      BY <1>1, <2>7 DEF Moved, n
    <3>2. filtered # <<>> => (cursor + 1) % n \in 0 .. n - 1
      BY <1>2
    <3> QED BY <1>2, <1>3, <3>1, <3>2
  <2> QED BY <1>1, <2>1, <2>2, <2>3, <2>4, <2>5, <2>6, <2>7 DEF Moves
<1> QED BY <1>1, <1>5 DEF last, n

(* a key, *)
LEMMA EffectTyped ==
  ASSUME Constants, Launches, Typed, NEW k, Effect(k),
         repeat_key' \in Repeating \cup {NoRepeat}
  PROVE  Typed'
<1>1. UNCHANGED <<loaded, visible_start, choice>>
  BY DEF Effect
<1>2. /\ Len(input') <= InputMax /\ need_redraw' \in BOOLEAN /\ strayed' \in BOOLEAN
      /\ cursor' >= -1 /\ cursor' <= Greatest(Len(filtered') - 1, 0)
  <2>1. CASE Edit(k)
    BY <1>1, <2>1, EditTyped DEF loaded, Typed
  <2>2. CASE Move(k)
    BY <2>2, MoveTyped DEF Typed
  <2> QED BY <2>1, <2>2 DEF Effect
<1> QED BY <1>1, <1>2 DEF Typed, loaded, choice

(* more lines, *)
LEMMA PumpTyped == ASSUME Constants, Launches, Typed, Pump PROVE Typed'
<1>1. PICK n \in Len(entries) + 1 .. Len(Lines) :
        entries' = SubSeq(Lines, 1, n) /\ filter_update(input, entries')
  BY DEF Pump
<1>2. UNCHANGED <<mode, exec_cmds, input, visible_start, repeat_key, choice, strayed>>
      /\ mode = "dmenu"
  BY DEF Pump
<1>3. Len(entries) \in Nat /\ Lines \in Seq(Text) /\ n \in 0 .. Len(Lines)
  BY <1>1 DEF Launches, Listed, Constants
<1>4. IsPrefix(entries', Lines) /\ Len(entries') = n
  BY <1>1, <1>3, ReadIsPrefix
<1>5. visible_start' \in -1 .. Len(entries') + 1
  BY <1>1, <1>2, <1>3, <1>4 DEF Typed
<1>6. Len(filtered') \in Nat
  BY PumpLaunches DEF Launches, Listed
<1>7. cursor' = Clamp(cursor, Len(filtered')) /\ need_redraw' = TRUE
  BY <1>1 DEF filter_update
<1>8. cursor' >= -1 /\ cursor' <= Greatest(Len(filtered') - 1, 0)
  BY <1>6, <1>7, ClampFits DEF Launches, Selected, Typed
<1> QED BY <1>2, <1>4, <1>5, <1>7, <1>8 DEF Typed, choice

(* scrolling, *)
LEMMA DrawTyped == ASSUME Constants, Launches, Typed, Draw PROVE Typed'
<1> DEFINE n == Len(filtered)
           up == IF cursor < visible_start THEN cursor ELSE visible_start
           page == IF MaxItems < n THEN MaxItems ELSE n
<1>1. /\ visible_start' = Scrolled /\ need_redraw' = FALSE
      /\ UNCHANGED <<loaded, input, prev_input, cand, filtered, cursor,
                     repeat_key, choice, strayed>>
  BY DEF Draw
<1>2. /\ entries \in Seq(Text) /\ filtered \in Seq(DOMAIN entries) /\ input \in Text
      /\ ShowsBest(filtered, input, entries) /\ cursor \in Int
      /\ MaxScoreResults \in Nat /\ MaxItems \in Nat
  BY DEF Launches, Listed, Selected, Constants
<1>3. n \in 0 .. Len(entries) /\ Len(entries) \in Nat
  BY <1>2, ListFits
<1>4. /\ cursor >= -1 /\ cursor <= IF n - 1 > 0 THEN n - 1 ELSE 0
      /\ visible_start \in -1 .. Len(entries) + 1
  BY DEF Typed, Greatest
<1>5. visible_start' = IF cursor >= up + page THEN cursor - page + 1 ELSE up
  BY <1>1 DEF Scrolled, Visible, Least
<1> HIDE DEF n
<1>6. up \in -1 .. Len(entries) + 1 /\ page \in Nat
  BY <1>2, <1>3, <1>4
<1> HIDE DEF up, page
<1>7. visible_start' \in -1 .. Len(entries) + 1
  BY <1>2, <1>3, <1>4, <1>5, <1>6
<1> QED BY <1>1, <1>7 DEF Typed, loaded, choice

(* and so does every step. *)
LEMMA NextTyped == ASSUME Constants, Launches, Typed, [Next]_vars PROVE Typed'
<1>1. CASE \E k \in DOMAIN Utf8 \cup Moves \cup {"BackSpace", "u", "w"} : Press(k)
  <2>1. PICK k \in DOMAIN Utf8 \cup Moves \cup {"BackSpace", "u", "w"} : Press(k)
    BY <1>1
  <2>2. Effect(k) /\ repeat_key' \in Repeating \cup {NoRepeat}
    BY <2>1 DEF Press, Typed
  <2> QED BY <2>2, EffectTyped
<1>2. CASE PressInVain
  BY <1>2 DEF PressInVain, Typed, Repeating, loaded, choice
<1>3. CASE Repeat
  <2>1. Effect(repeat_key) /\ repeat_key' \in Repeating \cup {NoRepeat}
    BY <1>3 DEF Repeat, Typed
  <2> QED BY <2>1, EffectTyped
<1>4. CASE Release
  BY <1>4 DEF Release, Typed, loaded, choice
<1>5. CASE End
  BY <1>5 DEF End, emit, Typed, loaded
<1>6. CASE Pump
  BY <1>6, PumpTyped
<1>7. CASE Draw
  BY <1>7, DrawTyped
<1>8. CASE Over \/ UNCHANGED vars
  BY <1>8 DEF Over, vars, Typed, loaded, choice
<1> QED BY <1>1, <1>2, <1>3, <1>4, <1>5, <1>6, <1>7, <1>8 DEF Next
=============================================================================
