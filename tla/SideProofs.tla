----------------------------- MODULE SideProofs -----------------------------
(***************************************************************************)
(* Theorems about the governors of model calls, and, at the end, about all *)
(* the components that share no state, side by side as the run takes them. *)
(***************************************************************************)
EXTENDS ComponentsMC, PartsProofs, MemoryProofs

-----------------------------------------------------------------------------
(* The governor. Windows of the ledger, and what their rows add up to.     *)

InOrder(rows) == \A i, j \in DOMAIN rows : i <= j => rows[i].at <= rows[j].at

\* The first c rows are not later than t, the others are.
Cut(rows, t, c) ==
    /\ c \in 0 .. Len(rows)
    /\ \A k \in 1 .. Len(rows) : rows[k].at <= t <=> k <= c

LEMMA RowsAre ==
    ASSUME NEW rows \in Seq(Rows)
    PROVE  /\ Len(rows) \in Nat /\ DOMAIN rows = 1 .. Len(rows)
           /\ \A k \in 1 .. Len(rows) : rows[k] \in Rows /\ rows[k].at \in Nat /\ rows[k].tokens \in Nat
<1>1. Len(rows) \in Nat /\ DOMAIN rows = 1 .. Len(rows) /\ \A k \in 1 .. Len(rows) : rows[k] \in Rows
  OBVIOUS
<1> QED BY <1>1 DEF Rows

\* Rows in order are newer than t from some place on.
LEMMA NewerIs ==
    ASSUME NEW rows \in Seq(Rows), InOrder(rows), NEW t \in Int
    PROVE  \E c \in 0 .. Len(rows) : Cut(rows, t, c) /\ Newer(rows, t) = SubSeq(rows, c + 1, Len(rows))
<1> DEFINE S == {k \in DOMAIN rows : rows[k].at <= t}
<1>1. Len(rows) \in Nat /\ DOMAIN rows = 1 .. Len(rows) /\ \A k \in 1 .. Len(rows) : rows[k].at \in Nat
  BY RowsAre
<1>2. Newer(rows, t) = SubSeq(rows, Cardinality(S) + 1, Len(rows)) BY Zenon DEF Newer
<1>3. S \in SUBSET Nat /\ \A k \in S : k <= Len(rows) BY <1>1
<1>4. CASE S = {}
  <2>1. Cardinality(S) = 0 BY <1>4, FS_EmptySet
  <2>2. Cut(rows, t, 0) BY <1>1, <1>4 DEF Cut
  <2>3. 0 \in 0 .. Len(rows) BY <1>1
  <2> HIDE DEF S
  <2> QED BY <1>2, <2>1, <2>2, <2>3
<1>5. CASE S # {}
  <2>1. \E x \in S : \A y \in S : y <= x
    <3> HIDE DEF S
    <3> QED BY <1>1, <1>3, <1>5, GreatestNumber
  <2>2. PICK g \in S : \A y \in S : y <= g BY <2>1
  <2>3. g \in 1 .. Len(rows) /\ rows[g].at <= t BY <1>1, <2>2
  <2>4. S = 1 .. g
    <3>1. \A k \in 1 .. g : k \in DOMAIN rows /\ g \in DOMAIN rows /\ k <= g BY <1>1, <2>3
    <3>2. \A k \in 1 .. g : rows[k].at <= rows[g].at BY <3>1 DEF InOrder
    <3>3. \A k \in 1 .. g : rows[k].at <= t BY <1>1, <2>3, <3>1, <3>2
    <3> QED BY <1>1, <2>2, <2>3, <3>1, <3>3
  <2>5. Cardinality(S) = g
    <3>1. PICK n \in Nat : n = g /\ n >= 1 BY <1>1, <2>3
    <3>2. Cardinality(1 .. n) = IF 1 > n THEN 0 ELSE n - 1 + 1 BY FS_Interval
    <3>3. Cardinality(1 .. n) = n BY <3>1, <3>2
    <3> HIDE DEF S
    <3> QED BY <2>4, <3>1, <3>3
  <2>6. Cut(rows, t, g) BY <1>1, <2>2, <2>3, <2>4 DEF Cut
  <2>7. g \in 0 .. Len(rows) BY <1>1, <2>3
  <2> HIDE DEF S
  <2> QED BY <1>2, <2>5, <2>6, <2>7
<1> QED BY <1>4, <1>5

\* What is left after the first c rows.
LEMMA RestIs ==
    ASSUME NEW rows \in Seq(Rows), NEW c \in 0 .. Len(rows), InOrder(rows)
    PROVE  LET rest == SubSeq(rows, c + 1, Len(rows)) IN
           /\ rest \in Seq(Rows) /\ Len(rest) = Len(rows) - c /\ InOrder(rest)
           /\ \A k \in 1 .. Len(rows) - c : rest[k] = rows[c + k]
<1> DEFINE rest == SubSeq(rows, c + 1, Len(rows))
<1>1. Len(rows) \in Nat /\ DOMAIN rows = 1 .. Len(rows) BY RowsAre
<1>2. rest \in Seq(Rows) /\ Len(rest) = Len(rows) - c
      /\ \A k \in 1 .. Len(rows) - c : rest[k] = rows[c + k]
  <2>0. PICK n \in Nat : n = Len(rows) BY <1>1
  <2>8. PICK a \in Nat : a = c + 1 BY <1>1
  <2>1. a = c + 1 /\ n = Len(rows) BY <2>0, <2>8
  <2>2. a \in 1 .. n + 1 /\ \A k \in a .. n : rows[k] \in Rows BY <1>1, <2>1
  <2>3. SubSeq(rows, a, n) \in Seq(Rows) BY <1>1, <2>1, <2>2
  <2>4. Len(SubSeq(rows, a, n)) = n - a + 1
    <3>1. a \in Int /\ n \in Int OBVIOUS
    <3>2. Len(SubSeq(rows, a, n)) = IF a <= n THEN n - a + 1 ELSE 0 BY <2>2, <3>1, SubSeqProperties
    <3> QED BY <2>2, <3>2
  <2>5. \A k \in 1 .. (n - a) + 1 : SubSeq(rows, a, n)[k] = rows[(a + k) - 1] BY <1>1, <2>1, <2>2
  <2>6. n - a + 1 = Len(rows) - c /\ \A k \in 1 .. Len(rows) - c : (a + k) - 1 = c + k BY <1>1, <2>1
  <2>7. rest = SubSeq(rows, a, n) BY <2>1
  <2> HIDE DEF rest
  <2> QED BY <2>3, <2>4, <2>5, <2>6, <2>7
<1>3. DOMAIN rest = 1 .. Len(rows) - c
  <2>1. DOMAIN rest = 1 .. Len(rest) BY <1>2
  <2> HIDE DEF rest
  <2> QED BY <1>2, <2>1
<1> HIDE DEF rest
<1>4. InOrder(rest)
  <2> SUFFICES ASSUME NEW i \in DOMAIN rest, NEW j \in DOMAIN rest, i <= j PROVE rest[i].at <= rest[j].at
    BY DEF InOrder
  <2>1. c + i \in DOMAIN rows /\ c + j \in DOMAIN rows /\ c + i <= c + j BY <1>1, <1>3
  <2>2. rest[i] = rows[c + i] /\ rest[j] = rows[c + j] BY <1>2, <1>3
  <2> QED BY <2>1, <2>2 DEF InOrder
<1> QED BY <1>2, <1>4 DEF rest

\* The sums of the rows exist.
LEMMA SumsExist ==
    ASSUME NEW rows \in Seq(Rows)
    PROVE  \E f : f = [k \in 0 .. Len(rows) |-> IF k = 0 THEN 0 ELSE f[k - 1] + rows[k].tokens]
<1> DEFINE Step(p, j) == p + rows[j].tokens
           Upto(m, f) == f = [j \in 0 .. m |-> IF j = 0 THEN 0 ELSE Step(f[j - 1], j)]
           bad == {m \in 0 .. Len(rows) : ~\E f : Upto(m, f)}
<1>1. Len(rows) \in Nat OBVIOUS
<1>2. ASSUME bad # {} PROVE FALSE
  <2>1. bad \in SUBSET Nat BY <1>1
  <2> HIDE DEF bad
  <2>2. PICK m \in bad : \A y \in bad : m <= y BY <1>2, <2>1, LeastNumber
  <2>3. m \in 0 .. Len(rows) /\ ~\E f : Upto(m, f) BY <2>2 DEF bad
  <2>4. CASE m = 0
    <3>1. Upto(0, [j \in 0 .. 0 |-> 0]) OBVIOUS
    <3> QED BY <2>3, <2>4, <3>1
  <2>5. CASE m # 0
    <3>1. m - 1 \in 0 .. Len(rows) /\ m - 1 \notin bad BY <1>1, <2>1, <2>2, <2>3, <2>5
    <3>2. PICK f : Upto(m - 1, f) BY <3>1 DEF bad
    <3> DEFINE g == [j \in 0 .. m |-> IF j = m THEN Step(f[m - 1], m) ELSE f[j]]
    <3> HIDE DEF Step
    <3>3. \A j \in 0 .. m - 1 : f[j] = IF j = 0 THEN 0 ELSE Step(f[j - 1], j)
      BY <3>2
    <3>4. \A j \in 0 .. m : g[j] = IF j = 0 THEN 0 ELSE Step(g[j - 1], j)
      <4>1. ASSUME NEW j \in 0 .. m, j = m PROVE g[j] = IF j = 0 THEN 0 ELSE Step(g[j - 1], j)
        BY <2>3, <2>5, <4>1
      <4>2. ASSUME NEW j \in 0 .. m, j # m PROVE g[j] = IF j = 0 THEN 0 ELSE Step(g[j - 1], j)
        <5>1. j \in 0 .. m - 1 /\ g[j] = f[j] BY <2>3, <2>5, <4>2
        <5>2. CASE j = 0 BY <3>3, <5>1, <5>2
        <5>3. CASE j # 0
          <6>1. j - 1 \in 0 .. m - 1 /\ j - 1 # m /\ j - 1 \in 0 .. m BY <2>3, <5>1, <5>3
          <6>2. g[j - 1] = f[j - 1] BY <6>1
          <6> QED BY <3>3, <5>1, <5>3, <6>2
        <5> QED BY <5>2, <5>3
      <4> QED BY <4>1, <4>2
    <3>5. Upto(m, g)
      <4>1. g = [j \in 0 .. m |-> g[j]] OBVIOUS
      <4> HIDE DEF g
      <4> QED BY <3>4, <4>1
    <3> HIDE DEF g
    <3> QED BY <2>3, <3>5
  <2> QED BY <2>4, <2>5
<1>3. Len(rows) \in 0 .. Len(rows) BY <1>1
<1>4. PICK f : Upto(Len(rows), f) BY <1>2, <1>3
<1> QED BY <1>4

LEMMA SpentIs ==
    ASSUME NEW rows \in Seq(Rows)
    PROVE  /\ Spent(rows)[0] = 0
           /\ \A k \in 1 .. Len(rows) : Spent(rows)[k] = Spent(rows)[k - 1] + rows[k].tokens
<1>1. \E f : f = [k \in 0 .. Len(rows) |-> IF k = 0 THEN 0 ELSE f[k - 1] + rows[k].tokens]
  BY SumsExist
<1> DEFINE Goes1(f) == f = [k \in 0 .. Len(rows) |-> IF k = 0 THEN 0 ELSE f[k - 1] + rows[k].tokens]
<1>2. Spent(rows) = CHOOSE f : Goes1(f) BY DEF Spent
<1>3. PICK f : Goes1(f) /\ Spent(rows) = f BY <1>1, <1>2
<1>4. Len(rows) \in Nat OBVIOUS
<1> DEFINE Step(p, j) == p + rows[j].tokens
<1>5. f = [k \in 0 .. Len(rows) |-> IF k = 0 THEN 0 ELSE Step(f[k - 1], k)] BY <1>3
<1> HIDE DEF Step, Goes1
<1>6. \A k \in 0 .. Len(rows) : f[k] = IF k = 0 THEN 0 ELSE Step(f[k - 1], k) BY <1>5
<1>7. 0 \in 0 .. Len(rows) /\ \A k \in 1 .. Len(rows) : k \in 0 .. Len(rows) /\ k # 0 BY <1>4
<1> QED BY <1>3, <1>6, <1>7 DEF Step

\* Sums are numbers, and grow.
LEMMA SumsGrow ==
    ASSUME NEW rows \in Seq(Rows), NEW i \in 0 .. Len(rows)
    PROVE  Spent(rows)[i] \in Nat /\ \A j \in i .. Len(rows) : Spent(rows)[j] \in Nat /\ Spent(rows)[i] <= Spent(rows)[j]
<1>1. Len(rows) \in Nat /\ \A k \in 1 .. Len(rows) : rows[k].tokens \in Nat BY RowsAre
<1> DEFINE s == Spent(rows)
<1>2. s[0] = 0 /\ \A k \in 1 .. Len(rows) : s[k] = s[k - 1] + rows[k].tokens BY SpentIs
<1> HIDE DEF s
<1>3. \A k \in 0 .. Len(rows) : s[k] \in Nat
  <2> DEFINE bad == {k \in 0 .. Len(rows) : s[k] \notin Nat}
  <2>1. SUFFICES ASSUME bad # {} PROVE FALSE OBVIOUS
  <2>2. bad \in SUBSET Nat BY <1>1
  <2>3. PICK m \in bad : \A y \in bad : m <= y
    <3> HIDE DEF bad
    <3> QED BY <2>1, <2>2, LeastNumber
  <2>4. m \in 1 .. Len(rows) BY <1>1, <1>2, <2>3
  <2>5. m - 1 \in 0 .. Len(rows) /\ m - 1 \notin bad BY <1>1, <2>2, <2>3, <2>4
  <2>6. s[m - 1] \in Nat BY <2>5
  <2>7. s[m] = s[m - 1] + rows[m].tokens BY <1>2, <2>4
  <2>8. s[m] \in Nat BY <1>1, <2>4, <2>6, <2>7
  <2> QED BY <2>3, <2>8
<1>4. \A j \in i .. Len(rows) : s[i] <= s[j]
  <2> DEFINE bad == {k \in i .. Len(rows) : ~(s[i] <= s[k])}
  <2>1. SUFFICES ASSUME bad # {} PROVE FALSE OBVIOUS
  <2>2. bad \in SUBSET Nat BY <1>1
  <2>3. PICK m \in bad : \A y \in bad : m <= y
    <3> HIDE DEF bad
    <3> QED BY <2>1, <2>2, LeastNumber
  <2>4. m \in i .. Len(rows) /\ m # i BY <1>1, <1>3, <2>3
  <2>5. m - 1 \in i .. Len(rows) /\ m - 1 \notin bad /\ m \in 1 .. Len(rows) /\ m - 1 \in 0 .. Len(rows)
    BY <1>1, <2>2, <2>3, <2>4
  <2>6. s[i] <= s[m - 1] BY <2>5
  <2>7. s[m] = s[m - 1] + rows[m].tokens BY <1>2, <2>5
  <2>8. s[i] <= s[m] BY <1>1, <1>3, <2>5, <2>6, <2>7
  <2> QED BY <2>3, <2>8
<1>5. \A j \in i .. Len(rows) : j \in 0 .. Len(rows) BY <1>1
<1> QED BY <1>3, <1>4, <1>5 DEF s

\* What is left after the first c rows has the rest of their sum.
LEMMA RestSpent ==
    ASSUME NEW rows \in Seq(Rows), NEW c \in 0 .. Len(rows), InOrder(rows)
    PROVE  LET rest == SubSeq(rows, c + 1, Len(rows)) IN
           \A k \in 0 .. Len(rows) - c : Spent(rest)[k] = Spent(rows)[c + k] - Spent(rows)[c]
<1> DEFINE rest == SubSeq(rows, c + 1, Len(rows))
<1>1. rest \in Seq(Rows) /\ Len(rest) = Len(rows) - c
      /\ \A k \in 1 .. Len(rows) - c : rest[k] = rows[c + k] BY RestIs
<1>2. Len(rows) \in Nat BY RowsAre
<1> HIDE DEF rest
<1> DEFINE s == Spent(rows)
           r == Spent(rest)
<1>3. r[0] = 0 /\ \A k \in 1 .. Len(rows) - c : r[k] = r[k - 1] + rest[k].tokens BY <1>1, SpentIs
<1>4. \A k \in 1 .. Len(rows) : s[k] = s[k - 1] + rows[k].tokens BY SpentIs
<1>5. \A k \in 0 .. Len(rows) : s[k] \in Nat BY SumsGrow
<1> HIDE DEF s, r
<1> DEFINE bad == {k \in 0 .. Len(rows) - c : r[k] # s[c + k] - s[c]}
<1>6. ASSUME bad # {} PROVE FALSE
  <2>2. bad \in SUBSET Nat BY <1>2
  <2>3. PICK m \in bad : \A y \in bad : m <= y
    <3> HIDE DEF bad
    <3> QED BY <1>6, <2>2, LeastNumber
  <2>4. m \in 1 .. Len(rows) - c
    <3>1. s[c + 0] - s[c] = 0
      <4>1. c + 0 = c /\ s[c] \in Nat BY <1>5
      <4> QED BY <4>1
    <3>2. m \in 0 .. Len(rows) - c /\ r[m] # s[c + m] - s[c] BY <2>3
    <3>3. m # 0 BY <1>3, <3>1, <3>2
    <3> QED BY <1>2, <3>2, <3>3
  <2>5. m - 1 \in 0 .. Len(rows) - c /\ m - 1 \notin bad /\ c + m \in 1 .. Len(rows) /\ c + m \in 0 .. Len(rows)
        /\ c + (m - 1) = (c + m) - 1 /\ c + (m - 1) \in 0 .. Len(rows)
    BY <1>2, <2>2, <2>3, <2>4
  <2>6. r[m - 1] = s[c + (m - 1)] - s[c] BY <2>5
  <2>7. r[m] = r[m - 1] + rest[m].tokens /\ rest[m] = rows[c + m] BY <1>1, <1>3, <2>4
  <2>8. s[c + m] = s[(c + m) - 1] + rows[c + m].tokens BY <1>4, <2>5
  <2>9. rows[c + m].tokens \in Nat BY <2>5, RowsAre
  <2>10. r[m] = s[c + m] - s[c]
    <3>1. PICK x \in Nat : x = s[c] BY <1>5
    <3>2. PICK y \in Nat : y = s[(c + m) - 1] BY <1>5, <2>5
    <3>3. PICK z \in Nat : z = rows[c + m].tokens BY <2>9
    <3>4. s[c + m] = y + z BY <2>8, <3>2, <3>3
    <3>5. r[m - 1] = y - x BY <2>5, <2>6, <3>1, <3>2
    <3>6. r[m] = (y - x) + z BY <2>7, <3>3, <3>5
    <3>7. (y - x) + z = (y + z) - x OBVIOUS
    <3> QED BY <3>1, <3>4, <3>6, <3>7
  <2> QED BY <2>3, <2>10
<1> QED BY <1>6 DEF s, r, rest

\* rest is rows without the first d.
Rest(rows, rest, d) ==
    /\ d \in 0 .. Len(rows) /\ rest \in Seq(Rows) /\ InOrder(rest) /\ Len(rest) = Len(rows) - d
    /\ \A k \in 1 .. Len(rows) - d : rest[k] = rows[d + k]
    /\ \A k \in 0 .. Len(rows) - d : Spent(rest)[k] = Spent(rows)[d + k] - Spent(rows)[d]

LEMMA NewerRest ==
    ASSUME NEW rows \in Seq(Rows), InOrder(rows), NEW t \in Int
    PROVE  \E c \in 0 .. Len(rows) : Cut(rows, t, c) /\ Rest(rows, Newer(rows, t), c)
<1>1. PICK c \in 0 .. Len(rows) : Cut(rows, t, c) /\ Newer(rows, t) = SubSeq(rows, c + 1, Len(rows))
  BY NewerIs
<1>2. Rest(rows, SubSeq(rows, c + 1, Len(rows)), c) BY RestIs, RestSpent DEF Rest
<1> QED BY <1>1, <1>2

\* As time passes a window loses its oldest rows.
LEMMA WindowAges ==
    ASSUME NEW rows \in Seq(Rows), InOrder(rows), NEW t \in Int, NEW u \in Int, t <= u
    PROVE  \E d \in 0 .. Len(Newer(rows, t)) :
              /\ Rest(Newer(rows, t), Newer(rows, u), d)
              /\ \A k \in 1 .. Len(Newer(rows, t)) : Newer(rows, t)[k].at <= u => k <= d
<1>1. PICK c \in 0 .. Len(rows) : Cut(rows, t, c) /\ Rest(rows, Newer(rows, t), c) BY NewerRest
<1>2. PICK e \in 0 .. Len(rows) : Cut(rows, u, e) /\ Rest(rows, Newer(rows, u), e) BY NewerRest
<1>3. Len(rows) \in Nat /\ \A k \in 1 .. Len(rows) : rows[k].at \in Nat BY RowsAre
<1>4. c <= e
  <2>1. SUFFICES ASSUME c > e PROVE FALSE BY <1>3
  <2>2. c \in 1 .. Len(rows) /\ rows[c].at \in Nat BY <1>3, <2>1
  <2>3. rows[c].at <= t /\ ~(rows[c].at <= u) BY <1>1, <1>2, <2>1, <2>2 DEF Cut
  <2> QED BY <2>2, <2>3
<1> DEFINE r == Newer(rows, t)
           q == Newer(rows, u)
<1>5. Rest(rows, r, c) /\ Rest(rows, q, e) BY <1>1, <1>2
<1> HIDE DEF r, q
<1>6. PICK d \in Nat : d = e - c /\ c + d = e BY <1>3, <1>4
<1>7. Len(r) = Len(rows) - c /\ Len(q) = Len(rows) - e /\ q \in Seq(Rows) /\ InOrder(q) BY <1>5 DEF Rest
<1>8. d \in 0 .. Len(r) /\ Len(q) = Len(r) - d BY <1>3, <1>4, <1>6, <1>7
<1>9. \A k \in 1 .. Len(r) - d : q[k] = r[d + k]
  <2> TAKE k \in 1 .. Len(r) - d
  <2>1. k \in 1 .. Len(rows) - e /\ d + k \in 1 .. Len(rows) - c /\ c + (d + k) = e + k BY <1>3, <1>6, <1>7, <1>8
  <2>2. q[k] = rows[e + k] /\ r[d + k] = rows[c + (d + k)] BY <1>5, <2>1 DEF Rest
  <2> QED BY <2>1, <2>2
<1>10. \A k \in 0 .. Len(r) - d : Spent(q)[k] = Spent(r)[d + k] - Spent(r)[d]
  <2> TAKE k \in 0 .. Len(r) - d
  <2>1. k \in 0 .. Len(rows) - e /\ d + k \in 0 .. Len(rows) - c /\ c + (d + k) = e + k /\ d \in 0 .. Len(rows) - c
        /\ e + k \in 0 .. Len(rows)
    BY <1>3, <1>6, <1>7, <1>8
  <2>2. Spent(q)[k] = Spent(rows)[e + k] - Spent(rows)[e] BY <1>5, <2>1 DEF Rest
  <2>3. Spent(r)[d + k] = Spent(rows)[e + k] - Spent(rows)[c] BY <1>5, <2>1 DEF Rest
  <2>4. Spent(r)[d] = Spent(rows)[e] - Spent(rows)[c] BY <1>5, <1>6, <2>1 DEF Rest
  <2>5. Spent(rows)[e + k] \in Nat /\ Spent(rows)[e] \in Nat /\ Spent(rows)[c] \in Nat BY <2>1, SumsGrow
  <2> QED BY <2>2, <2>3, <2>4, <2>5
<1>11. \A k \in 1 .. Len(r) : r[k].at <= u => k <= d
  <2> TAKE k \in 1 .. Len(r)
  <2>1. c + k \in 1 .. Len(rows) /\ k \in 1 .. Len(rows) - c BY <1>3, <1>7
  <2>2. r[k] = rows[c + k] BY <1>5, <2>1 DEF Rest
  <2>3. rows[c + k].at <= u => c + k <= e BY <1>2, <2>1 DEF Cut
  <2> QED BY <1>6, <2>2, <2>3
<1>12. Rest(r, q, d) BY <1>7, <1>8, <1>9, <1>10 DEF Rest
<1> QED BY <1>8, <1>11, <1>12 DEF r, q

-----------------------------------------------------------------------------
(* The governor. The policy.                                               *)

LEMMA TimesGrow == ASSUME NEW p \in Nat, NEW a \in Nat, NEW b \in Nat, a <= b PROVE p * a <= p * b /\ p * a \in Nat
<1>1. PICK k \in Nat : k = b - a OBVIOUS
<1>2. p * k \in Nat /\ p * a \in Nat OBVIOUS
<1>3. b = a + k BY <1>1
<1>4. p * b = p * a + p * k BY <1>3
<1> QED BY <1>2, <1>4

LEMMA QuotientIs ==
    ASSUME NEW a \in Nat, NEW d \in Nat, d > 0
    PROVE  /\ a \div d \in Nat
           /\ d * (a \div d) <= a /\ a < d * (a \div d) + d
OBVIOUS

LEMMA DivGrows ==
    ASSUME NEW a \in Nat, NEW b \in Nat, NEW d \in Nat, d > 0, a <= b
    PROVE  a \div d <= b \div d /\ a \div d \in Nat
<1>1. PICK p \in Nat : p = a \div d BY QuotientIs
<1>2. PICK q \in Nat : q = b \div d BY QuotientIs
<1>3. d * p <= a /\ b < d * q + d BY <1>1, <1>2, QuotientIs
<1>4. ASSUME p > q PROVE FALSE
  <2>1. q + 1 \in Nat /\ q + 1 <= p BY <1>4
  <2>2. d * (q + 1) <= d * p BY <2>1, TimesGrow
  <2>3. d * (q + 1) = d * q + d OBVIOUS
  <2>4. d * q \in Nat /\ d * p \in Nat OBVIOUS
  <2> QED BY <1>3, <2>2, <2>3, <2>4
<1> QED BY <1>1, <1>2, <1>4

LEMMA LeastOfTwo == ASSUME NEW a \in Int, NEW b \in Int PROVE Min({a, b}) = IF a <= b THEN a ELSE b
<1>1. \A x : x \in {a, b} <=> x = a \/ x = b OBVIOUS
<1>2. \E x \in {a, b} : \A y \in {a, b} : x <= y BY <1>1
<1>3. PICK x \in {a, b} : x = Min({a, b}) /\ \A y \in {a, b} : x <= y BY <1>2 DEF Min
<1> QED BY <1>3

LEMMA GreatestOfTwo == ASSUME NEW a \in Int, NEW b \in Int PROVE Max({a, b}) = IF a >= b THEN a ELSE b
<1>1. \A x : x \in {a, b} <=> x = a \/ x = b OBVIOUS
<1>2. \E x \in {a, b} : \A y \in {a, b} : x >= y BY <1>1
<1>3. PICK x \in {a, b} : x = Max({a, b}) /\ \A y \in {a, b} : x >= y BY <1>2 DEF Max
<1> QED BY <1>3

LEMMA GreatestOfThree ==
    ASSUME NEW a \in Nat, NEW b \in Nat, NEW c \in Nat
    PROVE  /\ Max({a, b, c}) \in {a, b, c}
           /\ a <= Max({a, b, c}) /\ b <= Max({a, b, c}) /\ c <= Max({a, b, c})
<1>1. \E x \in {a, b, c} : \A y \in {a, b, c} : x >= y
  <2>1. \A x : x \in {a, b, c} <=> x = a \/ x = b \/ x = c OBVIOUS
  <2>2. CASE a >= b /\ a >= c BY <2>1, <2>2
  <2>3. CASE b >= a /\ b >= c BY <2>1, <2>3
  <2>4. CASE c >= a /\ c >= b BY <2>1, <2>4
  <2> QED BY <2>2, <2>3, <2>4
<1>2. PICK x \in {a, b, c} : x = Max({a, b, c}) /\ \A y \in {a, b, c} : x >= y BY <1>1 DEF Max
<1> QED BY <1>2

\* What is assumed of the constants, and the limits' ranges.
LEMMA GovernorNumbers ==
    /\ Minute \in Nat /\ Minute > 0 /\ Day \in Nat /\ Day > 0 /\ Keep \in Nat /\ Minute < Day /\ Day <= Keep
    /\ Slice \in Nat /\ Slice > 0 /\ MaxAttempts \in Nat /\ MaxAttempts > 0 /\ Cooldown \in Nat /\ Backoff \in Nat
    /\ MinFactor \in 1 .. 100 /\ Recover \in Nat /\ IsFiniteSet(Governors) /\ MaxTime \in Nat
    /\ \A x \in Sizes : x \in Nat
    /\ \A x \in Retries : x \in Nat
BY GovernorAssumption

LEMMA LimitsAre ==
    ASSUME NEW m \in Models
    PROVE  /\ Limits[m].rpm \in Nat /\ Limits[m].rpd \in Nat /\ Limits[m].tpm \in Nat /\ Limits[m].tpd \in Nat
           /\ Limits[m].headroom \in Nat /\ Limits[m].wait \in Nat
<1>1. Limits[m] \in LimitsType BY GovernorAssumption
<1> QED BY <1>1 DEF LimitsType

LEMMA LearnedAre ==
    ASSUME NEW l \in Learned
    PROVE  /\ l.factor \in MinFactor .. 100 /\ l.factor \in Nat
           /\ l.cooldown \in Nat /\ l.exhausted \in Nat /\ l.updated \in Nat
<1>1. l.factor \in MinFactor .. 100 /\ l.cooldown \in Nat /\ l.exhausted \in Nat /\ l.updated \in Nat
  BY DEF Learned
<1> QED BY <1>1, GovernorNumbers

\* The factor recovers, up to 100.
LEMMA FactorGrows ==
    ASSUME NEW l \in Learned, NEW t \in Nat, NEW u \in Nat, l.updated <= t, t <= u
    PROVE  /\ Factor(l, t) \in MinFactor .. 100 /\ Factor(l, t) \in Nat
           /\ Factor(l, t) <= Factor(l, u)
<1>1. l.factor \in MinFactor .. 100 /\ l.factor \in Nat /\ l.updated \in Nat BY LearnedAre
<1>2. Minute \in Nat /\ Minute > 0 /\ Recover \in Nat /\ MinFactor \in 1 .. 100 BY GovernorNumbers
<1>3. PICK a \in Nat : a = t - l.updated BY <1>1
<1>4. PICK b \in Nat : b = u - l.updated /\ a <= b BY <1>1, <1>3
<1>5. PICK p \in Nat : p = Recover * a BY <1>2
<1>6. PICK q \in Nat : q = Recover * b BY <1>2
<1>7. p <= q BY <1>2, <1>4, <1>5, <1>6, TimesGrow
<1>8. p \div Minute \in Nat /\ q \div Minute \in Nat /\ p \div Minute <= q \div Minute BY <1>2, <1>7, DivGrows, QuotientIs
<1>9. PICK v \in Nat : v = l.factor + (p \div Minute) BY <1>1, <1>8
<1>10. PICK w \in Nat : w = l.factor + (q \div Minute) BY <1>1, <1>8
<1>11. v <= w /\ l.factor <= v BY <1>1, <1>8, <1>9, <1>10
<1>12. Factor(l, t) = Min({100, v}) BY <1>3, <1>5, <1>9 DEF Factor
<1>13. Factor(l, u) = Min({100, w}) BY <1>4, <1>6, <1>10 DEF Factor
<1>14. Min({100, v}) = (IF 100 <= v THEN 100 ELSE v) /\ Min({100, w}) = (IF 100 <= w THEN 100 ELSE w)
  BY LeastOfTwo
<1> QED BY <1>1, <1>2, <1>11, <1>12, <1>13, <1>14

LEMMA UnknownIs == Unknown \in Learned /\ \A t \in Nat : Factor(Unknown, t) = 100
<1>1. Unknown \in Learned BY GovernorNumbers DEF Unknown, Learned
<1>2. ASSUME NEW t \in Nat PROVE Factor(Unknown, t) = 100
  <2>1. Factor(Unknown, t) \in MinFactor .. 100 BY <1>1, <1>2, FactorGrows DEF Unknown
  <2>2. Minute \in Nat /\ Minute > 0 /\ Recover \in Nat BY GovernorNumbers
  <2>3. PICK p \in Nat : p = Recover * (t - 0) BY <2>2
  <2>4. PICK v \in Nat : v = 100 + (p \div Minute) /\ 100 <= v BY <2>2, QuotientIs
  <2>5. Factor(Unknown, t) = Min({100, v}) BY <2>3, <2>4 DEF Factor, Unknown
  <2> QED BY <2>4, <2>5, LeastOfTwo
<1> QED BY <1>1, <1>2

\* A cap follows the factor.
LEMMA CapGrows ==
    ASSUME NEW m \in Models, NEW limit \in Nat, NEW l, NEW t, NEW k, NEW u,
           Factor(l, t) \in Nat, Factor(k, u) \in Nat, Factor(l, t) <= Factor(k, u)
    PROVE  /\ Cap(limit, m, l, t) \in Nat /\ Cap(limit, m, k, u) \in Nat
           /\ Cap(limit, m, l, t) <= Cap(limit, m, k, u)
           /\ Cap(limit, m, l, t) = 0 <=> limit = 0
           /\ Cap(limit, m, k, u) = 0 <=> limit = 0
<1>1. PICK h \in Nat : h = limit * Limits[m].headroom BY LimitsAre
<1>2. PICK f \in Nat : f = Factor(l, t) OBVIOUS
<1>3. PICK g \in Nat : g = Factor(k, u) OBVIOUS
<1>4. PICK p \in Nat : p = h * f OBVIOUS
<1>5. PICK q \in Nat : q = h * g OBVIOUS
<1>6. p <= q BY <1>2, <1>3, <1>4, <1>5, TimesGrow
<1>7. PICK v \in Nat : v = p \div 10000 BY QuotientIs
<1>8. PICK w \in Nat : w = q \div 10000 BY QuotientIs
<1>9. v <= w BY <1>6, <1>7, <1>8, DivGrows
<1>10. Cap(limit, m, l, t) = IF limit = 0 THEN 0 ELSE Max({1, v}) BY <1>1, <1>2, <1>4, <1>7 DEF Cap
<1>11. Cap(limit, m, k, u) = IF limit = 0 THEN 0 ELSE Max({1, w}) BY <1>1, <1>3, <1>5, <1>8 DEF Cap
<1>12. Max({1, v}) = (IF 1 >= v THEN 1 ELSE v) /\ Max({1, w}) = (IF 1 >= w THEN 1 ELSE w) BY GreatestOfTwo
<1> QED BY <1>9, <1>10, <1>11, <1>12

\* When a window has room, it is later than the row that has to go.
LEMMA RequestsFreeIs ==
    ASSUME NEW rows \in Seq(Rows), NEW cap \in Nat, NEW span \in Nat, span > 0
    PROVE  /\ RequestsFreeAt(rows, cap, span) \in Nat
           /\ RequestsFreeAt(rows, cap, span) = 0 <=> cap = 0 \/ Len(rows) < cap
           /\ RequestsFreeAt(rows, cap, span) # 0 =>
                 \E n \in 1 .. Len(rows) :
                    n = Len(rows) - cap + 1 /\ RequestsFreeAt(rows, cap, span) = rows[n].at + span
<1>1. Len(rows) \in Nat /\ \A k \in 1 .. Len(rows) : rows[k].at \in Nat BY RowsAre
<1>2. CASE cap = 0 \/ Len(rows) < cap BY <1>2 DEF RequestsFreeAt
<1>3. CASE ~(cap = 0 \/ Len(rows) < cap)
  <2>0. Len(rows) - cap + 1 \in 1 .. Len(rows) BY <1>1, <1>3
  <2>1. PICK n \in 1 .. Len(rows) : n = Len(rows) - cap + 1 BY <2>0
  <2>2. RequestsFreeAt(rows, cap, span) = rows[n].at + span BY <1>3, <2>1 DEF RequestsFreeAt
  <2> QED BY <1>1, <1>3, <2>1, <2>2
<1> QED BY <1>2, <1>3

\* rest is what is left of a window when all that is span old by until is gone.
Outlived(rows, rest, span, until) ==
    \E d : Rest(rows, rest, d) /\ \A k \in 1 .. Len(rows) : rows[k].at <= until - span => k <= d

\* A wait for requests is long enough: whoever waits until every row asked for
\* is gone finds room.
LEMMA RequestsWait ==
    ASSUME NEW rows \in Seq(Rows), NEW rest, NEW span \in Nat, span > 0, NEW until \in Nat,
           Outlived(rows, rest, span, until),
           NEW cap \in Nat, NEW more \in Nat, cap <= more, more = 0 <=> cap = 0,
           RequestsFreeAt(rows, cap, span) <= until
    PROVE  RequestsFreeAt(rest, more, span) = 0
<1>0. PICK d : Rest(rows, rest, d) /\ \A k \in 1 .. Len(rows) : rows[k].at <= until - span => k <= d
  BY DEF Outlived
<1>1. Len(rows) \in Nat /\ \A k \in 1 .. Len(rows) : rows[k].at \in Nat BY RowsAre
<1>2. rest \in Seq(Rows) /\ Len(rest) = Len(rows) - d /\ d \in 0 .. Len(rows) BY <1>0 DEF Rest
<1>3. CASE RequestsFreeAt(rows, cap, span) = 0
  <2>1. cap = 0 \/ Len(rows) < cap BY <1>3, RequestsFreeIs
  <2>2. more = 0 \/ Len(rest) < more BY <1>1, <1>2, <2>1
  <2> QED BY <1>2, <2>2, RequestsFreeIs
<1>4. CASE RequestsFreeAt(rows, cap, span) # 0
  <2>1. PICK n \in 1 .. Len(rows) : n = Len(rows) - cap + 1 /\ rows[n].at + span <= until
    <3>1. \E n \in 1 .. Len(rows) : n = Len(rows) - cap + 1 /\ RequestsFreeAt(rows, cap, span) = rows[n].at + span
      BY <1>4, RequestsFreeIs
    <3> QED BY <3>1
  <2>2. n <= d BY <1>0, <1>1, <2>1
  <2>3. Len(rest) < more
    <3>1. cap # 0 BY <1>4, RequestsFreeIs
    <3> QED BY <1>1, <1>2, <2>1, <2>2, <3>1
  <2> QED BY <1>2, <2>3, RequestsFreeIs
<1> QED BY <1>3, <1>4

LEMMA TokensFreeIs ==
    ASSUME NEW rows \in Seq(Rows), NEW cap \in Nat, NEW est \in Nat, NEW span \in Nat, span > 0
    PROVE  /\ TokensFreeAt(rows, cap, est, span) \in Nat
           /\ TokensFreeAt(rows, cap, est, span) = 0 <=> cap = 0 \/ Spent(rows)[Len(rows)] + est <= cap \/ Len(rows) = 0
           /\ TokensFreeAt(rows, cap, est, span) # 0 =>
                 \E n \in 1 .. Len(rows) :
                    /\ TokensFreeAt(rows, cap, est, span) = rows[n].at + span
                    /\ n = Len(rows) \/ Spent(rows)[n] >= Spent(rows)[Len(rows)] + est - cap
<1> DEFINE excess == Tokens(rows) + est - cap
           enough == {n \in 1 .. Len(rows) : Spent(rows)[n] >= excess}
           idx == IF enough = {} THEN Len(rows) ELSE Min(enough)
           free == TokensFreeAt(rows, cap, est, span)
<1>1. Len(rows) \in Nat /\ \A k \in 1 .. Len(rows) : rows[k].at \in Nat BY RowsAre
<1>2. free = IF cap = 0 \/ excess <= 0 \/ rows = <<>> THEN 0 ELSE rows[idx].at + span
  BY Zenon DEF TokensFreeAt
<1>3. rows = <<>> <=> Len(rows) = 0 OBVIOUS
<1>4. Spent(rows)[Len(rows)] \in Nat
  <2>1. Len(rows) \in 0 .. Len(rows) BY <1>1
  <2> QED BY <2>1, SumsGrow
<1>5. PICK x \in Int : x = Spent(rows)[Len(rows)] + est - cap /\ x = excess BY <1>4 DEF Tokens
<1>6. PICK S \in SUBSET Nat : S = enough /\ \A n \in S : n \in 1 .. Len(rows) /\ Spent(rows)[n] >= x
  <2>1. enough \in SUBSET Nat BY <1>1
  <2>2. \A n \in enough : n \in 1 .. Len(rows) /\ Spent(rows)[n] >= excess OBVIOUS
  <2> HIDE DEF enough, excess
  <2> QED BY <1>5, <2>1, <2>2
<1>7. idx = IF S = {} THEN Len(rows) ELSE Min(S) BY <1>6
<1> HIDE DEF excess, enough, idx, free
<1>8. CASE cap = 0 \/ x <= 0 \/ Len(rows) = 0 BY <1>2, <1>3, <1>4, <1>5, <1>8 DEF free
<1>9. CASE ~(cap = 0 \/ x <= 0 \/ Len(rows) = 0)
  <2>1. \E n \in 1 .. Len(rows) : n = idx /\ (n = Len(rows) \/ Spent(rows)[n] >= x)
    <3>1. CASE S = {} BY <1>1, <1>7, <1>9, <3>1
    <3>2. CASE S # {}
      <4>1. \E n \in S : \A y \in S : n <= y BY <3>2, LeastNumber
      <4>2. PICK n \in S : n = Min(S) BY <4>1 DEF Min
      <4> QED BY <1>6, <1>7, <3>2, <4>2
    <3> QED BY <3>1, <3>2
  <2>2. free = rows[idx].at + span BY <1>2, <1>3, <1>5, <1>9
  <2>3. PICK n \in 1 .. Len(rows) : free = rows[n].at + span /\ (n = Len(rows) \/ Spent(rows)[n] >= x) BY <2>1, <2>2
  <2>4. free \in Nat /\ free # 0 BY <1>1, <2>3
  <2>5. ~(Spent(rows)[Len(rows)] + est <= cap) BY <1>4, <1>5, <1>9
  <2> QED BY <1>5, <1>9, <2>3, <2>4, <2>5 DEF free
<1> QED BY <1>8, <1>9

LEMMA RoomForTokens ==
    ASSUME NEW rows \in Seq(Rows), NEW cap \in Nat, NEW est \in Nat, NEW span \in Nat, span > 0
    PROVE  TokensFreeAt(rows, cap, est, span) = 0
           <=> cap = 0 \/ Spent(rows)[Len(rows)] + est <= cap \/ Len(rows) = 0
BY TokensFreeIs

\* A wait for tokens is long enough too.
LEMMA TokensWait ==
    ASSUME NEW rows \in Seq(Rows), NEW rest, NEW span \in Nat, span > 0, NEW until \in Nat,
           Outlived(rows, rest, span, until),
           NEW cap \in Nat, NEW more \in Nat, cap <= more, more = 0 <=> cap = 0, NEW est \in Nat,
           TokensFreeAt(rows, cap, est, span) <= until
    PROVE  TokensFreeAt(rest, more, est, span) = 0
<1>0. PICK d : Rest(rows, rest, d) /\ \A k \in 1 .. Len(rows) : rows[k].at <= until - span => k <= d
  BY DEF Outlived
<1>1. Len(rows) \in Nat /\ \A k \in 1 .. Len(rows) : rows[k].at \in Nat BY RowsAre
<1>2. rest \in Seq(Rows) /\ Len(rest) = Len(rows) - d /\ d \in 0 .. Len(rows) BY <1>0 DEF Rest
<1>3. PICK n \in Nat : n = Len(rows) /\ n \in 0 .. Len(rows) BY <1>1
<1>4. PICK total \in Nat, gone \in Nat : total = Spent(rows)[n] /\ gone = Spent(rows)[d] BY <1>2, <1>3, SumsGrow
<1>5. PICK left \in Int : left = Spent(rest)[Len(rest)] /\ left = total - gone
  <2>1. Len(rest) \in 0 .. Len(rows) - d /\ d + Len(rest) = n BY <1>1, <1>2, <1>3
  <2>2. Spent(rest)[Len(rest)] = total - gone BY <1>0, <1>4, <2>1 DEF Rest
  <2> QED BY <2>2
<1>6. SUFFICES more = 0 \/ left + est <= more \/ Len(rest) = 0
  <2>1. TokensFreeAt(rest, more, est, span) = 0
        <=> more = 0 \/ Spent(rest)[Len(rest)] + est <= more \/ Len(rest) = 0
    BY <1>2, RoomForTokens
  <2> QED BY <1>5, <2>1
<1>7. CASE TokensFreeAt(rows, cap, est, span) = 0
  <2>1. cap = 0 \/ total + est <= cap \/ n = 0
    <3>1. cap = 0 \/ Spent(rows)[Len(rows)] + est <= cap \/ Len(rows) = 0 BY <1>7, RoomForTokens
    <3> QED BY <1>3, <1>4, <3>1
  <2>2. CASE cap = 0 BY <2>2
  <2>3. CASE total + est <= cap
    <3>1. left + est <= cap BY <1>5, <2>3
    <3>2. left + est <= more BY <3>1
    <3> QED BY <3>2
  <2>4. CASE n = 0
    <3>1. d = 0 BY <1>2, <1>3, <2>4
    <3>2. Len(rest) = 0 BY <1>2, <1>3, <2>4, <3>1
    <3> QED BY <3>2
  <2> QED BY <2>1, <2>2, <2>3, <2>4
<1>8. CASE TokensFreeAt(rows, cap, est, span) # 0
  <2>1. PICK k \in 1 .. Len(rows) : /\ rows[k].at + span <= until
                                    /\ k = n \/ Spent(rows)[k] >= total + est - cap
    <3>1. \E k \in 1 .. Len(rows) :
             /\ TokensFreeAt(rows, cap, est, span) = rows[k].at + span
             /\ k = Len(rows) \/ Spent(rows)[k] >= Spent(rows)[Len(rows)] + est - cap
      BY <1>8, TokensFreeIs
    <3> QED BY <1>3, <1>4, <3>1
  <2>2. k <= d BY <1>0, <1>1, <2>1
  <2>3. CASE k = n BY <1>2, <1>3, <2>2, <2>3
  <2>4. CASE k # n
    <3>1. k \in 0 .. Len(rows) /\ d \in k .. Len(rows) BY <1>1, <1>2, <2>1, <2>2
    <3>2. PICK freed \in Nat : freed = Spent(rows)[k] /\ freed <= gone BY <1>4, <3>1, SumsGrow
    <3>3. freed >= total + est - cap BY <2>1, <2>4, <3>2
    <3>4. left + est <= more BY <1>5, <3>2, <3>3
    <3> QED BY <3>4
  <2> QED BY <2>3, <2>4
<1> QED BY <1>7, <1>8

-----------------------------------------------------------------------------
(* The governor. Its inductive invariant.                                  *)

Callers(m) == {g \in Governors : gov[g].pc = "call" /\ Chain[gov[g].i] = m}

LedgerSound == \A m \in Models :
    /\ InOrder(calls[m]) /\ \A k \in DOMAIN calls[m] : calls[m][k].at <= now
    /\ learned[m].updated <= now

\* What a governor will write is not of the future; the model it would wait
\* for is free only later. No time passes while it asks.
GovernorsSound == \A g \in Governors :
    /\ gov[g].fold.updated <= now
    /\ gov[g].pc = "ask" /\ gov[g].soonest # 0 => gov[g].reset > now

GovernorInv == GovernorTypeOK /\ LedgerSound /\ GovernorsSound /\ PacedTogether

LEMMA ChainIs ==
    /\ Len(Chain) \in Nat /\ Len(Chain) > 0
    /\ \A i \in 1 .. Len(Chain) : Chain[i] \in Models
BY GovernorAssumption

LEMMA GovernorState ==
    ASSUME GovernorInv
    PROVE  /\ now \in Nat
           /\ \A m \in Models : /\ calls[m] \in Seq(Rows) /\ InOrder(calls[m]) /\ learned[m] \in Learned
                                /\ learned[m].updated <= now /\ learned[m].updated \in Nat
                                /\ \A k \in 1 .. Len(calls[m]) : calls[m][k].at <= now
           /\ \A g \in Governors : gov[g] \in Governed
<1>1. now \in Nat BY GovernorNumbers DEF GovernorInv, GovernorTypeOK
<1>2. ASSUME NEW m \in Models
      PROVE  /\ calls[m] \in Seq(Rows) /\ InOrder(calls[m]) /\ learned[m] \in Learned
             /\ learned[m].updated <= now /\ learned[m].updated \in Nat
             /\ \A k \in 1 .. Len(calls[m]) : calls[m][k].at <= now
  <2>1. calls[m] \in Seq(Rows) /\ learned[m] \in Learned BY DEF GovernorInv, GovernorTypeOK
  <2>2. InOrder(calls[m]) /\ learned[m].updated <= now /\ \A k \in DOMAIN calls[m] : calls[m][k].at <= now
    BY DEF GovernorInv, LedgerSound
  <2>3. DOMAIN calls[m] = 1 .. Len(calls[m]) BY <2>1, RowsAre
  <2> QED BY <2>1, <2>2, <2>3, LearnedAre
<1>3. \A g \in Governors : gov[g] \in Governed BY DEF GovernorInv, GovernorTypeOK
<1> QED BY <1>1, <1>2, <1>3

LEMMA GovernedAre ==
    ASSUME NEW h \in Governed
    PROVE  /\ h.est \in Nat /\ h.waited \in Nat /\ h.tries \in 0 .. MaxAttempts - 1 /\ h.i \in 1 .. Len(Chain)
           /\ h.at \in Nat /\ h.reset \in Nat /\ h.soonest \in 0 .. Len(Chain) /\ h.fold \in Learned
           /\ h.pc \in {"idle", "ask", "sleep", "call", "fold"} /\ h.task \in BOOLEAN
           /\ Chain[h.i] \in Models
<1>1. /\ h.est \in Nat /\ h.waited \in Nat /\ h.tries \in 0 .. MaxAttempts - 1 /\ h.i \in 1 .. Len(Chain)
      /\ h.at \in Nat /\ h.reset \in Nat /\ h.soonest \in 0 .. Len(Chain) /\ h.fold \in Learned
      /\ h.pc \in {"idle", "ask", "sleep", "call", "fold"} /\ h.task \in BOOLEAN
  BY DEF Governed
<1> QED BY <1>1, ChainIs

\* The window of a model is a sequence of rows in order, newer than its start.
LEMMA SinceIs ==
    ASSUME GovernorInv, NEW m \in Models, NEW t \in Nat, NEW span \in Nat
    PROVE  /\ Since(m, t, span) \in Seq(Rows) /\ InOrder(Since(m, t, span)) /\ Len(Since(m, t, span)) \in Nat
           /\ \A k \in 1 .. Len(Since(m, t, span)) : Since(m, t, span)[k].at + span > t
<1>1. calls[m] \in Seq(Rows) /\ InOrder(calls[m]) BY GovernorState
<1>2. PICK u \in Int : u = t - span OBVIOUS
<1>3. PICK c \in 0 .. Len(calls[m]) : Cut(calls[m], u, c) /\ Rest(calls[m], Newer(calls[m], u), c)
  BY <1>1, NewerRest
<1>4. PICK rows \in Seq(Rows) : rows = Since(m, t, span) /\ rows = Newer(calls[m], u) BY <1>2, <1>3 DEF Since, Rest
<1>5. Len(calls[m]) \in Nat /\ \A k \in 1 .. Len(calls[m]) : calls[m][k].at \in Nat BY <1>1, RowsAre
<1>6. InOrder(rows) /\ Len(rows) = Len(calls[m]) - c BY <1>3, <1>4 DEF Rest
<1>7. ASSUME NEW k \in 1 .. Len(rows) PROVE rows[k].at + span > t
  <2>1. c + k \in 1 .. Len(calls[m]) /\ k \in 1 .. Len(calls[m]) - c /\ ~(c + k <= c) BY <1>5, <1>6
  <2>2. rows[k] = calls[m][c + k] BY <1>3, <1>4, <2>1 DEF Rest
  <2>3. ~(calls[m][c + k].at <= u) BY <1>3, <2>1 DEF Cut
  <2> QED BY <1>2, <1>5, <2>1, <2>2, <2>3
<1> QED BY <1>4, <1>5, <1>6, <1>7

\* decide's two halves: times to come, no earlier than what they wait for.
LEMMA OutIs ==
    ASSUME GovernorInv, NEW m \in Models, NEW est \in Nat, NEW t \in Nat
    PROVE  /\ OutUntil(m, est, t) \in Nat
           /\ OutUntil(m, est, t) # 0 => OutUntil(m, est, t) > t
           /\ OutUntil(m, est, t) = 0 <=>
                 /\ learned[m].exhausted <= t
                 /\ RequestsFreeAt(Since(m, t, Day), Limits[m].rpd, Day) = 0
                 /\ TokensFreeAt(Since(m, t, Day), Limits[m].tpd, est, Day) = 0
<1>1. Day \in Nat /\ Day > 0 /\ Limits[m].rpd \in Nat /\ Limits[m].tpd \in Nat BY GovernorNumbers, LimitsAre
<1>2. PICK x \in Nat : x = learned[m].exhausted BY GovernorState, LearnedAre
<1>3. PICK rows \in Seq(Rows) : /\ rows = Since(m, t, Day) /\ Len(rows) \in Nat
                                /\ \A k \in 1 .. Len(rows) : rows[k].at + Day > t
  BY <1>1, SinceIs
<1>4. PICK r \in Nat : r = RequestsFreeAt(rows, Limits[m].rpd, Day) BY <1>1, RequestsFreeIs
<1>5. r # 0 => r > t
  <2> SUFFICES ASSUME r # 0 PROVE r > t OBVIOUS
  <2>1. PICK cap \in Nat : cap = Limits[m].rpd BY <1>1
  <2>2. r = RequestsFreeAt(rows, cap, Day) /\ RequestsFreeAt(rows, cap, Day) # 0 BY <1>4, <2>1
  <2>3. \E n \in 1 .. Len(rows) : n = Len(rows) - cap + 1 /\ RequestsFreeAt(rows, cap, Day) = rows[n].at + Day
    <3>1. Day \in Nat /\ Day > 0 BY <1>1
    <3>2. RequestsFreeAt(rows, cap, Day) # 0 BY <2>2
    <3> QED BY <3>1, <3>2, RequestsFreeIs
  <2> QED BY <1>3, <2>2, <2>3
<1>6. PICK v \in Nat : v = TokensFreeAt(rows, Limits[m].tpd, est, Day) BY <1>1, TokensFreeIs
<1>7. v # 0 => v > t
  <2> SUFFICES ASSUME v # 0 PROVE v > t OBVIOUS
  <2>1. PICK cap \in Nat : cap = Limits[m].tpd BY <1>1
  <2>2. v = TokensFreeAt(rows, cap, est, Day) BY <1>6, <2>1
  <2>3. \E k \in 1 .. Len(rows) :
           /\ TokensFreeAt(rows, cap, est, Day) = rows[k].at + Day
           /\ k = Len(rows) \/ Spent(rows)[k] >= Spent(rows)[Len(rows)] + est - cap
    BY <1>1, <2>2, TokensFreeIs
  <2> QED BY <1>3, <2>2, <2>3
<1>8. OutUntil(m, est, t) = IF x > t THEN x ELSE IF r # 0 THEN r ELSE v
  BY <1>2, <1>3, <1>4, <1>6 DEF OutUntil
<1> QED BY <1>2, <1>3, <1>4, <1>5, <1>6, <1>7, <1>8

BusyRequests(m, t) == RequestsFreeAt(Since(m, t, Minute), Cap(Limits[m].rpm, m, learned[m], t), Minute)
BusyTokens(m, est, t) == TokensFreeAt(Since(m, t, Minute), Cap(Limits[m].tpm, m, learned[m], t), est, Minute)

LEMMA CapIs ==
    ASSUME GovernorInv, NEW m \in Models, NEW limit \in Nat, NEW t \in Nat, now <= t
    PROVE  /\ Cap(limit, m, learned[m], t) \in Nat
           /\ Cap(limit, m, learned[m], t) = 0 <=> limit = 0
           /\ Cap(limit, m, learned[m], t) <= Cap(limit, m, Unknown, t)
           /\ Cap(limit, m, Unknown, t) \in Nat
           /\ \A u \in Nat : t <= u => /\ Cap(limit, m, learned[m], u) \in Nat
                                       /\ Cap(limit, m, learned[m], t) <= Cap(limit, m, learned[m], u)
                                       /\ Cap(limit, m, learned[m], u) = 0 <=> limit = 0
<1>1. PICK l \in Learned : l = learned[m] /\ l.updated <= t
  <2>1. learned[m] \in Learned /\ learned[m].updated <= now /\ learned[m].updated \in Nat /\ now \in Nat BY GovernorState
  <2> QED BY <2>1
<1>2. Factor(l, t) \in Nat /\ Factor(l, t) \in MinFactor .. 100 BY <1>1, FactorGrows
<1>3. Factor(Unknown, t) \in Nat /\ Factor(l, t) <= Factor(Unknown, t) BY <1>2, UnknownIs, GovernorNumbers
<1>4. /\ Cap(limit, m, l, t) \in Nat /\ Cap(limit, m, Unknown, t) \in Nat
      /\ Cap(limit, m, l, t) <= Cap(limit, m, Unknown, t) /\ (Cap(limit, m, l, t) = 0 <=> limit = 0)
  BY <1>2, <1>3, CapGrows
<1>5. ASSUME NEW u \in Nat, t <= u
      PROVE  /\ Cap(limit, m, l, u) \in Nat /\ Cap(limit, m, l, t) <= Cap(limit, m, l, u)
             /\ Cap(limit, m, l, u) = 0 <=> limit = 0
  <2>1. Factor(l, t) <= Factor(l, u) BY <1>1, <1>5, FactorGrows
  <2>2. Factor(l, u) \in Nat
    <3>1. l.updated <= u BY <1>1, <1>5, LearnedAre
    <3> QED BY <3>1, FactorGrows
  <2> QED BY <1>2, <2>1, <2>2, CapGrows
<1> QED BY <1>1, <1>4, <1>5

LEMMA BusyIs ==
    ASSUME GovernorInv, NEW m \in Models, NEW est \in Nat, NEW t \in Nat, now <= t
    PROVE  /\ BusyUntil(m, est, t) \in Nat
           /\ BusyUntil(m, est, t) # 0 => BusyUntil(m, est, t) > t
           /\ learned[m].cooldown > t => learned[m].cooldown <= BusyUntil(m, est, t)
           /\ BusyRequests(m, t) \in Nat /\ BusyRequests(m, t) <= BusyUntil(m, est, t)
           /\ BusyTokens(m, est, t) \in Nat /\ BusyTokens(m, est, t) <= BusyUntil(m, est, t)
           /\ learned[m].cooldown <= t /\ BusyRequests(m, t) = 0 /\ BusyTokens(m, est, t) = 0
                 => BusyUntil(m, est, t) = 0
<1>1. Minute \in Nat /\ Minute > 0 /\ Limits[m].rpm \in Nat /\ Limits[m].tpm \in Nat BY GovernorNumbers, LimitsAre
<1>2. PICK x \in Nat : x = learned[m].cooldown BY GovernorState, LearnedAre
<1>3. PICK rows \in Seq(Rows) : /\ rows = Since(m, t, Minute) /\ Len(rows) \in Nat
                                /\ \A k \in 1 .. Len(rows) : rows[k].at + Minute > t
  BY <1>1, SinceIs
<1>4. PICK p \in Nat : p = Cap(Limits[m].rpm, m, learned[m], t) BY <1>1, CapIs
<1>5. PICK q \in Nat : q = Cap(Limits[m].tpm, m, learned[m], t) BY <1>1, CapIs
<1>6. PICK r \in Nat : r = RequestsFreeAt(rows, p, Minute) BY <1>1, RequestsFreeIs
<1>7. r # 0 => r > t
  <2> SUFFICES ASSUME r # 0 PROVE r > t OBVIOUS
  <2>1. \E n \in 1 .. Len(rows) : n = Len(rows) - p + 1 /\ RequestsFreeAt(rows, p, Minute) = rows[n].at + Minute
    <3>1. RequestsFreeAt(rows, p, Minute) # 0 BY <1>6
    <3> QED BY <1>1, <3>1, RequestsFreeIs
  <2> QED BY <1>3, <1>6, <2>1
<1>8. PICK v \in Nat : v = TokensFreeAt(rows, q, est, Minute) BY <1>1, TokensFreeIs
<1>9. v # 0 => v > t
  <2> SUFFICES ASSUME v # 0 PROVE v > t OBVIOUS
  <2>1. \E k \in 1 .. Len(rows) :
           /\ TokensFreeAt(rows, q, est, Minute) = rows[k].at + Minute
           /\ k = Len(rows) \/ Spent(rows)[k] >= Spent(rows)[Len(rows)] + est - q
    BY <1>1, <1>8, TokensFreeIs
  <2> QED BY <1>3, <1>8, <2>1
<1>10. PICK y \in Nat : y = (IF x > t THEN x ELSE 0) OBVIOUS
<1>11. BusyUntil(m, est, t) = Max({y, r, v}) BY <1>2, <1>3, <1>4, <1>5, <1>6, <1>8, <1>10 DEF BusyUntil
<1>12. r = BusyRequests(m, t) /\ v = BusyTokens(m, est, t)
  BY <1>3, <1>4, <1>5, <1>6, <1>8 DEF BusyRequests, BusyTokens
<1>13. PICK b \in {y, r, v} : b = Max({y, r, v}) /\ y <= b /\ r <= b /\ v <= b BY GreatestOfThree
<1>14. b \in Nat /\ (b # 0 => b > t) BY <1>7, <1>9, <1>10, <1>13
<1> QED BY <1>2, <1>10, <1>11, <1>12, <1>13, <1>14

\* A wait is long enough, by what is known in a sound state.
LEMMA WaitIsEnough == ASSUME GovernorInv PROVE WaitSuffices
<1> SUFFICES ASSUME NEW m \in Models, NEW est \in Sizes, OutUntil(m, est, now) = 0, BusyUntil(m, est, now) # 0
             PROVE  OutUntil(m, est, BusyUntil(m, est, now)) = 0 /\ BusyUntil(m, est, BusyUntil(m, est, now)) = 0
  BY DEF WaitSuffices
<1>1. est \in Nat /\ now \in Nat BY GovernorNumbers, GovernorState
<1>2. PICK u \in Nat : u = BusyUntil(m, est, now) /\ u > now BY <1>1, BusyIs
<1>3. /\ Day \in Nat /\ Day > 0 /\ Minute \in Nat /\ Minute > 0
      /\ Limits[m].rpd \in Nat /\ Limits[m].tpd \in Nat /\ Limits[m].rpm \in Nat /\ Limits[m].tpm \in Nat
  BY GovernorNumbers, LimitsAre
<1>4. ASSUME NEW span \in Nat
      PROVE  Outlived(Since(m, now, span), Since(m, u, span), span, u)
  <2>1. PICK c \in Seq(Rows) : c = calls[m] /\ InOrder(c) BY GovernorState
  <2>2. PICK v \in Int : v = now - span BY <1>1
  <2>3. PICK w \in Int : w = u - span OBVIOUS
  <2>4. v <= w BY <1>1, <1>2, <2>2, <2>3
  <2>5. \E d \in 0 .. Len(Newer(c, v)) :
           /\ Rest(Newer(c, v), Newer(c, w), d)
           /\ \A k \in 1 .. Len(Newer(c, v)) : Newer(c, v)[k].at <= w => k <= d
    <3>1. InOrder(c) BY <2>1
    <3> QED BY <2>4, <3>1, WindowAges
  <2>6. Since(m, now, span) = Newer(c, v) /\ Since(m, u, span) = Newer(c, w) BY <2>1, <2>2, <2>3 DEF Since
  <2> QED BY <2>3, <2>5, <2>6 DEF Outlived
<1>5. OutUntil(m, est, u) = 0
  <2>1. /\ learned[m].exhausted <= now
        /\ RequestsFreeAt(Since(m, now, Day), Limits[m].rpd, Day) = 0
        /\ TokensFreeAt(Since(m, now, Day), Limits[m].tpd, est, Day) = 0
    BY <1>1, OutIs
  <2>2. PICK rows \in Seq(Rows) : rows = Since(m, now, Day) BY <1>1, <1>3, SinceIs
  <2>3. PICK rest : rest = Since(m, u, Day) /\ Outlived(rows, rest, Day, u) BY <1>3, <1>4, <2>2
  <2>4. RequestsFreeAt(rest, Limits[m].rpd, Day) = 0
    <3>1. RequestsFreeAt(rows, Limits[m].rpd, Day) <= u BY <2>1, <2>2
    <3> QED BY <1>3, <2>3, <3>1, RequestsWait
  <2>5. TokensFreeAt(rest, Limits[m].tpd, est, Day) = 0
    <3>1. TokensFreeAt(rows, Limits[m].tpd, est, Day) <= u BY <2>1, <2>2
    <3> QED BY <1>1, <1>3, <2>3, <3>1, TokensWait
  <2>6. learned[m].exhausted <= u
    <3>1. learned[m].exhausted \in Nat BY GovernorState, LearnedAre
    <3> QED BY <1>1, <1>2, <2>1, <3>1
  <2> QED BY <1>1, <2>3, <2>4, <2>5, <2>6, OutIs
<1>6. BusyUntil(m, est, u) = 0
  <2>1. learned[m].cooldown <= u
    <3>1. learned[m].cooldown \in Nat BY GovernorState, LearnedAre
    <3>2. learned[m].cooldown > now => learned[m].cooldown <= u BY <1>1, <1>2, BusyIs
    <3> QED BY <1>1, <1>2, <3>1, <3>2
  <2>2. PICK rows \in Seq(Rows) : rows = Since(m, now, Minute) BY <1>1, <1>3, SinceIs
  <2>3. PICK rest : rest = Since(m, u, Minute) /\ Outlived(rows, rest, Minute, u) BY <1>3, <1>4, <2>2
  <2>4. ASSUME NEW limit \in Nat
        PROVE  /\ Cap(limit, m, learned[m], now) \in Nat /\ Cap(limit, m, learned[m], u) \in Nat
               /\ Cap(limit, m, learned[m], now) <= Cap(limit, m, learned[m], u)
               /\ Cap(limit, m, learned[m], u) = 0 <=> Cap(limit, m, learned[m], now) = 0
    <3>1. now <= now /\ now <= u BY <1>1, <1>2
    <3>2. Cap(limit, m, learned[m], now) \in Nat /\ (Cap(limit, m, learned[m], now) = 0 <=> limit = 0)
      BY <1>1, <3>1, CapIs
    <3>3. /\ Cap(limit, m, learned[m], u) \in Nat
          /\ Cap(limit, m, learned[m], now) <= Cap(limit, m, learned[m], u)
          /\ Cap(limit, m, learned[m], u) = 0 <=> limit = 0
      BY <1>1, <3>1, CapIs
    <3> QED BY <3>2, <3>3
  <2>5. BusyRequests(m, u) = 0
    <3>1. PICK p \in Nat, q \in Nat : /\ p = Cap(Limits[m].rpm, m, learned[m], now)
                                      /\ q = Cap(Limits[m].rpm, m, learned[m], u)
                                      /\ p <= q /\ (q = 0 <=> p = 0)
      BY <1>3, <2>4
    <3>2. RequestsFreeAt(rows, p, Minute) <= u BY <1>1, <1>2, <2>2, <3>1, BusyIs DEF BusyRequests
    <3>3. RequestsFreeAt(rest, q, Minute) = 0
      <4>1. p <= q BY <3>1
      <4>2. q = 0 <=> p = 0 BY <3>1
      <4>3. Minute \in Nat /\ Minute > 0 /\ Outlived(rows, rest, Minute, u) BY <1>3, <2>3
      <4> QED BY <3>2, <4>1, <4>2, <4>3, RequestsWait
    <3> QED BY <2>3, <3>1, <3>3 DEF BusyRequests
  <2>6. BusyTokens(m, est, u) = 0
    <3>1. PICK p \in Nat, q \in Nat : /\ p = Cap(Limits[m].tpm, m, learned[m], now)
                                      /\ q = Cap(Limits[m].tpm, m, learned[m], u)
                                      /\ p <= q /\ (q = 0 <=> p = 0)
      BY <1>3, <2>4
    <3>2. TokensFreeAt(rows, p, est, Minute) <= u BY <1>1, <1>2, <2>2, <3>1, BusyIs DEF BusyTokens
    <3>3. TokensFreeAt(rest, q, est, Minute) = 0
      <4>1. p <= q BY <3>1
      <4>2. q = 0 <=> p = 0 BY <3>1
      <4>3. Minute \in Nat /\ Minute > 0 /\ Outlived(rows, rest, Minute, u) BY <1>3, <2>3
      <4> QED BY <1>1, <3>2, <4>1, <4>2, <4>3, TokensWait
    <3> QED BY <2>3, <3>1, <3>3 DEF BusyTokens
  <2>7. now <= u BY <1>1, <1>2
  <2> QED BY <1>1, <2>1, <2>5, <2>6, <2>7, BusyIs
<1> QED BY <1>2, <1>5, <1>6

-----------------------------------------------------------------------------
(* The governor. Its steps.                                                *)

LEMMA CallersCount ==
    ASSUME NEW m
    PROVE  /\ IsFiniteSet(Callers(m)) /\ Cardinality(Callers(m)) \in Nat
           /\ Cardinality(Callers(m)) <= Cardinality(Governors) /\ Cardinality(Governors) \in Nat
           /\ IsFiniteSet(Callers(m)') /\ Cardinality(Callers(m)') \in Nat
           /\ Cardinality(Callers(m)') <= Cardinality(Governors)
<1>1. IsFiniteSet(Governors) BY GovernorNumbers
<1>2. Callers(m) \subseteq Governors /\ Callers(m)' \subseteq Governors BY DEF Callers
<1> QED BY <1>1, <1>2, FS_Subset, FS_CardinalityType

LEMMA SentIs ==
    ASSUME NEW m, NEW span
    PROVE  /\ Sent(m, span) = Len(Since(m, now, span)) + Cardinality(Callers(m))
           /\ Sent(m, span)' = Len(Since(m, now, span)') + Cardinality(Callers(m)')
BY DEF Sent, Callers

\* As long as no more is sent, the caps hold: they are of limits, not of time.
LEMMA PacedStays ==
    ASSUME GovernorInv, now' \in Nat,
           \A m \in Models : \A span \in {Minute, Day} :
              Sent(m, span) \in Int /\ Sent(m, span)' \in Int /\ Sent(m, span)' <= Sent(m, span)
    PROVE  PacedTogether'
<1>1. Cardinality(Governors) \in Nat BY CallersCount
<1>2. PICK others \in Int : others = Cardinality(Governors) - 1 BY <1>1
<1> SUFFICES ASSUME NEW m \in Models
             PROVE  /\ Limits[m].rpm # 0 => Sent(m, Minute)' <= Cap(Limits[m].rpm, m, Unknown, now') + others
                    /\ Limits[m].rpd # 0 => Sent(m, Day)' <= Limits[m].rpd + others
  BY <1>2 DEF PacedTogether
<1>3. Limits[m].rpm \in Nat /\ Limits[m].rpd \in Nat BY LimitsAre
<1>4. /\ Limits[m].rpm # 0 => Sent(m, Minute) <= Cap(Limits[m].rpm, m, Unknown, now) + others
      /\ Limits[m].rpd # 0 => Sent(m, Day) <= Limits[m].rpd + others
  BY <1>2 DEF GovernorInv, PacedTogether
<1>5. Factor(Unknown, now) = 100 /\ Factor(Unknown, now') = 100 BY GovernorState, UnknownIs
<1>6. PICK p \in Nat : p = Cap(Limits[m].rpm, m, Unknown, now) BY <1>3, <1>5, CapGrows
<1>7. PICK q \in Nat : q = Cap(Limits[m].rpm, m, Unknown, now') BY <1>3, <1>5, CapGrows
<1>8. p <= q
  <2>1. 100 \in Nat /\ 100 <= 100 OBVIOUS
  <2>2. Cap(Limits[m].rpm, m, Unknown, now) <= Cap(Limits[m].rpm, m, Unknown, now')
    BY <1>3, <1>5, <2>1, CapGrows
  <2> QED BY <1>6, <1>7, <2>2
<1>9. /\ Sent(m, Minute) \in Int /\ Sent(m, Minute)' \in Int /\ Sent(m, Minute)' <= Sent(m, Minute)
      /\ Sent(m, Day) \in Int /\ Sent(m, Day)' \in Int /\ Sent(m, Day)' <= Sent(m, Day)
  OBVIOUS
<1> QED BY <1>3, <1>4, <1>6, <1>7, <1>8, <1>9

LEMMA GovernorMoves ==
    ASSUME GovernorInv, NEW g \in Governors, NEW h \in Governed, GovIs(g, h), now' = now,
           h.fold.updated <= now, h.pc = "ask" /\ h.soonest # 0 => h.reset > now
    PROVE  /\ gov' \in [Governors -> Governed] /\ GovernorsSound'
           /\ gov'[g] = h /\ \A k \in Governors : k # g => gov'[k] = gov[k]
           /\ h.pc # "call" => \A m : Callers(m)' \subseteq Callers(m) /\ g \notin Callers(m)'
<1>1. gov \in [Governors -> Governed] BY DEF GovernorInv, GovernorTypeOK
<1>2. gov' = [gov EXCEPT ![g] = h] BY DEF GovIs
<1>3. gov'[g] = h /\ \A k \in Governors : k # g => gov'[k] = gov[k] BY <1>1, <1>2
<1>4. gov' \in [Governors -> Governed] BY <1>1, <1>2
<1>5. GovernorsSound'
  <2> SUFFICES ASSUME NEW k \in Governors
               PROVE  /\ gov'[k].fold.updated <= now'
                      /\ gov'[k].pc = "ask" /\ gov'[k].soonest # 0 => gov'[k].reset > now'
    BY DEF GovernorsSound
  <2>1. CASE k = g BY <1>3, <2>1
  <2>2. CASE k # g
    <3>1. gov'[k] = gov[k] BY <1>3, <2>2
    <3>2. gov[k].fold.updated <= now /\ (gov[k].pc = "ask" /\ gov[k].soonest # 0 => gov[k].reset > now)
      BY DEF GovernorInv, GovernorsSound
    <3> QED BY <3>1, <3>2
  <2> QED BY <2>1, <2>2
<1>6. ASSUME h.pc # "call", NEW m PROVE Callers(m)' \subseteq Callers(m) /\ g \notin Callers(m)'
  <2>1. g \notin Callers(m)' BY <1>3, <1>6 DEF Callers
  <2>2. \A k \in Callers(m)' : k \in Governors /\ k # g /\ gov'[k].pc = "call" /\ Chain[gov'[k].i] = m
    BY <2>1 DEF Callers
  <2> QED BY <1>3, <2>1, <2>2 DEF Callers
<1> QED BY <1>3, <1>4, <1>5, <1>6

LEMMA SentSame ==
    ASSUME GovernorInv, calls' = calls, now' = now, NEW m \in Models, NEW span \in Nat
    PROVE  Len(Since(m, now, span)') = Len(Since(m, now, span)) /\ Len(Since(m, now, span)) \in Nat
<1>1. Since(m, now, span)' = Since(m, now, span) BY DEF Since, Newer
<1>2. now \in Nat BY GovernorState
<1> QED BY <1>1, <1>2, SinceIs

\* A step of a governor that neither sends nor records a call.
LEMMA SilentKeeps ==
    ASSUME GovernorInv, NEW g \in Governors, NEW h \in Governed, GovIs(g, h), now' = now, calls' = calls,
           h.fold.updated <= now, h.pc = "ask" /\ h.soonest # 0 => h.reset > now, h.pc # "call",
           learned' \in [Models -> Learned], \A m \in Models : learned'[m].updated <= now
    PROVE  GovernorInv'
<1>1. gov' \in [Governors -> Governed] /\ GovernorsSound' /\ \A m : Callers(m)' \subseteq Callers(m)
  BY GovernorMoves
<1>2. GovernorTypeOK' BY <1>1 DEF GovernorInv, GovernorTypeOK
<1>3. LedgerSound' BY DEF GovernorInv, LedgerSound
<1>4. PacedTogether'
  <2>1. now' \in Nat BY GovernorState
  <2>2. ASSUME NEW m \in Models, NEW span \in {Minute, Day}
        PROVE  Sent(m, span) \in Int /\ Sent(m, span)' \in Int /\ Sent(m, span)' <= Sent(m, span)
    <3>1. span \in Nat BY GovernorNumbers
    <3>2. Len(Since(m, now, span)') = Len(Since(m, now, span)) /\ Len(Since(m, now, span)) \in Nat
      BY <3>1, SentSame
    <3>3. Callers(m)' \subseteq Callers(m) /\ IsFiniteSet(Callers(m)) BY <1>1, CallersCount
    <3>4. Cardinality(Callers(m)') <= Cardinality(Callers(m)) /\ Cardinality(Callers(m)') \in Nat
          /\ Cardinality(Callers(m)) \in Nat
      BY <3>3, FS_Subset, CallersCount
    <3> QED BY <3>2, <3>4, SentIs
  <2> QED BY <2>1, <2>2, PacedStays
<1> QED BY <1>1, <1>2, <1>3, <1>4 DEF GovernorInv

LEMMA RestingIs == Resting \in Governed /\ Resting.fold.updated = 0 /\ Resting.pc = "idle"
<1>1. Unknown \in Learned /\ Unknown.updated = 0 BY UnknownIs DEF Unknown
<1>2. 0 \in 0 .. MaxAttempts - 1 BY GovernorNumbers
<1>3. 1 \in 1 .. Len(Chain) /\ 0 \in 0 .. Len(Chain) BY ChainIs
<1>4. Resting \in Governed BY <1>1, <1>2, <1>3 DEF Resting, Governed
<1>5. Resting.fold = Unknown /\ Resting.pc = "idle" BY DEF Resting
<1> QED BY <1>1, <1>4, <1>5

LEMMA AskingIs ==
    ASSUME NEW h \in Governed
    PROVE  /\ Asking(h) \in Governed /\ Asking(h).pc = "ask" /\ Asking(h).soonest = 0
           /\ Asking(h).fold = h.fold /\ Asking(h).i = 1 /\ Asking(h).est = h.est /\ Asking(h).task = h.task
<1>1. 1 \in 1 .. Len(Chain) /\ 0 \in 0 .. Len(Chain) BY ChainIs
<1>2. Asking(h) \in Governed BY <1>1 DEF Asking, Governed
<1>3. /\ Asking(h).pc = "ask" /\ Asking(h).soonest = 0
      /\ Asking(h).fold = h.fold /\ Asking(h).i = 1 /\ Asking(h).est = h.est /\ Asking(h).task = h.task
  BY DEF Asking, Governed
<1> QED BY <1>2, <1>3

LEMMA GovernorStarts == GovernorInit => GovernorInv
<1> SUFFICES ASSUME GovernorInit PROVE GovernorInv OBVIOUS
<1>1. now = 0 /\ calls = [m \in Models |-> <<>>] /\ learned = [m \in Models |-> Unknown]
      /\ gov = [g \in Governors |-> Resting]
  BY DEF GovernorInit
<1>2. Unknown \in Learned /\ Unknown.updated = 0 BY UnknownIs DEF Unknown
<1>3. GovernorTypeOK
  <2>1. 0 \in 0 .. MaxTime BY GovernorNumbers
  <2>2. <<>> \in Seq(Rows) OBVIOUS
  <2> QED BY <1>1, <1>2, <2>1, <2>2, RestingIs DEF GovernorTypeOK
<1>4. \A m \in Models : calls[m] = <<>> /\ DOMAIN calls[m] = {} /\ Len(calls[m]) = 0 BY <1>1
<1>5. LedgerSound BY <1>1, <1>2, <1>4 DEF LedgerSound, InOrder
<1>6. GovernorsSound
  <2>1. \A g \in Governors : gov[g] = Resting BY <1>1
  <2> QED BY <1>1, <2>1, RestingIs DEF GovernorsSound
<1>7. PacedTogether
  <2> SUFFICES ASSUME NEW m \in Models
               PROVE  LET others == Cardinality(Governors) - 1 IN
                      /\ Limits[m].rpm # 0 => Sent(m, Minute) <= Cap(Limits[m].rpm, m, Unknown, now) + others
                      /\ Limits[m].rpd # 0 => Sent(m, Day) <= Limits[m].rpd + others
    BY DEF PacedTogether
  <2>1. Callers(m) = {} BY <1>1, RestingIs DEF Callers
  <2>2. Cardinality(Callers(m)) = 0 BY <2>1, FS_EmptySet
  <2>3. ASSUME NEW span \in Nat PROVE Len(Since(m, now, span)) = 0
    <3>1. PICK u \in Int : u = now - span BY <1>1
    <3>2. calls[m] \in Seq(Rows) /\ InOrder(calls[m]) /\ Len(calls[m]) = 0 BY <1>3, <1>4 DEF GovernorTypeOK, InOrder
    <3>3. PICK c \in 0 .. Len(calls[m]) : Rest(calls[m], Newer(calls[m], u), c) BY <3>2, NewerRest
    <3>4. Len(Newer(calls[m], u)) = Len(calls[m]) - c BY <3>3 DEF Rest
    <3>5. c = 0 BY <3>2
    <3>6. Len(Newer(calls[m], u)) = 0 BY <3>2, <3>4, <3>5
    <3> QED BY <3>1, <3>6 DEF Since
  <2>4. Sent(m, Minute) = 0 /\ Sent(m, Day) = 0 BY <2>2, <2>3, SentIs, GovernorNumbers
  <2>6. Limits[m].rpm \in Nat /\ Limits[m].rpd \in Nat /\ Cardinality(Governors) \in Nat BY LimitsAre, CallersCount
  <2>7. Factor(Unknown, now) = 100 BY <1>1, UnknownIs
  <2>8. PICK p \in Nat : p = Cap(Limits[m].rpm, m, Unknown, now) /\ (p = 0 <=> Limits[m].rpm = 0)
    <3>1. 100 <= 100 OBVIOUS
    <3> QED BY <2>6, <2>7, <3>1, CapGrows
  <2> QED BY <2>4, <2>6, <2>8
<1> QED BY <1>3, <1>5, <1>6, <1>7 DEF GovernorInv

LEMMA CutUnique ==
    ASSUME NEW rows, Len(rows) \in Nat, NEW t, NEW c, NEW d, Cut(rows, t, c), Cut(rows, t, d)
    PROVE  c = d
<1>1. c \in 0 .. Len(rows) /\ d \in 0 .. Len(rows) BY DEF Cut
<1>2. ASSUME c < d PROVE FALSE
  <2>1. d \in 1 .. Len(rows) /\ ~(d <= c) BY <1>1, <1>2
  <2> QED BY <1>1, <2>1 DEF Cut
<1>3. ASSUME d < c PROVE FALSE
  <2>1. c \in 1 .. Len(rows) /\ ~(c <= d) BY <1>1, <1>3
  <2> QED BY <1>1, <2>1 DEF Cut
<1> QED BY <1>1, <1>2, <1>3

\* record_call adds one row to the model's windows, and none of those it
\* drops was in one.
LEMMA RecordedCounts ==
    ASSUME GovernorInv, NEW m \in Models, NEW tokens \in Nat, Recorded(m, tokens), now' = now
    PROVE  /\ calls' \in [Models -> Seq(Rows)]
           /\ \A n \in Models : InOrder(calls'[n]) /\ \A k \in DOMAIN calls'[n] : calls'[n][k].at <= now
           /\ \A n \in Models, span \in Nat :
                 span > 0 /\ span <= Keep =>
                    Len(Since(n, now, span)') = Len(Since(n, now, span)) + (IF n = m THEN 1 ELSE 0)
<1>1. PICK c \in Seq(Rows) : c = calls[m] BY GovernorState
<1>2. PICK row \in Rows : row = [at |-> now, tokens |-> tokens] BY GovernorState DEF Rows
<1>3. PICK a \in Seq(Rows) : a = Append(c, row)
  <2>1. Append(c, row) \in Seq(Rows) BY AppendProperties
  <2> QED BY <2>1
<1>4. PICK w \in Int : w = now - Keep - 1 BY GovernorState, GovernorNumbers
<1>5. calls' = [calls EXCEPT ![m] = Newer(a, w)] BY <1>1, <1>2, <1>3, <1>4 DEF Recorded
<1>6. row.at = now /\ now \in Nat BY <1>2, GovernorState
<1>7. PICK n \in Nat : n = Len(c) OBVIOUS
<1>8. Len(a) = n + 1 /\ a[n + 1] = row /\ \A k \in 1 .. n : a[k] = c[k] BY <1>3, <1>7
<1>9. DOMAIN a = 1 .. n + 1 /\ DOMAIN c = 1 .. n BY <1>7, <1>8, RowsAre
<1>10. InOrder(c) /\ \A k \in 1 .. n : c[k].at <= now /\ c[k].at \in Nat BY <1>1, <1>7, GovernorState, RowsAre
<1>11. \A k \in 1 .. n + 1 : a[k].at <= now /\ a[k].at \in Nat
  <2> TAKE k \in 1 .. n + 1
  <2>1. k \in 1 .. n \/ k = n + 1 BY <1>7
  <2> QED BY <1>6, <1>8, <1>10, <2>1
<1>12. InOrder(a)
  <2> SUFFICES ASSUME NEW i \in 1 .. n + 1, NEW j \in 1 .. n + 1, i <= j PROVE a[i].at <= a[j].at
    BY <1>9 DEF InOrder
  <2>1. CASE j = n + 1 BY <1>6, <1>8, <1>11, <2>1
  <2>2. CASE j # n + 1
    <3>1. i \in 1 .. n /\ j \in 1 .. n BY <1>7, <2>2
    <3> QED BY <1>8, <1>9, <1>10, <3>1 DEF InOrder
  <2> QED BY <2>1, <2>2
<1>13. PICK e \in 0 .. Len(a) : Cut(a, w, e) /\ Rest(a, Newer(a, w), e) BY <1>12, NewerRest
<1>14. PICK left \in Seq(Rows) : left = Newer(a, w) /\ InOrder(left) /\ Len(left) = (n + 1) - e /\ e \in 0 .. n + 1
                               /\ \A k \in 1 .. (n + 1) - e : left[k] = a[e + k]
  BY <1>8, <1>13 DEF Rest
<1>15. DOMAIN left = 1 .. (n + 1) - e BY <1>14, RowsAre
<1>16. \A k \in DOMAIN left : left[k].at <= now
  <2> TAKE k \in DOMAIN left
  <2>1. e + k \in 1 .. n + 1 /\ k \in 1 .. (n + 1) - e BY <1>14, <1>15
  <2> QED BY <1>11, <1>14, <2>1
<1>17. calls \in [Models -> Seq(Rows)] BY DEF GovernorInv, GovernorTypeOK
<1>18. calls'[m] = left /\ \A q \in Models : q # m => calls'[q] = calls[q] BY <1>5, <1>14, <1>17
<1>19. calls' \in [Models -> Seq(Rows)] BY <1>5, <1>14, <1>17
<1>20. \A q \in Models : InOrder(calls'[q]) /\ \A k \in DOMAIN calls'[q] : calls'[q][k].at <= now
  <2> TAKE q \in Models
  <2>1. CASE q = m BY <1>14, <1>16, <1>18, <2>1
  <2>2. CASE q # m BY <1>18, <2>2 DEF GovernorInv, LedgerSound
  <2> QED BY <2>1, <2>2
<1>21. ASSUME NEW q \in Models, NEW span \in Nat, span > 0, span <= Keep
       PROVE  Len(Since(q, now, span)') = Len(Since(q, now, span)) + (IF q = m THEN 1 ELSE 0)
  <2>1. PICK u \in Int : u = now - span /\ w <= u /\ u < now BY <1>4, <1>6, <1>21, GovernorNumbers
  <2>2. Since(q, now, span)' = Newer(calls'[q], u) /\ Since(q, now, span) = Newer(calls[q], u)
    <3>1. Since(q, now, span)' = Newer(calls'[q], now' - span) BY DEF Since, Newer
    <3> QED BY <2>1, <3>1 DEF Since
  <2>3. CASE q # m
    <3>1. Since(q, now, span)' = Since(q, now, span) BY <1>18, <2>2, <2>3
    <3>2. Len(Since(q, now, span)) \in Nat BY <1>6, SinceIs
    <3> QED BY <2>3, <3>1, <3>2
  <2>4. CASE q = m
    <3>1. PICK f \in 0 .. n : Cut(c, u, f) /\ Rest(c, Newer(c, u), f) BY <1>7, <1>10, NewerRest
    <3>2. Len(Newer(c, u)) = n - f BY <1>7, <3>1 DEF Rest
    <3>3. Cut(a, u, f)
      <4>1. f \in 0 .. Len(a) BY <1>8
      <4>2. \A k \in 1 .. n + 1 : a[k].at <= u <=> k <= f
        <5> TAKE k \in 1 .. n + 1
        <5>1. CASE k = n + 1 BY <1>6, <1>8, <2>1, <5>1
        <5>2. CASE k # n + 1
          <6>1. k \in 1 .. n /\ k \in 1 .. Len(c) BY <1>7, <5>2
          <6>2. c[k].at <= u <=> k <= f BY <3>1, <6>1 DEF Cut
          <6> QED BY <1>8, <6>1, <6>2
        <5> QED BY <5>1, <5>2
      <4> QED BY <1>8, <4>1, <4>2 DEF Cut
    <3>4. e <= f
      <4>1. SUFFICES ASSUME f < e PROVE FALSE BY <1>14
      <4>2. e \in 1 .. Len(a) /\ a[e].at \in Nat BY <1>8, <1>11, <1>14, <4>1
      <4>3. a[e].at <= w /\ ~(a[e].at <= u) BY <1>13, <3>3, <4>1, <4>2 DEF Cut
      <4> QED BY <2>1, <4>2, <4>3
    <3>5. PICK d \in Nat : d = f - e BY <1>14, <3>4
    <3>6. Cut(left, u, d)
      <4>1. d \in 0 .. Len(left) BY <1>14, <3>5
      <4>2. \A k \in 1 .. Len(left) : left[k].at <= u <=> k <= d
        <5> TAKE k \in 1 .. Len(left)
        <5>1. e + k \in 1 .. Len(a) /\ k \in 1 .. (n + 1) - e BY <1>8, <1>14
        <5>2. left[k] = a[e + k] /\ (a[e + k].at <= u <=> e + k <= f) BY <1>14, <3>3, <5>1 DEF Cut
        <5> QED BY <1>14, <3>5, <5>1, <5>2
      <4> QED BY <4>1, <4>2 DEF Cut
    <3>7. PICK b \in 0 .. Len(left) : Cut(left, u, b) /\ Rest(left, Newer(left, u), b) BY <1>14, NewerRest
    <3>8. b = d
      <4>1. Len(left) \in Nat OBVIOUS
      <4>2. Cut(left, u, b) BY <3>7
      <4> QED BY <3>6, <4>1, <4>2, CutUnique
    <3>9. Len(Newer(left, u)) = Len(left) - d BY <3>7, <3>8 DEF Rest
    <3>10. Len(Newer(left, u)) = (n - f) + 1 BY <1>14, <3>5, <3>9
    <3> QED BY <1>1, <1>18, <2>2, <2>4, <3>2, <3>10
  <2> QED BY <2>3, <2>4
<1> QED BY <1>19, <1>20, <1>21

\* A call under way becomes a row.
LEMMA RecordKeeps ==
    ASSUME GovernorInv, NEW g \in Governors, gov[g].pc = "call", NEW tokens \in Nat,
           Recorded(Chain[gov[g].i], tokens), NEW h \in Governed, GovIs(g, h), h.pc \notin {"call", "ask"},
           h.fold.updated <= now, now' = now, learned' = learned
    PROVE  GovernorInv'
<1>1. PICK m \in Models : m = Chain[gov[g].i] BY GovernorState, GovernedAre
<1>2. gov' \in [Governors -> Governed] /\ GovernorsSound'
      /\ \A n : Callers(n)' \subseteq Callers(n) /\ g \notin Callers(n)'
  BY GovernorMoves
<1>3. /\ calls' \in [Models -> Seq(Rows)]
      /\ \A n \in Models : InOrder(calls'[n]) /\ \A k \in DOMAIN calls'[n] : calls'[n][k].at <= now
      /\ \A n \in Models, span \in Nat :
            span > 0 /\ span <= Keep =>
               Len(Since(n, now, span)') = Len(Since(n, now, span)) + (IF n = m THEN 1 ELSE 0)
  BY <1>1, RecordedCounts
<1>4. GovernorTypeOK' BY <1>2, <1>3 DEF GovernorInv, GovernorTypeOK
<1>5. LedgerSound' BY <1>3 DEF GovernorInv, LedgerSound
<1>6. PacedTogether'
  <2>1. now' \in Nat BY GovernorState
  <2>2. ASSUME NEW n \in Models, NEW span \in {Minute, Day}
        PROVE  Sent(n, span) \in Int /\ Sent(n, span)' \in Int /\ Sent(n, span)' <= Sent(n, span)
    <3>1. span \in Nat /\ span > 0 /\ span <= Keep BY GovernorNumbers
    <3>2. Len(Since(n, now, span)) \in Nat BY <3>1, SinceIs, GovernorState
    <3>3. Len(Since(n, now, span)') = Len(Since(n, now, span)) + (IF n = m THEN 1 ELSE 0) BY <1>3, <3>1
    <3>4. IsFiniteSet(Callers(n)) /\ Cardinality(Callers(n)) \in Nat /\ Cardinality(Callers(n)') \in Nat
      BY CallersCount
    <3>5. CASE n = m
      <4>1. g \in Callers(n) BY <1>1, <3>5 DEF Callers
      <4>2. Callers(n)' \subseteq Callers(n) \ {g} BY <1>2
      <4>3. IsFiniteSet(Callers(n) \ {g}) /\ Cardinality(Callers(n) \ {g}) = Cardinality(Callers(n)) - 1
        BY <3>4, <4>1, FS_RemoveElement
      <4>4. Cardinality(Callers(n)') <= Cardinality(Callers(n)) - 1 BY <4>2, <4>3, FS_Subset
      <4> QED BY <3>2, <3>3, <3>4, <3>5, <4>4, SentIs
    <3>6. CASE n # m
      <4>1. Cardinality(Callers(n)') <= Cardinality(Callers(n)) BY <1>2, <3>4, FS_Subset
      <4> QED BY <3>2, <3>3, <3>4, <3>6, <4>1, SentIs
    <3> QED BY <3>5, <3>6
  <2> QED BY <2>1, <2>2, PacedStays
<1> QED BY <1>2, <1>4, <1>5, <1>6 DEF GovernorInv

LEMMA AdaptIs ==
    ASSUME GovernorInv, NEW l \in Learned, l.updated <= now, NEW kind \in {"throttle", "quota"}, NEW retry \in Retries
    PROVE  Adapt(l, kind, retry) \in Learned /\ Adapt(l, kind, retry).updated = now
<1>1. now \in Nat /\ retry \in Nat /\ Cooldown \in Nat /\ Backoff \in Nat /\ MinFactor \in 1 .. 100
  BY GovernorState, GovernorNumbers
<1>2. CASE kind = "throttle"
  <2>1. PICK f \in MinFactor .. 100 : f = Max({MinFactor, Factor(l, now) \div 2})
    <3>1. Factor(l, now) \in MinFactor .. 100 BY <1>1, FactorGrows
    <3>2. PICK v \in 0 .. 100 : v = Factor(l, now) \div 2 BY <1>1, <3>1
    <3> QED BY <1>1, <3>2, GreatestOfTwo
  <2>2. PICK until \in Nat : until = now + (IF retry > 0 THEN retry ELSE Cooldown) BY <1>1
  <2>3. PICK c \in Nat : c = Max({l.cooldown, until}) BY LearnedAre, GreatestOfTwo
  <2>4. Adapt(l, kind, retry) = [l EXCEPT !.factor = f, !.cooldown = c, !.updated = now]
    BY <1>2, <2>1, <2>2, <2>3 DEF Adapt
  <2>5. [l EXCEPT !.factor = f, !.cooldown = c, !.updated = now] \in Learned BY <1>1 DEF Learned
  <2>6. [l EXCEPT !.factor = f, !.cooldown = c, !.updated = now].updated = now BY DEF Learned
  <2> QED BY <2>4, <2>5, <2>6
<1>3. CASE kind = "quota"
  <2>2. PICK until \in Nat : until = now + (IF retry > Minute THEN retry ELSE Backoff) BY <1>1
  <2>3. PICK c \in Nat : c = Max({l.exhausted, until}) BY LearnedAre, GreatestOfTwo
  <2>4. Adapt(l, kind, retry) = [l EXCEPT !.exhausted = c, !.updated = now]
    BY <1>3, <2>2, <2>3 DEF Adapt
  <2>5. [l EXCEPT !.exhausted = c, !.updated = now] \in Learned BY <1>1 DEF Learned
  <2>6. [l EXCEPT !.exhausted = c, !.updated = now].updated = now BY DEF Learned
  <2> QED BY <2>4, <2>5, <2>6
<1> QED BY <1>2, <1>3

\* A wait is of at most one slice, and of at least none.
LEMMA SleepsIs ==
    ASSUME GovernorInv, NEW g \in Governors, NEW h \in Governed, h.fold.updated <= now,
           NEW until \in Nat, until > now, Sleeps(g, h, until)
    PROVE  \E k \in Governed : GovIs(g, k) /\ k.pc \in {"sleep", "idle"} /\ k.fold.updated <= now
<1>1. now \in Nat /\ Slice \in Nat BY GovernorState, GovernorNumbers
<1>2. PICK gap \in Nat : gap = until - now BY <1>1
<1>3. PICK step \in Nat : step = Min({gap, Slice}) BY <1>1, LeastOfTwo
<1>4. CASE h.task
  <2> DEFINE k == [h EXCEPT !.pc = "sleep", !.waited = @ + step, !.at = now + step, !.i = 1, !.reset = 0, !.soonest = 0]
  <2>1. GovIs(g, k) BY <1>2, <1>3, <1>4 DEF Sleeps
  <2>2. h.waited + step \in Nat /\ now + step \in Nat /\ 1 \in 1 .. Len(Chain) /\ 0 \in 0 .. Len(Chain)
    BY <1>1, GovernedAre, ChainIs
  <2>3. k \in Governed BY <2>2 DEF Governed
  <2>4. k.pc = "sleep" /\ k.fold = h.fold BY DEF Governed
  <2> HIDE DEF k
  <2> QED BY <2>1, <2>3, <2>4
<1>5. CASE ~h.task
  <2>1. GovIs(g, Resting) BY <1>5 DEF Sleeps
  <2> QED BY <1>1, <2>1, RestingIs
<1> QED BY <1>4, <1>5

LEMMA PassedOverIs ==
    ASSUME GovernorInv, NEW g \in Governors, NEW h \in Governed, h.fold.updated <= now, h.pc = "ask",
           h.soonest # 0 => h.reset > now, NEW free \in Nat, free > now, PassedOver(g, h, free)
    PROVE  \E k \in Governed : /\ GovIs(g, k) /\ k.pc \in {"sleep", "idle", "ask"} /\ k.fold.updated <= now
                               /\ k.pc = "ask" /\ k.soonest # 0 => k.reset > now
<1>1. now \in Nat BY GovernorState
<1>2. /\ h.i \in 1 .. Len(Chain) /\ h.reset \in Nat /\ h.soonest \in 0 .. Len(Chain) BY GovernedAre
<1>3. Len(Chain) \in Nat BY ChainIs
<1>4. PICK r \in Nat : r = (IF h.soonest = 0 \/ free < h.reset THEN free ELSE h.reset) /\ r > now BY <1>1, <1>2
<1>5. PICK s \in 0 .. Len(Chain) : s = IF h.soonest = 0 \/ free < h.reset THEN h.i ELSE h.soonest BY <1>2, <1>3
<1>6. PICK k : k = [h EXCEPT !.reset = r, !.soonest = s] OBVIOUS
<1>7. k \in Governed BY <1>6 DEF Governed
<1>8. k.pc = "ask" /\ k.reset = r /\ k.fold = h.fold /\ k.i = h.i /\ k.waited = h.waited BY <1>6 DEF Governed
<1>9. [h EXCEPT !.reset = IF h.soonest = 0 \/ free < h.reset THEN free ELSE @,
                !.soonest = IF h.soonest = 0 \/ free < h.reset THEN h.i ELSE @] = k
  BY <1>4, <1>5, <1>6 DEF Governed
<1>10. \/ h.i < Len(Chain) /\ GovIs(g, [k EXCEPT !.i = @ + 1])
       \/ Sleeps(g, k, k.reset)
       \/ GovIs(g, Resting)
  BY Zenon, <1>9 DEF PassedOver
<1>11. CASE h.i < Len(Chain) /\ GovIs(g, [k EXCEPT !.i = @ + 1])
  <2>1. k.i + 1 \in 1 .. Len(Chain) BY <1>2, <1>3, <1>8, <1>11
  <2>2. PICK j : j = [k EXCEPT !.i = @ + 1] OBVIOUS
  <2>3. j \in Governed BY <1>7, <2>1, <2>2 DEF Governed
  <2>4. j.pc = "ask" /\ j.reset = r /\ j.fold = h.fold BY <1>7, <1>8, <2>2 DEF Governed
  <2> QED BY <1>4, <1>11, <2>2, <2>3, <2>4
<1>12. CASE Sleeps(g, k, k.reset)
  <2>1. \E j \in Governed : GovIs(g, j) /\ j.pc \in {"sleep", "idle"} /\ j.fold.updated <= now
    <3>1. Sleeps(g, k, r) /\ k.fold.updated <= now BY <1>8, <1>12
    <3> QED BY <1>4, <1>7, <3>1, SleepsIs
  <2> QED BY <2>1
<1>13. CASE GovIs(g, Resting) BY <1>1, <1>13, RestingIs
<1> QED BY <1>10, <1>11, <1>12, <1>13

\* A call is let through only if the windows have room for one more.
LEMMA AdmitKeeps ==
    ASSUME GovernorInv, NEW g \in Governors, NEW m \in Models, m = Chain[gov[g].i], gov[g].pc = "ask",
           OutUntil(m, gov[g].est, now) = 0, BusyUntil(m, gov[g].est, now) = 0,
           NEW h \in Governed, GovIs(g, h), h.pc = "call", h.i = gov[g].i, h.fold.updated <= now,
           now' = now, calls' = calls, learned' = learned
    PROVE  GovernorInv'
<1>1. now \in Nat /\ gov[g].est \in Nat BY GovernorState, GovernedAre
<1>2. /\ Minute \in Nat /\ Minute > 0 /\ Day \in Nat /\ Day > 0 /\ Minute <= Keep /\ Day <= Keep
      /\ Limits[m].rpm \in Nat /\ Limits[m].rpd \in Nat
  BY GovernorNumbers, LimitsAre
<1>3. gov' \in [Governors -> Governed] /\ GovernorsSound'
      /\ gov'[g] = h /\ \A k \in Governors : k # g => gov'[k] = gov[k]
  BY GovernorMoves
<1>4. GovernorTypeOK' BY <1>3 DEF GovernorInv, GovernorTypeOK
<1>5. LedgerSound' BY DEF GovernorInv, LedgerSound
<1>6. PacedTogether'
  <2>1. Cardinality(Governors) \in Nat BY CallersCount
  <2>2. PICK others \in Int : others = Cardinality(Governors) - 1 BY <2>1
  <2> SUFFICES ASSUME NEW n \in Models
               PROVE  /\ Limits[n].rpm # 0 => Sent(n, Minute)' <= Cap(Limits[n].rpm, n, Unknown, now') + others
                      /\ Limits[n].rpd # 0 => Sent(n, Day)' <= Limits[n].rpd + others
    BY <2>2 DEF PacedTogether
  <2>3. /\ Len(Since(n, now, Minute)') = Len(Since(n, now, Minute)) /\ Len(Since(n, now, Minute)) \in Nat
        /\ Len(Since(n, now, Day)') = Len(Since(n, now, Day)) /\ Len(Since(n, now, Day)) \in Nat
    BY <1>2, SentSame
  <2>4. /\ Cardinality(Callers(n)) \in Nat /\ Cardinality(Callers(n)') \in Nat
        /\ Cardinality(Callers(n)') <= Cardinality(Governors) /\ IsFiniteSet(Callers(n))
    BY CallersCount
  <2>5. /\ Sent(n, Minute)' = Len(Since(n, now, Minute)) + Cardinality(Callers(n)')
        /\ Sent(n, Day)' = Len(Since(n, now, Day)) + Cardinality(Callers(n)')
        /\ Sent(n, Minute) = Len(Since(n, now, Minute)) + Cardinality(Callers(n))
        /\ Sent(n, Day) = Len(Since(n, now, Day)) + Cardinality(Callers(n))
    BY <2>3, SentIs
  <2>6. Limits[n].rpm \in Nat /\ Limits[n].rpd \in Nat BY LimitsAre
  <2>7. PICK full \in Nat : full = Cap(Limits[n].rpm, n, Unknown, now)
    <3>1. now <= now BY <1>1
    <3> QED BY <1>1, <2>6, <3>1, CapIs
  <2>10. PICK before \in Nat, after \in Nat, minutes \in Nat, days \in Nat :
            /\ before = Cardinality(Callers(n)) /\ after = Cardinality(Callers(n)')
            /\ minutes = Len(Since(n, now, Minute)) /\ days = Len(Since(n, now, Day))
    BY <2>3, <2>4
  <2>11. PICK rpm \in Nat, rpd \in Nat : rpm = Limits[n].rpm /\ rpd = Limits[n].rpd BY <2>6
  <2>12. SUFFICES (rpm # 0 => minutes + after <= full + others) /\ (rpd # 0 => days + after <= rpd + others)
    <3>1. Cap(Limits[n].rpm, n, Unknown, now') = full BY <2>7
    <3>2. Sent(n, Minute)' = minutes + after /\ Sent(n, Day)' = days + after BY <2>5, <2>10
    <3> QED BY <2>11, <3>1, <3>2
  <2>8. CASE n # m
    <3>1. Callers(n)' \subseteq Callers(n)
      <4>1. \A k \in Callers(n)' : k \in Governors /\ gov'[k].pc = "call" /\ Chain[gov'[k].i] = n BY DEF Callers
      <4>2. g \notin Callers(n)' BY <1>3, <2>8, <4>1
      <4> QED BY <1>3, <4>1, <4>2 DEF Callers
    <3>2. Cardinality(Callers(n)') <= Cardinality(Callers(n)) BY <2>4, <3>1, FS_Subset
    <3>3. /\ Limits[n].rpm # 0 => Sent(n, Minute) <= full + others
          /\ Limits[n].rpd # 0 => Sent(n, Day) <= Limits[n].rpd + others
      BY <2>2, <2>7 DEF GovernorInv, PacedTogether
    <3>4. after <= before BY <2>10, <3>2
    <3>5. rpm # 0 => minutes + before <= full + others BY <2>5, <2>10, <2>11, <3>3
    <3>6. rpd # 0 => days + before <= rpd + others BY <2>5, <2>10, <2>11, <3>3
    <3> QED BY <3>4, <3>5, <3>6
  <2>9. CASE n = m
    <3>1. Limits[n].rpm # 0 => Len(Since(n, now, Minute)) < full
      <4> SUFFICES ASSUME Limits[n].rpm # 0 PROVE Len(Since(n, now, Minute)) < full OBVIOUS
      <4>0. now <= now BY <1>1
      <4>1. PICK p \in Nat : p = Cap(Limits[n].rpm, n, learned[n], now) /\ p # 0 /\ p <= full
        BY <1>1, <2>6, <2>7, <4>0, CapIs
      <4>2. PICK rows \in Seq(Rows) : rows = Since(n, now, Minute) BY <1>1, <1>2, SinceIs
      <4>3. RequestsFreeAt(rows, p, Minute) = 0
        <5>1. BusyRequests(n, now) \in Nat /\ BusyRequests(n, now) <= BusyUntil(n, gov[g].est, now)
          BY <1>1, <4>0, BusyIs
        <5>2. BusyRequests(n, now) = RequestsFreeAt(rows, p, Minute) BY <4>1, <4>2 DEF BusyRequests
        <5> QED BY <2>9, <5>1, <5>2
      <4>4. Len(rows) < p BY <1>2, <4>1, <4>3, RequestsFreeIs
      <4> QED BY <2>3, <4>1, <4>2, <4>4
    <3>2. Limits[n].rpd # 0 => Len(Since(n, now, Day)) < Limits[n].rpd
      <4> SUFFICES ASSUME Limits[n].rpd # 0 PROVE Len(Since(n, now, Day)) < Limits[n].rpd OBVIOUS
      <4>1. PICK p \in Nat : p = Limits[n].rpd BY <2>6
      <4>2. PICK rows \in Seq(Rows) : rows = Since(n, now, Day) BY <1>1, <1>2, SinceIs
      <4>3. RequestsFreeAt(rows, p, Day) = 0
        <5>1. OutUntil(n, gov[g].est, now) = 0 BY <2>9
        <5>2. RequestsFreeAt(Since(n, now, Day), Limits[n].rpd, Day) = 0 BY <1>1, <5>1, OutIs
        <5> QED BY <4>1, <4>2, <5>2
      <4>4. p = 0 \/ Len(rows) < p BY <1>2, <4>3, RequestsFreeIs
      <4> QED BY <4>1, <4>2, <4>4
    <3>3. after <= others + 1 BY <2>1, <2>2, <2>4, <2>10
    <3>4. (rpm # 0 => minutes < full) /\ (rpd # 0 => days < rpd) BY <2>10, <2>11, <3>1, <3>2
    <3> QED BY <3>3, <3>4
  <2> QED BY <2>8, <2>9
<1> QED BY <1>3, <1>4, <1>5, <1>6 DEF GovernorInv

LEMMA BeginsKeeps == ASSUME GovernorInv, NEW g \in Governors, Begins(g) PROVE GovernorInv'
<1>1. \E k \in Governed : GovIs(g, k) /\ k.pc = "ask" /\ k.soonest = 0 /\ k.fold.updated = 0
  <2>1. CASE \E est \in Sizes : GovIs(g, Asking([Resting EXCEPT !.task = TRUE, !.est = est]))
    <3>1. PICK est \in Sizes : GovIs(g, Asking([Resting EXCEPT !.task = TRUE, !.est = est])) BY <2>1
    <3>2. PICK h : h = [Resting EXCEPT !.task = TRUE, !.est = est] OBVIOUS
    <3>3. est \in Nat /\ Resting \in Governed BY GovernorNumbers, RestingIs
    <3>4. h \in Governed BY <3>2, <3>3 DEF Governed
    <3>5. h.fold = Resting.fold BY <3>2, <3>3 DEF Governed
    <3>6. Asking(h) \in Governed /\ Asking(h).pc = "ask" /\ Asking(h).soonest = 0 /\ Asking(h).fold = Resting.fold
      BY <3>4, <3>5, AskingIs
    <3> QED BY <3>1, <3>2, <3>6, RestingIs
  <2>2. CASE GovIs(g, Asking(Resting))
    <3>1. Asking(Resting) \in Governed /\ Asking(Resting).pc = "ask" /\ Asking(Resting).soonest = 0
          /\ Asking(Resting).fold = Resting.fold
      BY AskingIs, RestingIs
    <3> QED BY <2>2, <3>1, RestingIs
  <2> QED BY <2>1, <2>2 DEF Begins
<1>2. now' = now /\ calls' = calls /\ learned' = learned BY DEF Begins
<1>3. learned' \in [Models -> Learned] /\ \A m \in Models : learned'[m].updated <= now
  BY <1>2, GovernorState DEF GovernorInv, GovernorTypeOK
<1>4. now \in Nat BY GovernorState
<1>5. PICK k \in Governed : GovIs(g, k) /\ k.pc = "ask" /\ k.soonest = 0 /\ k.fold.updated = 0 BY <1>1
<1> QED BY <1>2, <1>3, <1>4, <1>5, SilentKeeps

LEMMA AsksKeeps == ASSUME GovernorInv, NEW g \in Governors, Asks(g) PROVE GovernorInv'
<1>1. PICK h \in Governed : h = gov[g] BY GovernorState
<1>2. PICK m \in Models : m = Chain[h.i] BY GovernedAre
<1>3. now \in Nat /\ h.est \in Nat /\ now <= now BY GovernorState, GovernedAre
<1>4. PICK out \in Nat : out = OutUntil(m, h.est, now) /\ (out # 0 => out > now) BY <1>3, OutIs
<1>5. PICK busy \in Nat : busy = BusyUntil(m, h.est, now) /\ (busy # 0 => busy > now) BY <1>3, BusyIs
<1>6. /\ h.pc = "ask"
      /\ \/ out = 0 /\ busy = 0 /\ Admitted(g, h)
         \/ out = 0 /\ busy # 0 /\ busy - now <= Limits[m].wait /\ Sleeps(g, h, busy)
         \/ out = 0 /\ busy # 0 /\ busy - now > Limits[m].wait /\ PassedOver(g, h, busy)
         \/ out # 0 /\ PassedOver(g, h, out)
      /\ learned' = IF out # 0 /\ learned[m].exhausted <= now
                    THEN [learned EXCEPT ![m].exhausted = Max({@, out}), ![m].updated = now] ELSE learned
      /\ UNCHANGED <<now, calls>>
  BY <1>1, <1>2, <1>4, <1>5 DEF Asks
<1>7. h.fold.updated <= now /\ (h.soonest # 0 => h.reset > now)
  BY <1>1, <1>6 DEF GovernorInv, GovernorsSound
<1>8. learned \in [Models -> Learned] BY DEF GovernorInv, GovernorTypeOK
<1>9. learned' \in [Models -> Learned] /\ \A n \in Models : learned'[n].updated <= now
  <2>1. CASE out # 0 /\ learned[m].exhausted <= now
    <3>1. learned[m] \in Learned BY <1>8
    <3>0. PICK y \in Nat : y = learned[m].exhausted BY <3>1, LearnedAre
    <3>2. PICK x \in Nat : x = Max({learned[m].exhausted, out}) BY <3>0, GreatestOfTwo
    <3>3. PICK l : l = [learned[m] EXCEPT !.exhausted = x, !.updated = now] OBVIOUS
    <3>4. l \in Learned BY <1>3, <3>1, <3>3 DEF Learned
    <3>5. l.updated = now BY <3>1, <3>3 DEF Learned
    <3>6. learned' = [learned EXCEPT ![m] = l]
      <4>1. learned' = [learned EXCEPT ![m].exhausted = Max({@, out}), ![m].updated = now] BY <1>6, <2>1
      <4> QED BY <1>8, <3>1, <3>2, <3>3, <4>1 DEF Learned
    <3>7. learned' \in [Models -> Learned] BY <1>8, <3>4, <3>6
    <3>8. \A n \in Models : learned'[n] = IF n = m THEN l ELSE learned[n] BY <1>8, <3>6
    <3> QED BY <1>3, <3>5, <3>7, <3>8, GovernorState
  <2>2. CASE ~(out # 0 /\ learned[m].exhausted <= now) BY <1>6, <1>8, <2>2, GovernorState
  <2> QED BY <2>1, <2>2
<1>10. CASE out = 0 /\ busy = 0 /\ Admitted(g, h)
  <2>1. learned' = learned BY <1>6, <1>10
  <2>2. CASE h.task
    <3>1. PICK k : k = [h EXCEPT !.pc = "call", !.reset = 0, !.soonest = 0] OBVIOUS
    <3>2. 0 \in 0 .. Len(Chain) BY ChainIs
    <3>3. k \in Governed BY <3>1, <3>2 DEF Governed
    <3>4. k.pc = "call" /\ k.i = h.i /\ k.fold = h.fold BY <3>1 DEF Governed
    <3>5. GovIs(g, k) BY <1>10, <2>2, <3>1 DEF Admitted, Calling
    <3> QED BY <1>1, <1>2, <1>4, <1>5, <1>6, <1>7, <1>10, <2>1, <3>3, <3>4, <3>5, AdmitKeeps
  <2>3. CASE ~h.task
    <3>1. GovIs(g, Resting) BY <1>10, <2>3 DEF Admitted
    <3> QED BY <1>3, <1>6, <1>9, <3>1, RestingIs, SilentKeeps
  <2> QED BY <2>2, <2>3
<1>11. ASSUME \E k \in Governed : /\ GovIs(g, k) /\ k.pc \in {"sleep", "idle", "ask"} /\ k.fold.updated <= now
                                  /\ k.pc = "ask" /\ k.soonest # 0 => k.reset > now
       PROVE  GovernorInv'
  <2>1. PICK k \in Governed : /\ GovIs(g, k) /\ k.pc \in {"sleep", "idle", "ask"} /\ k.fold.updated <= now
                              /\ k.pc = "ask" /\ k.soonest # 0 => k.reset > now
    BY <1>11
  <2>2. k.pc # "call" BY <2>1
  <2> QED BY <1>6, <1>9, <2>1, <2>2, SilentKeeps
<1>12. CASE busy # 0 /\ Sleeps(g, h, busy)
  <2>1. \E k \in Governed : GovIs(g, k) /\ k.pc \in {"sleep", "idle"} /\ k.fold.updated <= now
    BY <1>5, <1>7, <1>12, SleepsIs
  <2> QED BY <1>11, <2>1
<1>13. CASE busy # 0 /\ PassedOver(g, h, busy) BY <1>5, <1>6, <1>7, <1>11, <1>13, PassedOverIs
<1>14. CASE out # 0 /\ PassedOver(g, h, out) BY <1>4, <1>6, <1>7, <1>11, <1>14, PassedOverIs
<1> QED BY <1>6, <1>10, <1>12, <1>13, <1>14

LEMMA WakesKeeps == ASSUME GovernorInv, NEW g \in Governors, Wakes(g) PROVE GovernorInv'
<1>1. PICK h \in Governed : h = gov[g] /\ h.fold.updated <= now
  BY GovernorState DEF GovernorInv, GovernorsSound
<1>2. GovIs(g, Asking(h)) /\ now' = now /\ calls' = calls /\ learned' = learned BY <1>1 DEF Wakes
<1>3. PICK k \in Governed : k = Asking(h) /\ k.pc = "ask" /\ k.soonest = 0 /\ k.fold = h.fold BY AskingIs
<1>4. learned' \in [Models -> Learned] /\ \A m \in Models : learned'[m].updated <= now
  BY <1>2, GovernorState DEF GovernorInv, GovernorTypeOK
<1> QED BY <1>1, <1>2, <1>3, <1>4, SilentKeeps

LEMMA GivesUpKeeps == ASSUME GovernorInv, NEW g \in Governors, GivesUp(g) PROVE GovernorInv'
<1>1. GovIs(g, Resting) /\ now' = now /\ calls' = calls /\ learned' = learned BY DEF GivesUp
<1>2. learned' \in [Models -> Learned] /\ \A m \in Models : learned'[m].updated <= now
  BY <1>1, GovernorState DEF GovernorInv, GovernorTypeOK
<1>3. now \in Nat BY GovernorState
<1> QED BY <1>1, <1>2, <1>3, RestingIs, SilentKeeps

LEMMA AnswersKeeps == ASSUME GovernorInv, NEW g \in Governors, Answers(g) PROVE GovernorInv'
<1>1. PICK tokens \in Sizes : Recorded(Chain[gov[g].i], tokens) BY DEF Answers
<1>2. tokens \in Nat BY GovernorNumbers
<1>3. gov[g].pc = "call" /\ GovIs(g, Resting) /\ now' = now /\ learned' = learned BY DEF Answers
<1>4. now \in Nat /\ Resting \in Governed /\ Resting.fold.updated <= now /\ Resting.pc \notin {"call", "ask"}
  BY GovernorState, RestingIs
<1> QED BY <1>1, <1>2, <1>3, <1>4, RecordKeeps

LEMMA RefusedKeeps == ASSUME GovernorInv, NEW g \in Governors, Refused(g) PROVE GovernorInv'
<1>1. PICK h \in Governed : h = gov[g] BY GovernorState
<1>2. PICK m \in Models : m = Chain[h.i] BY GovernedAre
<1>3. PICK kind \in {"throttle", "quota"}, retry \in Retries :
         GovIs(g, [h EXCEPT !.pc = "fold", !.fold = Adapt(learned[m], kind, retry)])
  BY <1>1, <1>2 DEF Refused
<1>4. PICK l \in Learned : l = Adapt(learned[m], kind, retry) /\ l.updated = now BY GovernorState, AdaptIs
<1>5. PICK k : k = [h EXCEPT !.pc = "fold", !.fold = l] OBVIOUS
<1>6. k \in Governed BY <1>5 DEF Governed
<1>7. k.pc = "fold" /\ k.fold = l BY <1>5 DEF Governed
<1>8. now \in Nat /\ k.fold.updated <= now /\ k.pc \notin {"call", "ask"} BY <1>4, <1>7, GovernorState
<1>9. Recorded(Chain[gov[g].i], 0) /\ gov[g].pc = "call" /\ now' = now /\ learned' = learned
  BY <1>1, <1>2 DEF Refused
<1>10. GovIs(g, k) /\ 0 \in Nat BY <1>3, <1>4, <1>5
<1> QED BY <1>6, <1>8, <1>9, <1>10, RecordKeeps

LEMMA FoldsKeeps == ASSUME GovernorInv, NEW g \in Governors, Folds(g) PROVE GovernorInv'
<1>1. PICK h \in Governed : h = gov[g] /\ h.fold.updated <= now
  BY GovernorState DEF GovernorInv, GovernorsSound
<1>2. PICK k : k = [h EXCEPT !.tries = @ + 1, !.fold = Unknown] OBVIOUS
<1>3. now' = now /\ calls' = calls /\ learned' = [learned EXCEPT ![Chain[h.i]] = h.fold]
      /\ GovIs(g, IF k.tries = MaxAttempts THEN Resting ELSE Asking(k))
  BY Zenon, <1>1, <1>2 DEF Folds
<1>4. learned' \in [Models -> Learned] /\ \A m \in Models : learned'[m].updated <= now
  <2>1. learned \in [Models -> Learned] /\ h.fold \in Learned BY GovernedAre DEF GovernorInv, GovernorTypeOK
  <2>2. learned' \in [Models -> Learned] BY <1>3, <2>1
  <2>3. \A m \in Models : learned'[m] = h.fold \/ learned'[m] = learned[m] BY <1>3, <2>1
  <2> QED BY <1>1, <2>2, <2>3, GovernorState
<1>5. now \in Nat /\ MaxAttempts \in Nat /\ h.tries \in 0 .. MaxAttempts - 1 BY GovernorState, GovernorNumbers, GovernedAre
<1>6. k.tries = h.tries + 1 BY <1>2 DEF Governed
<1>7. CASE k.tries = MaxAttempts BY <1>3, <1>4, <1>5, <1>7, RestingIs, SilentKeeps
<1>8. CASE k.tries # MaxAttempts
  <2>1. h.tries + 1 \in 0 .. MaxAttempts - 1 BY <1>5, <1>6, <1>8
  <2>2. k \in Governed BY <1>2, <2>1, UnknownIs DEF Governed
  <2>3. k.fold = Unknown BY <1>2 DEF Governed
  <2>4. PICK j \in Governed : j = Asking(k) /\ j.pc = "ask" /\ j.soonest = 0 /\ j.fold = Unknown BY <2>2, <2>3, AskingIs
  <2>5. GovIs(g, j) /\ j.fold.updated <= now BY <1>3, <1>5, <1>8, <2>4 DEF Unknown
  <2> QED BY <1>3, <1>4, <2>4, <2>5, SilentKeeps
<1> QED BY <1>7, <1>8

LEMMA LapseKeeps == ASSUME GovernorInv, NEW m \in Models, Forget(m) PROVE GovernorInv'
<1>1. learned' = [learned EXCEPT ![m] = Unknown] /\ now' = now /\ calls' = calls /\ gov' = gov BY DEF Forget
<1>2. learned \in [Models -> Learned] BY DEF GovernorInv, GovernorTypeOK
<1>3. learned' \in [Models -> Learned] BY <1>1, <1>2, UnknownIs
<1>4. \A n \in Models : learned'[n] = Unknown \/ learned'[n] = learned[n] BY <1>1, <1>2
<1>5. now \in Nat /\ Unknown.updated = 0 BY GovernorState DEF Unknown
<1>6. GovernorTypeOK' BY <1>1, <1>3 DEF GovernorInv, GovernorTypeOK
<1>7. LedgerSound' BY <1>1, <1>4, <1>5 DEF GovernorInv, LedgerSound
<1>8. GovernorsSound' BY <1>1 DEF GovernorInv, GovernorsSound
<1>9. PacedTogether'
  <2>1. \A n, span : Sent(n, span)' = Sent(n, span) BY <1>1 DEF Sent, Since, Newer
  <2>2. \A n, limit : Cap(limit, n, Unknown, now)' = Cap(limit, n, Unknown, now)
    BY <1>1 DEF Cap, Factor, Unknown
  <2> QED BY <1>1, <2>1, <2>2 DEF GovernorInv, PacedTogether
<1> QED BY <1>6, <1>7, <1>8, <1>9 DEF GovernorInv

LEMMA TickKeeps == ASSUME GovernorInv, Tick PROVE GovernorInv'
<1>1. now' = now + 1 /\ now < MaxTime /\ calls' = calls /\ learned' = learned /\ gov' = gov
      /\ \A g \in Governors : gov[g].pc \notin {"ask", "fold"}
  BY DEF Tick
<1>2. now \in Nat /\ MaxTime \in Nat BY GovernorState, GovernorNumbers
<1>3. GovernorTypeOK' BY <1>1, <1>2 DEF GovernorInv, GovernorTypeOK
<1>4. LedgerSound'
  <2> SUFFICES ASSUME NEW m \in Models
               PROVE  /\ InOrder(calls[m]) /\ \A k \in DOMAIN calls[m] : calls[m][k].at <= now + 1
                      /\ learned[m].updated <= now + 1
    BY <1>1 DEF LedgerSound
  <2>1. InOrder(calls[m]) /\ learned[m].updated <= now /\ learned[m].updated \in Nat /\ calls[m] \in Seq(Rows)
        /\ \A k \in 1 .. Len(calls[m]) : calls[m][k].at <= now
    BY GovernorState
  <2>2. DOMAIN calls[m] = 1 .. Len(calls[m]) /\ \A k \in 1 .. Len(calls[m]) : calls[m][k].at \in Nat
    BY <2>1, RowsAre
  <2> QED BY <1>2, <2>1, <2>2
<1>5. GovernorsSound'
  <2>1. \A g \in Governors : gov[g].fold.updated \in Nat BY GovernorState, GovernedAre, LearnedAre
  <2>2. \A g \in Governors : gov[g].fold.updated <= now BY DEF GovernorInv, GovernorsSound
  <2> QED BY <1>1, <1>2, <2>1, <2>2 DEF GovernorsSound
<1>6. PacedTogether'
  <2>1. now' \in Nat BY <1>1, <1>2
  <2>2. ASSUME NEW m \in Models, NEW span \in {Minute, Day}
        PROVE  Sent(m, span) \in Int /\ Sent(m, span)' \in Int /\ Sent(m, span)' <= Sent(m, span)
    <3>1. span \in Nat BY GovernorNumbers
    <3>2. PICK u \in Int : u = now - span BY <1>2, <3>1
    <3>3. PICK v \in Int : v = now + 1 - span /\ u <= v BY <1>2, <3>1, <3>2
    <3>4. Since(m, now, span) = Newer(calls[m], u) /\ Since(m, now, span)' = Newer(calls[m], v)
      <4>1. Since(m, now, span)' = Newer(calls'[m], now' - span) BY DEF Since, Newer
      <4>2. now' - span = v BY <1>1, <1>2, <3>1, <3>3
      <4> QED BY <1>1, <3>2, <4>1, <4>2 DEF Since
    <3>5. calls[m] \in Seq(Rows) /\ InOrder(calls[m]) BY GovernorState
    <3>6. PICK d \in 0 .. Len(Newer(calls[m], u)) : Rest(Newer(calls[m], u), Newer(calls[m], v), d)
      BY <3>3, <3>5, WindowAges
    <3>7. Len(Newer(calls[m], v)) = Len(Newer(calls[m], u)) - d BY <3>6 DEF Rest
    <3>8. Len(Newer(calls[m], u)) \in Nat BY <1>2, <3>1, <3>4, SinceIs
    <3>9. Callers(m)' = Callers(m) /\ Cardinality(Callers(m)) \in Nat BY <1>1, CallersCount DEF Callers
    <3> QED BY <3>4, <3>6, <3>7, <3>8, <3>9, SentIs
  <2> QED BY <2>1, <2>2, PacedStays
<1> QED BY <1>3, <1>4, <1>5, <1>6 DEF GovernorInv

LEMMA GovernorStep == GovernorInv /\ [GovernorNext]_governorVars => GovernorInv'
<1> SUFFICES ASSUME GovernorInv, [GovernorNext]_governorVars PROVE GovernorInv' OBVIOUS
<1>1. ASSUME NEW g \in Governors,
             Begins(g) \/ Asks(g) \/ Wakes(g) \/ Answers(g) \/ Refused(g) \/ Folds(g) \/ GivesUp(g)
      PROVE  GovernorInv'
  BY <1>1, BeginsKeeps, AsksKeeps, WakesKeeps, AnswersKeeps, RefusedKeeps, FoldsKeeps, GivesUpKeeps
<1>2. ASSUME NEW m \in Models, Forget(m) PROVE GovernorInv' BY <1>2, LapseKeeps
<1>3. CASE Tick BY <1>3, TickKeeps
<1>4. CASE UNCHANGED governorVars
  <2>1. now' = now /\ calls' = calls /\ learned' = learned /\ gov' = gov BY <1>4 DEF governorVars
  <2>2. GovernorTypeOK' /\ LedgerSound' /\ GovernorsSound'
    BY <2>1 DEF GovernorInv, GovernorTypeOK, LedgerSound, GovernorsSound
  <2>3. \A n, span : Sent(n, span)' = Sent(n, span) BY <2>1 DEF Sent, Since, Newer
  <2>4. \A n, limit : Cap(limit, n, Unknown, now)' = Cap(limit, n, Unknown, now)
    BY <2>1 DEF Cap, Factor, Unknown
  <2>5. PacedTogether' BY <2>1, <2>3, <2>4 DEF GovernorInv, PacedTogether
  <2> QED BY <2>2, <2>5 DEF GovernorInv
<1> QED BY <1>1, <1>2, <1>3, <1>4 DEF GovernorNext

\* Every variable of the governors and of their ledger has its type.
THEOREM GovernorTyped == GovernorSpec => []GovernorTypeOK
<1>1. GovernorSpec => []GovernorInv BY GovernorStarts, GovernorStep, PTL DEF GovernorSpec
<1>2. GovernorInv => GovernorTypeOK BY DEF GovernorInv
<1> QED BY <1>1, <1>2, PTL

\* However many governors share the ledger and however their decisions, calls
\* and records interleave, a model's cap is exceeded by at most one call for
\* each other governor (governed.py's _admit and _settle, record_call).
THEOREM Paced == GovernorSpec => []PacedTogether
<1>1. GovernorSpec => []GovernorInv BY GovernorStarts, GovernorStep, PTL DEF GovernorSpec
<1>2. GovernorInv => PacedTogether BY DEF GovernorInv
<1> QED BY <1>1, <1>2, PTL

\* In every reachable ledger, sleeping until the time decide names is enough.
THEOREM Waits == GovernorSpec => []WaitSuffices
<1>1. GovernorSpec => []GovernorInv BY GovernorStarts, GovernorStep, PTL DEF GovernorSpec
<1> QED BY <1>1, WaitIsEnough, PTL

-----------------------------------------------------------------------------
(* The components side by side. Each invariant holds of the component in   *)
(* focus, and a step is that component's.                                  *)

LearningInv == JournalInv /\ LearnInv /\ JournalSizes

SideInv ==
    /\ focus = "governor" => GovernorInv
    /\ focus = "budget" => BudgetInv
    /\ focus = "build" => BuildInv
    /\ focus = "registry" => RegistryInv
    /\ focus = "memory" => MemoryInv
    /\ focus = "policy" => PolicyInv
    /\ focus = "cadence" => CadenceInv
    /\ focus = "journal" => LearningInv

LEMMA LearningStarts == JournalInit => LearningInv
  BY JournalStarts, LearnStarts, SizesStart DEF LearningInv

LEMMA LearningStep == LearningInv /\ [JournalNext]_journalVars => LearningInv'
  BY JournalStep, LearnStep, SizesStep DEF LearningInv

LEMMA SideStarts == SideInit => SideInv
<1> SUFFICES ASSUME SideInit PROVE SideInv
  OBVIOUS
<1>1. GovernorInv /\ BudgetInv /\ BuildInv
  BY GovernorStarts, BudgetStarts, BuildInitInv DEF SideInit
<1>2. RegistryInv /\ MemoryInv /\ LearningInv
  BY RegistryStarts, MemoryInitInv, LearningStarts DEF SideInit
<1>3. focus = "policy" => PolicyInv
  BY PolicyStarts DEF SideInit
<1>4. focus = "cadence" => CadenceInv
  BY CadenceStarts DEF SideInit
<1> QED
  BY <1>1, <1>2, <1>3, <1>4 DEF SideInv

LEMMA SideStep == SideInv /\ [SideNext]_<<focus, sideVars>> => SideInv'
<1> SUFFICES ASSUME SideInv, [SideNext]_<<focus, sideVars>> PROVE SideInv'
  OBVIOUS
<1>1. focus' = focus
  BY DEF SideNext
<1>2. focus = "governor" => [GovernorNext]_governorVars
  BY DEF SideNext, sideVars
<1>3. focus = "budget" => [BudgetNext]_budgetVars
  BY DEF SideNext, sideVars
<1>4. focus = "build" => [BuildNext]_buildVars
  BY DEF SideNext, sideVars
<1>5. focus = "registry" => [RegistryNext]_registryVars
  BY DEF SideNext, sideVars
<1>6. focus = "memory" => [MemoryNext]_memoryVars
  BY DEF SideNext, sideVars
<1>7. focus = "policy" => [PolicyNext]_policyVars
  BY DEF SideNext, sideVars
<1>8. focus = "cadence" => [CadenceNext]_cadenceVars
  BY DEF SideNext, sideVars
<1>9. focus = "journal" => [JournalNext]_journalVars
  BY DEF SideNext, sideVars
<1>10. /\ focus' = "governor" => GovernorInv'
       /\ focus' = "budget" => BudgetInv'
  BY <1>1, <1>2, <1>3, GovernorStep, BudgetStep DEF SideInv
<1>11. /\ focus' = "build" => BuildInv'
       /\ focus' = "registry" => RegistryInv'
  BY <1>1, <1>4, <1>5, BuildStepInv, RegistryStep DEF SideInv
<1>12. /\ focus' = "memory" => MemoryInv'
       /\ focus' = "policy" => PolicyInv'
  BY <1>1, <1>6, <1>7, MemoryStepInv, PolicyStep DEF SideInv
<1>13. /\ focus' = "cadence" => CadenceInv'
       /\ focus' = "journal" => LearningInv'
  BY <1>1, <1>8, <1>9, CadenceStep, LearningStep DEF SideInv
<1> QED
  BY <1>10, <1>11, <1>12, <1>13 DEF SideInv

\* What the run checks side by side: every component keeps its types.
THEOREM SideTyped == SideSpec => []SideTypeOK
<1>1. SideInv => SideTypeOK
  <2> SUFFICES ASSUME SideInv PROVE SideTypeOK
    OBVIOUS
  <2>1. /\ focus = "governor" => GovernorTypeOK
        /\ focus = "budget" => BudgetTypeOK
        /\ focus = "build" => BuildTypeOK
    BY DEF SideInv, GovernorInv, BudgetInv, BuildInv
  <2>2. /\ focus = "registry" => RegistryTypeOK
        /\ focus = "memory" => MemoryTypeOK
        /\ focus = "policy" => PolicyTypeOK
    BY DEF SideInv, RegistryInv, MemoryInv, PolicyInv
  <2>3. /\ focus = "cadence" => CadenceTypeOK
        /\ focus = "journal" => JournalTypeOK
    BY CadenceFollows, TypeFollows DEF SideInv, LearningInv
  <2> QED
    BY <2>1, <2>2, <2>3 DEF SideTypeOK
<1> QED
  BY <1>1, SideStarts, SideStep, PTL DEF SideSpec
=============================================================================
