----------------------------- MODULE StreamProofs -----------------------------
(***************************************************************************)
(* The event streams keep what they promise, for every number of tabs, of  *)
(* tool calls and of turns and for every size of the ring and the queues:  *)
(* the inductive invariant of Streams, and the theorems that follow.       *)
(***************************************************************************)
EXTENDS Streams, FiniteSetTheorems, WellFoundedInduction, TLAPS

-----------------------------------------------------------------------------
(* Sequences.                                                              *)

\* Every nonempty set of numbers has a least one: the induction of the lemmas below.
LEMMA LeastNumber == ASSUME NEW S \in SUBSET Nat, S # {} PROVE \E x \in S : \A y \in S : x <= y
<1> DEFINE R == OpToRel(<, Nat)
<1>1. IsWellFoundedOn(R, Nat) BY NatLessThanWellFounded
<1>2. \A y, x \in Nat : y < x => <<y, x>> \in R BY DEF OpToRel
<1> HIDE DEF R
<1>3. PICK x \in S : \A y \in S : ~(<<y, x>> \in R) BY <1>1, WFMin
<1>4. ASSUME NEW y \in S PROVE x <= y
  <2>1. x \in Nat /\ y \in Nat OBVIOUS
  <2>2. ~(y < x) BY <1>2, <1>3, <2>1
  <2> QED BY <2>1, <2>2
<1> QED BY <1>4

\* The newest n of a sequence are its end.
EndOf(s, n, r) ==
    /\ r \in Seq(Items) /\ Len(r) \in Nat
    /\ Len(r) = IF Len(s) > n THEN n ELSE Len(s)
    /\ \A j \in 1 .. Len(r) : Len(s) - Len(r) + j \in 1 .. Len(s) /\ r[j] = s[Len(s) - Len(r) + j]

LEMMA NewestIs ==
    ASSUME NEW s \in Seq(Items), NEW n \in Nat
    PROVE  EndOf(s, n, Newest(s, n))
<1> DEFINE d == IF Len(s) > n THEN Len(s) - n ELSE 0
           r == Newest(s, n)
<1>1. Len(s) \in Nat /\ d \in Nat /\ d <= Len(s) /\ 1 + d \in 1 .. Len(s) + 1
      /\ Len(s) - d = IF Len(s) > n THEN n ELSE Len(s)
  OBVIOUS
<1>2. r = SubSeq(s, 1 + d, Len(s)) BY DEF Newest
<1> HIDE DEF d, r
<1>3. Len(r) = Len(s) - d /\ r \in Seq(Items) BY <1>1, <1>2
<1>4. \A j \in 1 .. Len(r) : r[j] = s[d + j] BY <1>1, <1>2
<1>5. EndOf(s, n, r) BY <1>1, <1>3, <1>4 DEF EndOf
<1> QED BY <1>5 DEF r

LEMMA RangeIs ==
    ASSUME NEW S, NEW s \in Seq(S)
    PROVE  /\ DOMAIN s = 1 .. Len(s) /\ Len(s) \in Nat
           /\ Range(s) \subseteq S
           /\ \A x : x \in Range(s) <=> \E j \in 1 .. Len(s) : x = s[j]
BY DEF Range

\* The ring, or a queue, after one more event.
Pushed(s, x, n) == Newest(Append(s, x), n)

PushedOnto(s, x, n, r) ==
    /\ r \in Seq(Items) /\ Len(r) \in Nat /\ Len(r) > 0 /\ Len(r) <= n
    /\ Len(r) = IF Len(s) + 1 > n THEN n ELSE Len(s) + 1
    /\ r[Len(r)] = x
    /\ \A j \in 1 .. Len(r) - 1 :
          Len(s) + 1 - Len(r) + j \in 1 .. Len(s) /\ r[j] = s[Len(s) + 1 - Len(r) + j]
    /\ x \in Range(r) /\ Range(r) \subseteq Range(s) \cup {x}

LEMMA PushedIs ==
    ASSUME NEW s \in Seq(Items), NEW x \in Items, NEW n \in Nat, n > 0
    PROVE  PushedOnto(s, x, n, Pushed(s, x, n))
<1> DEFINE a == Append(s, x)
           r == Pushed(s, x, n)
<1>1. a \in Seq(Items) /\ Len(s) \in Nat /\ Len(a) = Len(s) + 1 /\ a[Len(s) + 1] = x
      /\ \A j \in 1 .. Len(s) : a[j] = s[j] OBVIOUS
<1>2. r = Newest(a, n) BY DEF Pushed
<1> HIDE DEF a, r
<1>3. EndOf(a, n, r) BY <1>1, <1>2, NewestIs
<1>4. r \in Seq(Items) /\ Len(r) \in Nat /\ Len(r) > 0 /\ Len(r) <= n /\ Len(r) <= Len(s) + 1
      /\ Len(r) = IF Len(s) + 1 > n THEN n ELSE Len(s) + 1
  BY <1>1, <1>3 DEF EndOf
<1>5. r[Len(r)] = x
  <2>1. Len(r) \in 1 .. Len(r) /\ Len(a) - Len(r) + Len(r) = Len(s) + 1 BY <1>1, <1>4
  <2> QED BY <1>1, <1>3, <2>1 DEF EndOf
<1>6. ASSUME NEW j \in 1 .. Len(r) - 1
      PROVE  Len(s) + 1 - Len(r) + j \in 1 .. Len(s) /\ r[j] = s[Len(s) + 1 - Len(r) + j]
  <2>1. j \in 1 .. Len(r) /\ Len(a) - Len(r) + j = Len(s) + 1 - Len(r) + j BY <1>1, <1>4
  <2>2. Len(s) + 1 - Len(r) + j \in 1 .. Len(s) BY <1>1, <1>4
  <2>3. r[j] = a[Len(s) + 1 - Len(r) + j] BY <1>3, <2>1 DEF EndOf
  <2>4. a[Len(s) + 1 - Len(r) + j] = s[Len(s) + 1 - Len(r) + j] BY <1>1, <2>2
  <2> QED BY <2>2, <2>3, <2>4
<1>7. x \in Range(r)
  <2>1. Len(r) \in 1 .. Len(r) BY <1>4
  <2> QED BY <1>4, <1>5, <2>1, RangeIs
<1>8. ASSUME NEW y \in Range(r), y # x PROVE y \in Range(s)
  <2>1. PICK j \in 1 .. Len(r) : y = r[j] BY <1>4, RangeIs
  <2>2. j \in 1 .. Len(r) - 1 BY <1>4, <1>5, <1>8, <2>1
  <2>3. Len(s) + 1 - Len(r) + j \in 1 .. Len(s) /\ y = s[Len(s) + 1 - Len(r) + j] BY <1>6, <2>1, <2>2
  <2> QED BY <2>3, RangeIs
<1>9. PushedOnto(s, x, n, r) BY <1>4, <1>5, <1>6, <1>7, <1>8 DEF PushedOnto
<1> QED BY <1>9 DEF r

\* What is kept of a record is an end of it.
LEMMA RangeNewest ==
    ASSUME NEW s \in Seq(Items), NEW n \in Nat, NEW r, EndOf(s, n, r)
    PROVE  Range(r) \subseteq Range(s)
<1>1. ASSUME NEW x \in Range(r) PROVE x \in Range(s)
  <2>1. PICK j \in 1 .. Len(r) : x = r[j] BY RangeIs DEF EndOf
  <2>2. Len(s) - Len(r) + j \in 1 .. Len(s) /\ x = s[Len(s) - Len(r) + j] BY <2>1 DEF EndOf
  <2> QED BY <2>2, RangeIs
<1> QED BY <1>1

\* A stream that yields its next event has the rest left.
LEMMA RangeTail ==
    ASSUME NEW S, NEW s \in Seq(S), s # <<>>
    PROVE  /\ Head(s) \in S /\ Tail(s) \in Seq(S) /\ Len(Tail(s)) = Len(s) - 1
           /\ Len(s) \in Nat \ {0} /\ Head(s) = s[1]
           /\ \A j \in 1 .. Len(s) - 1 : Tail(s)[j] = s[j + 1]
           /\ Range(s) = {Head(s)} \cup Range(Tail(s))
<1>1. /\ Head(s) \in S /\ Tail(s) \in Seq(S) /\ Len(Tail(s)) = Len(s) - 1
      /\ Len(s) \in Nat \ {0} /\ Head(s) = s[1]
      /\ \A j \in 1 .. Len(s) - 1 : Tail(s)[j] = s[j + 1]
  OBVIOUS
<1>2. ASSUME NEW x PROVE x \in Range(s) <=> x = Head(s) \/ x \in Range(Tail(s))
  <2>1. x \in Range(s) <=> \E j \in 1 .. Len(s) : x = s[j] BY RangeIs
  <2>2. x \in Range(Tail(s)) <=> \E j \in 1 .. Len(s) - 1 : x = Tail(s)[j]
    <3> DEFINE r == Tail(s)
    <3>1. r \in Seq(S) /\ Len(r) = Len(s) - 1 BY <1>1
    <3> HIDE DEF r
    <3>2. x \in Range(r) <=> \E j \in 1 .. Len(s) - 1 : x = r[j] BY <3>1, RangeIs
    <3> QED BY <3>2 DEF r
  <2>3. ASSUME NEW j \in 1 .. Len(s), j # 1, x = s[j] PROVE \E i \in 1 .. Len(s) - 1 : x = Tail(s)[i]
    <3>1. j - 1 \in 1 .. Len(s) - 1 /\ Tail(s)[j - 1] = s[j] BY <1>1, <2>3
    <3> QED BY <2>3, <3>1
  <2>4. ASSUME NEW j \in 1 .. Len(s) - 1, x = Tail(s)[j] PROVE \E i \in 1 .. Len(s) : x = s[i]
    BY <1>1, <2>4
  <2> QED BY <1>1, <2>1, <2>2, <2>3, <2>4
<1> QED BY <1>1, <1>2

-----------------------------------------------------------------------------
(* The backlog of a subscriber.                                            *)

Rising(s) == \A i, j \in DOMAIN s : i < j => s[i].n < s[j].n /\ s[i].k < s[j].k

\* The loop of subscribe() has a value at every step.
LEMMA LoopExists ==
    ASSUME NEW s \in Seq(Items), NEW last \in Int
    PROVE  \E f : f = [j \in 0 .. Len(s) |->
                         IF j = 0 THEN <<>>
                         ELSE IF s[j].n > last THEN Append(f[j - 1], s[j]) ELSE f[j - 1]]
<1> DEFINE Step(p, j) == IF s[j].n > last THEN Append(p, s[j]) ELSE p
           Upto(m, f) == f = [j \in 0 .. m |-> IF j = 0 THEN <<>> ELSE Step(f[j - 1], j)]
           bad == {m \in 0 .. Len(s) : ~\E f : Upto(m, f)}
<1>1. Len(s) \in Nat OBVIOUS
<1>2. ASSUME bad # {} PROVE FALSE
  <2>1. bad \in SUBSET Nat BY <1>1
  <2> HIDE DEF bad
  <2>2. PICK m \in bad : \A y \in bad : m <= y BY <1>2, <2>1, LeastNumber
  <2>3. m \in 0 .. Len(s) /\ ~\E f : Upto(m, f) BY <2>2 DEF bad
  <2>4. CASE m = 0
    <3>1. Upto(0, [j \in 0 .. 0 |-> <<>>]) OBVIOUS
    <3> QED BY <2>3, <2>4, <3>1
  <2>5. CASE m # 0
    <3>1. m - 1 \in 0 .. Len(s) /\ m - 1 \notin bad BY <1>1, <2>1, <2>2, <2>3, <2>5
    <3>2. PICK f : Upto(m - 1, f) BY <3>1 DEF bad
    <3> DEFINE g == [j \in 0 .. m |-> IF j = m THEN Step(f[m - 1], m) ELSE f[j]]
    <3>3. \A j \in 0 .. m - 1 : f[j] = IF j = 0 THEN <<>> ELSE Step(f[j - 1], j)
      <4> HIDE DEF Step
      <4> QED BY <3>2
    <3>4. \A j \in 0 .. m : g[j] = IF j = 0 THEN <<>> ELSE Step(g[j - 1], j)
      <4> HIDE DEF Step
      <4>1. ASSUME NEW j \in 0 .. m, j = m PROVE g[j] = IF j = 0 THEN <<>> ELSE Step(g[j - 1], j)
        BY <2>3, <2>5, <4>1
      <4>2. ASSUME NEW j \in 0 .. m, j # m PROVE g[j] = IF j = 0 THEN <<>> ELSE Step(g[j - 1], j)
        <5>1. j \in 0 .. m - 1 /\ g[j] = f[j] BY <2>3, <2>5, <4>2
        <5>2. CASE j = 0 BY <3>3, <5>1, <5>2
        <5>3. CASE j # 0
          <6>1. j - 1 \in 0 .. m - 1 /\ j - 1 # m /\ j - 1 \in 0 .. m BY <2>3, <5>1, <5>3
          <6>2. g[j - 1] = f[j - 1] BY <6>1
          <6> QED BY <3>3, <5>1, <5>3, <6>2
        <5> QED BY <5>2, <5>3
      <4> QED BY <4>1, <4>2
    <3>5. Upto(m, g)
      <4> HIDE DEF Step
      <4>1. g = [j \in 0 .. m |-> g[j]] OBVIOUS
      <4> HIDE DEF g
      <4> QED BY <3>4, <4>1
    <3> HIDE DEF g
    <3> QED BY <2>3, <3>5
  <2> QED BY <2>4, <2>5
<1>3. Len(s) \in 0 .. Len(s) BY <1>1
<1>4. PICK f : Upto(Len(s), f) BY <1>2, <1>3
<1> QED BY <1>4

\* One more event keeps a backlog rising.
LEMMA RisingAppend ==
    ASSUME NEW p \in Seq(Items), NEW x \in Items, Rising(p),
           \A y \in Range(p) : y.n < x.n /\ y.k < x.k
    PROVE  Rising(Append(p, x))
<1> DEFINE q == Append(p, x)
<1>1. q \in Seq(Items) /\ Len(q) = Len(p) + 1 /\ Len(p) \in Nat /\ q[Len(p) + 1] = x
      /\ \A j \in 1 .. Len(p) : q[j] = p[j] OBVIOUS
<1>2. DOMAIN q = 1 .. Len(p) + 1 /\ DOMAIN p = 1 .. Len(p) BY <1>1
<1> HIDE DEF q
<1>3. ASSUME NEW i \in DOMAIN q, NEW j \in DOMAIN q, i < j PROVE q[i].n < q[j].n /\ q[i].k < q[j].k
  <2>1. i \in 1 .. Len(p) /\ q[i] = p[i] /\ p[i] \in Range(p) BY <1>1, <1>2, <1>3, RangeIs
  <2>2. CASE j = Len(p) + 1 BY <1>1, <2>1, <2>2
  <2>3. CASE j # Len(p) + 1
    <3>1. j \in 1 .. Len(p) /\ q[j] = p[j] BY <1>1, <1>2, <2>3
    <3> QED BY <1>2, <1>3, <2>1, <3>1 DEF Rising
  <2> QED BY <2>2, <2>3
<1>4. Rising(q) BY <1>3 DEF Rising
<1> QED BY <1>4 DEF q

\* The backlog holds the events of the ring numbered past last, all of them, in order.
LEMMA AfterIs ==
    ASSUME ring \in Seq(Items), Rising(ring), NEW last \in Int
    PROVE  /\ After(last) \in Seq(Items) /\ Rising(After(last))
           /\ Range(After(last)) = {x \in Range(ring) : x.n > last}
<1>1. \E f : f = [j \in 0 .. Len(ring) |->
                    IF j = 0 THEN <<>>
                    ELSE IF ring[j].n > last THEN Append(f[j - 1], ring[j]) ELSE f[j - 1]]
  BY LoopExists
<1> DEFINE Step(p, j) == IF ring[j].n > last THEN Append(p, ring[j]) ELSE p
           Goes1(f) == f = [j \in 0 .. Len(ring) |->
                    IF j = 0 THEN <<>>
                    ELSE IF ring[j].n > last THEN Append(f[j - 1], ring[j]) ELSE f[j - 1]]
<1>2. After(last) = (CHOOSE f : Goes1(f))[Len(ring)] BY DEF After
<1>3. PICK f : Goes1(f) /\ After(last) = f[Len(ring)] BY <1>1, <1>2
<1>4. Len(ring) \in Nat /\ \A j \in 1 .. Len(ring) : ring[j] \in Items OBVIOUS
<1>5. f[0] = <<>> /\ \A j \in 1 .. Len(ring) : f[j] = Step(f[j - 1], j)
  <2>1. f = [j \in 0 .. Len(ring) |-> IF j = 0 THEN <<>> ELSE Step(f[j - 1], j)] BY <1>3
  <2> HIDE DEF Step, Goes1
  <2>2. \A j \in 0 .. Len(ring) : f[j] = IF j = 0 THEN <<>> ELSE Step(f[j - 1], j) BY <2>1
  <2>3. 0 \in 0 .. Len(ring) /\ \A j \in 1 .. Len(ring) : j \in 0 .. Len(ring) /\ j # 0 BY <1>4
  <2> QED BY <2>2, <2>3
<1> HIDE DEF Step, Goes1
<1> DEFINE Good(j) == /\ f[j] \in Seq(Items) /\ Rising(f[j])
                      /\ \A x : x \in Range(f[j]) <=> \E i \in 1 .. j : x = ring[i] /\ x.n > last
           bad == {j \in 0 .. Len(ring) : ~Good(j)}
<1>6. ASSUME bad # {} PROVE FALSE
  <2>1. bad \in SUBSET Nat BY <1>4
  <2> HIDE DEF bad
  <2>2. PICK m \in bad : \A y \in bad : m <= y BY <1>6, <2>1, LeastNumber
  <2>3. m \in 0 .. Len(ring) /\ ~Good(m) BY <2>2 DEF bad
  <2>4. CASE m = 0
    <3>1. f[0] \in Seq(Items) /\ DOMAIN f[0] = {} BY <1>5
    <3>2. Rising(f[0]) /\ Range(f[0]) = {} BY <3>1 DEF Rising, Range
    <3>3. ~\E i \in 1 .. 0 : TRUE OBVIOUS
    <3> QED BY <2>3, <2>4, <3>1, <3>2, <3>3
  <2>5. CASE m # 0
    <3>1. m - 1 \in 0 .. Len(ring) /\ m - 1 \notin bad /\ m \in 1 .. Len(ring)
      BY <1>4, <2>1, <2>2, <2>3, <2>5
    <3>2. Good(m - 1) BY <3>1 DEF bad
    <3> DEFINE p == f[m - 1]  x == ring[m]
    <3>3. x \in Items /\ p \in Seq(Items) /\ Rising(p) BY <1>4, <3>1, <3>2
    <3>4. \A y : y \in Range(p) <=> \E i \in 1 .. m - 1 : y = ring[i] /\ y.n > last BY <3>2
    <3>5. f[m] = IF x.n > last THEN Append(p, x) ELSE p BY <1>5, <3>1 DEF Step
    <3> HIDE DEF Good, p
    <3>6. \A y \in Range(p) : y.n < x.n /\ y.k < x.k
      <4>1. \A i \in 1 .. m - 1 : i \in DOMAIN ring /\ m \in DOMAIN ring /\ i < m BY <1>4, <3>1
      <4> QED BY <3>4, <4>1 DEF Rising
    <3>7. \A i : i \in 1 .. m <=> i \in 1 .. m - 1 \/ i = m BY <3>1
    <3> HIDE DEF x
    <3>8. CASE x.n > last
      <4>1. f[m] \in Seq(Items) /\ Rising(f[m]) BY <3>3, <3>5, <3>6, <3>8, RisingAppend
      <4>2. \A y : y \in Range(f[m]) <=> y \in Range(p) \/ y = x
        <5> DEFINE q == Append(p, x)
        <5>1. q \in Seq(Items) /\ Len(q) = Len(p) + 1 /\ Len(p) \in Nat /\ q[Len(p) + 1] = x
              /\ \A j \in 1 .. Len(p) : q[j] = p[j] BY <3>3
        <5> HIDE DEF q
        <5>2. \A y : y \in Range(q) <=> \E j \in 1 .. Len(p) + 1 : y = q[j] BY <5>1, RangeIs
        <5>3. \A y : y \in Range(p) <=> \E j \in 1 .. Len(p) : y = p[j] BY <3>3, RangeIs
        <5>4. \A j : j \in 1 .. Len(p) + 1 <=> j \in 1 .. Len(p) \/ j = Len(p) + 1 BY <5>1
        <5>5. f[m] = q BY <3>5, <3>8 DEF q
        <5> QED BY <5>1, <5>2, <5>3, <5>4, <5>5
      <4>3. \A y : y \in Range(f[m]) <=> \E i \in 1 .. m : y = ring[i] /\ y.n > last
        BY <3>4, <3>7, <3>8, <4>2 DEF x
      <4> QED BY <2>3, <4>1, <4>3 DEF Good
    <3>9. CASE ~(x.n > last)
      <4>1. f[m] = p BY <3>5, <3>9
      <4>2. \A y : y \in Range(f[m]) <=> \E i \in 1 .. m : y = ring[i] /\ y.n > last
        BY <3>4, <3>7, <3>9, <4>1 DEF x
      <4> QED BY <2>3, <3>3, <4>1, <4>2 DEF Good
    <3> QED BY <3>8, <3>9
  <2> QED BY <2>4, <2>5
<1>7. Good(Len(ring))
  <2>1. Len(ring) \in 0 .. Len(ring) BY <1>4
  <2> QED BY <1>6, <2>1
<1>8. \A x : x \in Range(ring) <=> \E i \in 1 .. Len(ring) : x = ring[i] BY RangeIs
<1>9. After(last) = f[Len(ring)] BY <1>3
<1> QED BY <1>7, <1>8, <1>9

-----------------------------------------------------------------------------
(* The inductive invariant.                                                *)
(*                                                                         *)
(* Its parts speak of numbers (n, which start again after a crash) and of  *)
(* events (k, which never do).  held is what the ring and the record hold, *)
(* top the number of events published, cur the events a session that is    *)
(* awake, or woken now, has in its ring.                                   *)

Held == Range(ring) \cup Range(saved.events)
Current == IF Awake THEN ring ELSE saved.events

\* In what the session holds, a later number is a later event.
Numbered(held, top) ==
    /\ \A x \in held : x.n <= x.k /\ x.k <= top
    /\ \A x, y \in held : x.n > y.n => x.k > y.k

StoreOK ==
    /\ seq <= Len(log) /\ Rising(ring) /\ Rising(saved.events)
    /\ Numbered(Held, Len(log))
    /\ Awake => \A x \in Held : x.n <= seq
    /\ ~Awake => ring = <<>> /\ seq = 0 /\ queue = <<>> /\ worker = Resting /\ Open = {}

\* Every approval that is open still has to publish how it ended.
RoomLeft == Len(log) + Cardinality(Open) <= MaxLog

Pend(t) == Range(t.backlog) \cup Range(t.queue)
Ordered(s) == \A i, j \in DOMAIN s : i < j => s[i].k < s[j].k

\* What a page has shown comes before what is on its way, that before what is
\* published next; and what it would be sent if it reconnected comes after what
\* it has shown.
TabOK(t, held, top) ==
    /\ t.at = "off" => t.backlog = <<>> /\ t.queue = <<>>
    /\ \A i, j \in DOMAIN t.shown : i < j => t.shown[i] < t.shown[j]
    /\ Ordered(t.backlog) /\ Ordered(t.queue)
    /\ \A x \in Range(t.backlog), y \in Range(t.queue) : x.k < y.k
    /\ \A p \in Pend(t) : p.k <= top /\ \A k \in Range(t.shown) : k < p.k
    /\ \A k \in Range(t.shown) : k <= top
    /\ \A x \in held : x.n > t.last => \A k \in Range(t.shown) : k < x.k
    /\ \A x \in held, p \in Pend(t) : x.n > p.n => x.k > p.k

\* The end of the log.
Tailed(s, top) == \A j \in DOMAIN s : s[j].k = top - Len(s) + j

\* As long as no crash has lost events a number and its event are the same, the
\* ring and the queues are ends of the log, and a page that has been sent an
\* event, or is connected, has been or will be sent what the ring holds up to it.
CleanStore(cur, held, top, num, awake) ==
    /\ awake => num = top
    /\ Tailed(cur, top) /\ (top > 0 => cur # <<>>)
    /\ \A x \in held : x.n = x.k
Reached(t, k) == t.at = "on" \/ k <= t.last \/ \E p \in Pend(t) : k <= p.k
CleanTab(t, cur, top) ==
    /\ t.last <= top
    /\ \A p \in Pend(t) : p.n = p.k /\ t.last < p.k
    /\ \A k \in Range(t.shown) : k <= t.last
    /\ t.at = "on" => Tailed(t.queue, top)
    /\ \A x \in Range(cur) :
          Reached(t, x.k) => x.k \in Range(t.shown) \/ \E p \in Pend(t) : p.k = x.k
Clean ==
    crashes = 0 =>
        /\ CleanStore(Current, Held, Len(log), seq, Awake)
        /\ \A b \in Tabs : CleanTab(tab[b], Current, Len(log))

\* What an approval says is what was decided.
Decided(a) ==
    /\ a.st \in {"none", "pending"} => a.said = "nothing" /\ a.out = "none"
    /\ a.st = "answered" => a.said \in {"allow", "deny"} /\ a.out = a.said
    /\ a.st = "expired" => a.out = "deny"
    /\ a.st = "over" => a.out \in {a.said, "deny", "auto"}

\* A question in the log was asked, and when it is over the log says so after it.
CardsOK ==
    \A c \in Calls, k \in 1 .. Len(log) : log[k] = [kind |-> "ask", call |-> c] =>
        /\ call[c].st # "none"
        /\ call[c].st = "over" =>
             \E m \in 1 .. Len(log) : m > k /\ log[m] = [kind |-> "settled", call |-> c]

\* The calls the grants of a turn have allowed are the uses it has counted, and a
\* turn that waits has made no call.
AutoOf(t) == {c \in Calls : call[c].turn = t /\ call[c].out = "auto"}
TurnsOK ==
    /\ worker.turn <= made /\ \A c \in Calls : call[c].turn <= made
    /\ \A j \in DOMAIN queue :
         /\ worker.turn < queue[j] /\ queue[j] <= made
         /\ \A i \in DOMAIN queue : i < j => queue[i] < queue[j]
         /\ \A c \in Calls : call[c].turn < queue[j]
    /\ worker.grants => worker.turn \in Scheduled
    /\ worker.turn # 0 => Cardinality(AutoOf(worker.turn)) <= worker.uses

Streamed == StoreOK /\ (\A b \in Tabs : TabOK(tab[b], Held, Len(log))) /\ Clean
Asked == (\A c \in Calls : Decided(call[c])) /\ CardsOK
Granted == TurnsOK /\ GrantsBounded
IInv == TypeOK /\ RoomLeft /\ Streamed /\ Asked /\ Granted

-----------------------------------------------------------------------------
(* What a step does to one page.                                           *)

LEMMA TabFields ==
    ASSUME NEW t \in Browsers
    PROVE  /\ t.at \in {"off", "on", "deaf"} /\ t.backlog \in Seq(Items) /\ t.queue \in Seq(Items)
           /\ t.last \in 0 .. MaxLog /\ t.last \in Nat /\ t.shown \in Seq(1 .. MaxLog)
           /\ Range(t.shown) \subseteq 1 .. MaxLog /\ Pend(t) \subseteq Items
           /\ Range(t.backlog) \subseteq Items /\ Range(t.queue) \subseteq Items
           /\ DOMAIN t.shown = 1 .. Len(t.shown) /\ DOMAIN t.backlog = 1 .. Len(t.backlog)
           /\ DOMAIN t.queue = 1 .. Len(t.queue)
<1>1. /\ t.at \in {"off", "on", "deaf"} /\ t.backlog \in Seq(Items) /\ t.queue \in Seq(Items)
      /\ t.last \in 0 .. MaxLog /\ t.shown \in Seq(1 .. MaxLog)
  BY DEF Browsers
<1>2. t.last \in Nat BY <1>1, BoundsAssumption
<1>3. Range(t.shown) \subseteq 1 .. MaxLog /\ DOMAIN t.shown = 1 .. Len(t.shown)
  <2>1. PICK T : T = 1 .. MaxLog OBVIOUS
  <2>2. t.shown \in Seq(T) BY <1>1, <2>1
  <2>3. Range(t.shown) \subseteq T /\ DOMAIN t.shown = 1 .. Len(t.shown) BY <2>2, RangeIs
  <2> QED BY <2>1, <2>3
<1>4. Range(t.backlog) \subseteq Items /\ DOMAIN t.backlog = 1 .. Len(t.backlog) BY <1>1, RangeIs
<1>5. Range(t.queue) \subseteq Items /\ DOMAIN t.queue = 1 .. Len(t.queue) BY <1>1, RangeIs
<1>6. Pend(t) \subseteq Items BY <1>4, <1>5 DEF Pend
<1> QED BY <1>1, <1>2, <1>3, <1>4, <1>5, <1>6

LEMMA ItemFields ==
    ASSUME NEW x \in Items
    PROVE  x.n \in Nat \ {0} /\ x.k \in Nat \ {0} /\ x.n <= MaxLog /\ x.k <= MaxLog
BY BoundsAssumption DEF Items

\* A numbered event, appended to what came before it.
LEMMA OrderedQueue ==
    ASSUME NEW s \in Seq(Items), NEW x \in Items, \A y \in Range(s) : y.k < x.k, Ordered(s),
           NEW n \in Nat, NEW r, PushedOnto(s, x, n, r)
    PROVE  Ordered(r)
<1>1. DOMAIN r = 1 .. Len(r) /\ DOMAIN s = 1 .. Len(s) /\ Len(s) \in Nat /\ Len(r) \in Nat
      /\ r[Len(r)] = x
  BY RangeIs DEF PushedOnto
<1>2. ASSUME NEW i \in DOMAIN r, NEW j \in DOMAIN r, i < j PROVE r[i].k < r[j].k
  <2>1. i \in 1 .. Len(r) - 1 /\ j \in 1 .. Len(r) BY <1>1, <1>2
  <2> DEFINE a == Len(s) + 1 - Len(r) + i
  <2>2. a \in 1 .. Len(s) /\ r[i] = s[a] BY <2>1 DEF PushedOnto
  <2>3. s[a] \in Range(s) BY <2>2, RangeIs
  <2>4. CASE j = Len(r) BY <1>1, <2>2, <2>3, <2>4
  <2>5. CASE j # Len(r)
    <3> DEFINE b == Len(s) + 1 - Len(r) + j
    <3>1. j \in 1 .. Len(r) - 1 BY <1>1, <2>1, <2>5
    <3>2. b \in 1 .. Len(s) /\ r[j] = s[b] BY <3>1 DEF PushedOnto
    <3>3. a < b BY <1>1, <1>2, <2>1
    <3> QED BY <1>1, <2>2, <3>2, <3>3 DEF Ordered
  <2> QED BY <2>4, <2>5
<1> QED BY <1>2 DEF Ordered

Told(t, item) ==
    IF t.at = "on" THEN [t EXCEPT !.queue = Pushed(@, item, QueueMax)] ELSE t

LEMMA ToldIs ==
    ASSUME NEW t \in Browsers, Len(t.queue) <= QueueMax, NEW x \in Items, NEW u, u = Told(t, x)
    PROVE  /\ u \in Browsers /\ Len(u.queue) <= QueueMax
           /\ u.at = t.at /\ u.backlog = t.backlog /\ u.last = t.last /\ u.shown = t.shown
           /\ t.at # "on" => u = t
           /\ t.at = "on" => PushedOnto(t.queue, x, QueueMax, u.queue)
           /\ Pend(u) \subseteq Pend(t) \cup {x}
           /\ Range(u.queue) \subseteq Range(t.queue) \cup {x}
<1>1. CASE t.at # "on" BY <1>1 DEF Told
<1>2. CASE t.at = "on"
  <2> DEFINE q == Pushed(t.queue, x, QueueMax)
  <2>1. QueueMax \in Nat /\ QueueMax > 0 BY BoundsAssumption
  <2>2. PushedOnto(t.queue, x, QueueMax, q) BY <2>1, TabFields, PushedIs
  <2> HIDE DEF q
  <2>3. q \in Seq(Items) /\ Len(q) <= QueueMax /\ Range(q) \subseteq Range(t.queue) \cup {x}
    BY <2>2 DEF PushedOnto
  <2>4. u = [t EXCEPT !.queue = q] BY <1>2 DEF Told, q
  <2>5. /\ u \in Browsers /\ u.queue = q
        /\ u.at = t.at /\ u.backlog = t.backlog /\ u.last = t.last /\ u.shown = t.shown
    BY <2>3, <2>4 DEF Browsers
  <2> QED BY <1>2, <2>2, <2>3, <2>5 DEF Pend
<1> QED BY <1>1, <1>2

\* A page that is told of one more event.
LEMMA TabTold ==
    ASSUME NEW t \in Browsers, Len(t.queue) <= QueueMax, NEW x \in Items,
           NEW top \in Nat, x.k = top + 1,
           NEW held \in SUBSET Items, NEW more \in SUBSET Items, more \subseteq held \cup {x},
           \A y \in held : y.n < x.n, TabOK(t, held, top)
    PROVE  TabOK(Told(t, x), more, top + 1)
<1>0. PICK u : u = Told(t, x) OBVIOUS
<1>1. /\ u.at = t.at /\ u.backlog = t.backlog /\ u.last = t.last /\ u.shown = t.shown
      /\ t.at # "on" => u = t
      /\ t.at = "on" => PushedOnto(t.queue, x, QueueMax, u.queue)
      /\ Pend(u) \subseteq Pend(t) \cup {x}
      /\ Range(u.queue) \subseteq Range(t.queue) \cup {x}
  BY <1>0, ToldIs
<1>2. /\ t.backlog \in Seq(Items) /\ t.queue \in Seq(Items) /\ t.last \in Nat
      /\ Range(t.shown) \subseteq 1 .. MaxLog /\ Pend(t) \subseteq Items
      /\ Range(t.backlog) \subseteq Pend(t) /\ Range(t.queue) \subseteq Pend(t)
  BY TabFields DEF Pend
<1>3. \A y \in Items : y.n \in Nat /\ y.k \in Nat BY ItemFields
<1>4. \A k \in Range(t.shown) : k \in Nat /\ k <= top BY <1>2 DEF TabOK
<1>5. \A p \in Pend(t) : p.k \in Nat /\ p.k <= top /\ \A k \in Range(t.shown) : k < p.k
  BY <1>2, <1>3 DEF TabOK
<1>6. Ordered(u.queue)
  <2>1. Ordered(t.queue) BY DEF TabOK
  <2>2. \A y \in Range(t.queue) : y.k < x.k BY <1>2, <1>5
  <2>3. QueueMax \in Nat BY BoundsAssumption
  <2> QED BY <1>1, <1>2, <2>1, <2>2, <2>3, OrderedQueue
<1>7. (u.at = "off" => u.backlog = <<>> /\ u.queue = <<>>) /\ Ordered(u.backlog)
      /\ \A i, j \in DOMAIN u.shown : i < j => u.shown[i] < u.shown[j]
  BY <1>1 DEF TabOK
<1>8. \A y \in Range(u.backlog), z \in Range(u.queue) : y.k < z.k
  <2>1. \A y \in Range(t.backlog), z \in Range(t.queue) : y.k < z.k BY DEF TabOK
  <2>2. \A y \in Range(t.backlog) : y.k < x.k BY <1>2, <1>5
  <2> QED BY <1>1, <2>1, <2>2
<1>9. \A p \in Pend(u) : p.k <= top + 1 /\ \A k \in Range(u.shown) : k < p.k BY <1>1, <1>4, <1>5
<1>10. \A k \in Range(u.shown) : k <= top + 1 BY <1>1, <1>4
<1>11. \A y \in more : y.n > u.last => \A k \in Range(u.shown) : k < y.k
  <2>1. \A y \in held : y.n > t.last => \A k \in Range(t.shown) : k < y.k BY DEF TabOK
  <2>2. \A k \in Range(t.shown) : k < x.k BY <1>4
  <2> QED BY <1>1, <2>1, <2>2
<1>12. \A y \in more, p \in Pend(u) : y.n > p.n => y.k > p.k
  <2>1. \A y \in held, p \in Pend(t) : y.n > p.n => y.k > p.k BY DEF TabOK
  <2>2. \A p \in Pend(t) : x.k > p.k BY <1>5
  <2>3. \A y \in held \cup {x} : ~(y.n > x.n) BY <1>3
  <2> QED BY <1>1, <2>1, <2>2, <2>3
<1>13. TabOK(u, more, top + 1)
  BY <1>6, <1>7, <1>8, <1>9, <1>10, <1>11, <1>12 DEF TabOK
<1> QED BY <1>0, <1>13

\* What is held may shrink.
LEMMA TabHeld ==
    ASSUME NEW t \in Browsers, NEW held, NEW less \in SUBSET held, NEW top, TabOK(t, held, top)
    PROVE  TabOK(t, less, top)
BY DEF TabOK

\* A page that leaves, or whose session was closed under it.
LEMMA TabLeaves ==
    ASSUME NEW t \in Browsers, NEW held, NEW top, TabOK(t, held, top)
    PROVE  Leaves(t) \in Browsers /\ Len(Leaves(t).queue) = 0 /\ TabOK(Leaves(t), held, top)
           /\ Leaves(t).at = "off" /\ Pend(Leaves(t)) = {}
           /\ Leaves(t).last = t.last /\ Leaves(t).shown = t.shown
<1> DEFINE u == Leaves(t)
<1>1. u = [t EXCEPT !.at = "off", !.backlog = <<>>, !.queue = <<>>] BY DEF Leaves
<1>2. <<>> \in Seq(Items) /\ Len(<<>>) = 0 /\ DOMAIN <<>> = {} OBVIOUS
<1>3. u \in Browsers /\ u.at = "off" /\ u.backlog = <<>> /\ u.queue = <<>>
      /\ u.last = t.last /\ u.shown = t.shown
  BY <1>1, <1>2 DEF Browsers
<1> HIDE DEF u
<1>4. Range(<<>>) = {} BY DEF Range
<1>5. Pend(u) = {} BY <1>3, <1>4 DEF Pend
<1>6. Ordered(<<>>) BY DEF Ordered
<1>7. TabOK(u, held, top) BY <1>2, <1>3, <1>4, <1>5, <1>6 DEF TabOK
<1> QED BY <1>2, <1>3, <1>5, <1>7 DEF u

Deaf(t) == IF t.at = "on" THEN [t EXCEPT !.at = "deaf"] ELSE t

LEMMA TabDeaf ==
    ASSUME NEW t \in Browsers, NEW held, NEW top, TabOK(t, held, top)
    PROVE  Deaf(t) \in Browsers /\ TabOK(Deaf(t), held, top)
           /\ Deaf(t).at # "on" /\ Deaf(t).queue = t.queue /\ Pend(Deaf(t)) = Pend(t)
           /\ Deaf(t).last = t.last /\ Deaf(t).shown = t.shown
<1> DEFINE u == Deaf(t)
<1>1. u \in Browsers /\ u.at # "on" /\ u.backlog = t.backlog /\ u.queue = t.queue
      /\ u.last = t.last /\ u.shown = t.shown /\ (u.at = "off" => t.at = "off")
  BY DEF Browsers, Deaf
<1> HIDE DEF u
<1>2. Pend(u) = Pend(t) BY <1>1 DEF Pend
<1>3. TabOK(u, held, top) BY <1>1, <1>2 DEF TabOK
<1> QED BY <1>1, <1>2, <1>3 DEF u

\* The end of the log stays an end of the log.
LEMMA TailedPushed ==
    ASSUME NEW s \in Seq(Items), NEW x \in Items, NEW top \in Nat, x.k = top + 1, Tailed(s, top),
           NEW n \in Nat, NEW r, PushedOnto(s, x, n, r)
    PROVE  Tailed(r, top + 1)
<1>1. DOMAIN r = 1 .. Len(r) /\ DOMAIN s = 1 .. Len(s) /\ Len(s) \in Nat /\ Len(r) \in Nat
      /\ r[Len(r)] = x
  BY RangeIs DEF PushedOnto
<1>2. ASSUME NEW j \in DOMAIN r PROVE r[j].k = top + 1 - Len(r) + j
  <2>1. CASE j = Len(r) BY <1>1, <2>1
  <2>2. CASE j # Len(r)
    <3> DEFINE a == Len(s) + 1 - Len(r) + j
    <3>1. j \in 1 .. Len(r) - 1 BY <1>1, <2>2
    <3>2. a \in 1 .. Len(s) /\ r[j] = s[a] BY <3>1 DEF PushedOnto
    <3>3. s[a].k = top - Len(s) + a BY <1>1, <3>2 DEF Tailed
    <3> QED BY <1>1, <3>1, <3>2, <3>3
  <2> QED BY <2>1, <2>2
<1> QED BY <1>2 DEF Tailed

\* An end of the log holds every event from its first to the last of the log.
LEMMA EndHolds ==
    ASSUME NEW s \in Seq(Items), NEW top \in Nat, Tailed(s, top),
           NEW k \in Nat, top - Len(s) < k, k <= top
    PROVE  \E p \in Range(s) : p.k = k
<1> DEFINE i == k - top + Len(s)
<1>1. Len(s) \in Nat /\ DOMAIN s = 1 .. Len(s) BY RangeIs
<1>2. i \in 1 .. Len(s) /\ k = top - Len(s) + i BY <1>1
<1> HIDE DEF i
<1>3. s[i].k = k BY <1>1, <1>2 DEF Tailed
<1>4. s[i] \in Range(s) BY <1>2, RangeIs
<1> QED BY <1>3, <1>4

\* While numbers are events, a page that is told of one more event misses nothing
\* of the ring: what its queue drops the ring has dropped, RingMax being the smaller.
LEMMA CleanTold ==
    ASSUME NEW t \in Browsers, Len(t.queue) <= QueueMax, NEW x \in Items,
           NEW top \in Nat, x.k = top + 1, x.n = top + 1,
           NEW cur \in Seq(Items), Tailed(cur, top), CleanTab(t, cur, top),
           \A p \in Pend(t) : p.k <= top,
           NEW more, PushedOnto(cur, x, RingMax, more)
    PROVE  CleanTab(Told(t, x), more, top + 1)
<1> DEFINE u == Told(t, x)
<1>1. /\ u \in Browsers /\ Len(u.queue) <= QueueMax
      /\ u.at = t.at /\ u.backlog = t.backlog /\ u.last = t.last /\ u.shown = t.shown
      /\ t.at # "on" => u = t
      /\ t.at = "on" => PushedOnto(t.queue, x, QueueMax, u.queue)
      /\ Pend(u) \subseteq Pend(t) \cup {x}
  BY ToldIs
<1> HIDE DEF u
<1>2. /\ t.queue \in Seq(Items) /\ t.last \in Nat /\ Len(t.queue) \in Nat
      /\ Range(t.shown) \subseteq 1 .. MaxLog /\ Pend(t) \subseteq Items
      /\ Range(t.backlog) \subseteq Pend(u) /\ Range(u.queue) \subseteq Pend(u)
      /\ Pend(t) = Range(t.backlog) \cup Range(t.queue)
  BY <1>1, TabFields DEF Pend
<1>3. QueueMax \in Nat /\ RingMax \in Nat /\ RingMax <= QueueMax BY BoundsAssumption, RingAssumption
<1>4. \A y \in Items : y.n \in Nat /\ y.k \in Nat BY ItemFields
<1>5. u.last <= top + 1 /\ \A k \in Range(u.shown) : k <= u.last
  <2>1. t.last <= top /\ \A k \in Range(t.shown) : k <= t.last BY DEF CleanTab
  <2> QED BY <1>1, <1>2, <2>1
<1>6. \A p \in Pend(u) : p.n = p.k /\ u.last < p.k
  <2>1. t.last <= top /\ \A p \in Pend(t) : p.n = p.k /\ t.last < p.k BY DEF CleanTab
  <2>2. x.n = x.k /\ t.last < x.k BY <1>2, <2>1
  <2> QED BY <1>1, <2>1, <2>2
<1>7. u.at = "on" => Tailed(u.queue, top + 1)
  <2>1. t.at = "on" => Tailed(t.queue, top) BY DEF CleanTab
  <2> QED BY <1>1, <1>2, <1>3, <2>1, TailedPushed
<1>8. Tailed(more, top + 1) /\ more \in Seq(Items) /\ Len(more) <= RingMax
      /\ Range(more) \subseteq Range(cur) \cup {x}
  BY <1>3, TailedPushed DEF PushedOnto
<1>9. ASSUME NEW y \in Range(more), Reached(u, y.k)
      PROVE  y.k \in Range(u.shown) \/ \E p \in Pend(u) : p.k = y.k
  <2>1. y \in Items /\ y.k \in Nat BY <1>4, <1>8, RangeIs
  <2>2. PICK j \in 1 .. Len(more) : y = more[j] BY <1>8, RangeIs
  <2>3. Len(more) \in Nat /\ y.k = top + 1 - Len(more) + j /\ y.k <= top + 1
    <3>1. Len(more) \in Nat /\ j \in DOMAIN more BY <1>8, <2>2, RangeIs
    <3>2. y.k = top + 1 - Len(more) + j BY <2>2, <3>1, <1>8 DEF Tailed
    <3> QED BY <3>1, <3>2
  <2>4. CASE t.at # "on"
    <3>1. u = t BY <1>1, <2>4
    <3>2. y.k <= top
      <4>1. y.k <= t.last \/ \E p \in Pend(t) : y.k <= p.k BY <1>9, <2>4, <3>1 DEF Reached
      <4>2. t.last <= top BY DEF CleanTab
      <4> QED BY <1>2, <1>4, <2>1, <4>1, <4>2
    <3>3. y \in Range(cur) BY <1>8, <3>2
    <3> QED BY <1>9, <3>1, <3>3 DEF CleanTab
  <2>5. CASE t.at = "on"
    <3>1. PushedOnto(t.queue, x, QueueMax, u.queue) /\ Tailed(u.queue, top + 1) BY <1>1, <1>7, <2>5
    <3>2. u.queue \in Seq(Items) /\ Len(u.queue) \in Nat /\ x \in Range(u.queue)
          /\ Len(u.queue) = (IF Len(t.queue) + 1 > QueueMax THEN QueueMax ELSE Len(t.queue) + 1)
      BY <3>1 DEF PushedOnto
    <3>3. CASE y = x BY <1>2, <3>2, <3>3
    <3>4. CASE y # x
      <4>1. y \in Range(cur) BY <1>8, <3>4
      <4>2. Reached(t, y.k) BY <2>5 DEF Reached
      <4>3. y.k \in Range(t.shown) \/ \E p \in Pend(t) : p.k = y.k BY <4>1, <4>2 DEF CleanTab
      <4>4. CASE y.k \in Range(t.shown) BY <1>1, <4>4
      <4>5. CASE \E p \in Range(t.backlog) : p.k = y.k BY <1>2, <4>5
      <4>6. CASE \E p \in Range(t.queue) : p.k = y.k
        <5>1. PICK a \in 1 .. Len(t.queue) : t.queue[a].k = y.k BY <1>2, <4>6, RangeIs
        <5>2. y.k = top - Len(t.queue) + a
          <6>1. Tailed(t.queue, top) /\ a \in DOMAIN t.queue BY <1>2, <2>5, <5>1, RangeIs DEF CleanTab
          <6> QED BY <5>1, <6>1 DEF Tailed
        <5>3. top + 1 - Len(u.queue) < y.k
          <6>1. CASE Len(t.queue) + 1 > QueueMax
            <7>1. Len(u.queue) = QueueMax BY <3>2, <6>1
            <7>2. Len(more) <= QueueMax BY <1>3, <1>8, <2>3
            <7> DEFINE m == Len(more)  q == Len(u.queue)  k == y.k
            <7>3. m \in Nat /\ q = QueueMax /\ j \in 1 .. m /\ k = top + 1 - m + j /\ m <= QueueMax
              BY <2>2, <2>3, <7>1, <7>2
            <7> HIDE DEF m, q, k
            <7>4. top + 1 - q < k BY <1>3, <7>3
            <7> QED BY <7>4 DEF q, k
          <6>2. CASE ~(Len(t.queue) + 1 > QueueMax)
            <7> DEFINE m == Len(t.queue)  q == Len(u.queue)  k == y.k
            <7>1. m \in Nat /\ q = m + 1 /\ a \in 1 .. m /\ k = top - m + a BY <1>2, <3>2, <5>2, <6>2
            <7> HIDE DEF m, q, k
            <7>2. top + 1 - q < k BY <7>1
            <7> QED BY <7>2 DEF q, k
          <6> QED BY <6>1, <6>2
        <5>4. \E p \in Range(u.queue) : p.k = y.k
          <6> DEFINE q == u.queue  k == y.k  top1 == top + 1
          <6>1. q \in Seq(Items) /\ k \in Nat /\ top1 \in Nat /\ Tailed(q, top1)
                /\ top1 - Len(q) < k /\ k <= top1
            BY <2>1, <2>3, <3>1, <3>2, <5>3
          <6> HIDE DEF q, k, top1
          <6>2. \E p \in Range(q) : p.k = k BY <6>1, EndHolds
          <6> QED BY <6>2 DEF q, k
        <5> QED BY <1>2, <5>4
      <4> QED BY <1>2, <4>3, <4>4, <4>5, <4>6
    <3> QED BY <3>3, <3>4
  <2> QED BY <2>4, <2>5
<1>10. CleanTab(u, more, top + 1) BY <1>5, <1>6, <1>7, <1>9 DEF CleanTab
<1> QED BY <1>10 DEF u

\* What rises is in the order of the events.
LEMMA RisingOrdered == ASSUME NEW s, Rising(s) PROVE Ordered(s)
BY DEF Rising, Ordered

LEMMA NoEvents == <<>> \in Seq(Items) /\ Range(<<>>) = {} /\ Ordered(<<>>) /\ DOMAIN <<>> = {} /\ Len(<<>>) = 0
<1>1. <<>> \in Seq(Items) /\ DOMAIN <<>> = {} /\ Len(<<>>) = 0 OBVIOUS
<1> QED BY <1>1 DEF Range, Ordered

\* A page that connects: it is sent what the ring holds past what it has shown.
LEMMA TabJoined ==
    ASSUME NEW t \in Browsers, t.at = "off", NEW held \in SUBSET Items, NEW top \in Nat,
           ring \in Seq(Items), Rising(ring), Range(ring) \subseteq held, Numbered(held, top),
           TabOK(t, held, top),
           NEW u, u = [t EXCEPT !.at = "on", !.backlog = After(t.last), !.queue = <<>>]
    PROVE  /\ u \in Browsers /\ Len(u.queue) <= QueueMax /\ TabOK(u, held, top)
           /\ (\A x \in held : x.n = x.k) /\ CleanTab(t, ring, top) => CleanTab(u, ring, top)
<1> DEFINE backlog == After(t.last)
<1>1. t.last \in Nat /\ t.backlog = <<>> /\ t.queue = <<>> /\ Range(t.shown) \subseteq 1 .. MaxLog
      /\ t.shown \in Seq(1 .. MaxLog)
  BY TabFields DEF TabOK
<1>2. backlog \in Seq(Items) /\ Rising(backlog) /\ Range(backlog) = {x \in Range(ring) : x.n > t.last}
  BY <1>1, AfterIs
<1>3. u = [t EXCEPT !.at = "on", !.backlog = backlog, !.queue = <<>>] OBVIOUS
<1> HIDE DEF backlog
<1>4. /\ u \in Browsers /\ u.at = "on" /\ u.backlog = backlog /\ u.queue = <<>>
      /\ u.last = t.last /\ u.shown = t.shown
  BY <1>2, <1>3, NoEvents DEF Browsers
<1>5. Len(u.queue) <= QueueMax BY <1>4, NoEvents, BoundsAssumption
<1>6. Pend(u) = Range(backlog) /\ Pend(t) = {} BY <1>1, <1>4, NoEvents DEF Pend
<1>7. \A x \in Items : x.n \in Nat \ {0} /\ x.k \in Nat \ {0} BY ItemFields
<1>8. \A k \in Range(t.shown) : k \in Nat /\ k <= top BY <1>1 DEF TabOK
<1>9. TabOK(u, held, top)
  <2>1. \A i, j \in DOMAIN u.shown : i < j => u.shown[i] < u.shown[j] BY <1>4 DEF TabOK
  <2>2. Ordered(u.backlog) /\ Ordered(u.queue) BY <1>2, <1>4, NoEvents, RisingOrdered
  <2>3. \A p \in Pend(u) : p.k <= top /\ \A k \in Range(u.shown) : k < p.k
    BY <1>2, <1>4, <1>6 DEF TabOK, Numbered
  <2>4. \A x \in held : x.n > u.last => \A k \in Range(u.shown) : k < x.k BY <1>4 DEF TabOK
  <2>5. \A x \in held, p \in Pend(u) : x.n > p.n => x.k > p.k BY <1>2, <1>6 DEF Numbered
  <2>6. Range(u.queue) = {} BY <1>4, NoEvents
  <2>7. \A k \in Range(u.shown) : k <= top BY <1>4, <1>8
  <2> QED BY <1>4, <2>1, <2>2, <2>3, <2>4, <2>5, <2>6, <2>7 DEF TabOK
<1>10. ASSUME \A x \in held : x.n = x.k, CleanTab(t, ring, top) PROVE CleanTab(u, ring, top)
  <2>1. u.last <= top /\ \A k \in Range(u.shown) : k <= u.last BY <1>4, <1>10 DEF CleanTab
  <2>2. \A p \in Pend(u) : p.n = p.k /\ u.last < p.k
    <3>1. ASSUME NEW p \in Pend(u) PROVE p.n = p.k /\ u.last < p.k
      <4>1. p \in Range(ring) /\ p.n > t.last /\ p \in held /\ p \in Items BY <1>2, <1>6
      <4>2. p.n = p.k /\ p.k \in Nat BY <1>7, <1>10, <4>1
      <4> QED BY <1>1, <1>4, <4>1, <4>2
    <3> QED BY <3>1
  <2>3. Tailed(u.queue, top) BY <1>4, NoEvents DEF Tailed
  <2>4. ASSUME NEW x \in Range(ring) PROVE x.k \in Range(u.shown) \/ \E p \in Pend(u) : p.k = x.k
    <3>1. x \in held /\ x.n = x.k /\ x.k \in Nat BY <1>7, <1>10
    <3>2. CASE x.n > t.last BY <1>2, <1>6, <3>2
    <3>3. CASE ~(x.n > t.last)
      <4>1. x.k <= t.last BY <1>1, <3>1, <3>3
      <4>2. Reached(t, x.k) BY <4>1 DEF Reached
      <4> QED BY <1>4, <1>6, <1>10, <4>2 DEF CleanTab
    <3> QED BY <3>2, <3>3
  <2> QED BY <2>1, <2>2, <2>3, <2>4 DEF CleanTab
<1> QED BY <1>4, <1>5, <1>9, <1>10

\* A page that is loaded has shown nothing.
LEMMA TabNew ==
    ASSUME NEW held, NEW top \in Nat, NEW cur \in Seq(Items)
    PROVE  /\ NewTab \in Browsers /\ NewTab.at = "off" /\ NewTab.last = 0
           /\ Pend(NewTab) = {} /\ Len(NewTab.queue) <= QueueMax
           /\ TabOK(NewTab, held, top) /\ CleanTab(NewTab, cur, top)
<1>1. NewTab.at = "off" /\ NewTab.backlog = <<>> /\ NewTab.queue = <<>> /\ NewTab.last = 0
      /\ NewTab.shown = <<>>
  BY DEF NewTab
<1>2. NewTab \in Browsers
  <2>1. 0 \in 0 .. MaxLog /\ <<>> \in Seq(1 .. MaxLog) /\ <<>> \in Seq(Items) BY BoundsAssumption
  <2> QED BY <2>1 DEF NewTab, Browsers
<1>3. Pend(NewTab) = {} BY <1>1, NoEvents DEF Pend
<1>4. TabOK(NewTab, held, top) BY <1>1, <1>3, NoEvents DEF TabOK
<1>5. \A x \in Range(cur) : ~Reached(NewTab, x.k)
  <2>1. \A x \in Range(cur) : x.k \in Nat \ {0} BY ItemFields, RangeIs
  <2> QED BY <1>1, <1>3, <2>1 DEF Reached
<1>6. CleanTab(NewTab, cur, top) BY <1>1, <1>3, <1>5, NoEvents DEF CleanTab
<1> QED BY <1>1, <1>2, <1>3, <1>4, <1>6, NoEvents, BoundsAssumption

LEMMA OrderedTail ==
    ASSUME NEW s \in Seq(Items), s # <<>>, Ordered(s), NEW r, r = Tail(s)
    PROVE  /\ Head(s) \in Items /\ r \in Seq(Items) /\ Len(r) <= Len(s)
           /\ Range(s) = {Head(s)} \cup Range(r)
           /\ Ordered(r) /\ \A p \in Range(r) : Head(s).k < p.k
           /\ \A top \in Nat : Tailed(s, top) => Tailed(r, top)
<1>1. /\ Head(s) \in Items /\ r \in Seq(Items) /\ Len(r) = Len(s) - 1
      /\ Len(s) \in Nat \ {0} /\ Head(s) = s[1]
      /\ \A j \in 1 .. Len(s) - 1 : r[j] = s[j + 1]
      /\ Range(s) = {Head(s)} \cup Range(r)
  BY RangeTail
<1>2. DOMAIN s = 1 .. Len(s) /\ DOMAIN r = 1 .. Len(s) - 1 BY <1>1
<1>3. \A j \in DOMAIN r : j + 1 \in DOMAIN s /\ r[j] = s[j + 1] /\ j \in Int BY <1>1, <1>2
<1>4. Ordered(r)
  <2>1. ASSUME NEW i \in DOMAIN r, NEW j \in DOMAIN r, i < j PROVE r[i].k < r[j].k
    <3>1. i + 1 < j + 1 BY <1>3, <2>1
    <3> QED BY <1>3, <3>1 DEF Ordered
  <2> QED BY <2>1 DEF Ordered
<1>5. ASSUME NEW p \in Range(r) PROVE Head(s).k < p.k
  <2>1. PICK j \in DOMAIN r : p = r[j] BY DEF Range
  <2>2. 1 \in DOMAIN s /\ 1 < j + 1 BY <1>1, <1>2, <2>1
  <2> QED BY <1>1, <1>3, <2>1, <2>2 DEF Ordered
<1>6. ASSUME NEW top \in Nat, Tailed(s, top), NEW j \in DOMAIN r PROVE r[j].k = top - Len(r) + j
  <2>1. s[j + 1].k = top - Len(s) + (j + 1) BY <1>3, <1>6 DEF Tailed
  <2> QED BY <1>1, <1>3, <2>1
<1> QED BY <1>1, <1>4, <1>5, <1>6 DEF Tailed

Sent(t) == IF t.backlog # <<>> THEN t.backlog ELSE t.queue
Rest(t) == IF t.backlog # <<>> THEN [t EXCEPT !.backlog = Tail(@)] ELSE [t EXCEPT !.queue = Tail(@)]

\* What is sent is the first of what is on its way.
LEMMA SentFirst ==
    ASSUME NEW t \in Browsers, NEW held, NEW top \in Nat, TabOK(t, held, top), Sent(t) # <<>>,
           NEW x, x = Head(Sent(t)), NEW u, u = Rest(t)
    PROVE  /\ x \in Items /\ u \in Browsers /\ Len(u.queue) <= Len(t.queue)
           /\ u.at = t.at /\ u.last = t.last /\ u.shown = t.shown
           /\ Pend(t) = {x} \cup Pend(u) /\ \A p \in Pend(u) : x.k < p.k
           /\ Ordered(u.backlog) /\ Ordered(u.queue)
           /\ \A y \in Range(u.backlog), z \in Range(u.queue) : y.k < z.k
           /\ Tailed(t.queue, top) => Tailed(u.queue, top)
           /\ t.backlog = <<>> /\ t.queue = <<>> => FALSE
<1>1. t.backlog \in Seq(Items) /\ t.queue \in Seq(Items) /\ Len(t.queue) \in Nat BY TabFields
<1>2. Ordered(t.backlog) /\ Ordered(t.queue)
      /\ \A y \in Range(t.backlog), z \in Range(t.queue) : y.k < z.k
  BY DEF TabOK
<1>3. CASE t.backlog # <<>>
  <2> DEFINE r == Tail(t.backlog)
  <2>1. /\ Head(t.backlog) \in Items /\ r \in Seq(Items)
        /\ Range(t.backlog) = {Head(t.backlog)} \cup Range(r)
        /\ Ordered(r) /\ \A p \in Range(r) : Head(t.backlog).k < p.k
    BY <1>1, <1>2, <1>3, OrderedTail
  <2>2. x = Head(t.backlog) /\ u = [t EXCEPT !.backlog = r] BY <1>3 DEF Sent, Rest
  <2> HIDE DEF r
  <2>3. /\ u \in Browsers /\ u.backlog = r /\ u.queue = t.queue
        /\ u.at = t.at /\ u.last = t.last /\ u.shown = t.shown
    BY <2>1, <2>2 DEF Browsers
  <2>4. Pend(t) = {x} \cup Pend(u) BY <2>1, <2>2, <2>3 DEF Pend
  <2>5. \A p \in Pend(u) : x.k < p.k BY <1>2, <2>1, <2>2, <2>3 DEF Pend
  <2>6. \A y \in Range(u.backlog), z \in Range(u.queue) : y.k < z.k BY <1>2, <2>1, <2>3
  <2>7. x \in Items /\ Len(u.queue) <= Len(t.queue) BY <1>1, <2>1, <2>2, <2>3
  <2>8. Ordered(u.backlog) /\ Ordered(u.queue) /\ (Tailed(t.queue, top) => Tailed(u.queue, top))
    BY <1>2, <2>1, <2>3
  <2> QED BY <1>3, <2>3, <2>4, <2>5, <2>6, <2>7, <2>8
<1>4. CASE t.backlog = <<>>
  <2> DEFINE r == Tail(t.queue)
  <2>1. t.queue # <<>> BY <1>4 DEF Sent
  <2>2. /\ Head(t.queue) \in Items /\ r \in Seq(Items) /\ Len(r) <= Len(t.queue)
        /\ Range(t.queue) = {Head(t.queue)} \cup Range(r)
        /\ Ordered(r) /\ \A p \in Range(r) : Head(t.queue).k < p.k
        /\ Tailed(t.queue, top) => Tailed(r, top)
    BY <1>1, <1>2, <2>1, OrderedTail
  <2>3. x = Head(t.queue) /\ u = [t EXCEPT !.queue = r] BY <1>4 DEF Sent, Rest
  <2> HIDE DEF r
  <2>4. /\ u \in Browsers /\ u.backlog = t.backlog /\ u.queue = r
        /\ u.at = t.at /\ u.last = t.last /\ u.shown = t.shown
    BY <2>2, <2>3 DEF Browsers
  <2>5. Range(t.backlog) = {} BY <1>4, NoEvents
  <2>6. Pend(t) = {x} \cup Pend(u) BY <2>2, <2>3, <2>4 DEF Pend
  <2>7. \A p \in Pend(u) : x.k < p.k BY <2>2, <2>3, <2>4, <2>5 DEF Pend
  <2> QED BY <1>2, <2>1, <2>2, <2>3, <2>4, <2>5, <2>6, <2>7
<1> QED BY <1>3, <1>4

Shows(t) ==
    LET x == Head(Sent(t)) IN [Rest(t) EXCEPT !.last = x.n, !.shown = Append(@, x.k)]

\* A page that shows what it is sent.
LEMMA TabDelivered ==
    ASSUME NEW t \in Browsers, Len(t.queue) <= QueueMax, t.at # "off", Sent(t) # <<>>,
           NEW held \in SUBSET Items, NEW top \in Nat, TabOK(t, held, top), NEW cur
    PROVE  /\ Shows(t) \in Browsers /\ Len(Shows(t).queue) <= QueueMax /\ TabOK(Shows(t), held, top)
           /\ CleanTab(t, cur, top) => CleanTab(Shows(t), cur, top)
<1> DEFINE w == Rest(t)  x == Head(Sent(t))  u == Shows(t)
<1>1. /\ x \in Items /\ w \in Browsers /\ Len(w.queue) <= Len(t.queue)
      /\ w.at = t.at /\ w.last = t.last /\ w.shown = t.shown
      /\ Pend(t) = {x} \cup Pend(w) /\ \A p \in Pend(w) : x.k < p.k
      /\ Ordered(w.backlog) /\ Ordered(w.queue)
      /\ \A y \in Range(w.backlog), z \in Range(w.queue) : y.k < z.k
      /\ Tailed(t.queue, top) => Tailed(w.queue, top)
  BY SentFirst
<1>2. u = [w EXCEPT !.last = x.n, !.shown = Append(t.shown, x.k)] BY <1>1 DEF Shows
<1> HIDE DEF w, x, u
<1>3. x.n \in Nat /\ x.k \in Nat /\ x.n \in 0 .. MaxLog /\ x.k \in 1 .. MaxLog
  BY <1>1, ItemFields, BoundsAssumption
<1> DEFINE shown == Append(t.shown, x.k)
<1>4. t.shown \in Seq(1 .. MaxLog) /\ Range(t.shown) \subseteq 1 .. MaxLog /\ t.last \in Nat BY TabFields
<1>5. /\ shown \in Seq(1 .. MaxLog) /\ Len(t.shown) \in Nat /\ Len(shown) = Len(t.shown) + 1
      /\ DOMAIN shown = 1 .. Len(t.shown) + 1 /\ DOMAIN t.shown = 1 .. Len(t.shown)
      /\ shown[Len(t.shown) + 1] = x.k
      /\ \A i \in 1 .. Len(t.shown) : shown[i] = t.shown[i]
  BY <1>3, <1>4
<1>6. u = [w EXCEPT !.last = x.n, !.shown = shown] BY <1>2
<1> HIDE DEF shown
<1>7. Range(shown) = Range(t.shown) \cup {x.k}
  <2>1. \A i : i \in DOMAIN shown <=> i \in DOMAIN t.shown \/ i = Len(t.shown) + 1 BY <1>5
  <2>2. \A i \in DOMAIN t.shown : shown[i] = t.shown[i] BY <1>5
  <2> QED BY <1>5, <2>1, <2>2 DEF Range
<1>8. /\ u \in Browsers /\ u.at = t.at /\ u.last = x.n /\ u.shown = shown
      /\ u.backlog = w.backlog /\ u.queue = w.queue
  BY <1>1, <1>3, <1>5, <1>6 DEF Browsers
<1>9. Pend(u) = Pend(w) BY <1>8 DEF Pend
<1>10. Len(u.queue) <= QueueMax
  <2>1. Len(w.queue) \in Nat /\ Len(t.queue) \in Nat BY <1>1, TabFields
  <2> QED BY <1>1, <1>8, <2>1, BoundsAssumption
<1>11. \A p \in Pend(t) : p.k <= top /\ \A k \in Range(t.shown) : k < p.k BY DEF TabOK
<1>12. \A k \in Range(t.shown) : k \in Nat /\ k < x.k BY <1>1, <1>4, <1>11
<1>13. Pend(t) \subseteq Items /\ \A p \in Pend(t) : p.k \in Nat /\ p.n \in Nat
  BY TabFields, ItemFields
<1>14. \A p \in Pend(u) : p \in Pend(t) /\ x.k < p.k /\ p.k \in Nat BY <1>1, <1>9, <1>13
<1>15. TabOK(u, held, top)
  <2>1. \A i, j \in DOMAIN u.shown : i < j => u.shown[i] < u.shown[j]
    <3>1. ASSUME NEW i \in DOMAIN shown, NEW j \in DOMAIN shown, i < j PROVE shown[i] < shown[j]
      <4>1. i \in DOMAIN t.shown /\ shown[i] = t.shown[i] BY <1>5, <3>1
      <4>2. CASE j = Len(t.shown) + 1
        <5>1. t.shown[i] \in Range(t.shown) BY <4>1 DEF Range
        <5> QED BY <1>5, <1>12, <4>1, <4>2, <5>1
      <4>3. CASE j # Len(t.shown) + 1
        <5>1. j \in DOMAIN t.shown /\ shown[j] = t.shown[j] BY <1>5, <4>3
        <5> QED BY <3>1, <4>1, <5>1 DEF TabOK
      <4> QED BY <4>2, <4>3
    <3> QED BY <1>8, <3>1
  <2>2. Ordered(u.backlog) /\ Ordered(u.queue)
        /\ \A y \in Range(u.backlog), z \in Range(u.queue) : y.k < z.k
    BY <1>1, <1>8
  <2>3. \A p \in Pend(u) : p.k <= top /\ \A k \in Range(u.shown) : k < p.k
    BY <1>7, <1>8, <1>11, <1>14
  <2>4. \A k \in Range(u.shown) : k <= top
    <3>1. x.k <= top BY <1>1, <1>11
    <3>2. \A k \in Range(t.shown) : k <= top BY DEF TabOK
    <3> QED BY <1>7, <1>8, <3>1, <3>2
  <2>5. ASSUME NEW y \in held, y.n > u.last PROVE \A k \in Range(u.shown) : k < y.k
    <3>1. y.k > x.k
      <4>1. x \in Pend(t) /\ y.n > x.n BY <1>1, <1>8, <2>5
      <4> QED BY <4>1 DEF TabOK
    <3>2. y.k \in Nat BY ItemFields
    <3>3. ASSUME NEW k \in Range(u.shown) PROVE k < y.k
      <4>1. k \in Nat /\ k <= x.k
        <5>1. k \in Range(t.shown) \/ k = x.k BY <1>7, <1>8
        <5>2. CASE k \in Range(t.shown) BY <1>3, <1>12, <5>2
        <5>3. CASE k = x.k BY <1>3, <5>3
        <5> QED BY <5>1, <5>2, <5>3
      <4> QED BY <1>3, <3>1, <3>2, <4>1
    <3> QED BY <3>3
  <2>6. \A y \in held, p \in Pend(u) : y.n > p.n => y.k > p.k BY <1>14 DEF TabOK
  <2>7. u.at # "off" BY <1>8
  <2> QED BY <2>1, <2>2, <2>3, <2>4, <2>5, <2>6, <2>7 DEF TabOK
<1>16. ASSUME CleanTab(t, cur, top) PROVE CleanTab(u, cur, top)
  <2>1. x.n = x.k /\ t.last < x.k /\ x.k <= top BY <1>1, <1>11, <1>16 DEF CleanTab
  <2>2. \A k \in Range(u.shown) : k <= u.last
    <3>1. ASSUME NEW k \in Range(u.shown) PROVE k <= u.last
      <4>1. k \in Nat /\ k <= x.k
        <5>1. k \in Range(t.shown) \/ k = x.k BY <1>7, <1>8
        <5>2. CASE k \in Range(t.shown) BY <1>3, <1>12, <5>2
        <5>3. CASE k = x.k BY <1>3, <5>3
        <5> QED BY <5>1, <5>2, <5>3
      <4> QED BY <1>8, <2>1, <4>1
    <3> QED BY <3>1
  <2>3. \A p \in Pend(u) : p.n = p.k /\ u.last < p.k BY <1>8, <1>14, <1>16, <2>1 DEF CleanTab
  <2>4. u.at = "on" => Tailed(u.queue, top) BY <1>1, <1>8, <1>16 DEF CleanTab
  <2>5. ASSUME NEW y \in Range(cur), Reached(u, y.k)
        PROVE  y.k \in Range(u.shown) \/ \E p \in Pend(u) : p.k = y.k
    <3>1. Reached(t, y.k)
      <4>1. CASE u.at = "on" BY <1>8, <4>1 DEF Reached
      <4>2. CASE y.k <= u.last
        <5>1. x \in Pend(t) /\ y.k <= x.k BY <1>1, <1>8, <2>1, <4>2
        <5> QED BY <5>1 DEF Reached
      <4>3. CASE \E p \in Pend(u) : y.k <= p.k BY <1>14, <4>3 DEF Reached
      <4> QED BY <2>5, <4>1, <4>2, <4>3 DEF Reached
    <3>2. y.k \in Range(t.shown) \/ \E p \in Pend(t) : p.k = y.k BY <1>16, <3>1 DEF CleanTab
    <3> QED BY <1>1, <1>7, <1>8, <1>9, <3>2
  <2>6. u.last <= top BY <1>8, <2>1
  <2> QED BY <2>2, <2>3, <2>4, <2>5, <2>6 DEF CleanTab
<1> QED BY <1>8, <1>10, <1>15, <1>16 DEF u

\* A page whose stream ends, or that hears nothing more from its session.
LEMMA CleanOff ==
    ASSUME NEW t \in Browsers, NEW top, NEW cur, CleanTab(t, cur, top),
           NEW less, Range(less) \subseteq Range(cur), Range(cur) \subseteq Items,
           NEW u, u.last = t.last, u.shown = t.shown, u.at # "on", Pend(u) = Pend(t) \/ Pend(u) = {}
    PROVE  CleanTab(u, less, top)
<1>1. t.last \in Nat /\ \A p \in Pend(t) : p.k \in Nat BY TabFields, ItemFields
<1>2. u.last <= top /\ \A k \in Range(u.shown) : k <= u.last BY DEF CleanTab
<1>3. \A p \in Pend(t) : p.n = p.k /\ t.last < p.k BY DEF CleanTab
<1>4. ASSUME NEW y \in Range(less), Reached(u, y.k)
      PROVE  y.k \in Range(u.shown) \/ \E p \in Pend(u) : p.k = y.k
  <2>1. y \in Range(cur) /\ y.k \in Nat BY ItemFields
  <2>2. Reached(t, y.k) BY <1>4 DEF Reached
  <2>3. y.k \in Range(t.shown) \/ \E p \in Pend(t) : p.k = y.k BY <2>1, <2>2 DEF CleanTab
  <2>4. CASE Pend(u) = Pend(t) BY <2>3, <2>4
  <2>5. CASE Pend(u) = {}
    <3>1. y.k <= t.last BY <1>4, <2>5 DEF Reached
    <3>2. \A p \in Pend(t) : p.k # y.k BY <1>1, <1>3, <2>1, <3>1
    <3> QED BY <2>3, <3>2
  <2> QED BY <2>4, <2>5
<1> QED BY <1>2, <1>3, <1>4 DEF CleanTab

-----------------------------------------------------------------------------
(* What a step does to the store.                                          *)

TypeS ==
    /\ log \in Seq(Events) /\ Len(log) <= MaxLog /\ seq \in 0 .. MaxLog
    /\ ring \in Seq(Items) /\ Len(ring) <= RingMax
    /\ saved \in [kept : BOOLEAN, events : Seq(Items)] /\ Len(saved.events) <= Persist
    /\ life \in {"awake", "asleep"}
    /\ tab \in [Tabs -> Browsers] /\ \A b \in Tabs : Len(tab[b].queue) <= QueueMax
    /\ crashes \in 0 .. MaxCrashes
TypeT ==
    /\ made \in 0 .. MaxTurns /\ queue \in Seq(Turns) /\ worker \in Workers
    /\ call \in [Calls -> Approvals]
LEMMA Types == TypeOK <=> TypeS /\ TypeT BY DEF TypeOK, TypeS, TypeT
LEMMA TypesNext == TypeOK' <=> TypeS' /\ TypeT' BY DEF TypeOK, TypeS, TypeT

LEMMA HeldItems ==
    ASSUME TypeS
    PROVE  /\ ring \in Seq(Items) /\ saved.events \in Seq(Items) /\ Held \in SUBSET Items
           /\ Range(ring) \subseteq Held /\ Range(saved.events) \subseteq Held
           /\ Current \in Seq(Items) /\ Range(Current) \subseteq Held
           /\ Len(log) \in Nat /\ seq \in Nat
<1>1. ring \in Seq(Items) /\ saved.events \in Seq(Items) /\ Len(log) \in Nat /\ seq \in Nat
  BY BoundsAssumption DEF TypeS
<1>2. Range(ring) \subseteq Items /\ Range(saved.events) \subseteq Items BY <1>1, RangeIs
<1> QED BY <1>1, <1>2 DEF Held, Current

\* snapshot(): the record is an end of the ring.
LEMMA Snapshots ==
    ASSUME NEW r \in Seq(Items)
    PROVE  /\ Snapshot(r) \in [kept : BOOLEAN, events : Seq(Items)]
           /\ EndOf(r, Persist, Snapshot(r).events)
           /\ Len(Snapshot(r).events) <= Persist
           /\ Range(Snapshot(r).events) \subseteq Range(r)
<1> DEFINE s == Newest(r, Persist)
<1>1. Persist \in Nat BY BoundsAssumption
<1>2. EndOf(r, Persist, s) BY <1>1, NewestIs
<1> HIDE DEF s
<1>3. s \in Seq(Items) /\ Len(s) <= Persist BY <1>1, <1>2 DEF EndOf
<1>4. Range(s) \subseteq Range(r) BY <1>1, <1>2, RangeNewest
<1>5. Snapshot(r) = [kept |-> TRUE, events |-> s] BY DEF Snapshot, s
<1> QED BY <1>2, <1>3, <1>4, <1>5

\* An end of what rises rises, and an end of an end of the log is one.
LEMMA EndRises ==
    ASSUME NEW s \in Seq(Items), NEW n \in Nat, NEW r, EndOf(s, n, r)
    PROVE  /\ Rising(s) => Rising(r)
           /\ \A top \in Nat : Tailed(s, top) => Tailed(r, top)
           /\ n > 0 /\ s # <<>> => r # <<>>
<1>1. DOMAIN s = 1 .. Len(s) /\ DOMAIN r = 1 .. Len(r) /\ Len(s) \in Nat /\ Len(r) \in Nat
      /\ Len(r) <= Len(s)
  BY RangeIs DEF EndOf
<1> DEFINE at(j) == Len(s) - Len(r) + j
<1>2. \A j \in DOMAIN r : at(j) \in DOMAIN s /\ r[j] = s[at(j)] /\ j \in Int
  <2>1. \A j \in 1 .. Len(r) : at(j) \in 1 .. Len(s) /\ r[j] = s[at(j)] BY DEF EndOf
  <2> HIDE DEF at
  <2> QED BY <1>1, <2>1
<1>3. \A i, j \in DOMAIN r : i < j => at(i) < at(j) BY <1>1, <1>2
<1>4. ASSUME Rising(s) PROVE Rising(r)
  <2> HIDE DEF at
  <2> QED BY <1>2, <1>3, <1>4 DEF Rising
<1>5. ASSUME NEW top \in Nat, Tailed(s, top), NEW j \in DOMAIN r PROVE r[j].k = top - Len(r) + j
  <2>1. s[at(j)].k = top - Len(s) + at(j) BY <1>2, <1>5 DEF Tailed
  <2> QED BY <1>1, <1>2, <2>1
<1>6. ASSUME n > 0, s # <<>> PROVE r # <<>>
  <2>1. Len(s) > 0 BY <1>1, <1>6
  <2>2. Len(r) > 0 BY <1>6, <2>1 DEF EndOf
  <2> QED BY <2>2
<1> QED BY <1>4, <1>5, <1>6 DEF Tailed

\* What rises, and one more event.
LEMMA RisingPushed ==
    ASSUME NEW s \in Seq(Items), NEW x \in Items, Rising(s), \A y \in Range(s) : y.n < x.n /\ y.k < x.k,
           NEW n \in Nat, NEW r, PushedOnto(s, x, n, r)
    PROVE  Rising(r)
<1>1. DOMAIN r = 1 .. Len(r) /\ DOMAIN s = 1 .. Len(s) /\ Len(s) \in Nat /\ Len(r) \in Nat
      /\ r[Len(r)] = x
  BY RangeIs DEF PushedOnto
<1>2. ASSUME NEW i \in DOMAIN r, NEW j \in DOMAIN r, i < j PROVE r[i].n < r[j].n /\ r[i].k < r[j].k
  <2>1. i \in 1 .. Len(r) - 1 /\ j \in 1 .. Len(r) BY <1>1, <1>2
  <2> DEFINE a == Len(s) + 1 - Len(r) + i
  <2>2. a \in 1 .. Len(s) /\ r[i] = s[a] BY <2>1 DEF PushedOnto
  <2>3. s[a] \in Range(s) BY <2>2, RangeIs
  <2>4. CASE j = Len(r) BY <1>1, <2>2, <2>3, <2>4
  <2>5. CASE j # Len(r)
    <3> DEFINE b == Len(s) + 1 - Len(r) + j
    <3>1. j \in 1 .. Len(r) - 1 BY <1>1, <2>1, <2>5
    <3>2. b \in 1 .. Len(s) /\ r[j] = s[b] BY <3>1 DEF PushedOnto
    <3>3. a < b BY <1>1, <1>2, <2>1
    <3> QED BY <1>1, <2>2, <3>2, <3>3 DEF Rising
  <2> QED BY <2>4, <2>5
<1> QED BY <1>2 DEF Rising

Kinds == {"user", "say", "ask", "settled", "auto", "end"}

\* _publish, and the record that may be saved with it.
LEMMA PublishStep ==
    ASSUME TypeS, Streamed, Awake, NEW kind \in Kinds, NEW c \in Calls \cup {NoCall}, Publish(kind, c),
           Len(log) + 1 <= MaxLog, UNCHANGED <<life, crashes>>, saved' = saved \/ saved' = Snapshot(ring')
    PROVE  /\ TypeS' /\ Streamed'
           /\ log' = Append(log, [kind |-> kind, call |-> c])
           /\ Len(log') = Len(log) + 1 /\ log'[Len(log) + 1] = [kind |-> kind, call |-> c]
           /\ \A k \in 1 .. Len(log) : log'[k] = log[k]
<1> DEFINE x == [n |-> seq + 1, k |-> Len(log) + 1]
           event == [kind |-> kind, call |-> c]
           top == Len(log)
<1>1. /\ ring \in Seq(Items) /\ saved.events \in Seq(Items) /\ Held \in SUBSET Items
      /\ Range(ring) \subseteq Held /\ top \in Nat /\ seq \in Nat
      /\ Current \in Seq(Items) /\ Range(Current) \subseteq Held
  BY HeldItems
<1>2. StoreOK /\ seq <= top BY DEF Streamed, StoreOK
<1>3. event \in Events BY DEF Events, Kinds
<1>4. /\ log' = Append(log, event) /\ seq' = seq + 1 /\ ring' = Pushed(ring, x, RingMax)
      /\ tab' = [b \in Tabs |-> Told(tab[b], x)]
  BY DEF Publish, Told, Pushed
<1>5. log \in Seq(Events) /\ MaxLog \in Nat /\ RingMax \in Nat /\ RingMax > 0
  BY BoundsAssumption DEF TypeS
<1>6. x \in Items /\ x.n = seq + 1 /\ x.k = top + 1 BY <1>1, <1>2, <1>5 DEF Items
<1> HIDE DEF event, x
<1>7. /\ log' \in Seq(Events) /\ Len(log') = top + 1 /\ log'[top + 1] = event
      /\ \A k \in 1 .. top : log'[k] = log[k]
  BY <1>3, <1>4, <1>5
<1>8. PushedOnto(ring, x, RingMax, ring') BY <1>1, <1>4, <1>5, <1>6, PushedIs
<1>9. ring' \in Seq(Items) /\ Len(ring') <= RingMax /\ Range(ring') \subseteq Range(ring) \cup {x}
      /\ ring' # <<>>
  <2>1. ring' \in Seq(Items) /\ Len(ring') > 0 /\ Len(ring') <= RingMax
        /\ Range(ring') \subseteq Range(ring) \cup {x}
    BY <1>8 DEF PushedOnto
  <2> QED BY <2>1
<1>10. /\ saved' \in [kept : BOOLEAN, events : Seq(Items)] /\ Len(saved'.events) <= Persist
       /\ Range(saved'.events) \subseteq Range(saved.events) \cup Range(ring')
       /\ saved'.events \in Seq(Items)
  <2>1. CASE saved' = saved BY <1>1, <2>1 DEF TypeS
  <2>2. CASE saved' = Snapshot(ring') BY <1>9, <2>2, Snapshots
  <2> QED BY <2>1, <2>2
<1>11. Held' \subseteq Held \cup {x} /\ Held' \in SUBSET Items
  <2>1. Held' = Range(ring') \cup Range(saved'.events) BY DEF Held
  <2>2. Held = Range(ring) \cup Range(saved.events) BY DEF Held
  <2> QED BY <1>1, <1>6, <1>9, <1>10, <2>1, <2>2
<1>12. Awake' /\ Current = ring /\ Current' = ring' BY DEF Awake, Current
<1>13. ASSUME NEW y \in Held
       PROVE  y.n \in Nat /\ y.k \in Nat /\ y.n <= y.k /\ y.k <= top /\ y.n <= seq
              /\ y.n < x.n /\ y.k < x.k
  <2>1. y.n \in Nat /\ y.k \in Nat BY <1>1, ItemFields
  <2>2. y.n <= y.k /\ y.k <= top /\ y.n <= seq BY <1>2 DEF StoreOK, Numbered
  <2> QED BY <1>1, <1>6, <2>1, <2>2
<1>14. TypeS'
  <2>1. seq' \in 0 .. MaxLog BY <1>1, <1>2, <1>4, <1>5
  <2>2. ASSUME NEW b \in Tabs
        PROVE  Told(tab[b], x) \in Browsers /\ Len(Told(tab[b], x).queue) <= QueueMax
    <3>1. tab[b] \in Browsers /\ Len(tab[b].queue) <= QueueMax BY DEF TypeS
    <3> QED BY <1>6, <3>1, ToldIs
  <2>3. tab' \in [Tabs -> Browsers] /\ \A b \in Tabs : Len(tab'[b].queue) <= QueueMax
    BY <1>4, <2>2
  <2>4. life' \in {"awake", "asleep"} /\ crashes' \in 0 .. MaxCrashes BY DEF TypeS
  <2>5. Len(log') <= MaxLog BY <1>7
  <2> QED BY <1>7, <1>9, <1>10, <2>1, <2>3, <2>4, <2>5 DEF TypeS
<1>15. StoreOK'
  <2>1. seq' <= Len(log') BY <1>1, <1>2, <1>4, <1>7
  <2>2. Rising(ring')
    <3>1. Rising(ring) BY <1>2 DEF StoreOK
    <3>2. \A y \in Range(ring) : y.n < x.n /\ y.k < x.k BY <1>1, <1>13
    <3> QED BY <1>1, <1>5, <1>6, <1>8, <3>1, <3>2, RisingPushed
  <2>3. Rising(saved'.events)
    <3>1. CASE saved' = saved BY <1>2, <3>1 DEF StoreOK
    <3>2. CASE saved' = Snapshot(ring')
      <4>1. EndOf(ring', Persist, saved'.events) BY <1>9, <3>2, Snapshots
      <4>2. Persist \in Nat BY BoundsAssumption
      <4> QED BY <1>9, <2>2, <4>1, <4>2, EndRises
    <3> QED BY <3>1, <3>2
  <2>4. \A y \in Held' : y.n <= y.k /\ y.k <= Len(log') /\ y.n <= seq'
    <3>1. ASSUME NEW y \in Held' PROVE y.n <= y.k /\ y.k <= Len(log') /\ y.n <= seq'
      <4>1. CASE y = x BY <1>1, <1>2, <1>4, <1>6, <1>7, <4>1
      <4>2. CASE y \in Held BY <1>1, <1>4, <1>7, <1>13, <4>2
      <4> QED BY <1>11, <4>1, <4>2
    <3> QED BY <3>1
  <2>5. \A y, z \in Held' : y.n > z.n => y.k > z.k
    <3>1. ASSUME NEW y \in Held', NEW z \in Held', y.n > z.n PROVE y.k > z.k
      <4>1. x.n \in Nat /\ x.k \in Nat BY <1>6, ItemFields
      <4>2. CASE y = x
        <5>1. z \in Held BY <1>11, <3>1, <4>1, <4>2
        <5> QED BY <1>13, <4>1, <4>2, <5>1
      <4>3. CASE y \in Held
        <5>1. z \in Held
          <6>1. z # x BY <1>13, <3>1, <4>1, <4>3
          <6> QED BY <1>11, <6>1
        <5> QED BY <1>2, <3>1, <4>3, <5>1 DEF StoreOK, Numbered
      <4> QED BY <1>11, <4>2, <4>3
    <3> QED BY <3>1
  <2>6. Numbered(Held', Len(log')) BY <2>4, <2>5 DEF Numbered
  <2> QED BY <1>12, <2>1, <2>2, <2>3, <2>4, <2>6 DEF StoreOK
<1>16. ASSUME NEW b \in Tabs PROVE TabOK(tab'[b], Held', Len(log'))
  <2>1. tab[b] \in Browsers /\ Len(tab[b].queue) <= QueueMax BY DEF TypeS
  <2>2. TabOK(tab[b], Held, top) BY DEF Streamed
  <2>3. \A y \in Held : y.n < x.n BY <1>13
  <2>4. TabOK(Told(tab[b], x), Held', top + 1)
    BY <1>1, <1>6, <1>11, <2>1, <2>2, <2>3, TabTold
  <2> QED BY <1>4, <1>7, <2>4
<1>17. ASSUME crashes' = 0
       PROVE  CleanStore(Current', Held', Len(log'), seq', Awake')
              /\ \A b \in Tabs : CleanTab(tab'[b], Current', Len(log'))
  <2>1. /\ CleanStore(Current, Held, top, seq, Awake)
        /\ \A b \in Tabs : CleanTab(tab[b], Current, top)
    BY <1>17 DEF Streamed, Clean
  <2>2. seq = top /\ Tailed(ring, top) /\ \A y \in Held : y.n = y.k BY <1>12, <2>1 DEF CleanStore
  <2>3. Tailed(ring', top + 1) BY <1>1, <1>5, <1>6, <1>8, <2>2, TailedPushed
  <2>4. \A y \in Held' : y.n = y.k BY <1>6, <1>11, <2>2
  <2>5. seq' = Len(log') BY <1>4, <1>7, <2>2
  <2>6. CleanStore(Current', Held', Len(log'), seq', Awake')
    BY <1>7, <1>9, <1>12, <2>3, <2>4, <2>5 DEF CleanStore
  <2>7. ASSUME NEW b \in Tabs PROVE CleanTab(tab'[b], Current', Len(log'))
    <3>1. tab[b] \in Browsers /\ Len(tab[b].queue) <= QueueMax BY DEF TypeS
    <3>2. CleanTab(tab[b], ring, top) BY <1>12, <2>1
    <3>3. \A p \in Pend(tab[b]) : p.k <= top BY DEF Streamed, TabOK
    <3>4. x.n = top + 1 BY <1>6, <2>2
    <3>5. CleanTab(Told(tab[b], x), ring', top + 1)
      BY <1>1, <1>6, <1>8, <2>2, <3>1, <3>2, <3>3, <3>4, CleanTold
    <3> QED BY <1>4, <1>7, <1>12, <3>5
  <2> QED BY <2>6, <2>7
<1>18. Streamed' BY <1>15, <1>16, <1>17 DEF Streamed, Clean
<1> QED BY <1>4, <1>7, <1>14, <1>18 DEF event

\* A step of the approvals or of the queue of turns leaves the streams alone.
LEMMA StreamsSame ==
    ASSUME TypeS, Streamed, Awake, UNCHANGED <<log, seq, ring, saved, life, tab, crashes>>
    PROVE  TypeS' /\ Streamed'
<1>1. Awake' /\ Held' = Held /\ Current' = Current BY DEF Awake, Held, Current
<1>2. TypeS' BY DEF TypeS
<1>3. StoreOK' BY <1>1 DEF Streamed, StoreOK, Numbered, Rising
<1>4. \A b \in Tabs : TabOK(tab'[b], Held', Len(log')) BY <1>1 DEF Streamed
<1>5. Clean' BY <1>1 DEF Streamed, Clean
<1> QED BY <1>2, <1>3, <1>4, <1>5 DEF Streamed

\* A step of one page leaves the rest alone.
LEMMA OnePage ==
    ASSUME TypeS, Streamed, NEW b \in Tabs, NEW u \in Browsers, Len(u.queue) <= QueueMax,
           TabOK(u, Held, Len(log)), crashes = 0 => CleanTab(u, Current, Len(log)),
           tab' = [tab EXCEPT ![b] = u],
           UNCHANGED <<log, seq, ring, saved, life, made, queue, worker, call, crashes>>
    PROVE  TypeS' /\ Streamed'
<1>1. Awake' = Awake /\ Held' = Held /\ Current' = Current /\ Open' = Open
  BY DEF Awake, Held, Current, Open
<1>2. \A o \in Tabs : tab'[o] = IF o = b THEN u ELSE tab[o] BY DEF TypeS
<1>3. TypeS' BY DEF TypeS
<1>4. StoreOK' BY <1>1 DEF Streamed, StoreOK, Numbered, Rising
<1>5. \A o \in Tabs : TabOK(tab'[o], Held', Len(log')) BY <1>1, <1>2 DEF Streamed
<1>6. Clean'
  <2>1. CASE crashes = 0
    <3>1. /\ CleanStore(Current, Held, Len(log), seq, Awake)
          /\ \A o \in Tabs : CleanTab(tab[o], Current, Len(log))
      BY <2>1 DEF Streamed, Clean
    <3>2. CleanTab(u, Current, Len(log)) BY <2>1
    <3>3. CleanStore(Current', Held', Len(log'), seq', Awake') BY <1>1, <3>1
    <3>4. \A o \in Tabs : CleanTab(tab'[o], Current', Len(log')) BY <1>1, <1>2, <3>1, <3>2
    <3> QED BY <3>3, <3>4 DEF Clean
  <2>2. CASE crashes # 0 BY <2>2 DEF Clean
  <2> QED BY <2>1, <2>2
<1> QED BY <1>3, <1>4, <1>5, <1>6 DEF Streamed

LEMMA PageStep ==
    ASSUME TypeS, Streamed, NEW b \in Tabs, Page(b)
    PROVE  TypeS' /\ Streamed'
<1> DEFINE t == tab[b]  top == Len(log)
<1>1. /\ ring \in Seq(Items) /\ Held \in SUBSET Items /\ Range(ring) \subseteq Held
      /\ Current \in Seq(Items) /\ Range(Current) \subseteq Held /\ top \in Nat
  BY HeldItems
<1>2. t \in Browsers /\ Len(t.queue) <= QueueMax /\ TabOK(t, Held, top) BY DEF TypeS, Streamed
<1>3. crashes = 0 => (\A x \in Held : x.n = x.k) /\ CleanTab(t, Current, top)
  BY DEF Streamed, Clean, CleanStore
<1>4. Rising(ring) /\ Numbered(Held, top) BY DEF Streamed, StoreOK
<1>5. ASSUME NEW v \in Browsers, v.at = "off", TabOK(v, Held, top),
             crashes = 0 => CleanTab(v, Current, top), Joins(b, v, After(v.last))
      PROVE  TypeS' /\ Streamed'
  <2> DEFINE u == [v EXCEPT !.at = "on", !.backlog = After(v.last), !.queue = <<>>]
  <2>1. Current = ring BY <1>5 DEF Joins, Current
  <2>2. /\ u \in Browsers /\ Len(u.queue) <= QueueMax /\ TabOK(u, Held, top)
        /\ (\A x \in Held : x.n = x.k) /\ CleanTab(v, ring, top) => CleanTab(u, ring, top)
    BY <1>1, <1>4, <1>5, TabJoined
  <2>3. tab' = [tab EXCEPT ![b] = u]
        /\ UNCHANGED <<log, seq, ring, saved, life, made, queue, worker, call, crashes>>
    BY <1>5 DEF Joins
  <2> HIDE DEF u
  <2>4. crashes = 0 => CleanTab(u, Current, top) BY <1>3, <1>5, <2>1, <2>2
  <2> QED BY <2>2, <2>3, <2>4, OnePage
<1>6. CASE Load(b)
  <2>1. /\ NewTab \in Browsers /\ NewTab.at = "off" /\ NewTab.last = 0
        /\ TabOK(NewTab, Held, top) /\ CleanTab(NewTab, Current, top)
    BY <1>1, TabNew
  <2>2. Joins(b, NewTab, After(NewTab.last)) BY <1>6, <2>1 DEF Load
  <2> QED BY <1>5, <2>1, <2>2
<1>7. CASE Reconnect(b)
  <2>1. t.at = "off" /\ Joins(b, t, After(t.last)) BY <1>7 DEF Reconnect, Joins
  <2> QED BY <1>2, <1>3, <1>5, <2>1
<1>8. CASE Deliver(b)
  <2>1. t.at # "off" /\ Sent(t) # <<>> /\ tab' = [tab EXCEPT ![b] = Shows(t)]
        /\ UNCHANGED <<log, seq, ring, saved, life, made, queue, worker, call, crashes>>
    BY <1>8 DEF Deliver, Sent, Rest, Shows
  <2>2. /\ Shows(t) \in Browsers /\ Len(Shows(t).queue) <= QueueMax /\ TabOK(Shows(t), Held, top)
        /\ CleanTab(t, Current, top) => CleanTab(Shows(t), Current, top)
    BY <1>1, <1>2, <2>1, TabDelivered
  <2>3. crashes = 0 => CleanTab(Shows(t), Current, top) BY <1>3, <2>2
  <2> QED BY <2>1, <2>2, <2>3, OnePage
<1>9. CASE Disconnect(b)
  <2> DEFINE u == Leaves(t)
  <2>1. /\ u \in Browsers /\ Len(u.queue) = 0 /\ TabOK(u, Held, top)
        /\ u.at = "off" /\ Pend(u) = {} /\ u.last = t.last /\ u.shown = t.shown
    BY <1>2, TabLeaves
  <2>2. tab' = [tab EXCEPT ![b] = u]
        /\ UNCHANGED <<log, seq, ring, saved, life, made, queue, worker, call, crashes>>
    BY <1>9 DEF Disconnect
  <2> HIDE DEF u
  <2>3. ASSUME crashes = 0 PROVE CleanTab(u, Current, top)
    <3>1. CleanTab(t, Current, top) /\ Range(Current) \subseteq Items BY <1>1, <1>3, <2>3
    <3> HIDE DEF t
    <3>2. t \in Browsers BY <1>2
    <3> QED BY <2>1, <3>1, <3>2, CleanOff
  <2>4. Len(u.queue) <= QueueMax BY <2>1, BoundsAssumption
  <2> QED BY <2>1, <2>2, <2>3, <2>4, OnePage
<1> QED BY <1>6, <1>7, <1>8, <1>9 DEF Page

-----------------------------------------------------------------------------
(* Sleep, wake and crash.                                                  *)

\* The object goes, and what it held goes with it, or into the record.
LEMMA GoesStep ==
    ASSUME TypeS, Streamed, Awake, Goes,
           (saved' = saved /\ crashes' # 0) \/ saved' = Snapshot(ring),
           crashes' \in 0 .. MaxCrashes, crashes' = 0 => crashes = 0,
           NEW next, tab' = [b \in Tabs |-> next[b]],
           \A b \in Tabs :
               /\ next[b] \in Browsers /\ Len(next[b].queue) <= QueueMax
               /\ TabOK(next[b], Held, Len(log))
               /\ next[b].at # "on" /\ next[b].last = tab[b].last /\ next[b].shown = tab[b].shown
               /\ Pend(next[b]) = Pend(tab[b]) \/ Pend(next[b]) = {}
    PROVE  TypeS' /\ Streamed'
<1>1. /\ ring \in Seq(Items) /\ saved.events \in Seq(Items) /\ Held \in SUBSET Items
      /\ Range(ring) \subseteq Held /\ Range(saved.events) \subseteq Held
      /\ Len(log) \in Nat /\ Current = ring
  BY HeldItems DEF Current
<1>2. /\ log' = log /\ seq' = 0 /\ ring' = <<>> /\ queue' = <<>> /\ worker' = Resting /\ life' = "asleep"
      /\ call' = [c \in Calls |-> IF c \in Open THEN [call[c] EXCEPT !.st = "gone"] ELSE call[c]]
  BY DEF Goes
<1>3. ~Awake' /\ Current' = saved'.events BY <1>2 DEF Awake, Current
<1>4. /\ saved' \in [kept : BOOLEAN, events : Seq(Items)] /\ Len(saved'.events) <= Persist
      /\ Range(saved'.events) \subseteq Held /\ saved'.events \in Seq(Items)
  <2>1. CASE saved' = saved BY <1>1, <2>1 DEF TypeS
  <2>2. CASE saved' = Snapshot(ring) BY <1>1, <2>2, Snapshots
  <2> QED BY <2>1, <2>2
<1>5. Held' = Range(saved'.events) /\ Held' \subseteq Held BY <1>2, <1>4, NoEvents DEF Held
<1>6. \A b \in Tabs : tab'[b] = next[b] OBVIOUS
<1>7. TypeS'
  <2>1. tab' \in [Tabs -> Browsers] /\ \A b \in Tabs : Len(tab'[b].queue) <= QueueMax BY <1>6
  <2>2. 0 \in 0 .. MaxLog BY BoundsAssumption
  <2>3. Len(ring') <= RingMax /\ ring' \in Seq(Items) BY <1>2, NoEvents, BoundsAssumption
  <2>4. log' \in Seq(Events) /\ Len(log') <= MaxLog BY <1>2 DEF TypeS
  <2> QED BY <1>2, <1>4, <2>1, <2>2, <2>3, <2>4 DEF TypeS
<1>8. StoreOK'
  <2>1. Open' = {} BY <1>2 DEF Open
  <2>2. Rising(ring') BY <1>2, NoEvents DEF Rising
  <2>3. Rising(saved'.events)
    <3>1. CASE saved' = saved BY <3>1 DEF Streamed, StoreOK
    <3>2. CASE saved' = Snapshot(ring)
      <4>1. EndOf(ring, Persist, saved'.events) BY <1>1, <3>2, Snapshots
      <4>2. Persist \in Nat /\ Rising(ring) BY BoundsAssumption DEF Streamed, StoreOK
      <4> QED BY <1>1, <4>1, <4>2, EndRises
    <3> QED BY <3>1, <3>2
  <2>4. Numbered(Held', Len(log')) BY <1>2, <1>5 DEF Streamed, StoreOK, Numbered
  <2>5. seq' <= Len(log') BY <1>1, <1>2
  <2> QED BY <1>2, <1>3, <2>1, <2>2, <2>3, <2>4, <2>5 DEF StoreOK
<1>9. \A b \in Tabs : TabOK(tab'[b], Held', Len(log')) BY <1>2, <1>5, <1>6, TabHeld
<1>10. ASSUME crashes' = 0
       PROVE  /\ CleanStore(Current', Held', Len(log'), seq', Awake')
              /\ \A b \in Tabs : CleanTab(tab'[b], Current', Len(log'))
  <2>1. /\ CleanStore(ring, Held, Len(log), seq, Awake)
        /\ \A b \in Tabs : CleanTab(tab[b], ring, Len(log))
    BY <1>1, <1>10 DEF Streamed, Clean
  <2>2. saved' = Snapshot(ring) BY <1>10
  <2>3. EndOf(ring, Persist, saved'.events) /\ Range(saved'.events) \subseteq Range(ring)
    BY <1>1, <2>2, Snapshots
  <2>4. Persist \in Nat /\ Persist > 0 BY BoundsAssumption
  <2>5. Tailed(saved'.events, Len(log)) /\ (ring # <<>> => saved'.events # <<>>)
    BY <1>1, <2>1, <2>3, <2>4, EndRises DEF CleanStore
  <2>6. CleanStore(Current', Held', Len(log'), seq', Awake')
    BY <1>2, <1>3, <1>5, <2>1, <2>5 DEF CleanStore
  <2>7. ASSUME NEW b \in Tabs PROVE CleanTab(tab'[b], Current', Len(log'))
    <3> DEFINE t == tab[b]  u == next[b]  less == saved'.events  top == Len(log)
    <3>1. t \in Browsers /\ CleanTab(t, ring, top) /\ Range(ring) \subseteq Items
      BY <1>1, <2>1 DEF TypeS
    <3>2. /\ u.at # "on" /\ u.last = t.last /\ u.shown = t.shown
          /\ Pend(u) = Pend(t) \/ Pend(u) = {}
      OBVIOUS
    <3>3. Range(less) \subseteq Range(ring) BY <2>3
    <3> HIDE DEF t, u, less, top
    <3>4. CleanTab(u, less, top) BY <3>1, <3>2, <3>3, CleanOff
    <3> QED BY <1>2, <1>3, <1>6, <3>4 DEF u, less, top
  <2> QED BY <2>6, <2>7
<1> QED BY <1>7, <1>8, <1>9, <1>10 DEF Streamed, Clean

LEMMA SleepStep ==
    ASSUME TypeS, Streamed, Sleep PROVE TypeS' /\ Streamed'
<1> DEFINE next == [b \in Tabs |-> Deaf(tab[b])]
<1>1. tab' = [b \in Tabs |-> next[b]] BY DEF Sleep, Deaf
<1>2. ASSUME NEW b \in Tabs
      PROVE  /\ next[b] \in Browsers /\ Len(next[b].queue) <= QueueMax
             /\ TabOK(next[b], Held, Len(log))
             /\ next[b].at # "on" /\ next[b].last = tab[b].last /\ next[b].shown = tab[b].shown
             /\ Pend(next[b]) = Pend(tab[b]) \/ Pend(next[b]) = {}
  <2>1. tab[b] \in Browsers /\ Len(tab[b].queue) <= QueueMax /\ TabOK(tab[b], Held, Len(log))
    BY DEF TypeS, Streamed
  <2>2. next[b] = Deaf(tab[b]) OBVIOUS
  <2> HIDE DEF next
  <2> QED BY <2>1, <2>2, TabDeaf
<1>3. Awake /\ Goes /\ saved' = Snapshot(ring) /\ crashes' = crashes BY DEF Sleep
<1>4. crashes' \in 0 .. MaxCrashes BY <1>3 DEF TypeS
<1> HIDE DEF next
<1>5. crashes' = 0 => crashes = 0 BY <1>3
<1> QED BY <1>1, <1>2, <1>3, <1>4, <1>5, GoesStep

LEMMA CrashStep ==
    ASSUME TypeS, Streamed, Crash PROVE TypeS' /\ Streamed'
<1> DEFINE next == [b \in Tabs |-> Leaves(tab[b])]
<1>1. tab' = [b \in Tabs |-> next[b]] BY DEF Crash
<1>2. ASSUME NEW b \in Tabs
      PROVE  /\ next[b] \in Browsers /\ Len(next[b].queue) <= QueueMax
             /\ TabOK(next[b], Held, Len(log))
             /\ next[b].at # "on" /\ next[b].last = tab[b].last /\ next[b].shown = tab[b].shown
             /\ Pend(next[b]) = Pend(tab[b]) \/ Pend(next[b]) = {}
  <2>1. tab[b] \in Browsers /\ TabOK(tab[b], Held, Len(log)) BY DEF TypeS, Streamed
  <2>2. next[b] = Leaves(tab[b]) OBVIOUS
  <2> HIDE DEF next
  <2>3. Len(next[b].queue) = 0 BY <2>1, <2>2, TabLeaves
  <2> QED BY <2>1, <2>2, <2>3, TabLeaves, BoundsAssumption
<1>3. Awake /\ Goes /\ saved' = saved /\ crashes' = crashes + 1 /\ crashes < MaxCrashes BY DEF Crash
<1>4. crashes' \in 0 .. MaxCrashes /\ crashes' # 0 BY <1>3, BoundsAssumption DEF TypeS
<1> HIDE DEF next
<1> QED BY <1>1, <1>2, <1>3, <1>4, GoesStep

\* preload(): the session goes on with the numbers of its record.
LEMMA WakeStep ==
    ASSUME TypeS, Streamed, Wake PROVE TypeS' /\ Streamed'
<1> DEFINE e == saved.events  top == Len(log)
<1>1. /\ e \in Seq(Items) /\ Held \in SUBSET Items /\ Range(e) \subseteq Held
      /\ top \in Nat /\ MaxLog \in Nat /\ Persist \in Nat /\ RingMax \in Nat /\ Persist <= RingMax
  BY HeldItems, BoundsAssumption, RingAssumption
<1>2. /\ ~Awake /\ life' = "awake" /\ ring' = e
      /\ seq' = (IF e = <<>> THEN 0 ELSE Last(e).n)
      /\ UNCHANGED <<log, saved, queue, worker, call, tab, crashes>>
  BY DEF Wake, Awake
<1>3. Held' = Range(e) /\ Awake' /\ Current' = e /\ Current = e
  BY <1>2 DEF Held, Awake, Current
<1>4. Rising(e) /\ Numbered(Held, top) BY DEF Streamed, StoreOK
<1>5. ASSUME e # <<>>
      PROVE  /\ Len(e) \in Nat /\ Len(e) \in DOMAIN e /\ e[Len(e)] \in Range(e) /\ seq' = e[Len(e)].n
             /\ \A y \in Range(e) : y.n <= seq'
  <2>1. Len(e) \in Nat /\ Len(e) \in 1 .. Len(e) /\ DOMAIN e = 1 .. Len(e) BY <1>1, <1>5
  <2>2. e[Len(e)] \in Range(e) BY <1>1, <2>1, RangeIs
  <2>3. seq' = e[Len(e)].n BY <1>2, <1>5 DEF Last
  <2>4. ASSUME NEW y \in Range(e) PROVE y.n <= seq'
    <3>1. PICK j \in 1 .. Len(e) : y = e[j] BY <1>1, RangeIs
    <3>2. y.n \in Nat /\ e[Len(e)].n \in Nat BY <1>1, <2>2, ItemFields
    <3>3. CASE j = Len(e) BY <2>3, <3>1, <3>2, <3>3
    <3>4. CASE j # Len(e)
      <4>1. j < Len(e) BY <2>1, <3>4
      <4>2. y.n < e[Len(e)].n BY <1>4, <2>1, <3>1, <4>1 DEF Rising
      <4> QED BY <2>3, <3>2, <4>2
    <3> QED BY <3>3, <3>4
  <2> QED BY <2>1, <2>2, <2>3, <2>4
<1>6. seq' \in 0 .. MaxLog /\ seq' <= top
  <2>1. CASE e = <<>> BY <1>1, <1>2, <2>1
  <2>2. CASE e # <<>>
    <3> DEFINE x == e[Len(e)]
    <3>1. x \in Held /\ x \in Items /\ seq' = x.n BY <1>1, <1>5, <2>2
    <3> HIDE DEF x
    <3>2. x.n \in Nat /\ x.k \in Nat /\ x.n <= MaxLog BY <3>1, ItemFields
    <3>3. x.n <= x.k /\ x.k <= top BY <1>4, <3>1 DEF Numbered
    <3> QED BY <1>1, <3>1, <3>2, <3>3
  <2> QED BY <2>1, <2>2
<1>7. TypeS'
  <2>1. Len(ring') <= RingMax
    <3>1. Len(e) \in Nat /\ Len(e) <= Persist BY <1>1 DEF TypeS
    <3> QED BY <1>1, <1>2, <3>1
  <2> QED BY <1>1, <1>2, <1>6, <2>1 DEF TypeS
<1>8. StoreOK'
  <2>1. \A y \in Held' : y.n <= seq'
    <3>1. CASE e = <<>> BY <1>3, <3>1, NoEvents
    <3>2. CASE e # <<>> BY <1>3, <1>5, <3>2
    <3> QED BY <3>1, <3>2
  <2>2. Numbered(Held', Len(log')) BY <1>1, <1>2, <1>3, <1>4 DEF Numbered
  <2>3. Rising(ring') /\ Rising(saved'.events) BY <1>2, <1>4
  <2> QED BY <1>2, <1>3, <1>6, <2>1, <2>2, <2>3 DEF StoreOK
<1>9. ASSUME NEW b \in Tabs PROVE TabOK(tab'[b], Held', Len(log'))
  <2>1. tab[b] \in Browsers /\ TabOK(tab[b], Held, top) BY DEF TypeS, Streamed
  <2>2. Held' \in SUBSET Held BY <1>1, <1>3
  <2>3. TabOK(tab[b], Held', top) BY <2>1, <2>2, TabHeld
  <2> QED BY <1>2, <2>3
<1>10. ASSUME crashes' = 0
       PROVE  /\ CleanStore(Current', Held', Len(log'), seq', Awake')
              /\ \A b \in Tabs : CleanTab(tab'[b], Current', Len(log'))
  <2>1. /\ CleanStore(e, Held, top, seq, Awake)
        /\ \A b \in Tabs : CleanTab(tab[b], e, top)
    BY <1>2, <1>3, <1>10 DEF Streamed, Clean
  <2>2. Tailed(e, top) /\ (top > 0 => e # <<>>) /\ \A x \in Held : x.n = x.k BY <2>1 DEF CleanStore
  <2>3. seq' = top
    <3>1. CASE e = <<>> BY <1>1, <1>2, <2>2, <3>1
    <3>2. CASE e # <<>>
      <4>1. e[Len(e)].k = top - Len(e) + Len(e) BY <1>5, <2>2, <3>2 DEF Tailed
      <4>2. e[Len(e)].n = e[Len(e)].k BY <1>1, <1>5, <2>2, <3>2
      <4> QED BY <1>1, <1>5, <3>2, <4>1, <4>2
    <3> QED BY <3>1, <3>2
  <2>4. CleanStore(Current', Held', Len(log'), seq', Awake')
    BY <1>1, <1>2, <1>3, <2>2, <2>3 DEF CleanStore
  <2>5. \A b \in Tabs : CleanTab(tab'[b], Current', Len(log')) BY <1>2, <1>3, <2>1
  <2> QED BY <2>4, <2>5
<1> QED BY <1>7, <1>8, <1>9, <1>10 DEF Streamed, Clean

-----------------------------------------------------------------------------
(* The approvals and the turns.                                            *)

LEMMA CallFields ==
    ASSUME TypeT, NEW c \in Calls
    PROVE  /\ call[c] \in Approvals /\ call[c].turn \in Nat /\ call[c].turn \in 0 .. MaxTurns
           /\ call[c].st \in {"none", "pending", "answered", "expired", "over", "gone"}
           /\ call[c].said \in {"nothing", "allow", "deny"}
           /\ call[c].out \in {"none", "allow", "deny", "auto"}
BY BoundsAssumption DEF TypeT, Approvals

\* What a step publishes agrees with what becomes of the approvals.
LEMMA CardsStep ==
    ASSUME CardsOK, Len(log) \in Nat,
           Len(log') = Len(log) \/ Len(log') = Len(log) + 1,
           \A k \in 1 .. Len(log) : log'[k] = log[k],
           \A o \in Calls : call[o].st # "none" => call'[o].st # "none",
           \A o \in Calls : call'[o].st = "over" =>
               \/ call[o].st \in {"over", "none"}
               \/ Len(log') = Len(log) + 1 /\ log'[Len(log')] = [kind |-> "settled", call |-> o],
           \A o \in Calls : Len(log') = Len(log) + 1 /\ log'[Len(log')] = [kind |-> "ask", call |-> o]
               => call'[o].st = "pending"
    PROVE  CardsOK'
<1>1. ASSUME NEW c \in Calls, NEW k \in 1 .. Len(log'), log'[k] = [kind |-> "ask", call |-> c]
      PROVE  /\ call'[c].st # "none"
             /\ call'[c].st = "over" =>
                  \E m \in 1 .. Len(log') : m > k /\ log'[m] = [kind |-> "settled", call |-> c]
  <2>1. CASE k \notin 1 .. Len(log)
    <3>1. Len(log') = Len(log) + 1 /\ k = Len(log') BY <2>1
    <3>2. call'[c].st = "pending" BY <1>1, <3>1
    <3> QED BY <3>2
  <2>2. CASE k \in 1 .. Len(log)
    <3>1. log[k] = [kind |-> "ask", call |-> c] BY <1>1, <2>2
    <3>2. /\ call[c].st # "none"
          /\ call[c].st = "over" =>
               \E m \in 1 .. Len(log) : m > k /\ log[m] = [kind |-> "settled", call |-> c]
      BY <2>2, <3>1 DEF CardsOK
    <3>3. ASSUME call'[c].st = "over"
          PROVE  \E m \in 1 .. Len(log') : m > k /\ log'[m] = [kind |-> "settled", call |-> c]
      <4>1. CASE call[c].st = "over"
        <5>1. PICK m \in 1 .. Len(log) : m > k /\ log[m] = [kind |-> "settled", call |-> c]
          BY <3>2, <4>1
        <5>2. m \in 1 .. Len(log') /\ log'[m] = log[m] BY <5>1
        <5> QED BY <5>1, <5>2
      <4>2. CASE call[c].st # "over"
        <5>1. Len(log') = Len(log) + 1 /\ log'[Len(log')] = [kind |-> "settled", call |-> c]
          BY <3>2, <3>3, <4>2
        <5>2. Len(log') \in 1 .. Len(log') /\ Len(log') > k BY <2>2, <5>1
        <5> QED BY <5>1, <5>2
      <4> QED BY <4>1, <4>2
    <3> QED BY <3>2, <3>3
  <2> QED BY <2>1, <2>2
<1> QED BY <1>1 DEF CardsOK

\* How many approvals are open.
LEMMA OpenFinite ==
    ASSUME NEW S \in SUBSET Calls
    PROVE  IsFiniteSet(S) /\ Cardinality(S) \in Nat
<1>1. IsFiniteSet(S) BY FS_Subset, NamesAssumption
<1> QED BY <1>1, FS_CardinalityType

\* A step that gives nothing by a grant.
LEMMA GrantsSame ==
    ASSUME TypeT, Granted, UNCHANGED <<worker, queue, made>>,
           \A o \in Calls :
               /\ call'[o].turn = call[o].turn \/ call'[o].turn = worker.turn
               /\ call'[o].out = "auto" <=> call[o].out = "auto"
               /\ call[o].out = "auto" => call'[o].turn = call[o].turn
    PROVE  Granted'
<1>1. \A t : AutoOf(t)' = AutoOf(t) BY DEF AutoOf
<1>2. TurnsOK'
  <2>1. worker'.turn <= made' /\ \A o \in Calls : call'[o].turn <= made' BY DEF Granted, TurnsOK
  <2>2. ASSUME NEW j \in DOMAIN queue'
        PROVE  /\ worker'.turn < queue'[j] /\ queue'[j] <= made'
               /\ \A i \in DOMAIN queue' : i < j => queue'[i] < queue'[j]
               /\ \A o \in Calls : call'[o].turn < queue'[j]
    BY <2>2 DEF Granted, TurnsOK
  <2>3. worker'.grants => worker'.turn \in Scheduled BY DEF Granted, TurnsOK
  <2>4. worker'.turn # 0 => Cardinality(AutoOf(worker.turn)') <= worker'.uses
    BY <1>1 DEF Granted, TurnsOK
  <2> QED BY <2>1, <2>2, <2>3, <2>4 DEF TurnsOK, AutoOf
<1>3. \A t \in Turns : Cardinality(AutoOf(t)) <= IF t \in Scheduled THEN MaxUses ELSE 0
  BY DEF Granted, GrantsBounded, AutoOf
<1>4. \A t \in Turns : Cardinality(AutoOf(t)') <= IF t \in Scheduled THEN MaxUses ELSE 0
  BY <1>1, <1>3
<1>5. GrantsBounded' BY <1>4 DEF GrantsBounded, AutoOf
<1> QED BY <1>2, <1>5 DEF Granted

\* Nothing is asked and nothing decided.
LEMMA AskedSame ==
    ASSUME Asked, UNCHANGED call, Len(log) \in Nat,
           \/ log' = log
           \/ /\ Len(log') = Len(log) + 1 /\ \A k \in 1 .. Len(log) : log'[k] = log[k]
              /\ log'[Len(log) + 1].kind # "ask"
    PROVE  Asked'
<1>1. \A c \in Calls : Decided(call'[c]) BY DEF Asked
<1>2. CardsOK'
  <2>1. CardsOK BY DEF Asked
  <2>2. \A k \in 1 .. Len(log) : log'[k] = log[k] OBVIOUS
  <2>3. \A o \in Calls : Len(log') = Len(log) + 1 /\ log'[Len(log')] = [kind |-> "ask", call |-> o]
          => call'[o].st = "pending"
    <3>1. CASE log' = log BY <3>1
    <3>2. CASE Len(log') = Len(log) + 1 /\ log'[Len(log) + 1].kind # "ask" BY <3>2
    <3> QED BY <3>1, <3>2
  <2> QED BY <2>1, <2>2, <2>3, CardsStep
<1> QED BY <1>1, <1>2 DEF Asked

LEMMA RoomSame ==
    ASSUME TypeOK, RoomLeft, Open' = Open, \/ Len(log') = Len(log)
                                           \/ Len(log') = Len(log) + 1 /\ Room(1)
    PROVE  RoomLeft'
<1>1. Open \in SUBSET Calls BY DEF Open
<1>2. Cardinality(Open) \in Nat /\ Len(log) \in Nat BY <1>1, OpenFinite DEF TypeOK
<1> QED BY <1>2, BoundsAssumption DEF RoomLeft, Room

\* What Room says.
LEMMA RoomFor ==
    ASSUME TypeOK, NEW n \in Nat, Room(n)
    PROVE  Len(log) + n <= MaxLog
<1>1. Open \in SUBSET Calls BY DEF Open
<1>2. Cardinality(Open) \in Nat /\ Len(log) \in Nat BY <1>1, OpenFinite DEF TypeOK
<1> QED BY <1>2, BoundsAssumption DEF Room

-----------------------------------------------------------------------------
(* The steps.                                                              *)

LEMMA SubmitStep == ASSUME IInv, Submit PROVE IInv'
<1>1. TypeS /\ TypeT /\ Streamed /\ Awake /\ Asked /\ Granted /\ RoomLeft /\ TypeOK
  BY Types DEF IInv, Submit
<1>2. /\ UNCHANGED <<log, seq, ring, saved, life, worker, call, tab, crashes>>
      /\ made < MaxTurns /\ made' = made + 1 /\ queue' = Append(queue, made + 1)
  BY DEF Submit
<1>3. TypeS' /\ Streamed' BY <1>1, <1>2, StreamsSame
<1>4. made \in Nat /\ MaxTurns \in Nat /\ made + 1 \in Turns /\ made' \in 0 .. MaxTurns
  BY <1>1, <1>2, BoundsAssumption DEF TypeT, Turns
<1>5. queue \in Seq(Turns) /\ queue' \in Seq(Turns) BY <1>1, <1>2, <1>4 DEF TypeT
<1>6. TypeT' BY <1>1, <1>2, <1>4, <1>5 DEF TypeT
<1>7. Open' = Open BY <1>2 DEF Open
<1>8. RoomLeft' BY <1>1, <1>2, <1>7, RoomSame
<1>9. Asked' BY <1>1, <1>2, HeldItems, AskedSame
<1>10. Granted'
  <2>1. TurnsOK /\ GrantsBounded BY <1>1 DEF Granted
  <2>2. worker.turn \in Nat /\ \A c \in Calls : call[c].turn \in Nat
    BY <1>1, CallFields, BoundsAssumption DEF TypeT, Workers
  <2>3. DOMAIN queue = 1 .. Len(queue) /\ Len(queue) \in Nat /\ DOMAIN queue' = 1 .. Len(queue) + 1
        /\ queue'[Len(queue) + 1] = made + 1 /\ \A j \in 1 .. Len(queue) : queue'[j] = queue[j]
    BY <1>2, <1>4, <1>5
  <2>4. \A j \in DOMAIN queue : queue[j] \in Nat /\ queue[j] <= made
    <3>1. \A j \in DOMAIN queue : queue[j] \in Turns BY <1>5, <2>3
    <3> QED BY <1>4, <2>1, <3>1 DEF TurnsOK, Turns
  <2>5. ASSUME NEW j \in DOMAIN queue'
        PROVE  /\ worker'.turn < queue'[j] /\ queue'[j] <= made'
               /\ \A i \in DOMAIN queue' : i < j => queue'[i] < queue'[j]
               /\ \A c \in Calls : call'[c].turn < queue'[j]
    <3>1. CASE j = Len(queue) + 1
      <4>1. queue'[j] = made + 1 BY <2>3, <3>1
      <4>2. worker.turn <= made /\ \A c \in Calls : call[c].turn <= made BY <2>1 DEF TurnsOK
      <4>3. \A i \in DOMAIN queue' : i < j => queue'[i] < queue'[j]
        <5>1. ASSUME NEW i \in DOMAIN queue', i < j PROVE queue'[i] < queue'[j]
          <6>1. i \in DOMAIN queue /\ queue'[i] = queue[i] BY <2>3, <3>1, <5>1
          <6> QED BY <1>4, <2>4, <4>1, <6>1
        <5> QED BY <5>1
      <4> QED BY <1>2, <1>4, <2>2, <4>1, <4>2, <4>3
    <3>2. CASE j # Len(queue) + 1
      <4>1. j \in DOMAIN queue /\ queue'[j] = queue[j] BY <2>3, <3>2
      <4>2. /\ worker.turn < queue[j] /\ queue[j] <= made
            /\ \A i \in DOMAIN queue : i < j => queue[i] < queue[j]
            /\ \A c \in Calls : call[c].turn < queue[j]
        BY <2>1, <4>1 DEF TurnsOK
      <4>3. \A i \in DOMAIN queue' : i < j => i \in DOMAIN queue /\ queue'[i] = queue[i]
        BY <2>3, <4>1
      <4>4. queue'[j] <= made' BY <1>2, <1>4, <2>4, <4>1
      <4> QED BY <1>2, <4>1, <4>2, <4>3, <4>4
    <3> QED BY <3>1, <3>2
  <2>6. worker'.turn <= made' /\ \A c \in Calls : call'[c].turn <= made'
    <3>1. worker.turn <= made /\ \A c \in Calls : call[c].turn <= made BY <2>1 DEF TurnsOK
    <3> QED BY <1>2, <1>4, <2>2, <3>1
  <2>7. AutoOf(worker.turn)' = AutoOf(worker.turn) BY <1>2 DEF AutoOf
  <2>8. (worker'.grants => worker'.turn \in Scheduled)
        /\ (worker'.turn # 0 => Cardinality(AutoOf(worker.turn)') <= worker'.uses)
    BY <1>2, <2>1, <2>7 DEF TurnsOK
  <2>9. TurnsOK' BY <2>5, <2>6, <2>8 DEF TurnsOK, AutoOf
  <2>10. GrantsBounded' BY <1>2, <2>1 DEF GrantsBounded
  <2> QED BY <2>9, <2>10 DEF Granted
<1> QED BY <1>3, <1>6, <1>8, <1>9, <1>10, TypesNext DEF IInv

\* _publish by a turn, of something that is no question.
LEMMA TurnPublishes ==
    ASSUME IInv, Awake, Room(1), NEW kind \in Kinds \ {"ask"}, NEW c \in Calls \cup {NoCall}, Publish(kind, c),
           UNCHANGED <<life, crashes, call>>, saved' = saved \/ saved' = Snapshot(ring')
    PROVE  TypeS' /\ Streamed' /\ Asked' /\ RoomLeft'
<1>1. TypeS /\ TypeT /\ Streamed /\ Asked /\ Granted /\ RoomLeft /\ TypeOK BY Types DEF IInv
<1>2. Len(log) + 1 <= MaxLog BY <1>1, RoomFor
<1>3. kind \in Kinds OBVIOUS
<1>4. /\ TypeS' /\ Streamed' /\ Len(log') = Len(log) + 1
      /\ log'[Len(log) + 1] = [kind |-> kind, call |-> c]
      /\ \A k \in 1 .. Len(log) : log'[k] = log[k]
  BY <1>1, <1>2, <1>3, PublishStep
<1>5. log'[Len(log) + 1].kind # "ask" BY <1>4
<1>6. Asked' BY <1>1, <1>4, <1>5, HeldItems, AskedSame
<1>7. Open' = Open BY DEF Open
<1>8. RoomLeft' BY <1>1, <1>4, <1>7, RoomSame
<1> QED BY <1>4, <1>6, <1>8

LEMMA TakeTurnStep == ASSUME IInv, TakeTurn PROVE IInv'
<1>1. TypeS /\ TypeT /\ Streamed /\ Asked /\ Granted /\ RoomLeft /\ TypeOK BY Types DEF IInv
<1>2. /\ Awake /\ worker.turn = 0 /\ queue # <<>> /\ Room(1) /\ queue' = Tail(queue)
      /\ worker' = [turn |-> Head(queue), grants |-> Head(queue) \in Scheduled, uses |-> 0]
      /\ Publish("user", NoCall) /\ UNCHANGED <<saved, life, made, call, crashes>>
  BY DEF TakeTurn
<1>3. "user" \in Kinds \ {"ask"} BY DEF Kinds
<1>4. TypeS' /\ Streamed' /\ Asked' /\ RoomLeft' BY <1>2, <1>3, TurnPublishes
<1>5. queue \in Seq(Turns) BY <1>1 DEF TypeT
<1> DEFINE h == Head(queue)  r == Tail(queue)
<1>6. /\ h \in Turns /\ r \in Seq(Turns) /\ DOMAIN r = 1 .. Len(queue) - 1
      /\ DOMAIN queue = 1 .. Len(queue) /\ Len(queue) \in Nat \ {0} /\ h = queue[1]
      /\ \A j \in 1 .. Len(queue) - 1 : r[j] = queue[j + 1]
  BY <1>2, <1>5
<1>7. queue' = r /\ worker' = [turn |-> h, grants |-> h \in Scheduled, uses |-> 0] BY <1>2
<1> HIDE DEF h, r
<1>8. h \in Nat /\ h # 0 /\ h \in 0 .. MaxTurns /\ 0 \in 0 .. MaxUses
  BY <1>6, BoundsAssumption DEF Turns
<1>9. worker' \in Workers /\ worker'.turn = h /\ worker'.grants = (h \in Scheduled) /\ worker'.uses = 0
  BY <1>7, <1>8 DEF Workers
<1>10. TypeT' BY <1>1, <1>2, <1>6, <1>7, <1>9 DEF TypeT
<1>11. Granted'
  <2>1. TurnsOK /\ GrantsBounded BY <1>1 DEF Granted
  <2>2. 1 \in DOMAIN queue BY <1>6
  <2>3. \A j \in DOMAIN r : j + 1 \in DOMAIN queue /\ r[j] = queue[j + 1] /\ j + 1 > 1 /\ j \in Int
    BY <1>6
  <2>4. h <= made /\ \A c \in Calls : call[c].turn < h BY <1>6, <2>1, <2>2 DEF TurnsOK
  <2>5. ASSUME NEW j \in DOMAIN r
        PROVE  /\ h < r[j] /\ r[j] <= made
               /\ \A i \in DOMAIN r : i < j => r[i] < r[j]
               /\ \A c \in Calls : call[c].turn < r[j]
    <3>1. /\ queue[j + 1] <= made /\ \A c \in Calls : call[c].turn < queue[j + 1]
          /\ \A i \in DOMAIN queue : i < j + 1 => queue[i] < queue[j + 1]
      BY <2>1, <2>3 DEF TurnsOK
    <3>2. h < r[j] BY <1>6, <2>2, <2>3, <3>1
    <3>3. \A i \in DOMAIN r : i < j => r[i] < r[j] BY <2>3, <3>1
    <3> QED BY <2>3, <3>1, <3>2, <3>3
  <2>6. {c \in Calls : call'[c].turn = h /\ call'[c].out = "auto"} = {}
    <3>1. \A c \in Calls : call'[c].turn # h BY <1>1, <1>2, <1>8, <2>4, CallFields
    <3> QED BY <3>1
  <2>7. Cardinality({c \in Calls : call'[c].turn = worker'.turn /\ call'[c].out = "auto"}) <= worker'.uses
    BY <1>9, <2>6, FS_EmptySet
  <2>8. \A c \in Calls : call'[c].turn <= made' BY <1>2, <2>1 DEF TurnsOK
  <2>9. worker'.turn <= made' /\ (worker'.grants => worker'.turn \in Scheduled) BY <1>2, <1>9, <2>4
  <2>10. \A j \in DOMAIN queue' :
           /\ worker'.turn < queue'[j] /\ queue'[j] <= made'
           /\ \A i \in DOMAIN queue' : i < j => queue'[i] < queue'[j]
           /\ \A c \in Calls : call'[c].turn < queue'[j]
    BY <1>2, <1>7, <1>9, <2>5
  <2>11. TurnsOK' BY <2>7, <2>8, <2>9, <2>10 DEF TurnsOK, AutoOf
  <2>12. GrantsBounded' BY <1>2, <2>1 DEF GrantsBounded
  <2> QED BY <2>11, <2>12 DEF Granted
<1> QED BY <1>4, <1>10, <1>11, TypesNext DEF IInv

LEMMA SayStep == ASSUME IInv, Say PROVE IInv'
<1>1. TypeT /\ Granted BY Types DEF IInv
<1>2. /\ Awake /\ Room(1) /\ Publish("say", NoCall)
      /\ UNCHANGED <<saved, life, made, queue, worker, call, crashes>>
  BY DEF Say
<1>3. "say" \in Kinds \ {"ask"} BY DEF Kinds
<1>4. TypeS' /\ Streamed' /\ Asked' /\ RoomLeft' BY <1>2, <1>3, TurnPublishes
<1>5. TypeT' BY <1>1, <1>2 DEF TypeT
<1>6. Granted' BY <1>1, <1>2, GrantsSame
<1> QED BY <1>4, <1>5, <1>6, TypesNext DEF IInv

LEMMA RestingIs == Resting \in Workers /\ Resting.turn = 0 /\ Resting.grants = FALSE
BY BoundsAssumption DEF Resting, Workers

\* Whoever rests has no grant.
LEMMA RestStep ==
    ASSUME TypeT, Granted, worker' = Resting, UNCHANGED made, queue' = queue \/ queue' = <<>>,
           \A o \in Calls : call'[o].turn = call[o].turn /\ call'[o].out = call[o].out
    PROVE  Granted'
<1>1. TurnsOK /\ GrantsBounded BY DEF Granted
<1>2. worker'.turn = 0 /\ worker'.grants = FALSE BY RestingIs
<1>3. made \in Nat /\ queue \in Seq(Turns) BY BoundsAssumption DEF TypeT
<1>4. \A j \in DOMAIN queue : 0 < queue[j]
  <2>1. \A j \in DOMAIN queue : queue[j] \in Turns BY <1>3
  <2> QED BY <2>1, BoundsAssumption DEF Turns
<1>5. \A o \in Calls : call'[o].turn <= made' BY <1>1 DEF TurnsOK
<1>6. \A j \in DOMAIN queue :
        /\ worker'.turn < queue[j] /\ queue[j] <= made'
        /\ \A i \in DOMAIN queue : i < j => queue[i] < queue[j]
        /\ \A c \in Calls : call'[c].turn < queue[j]
  BY <1>1, <1>2, <1>4 DEF TurnsOK
<1>7. \A j \in DOMAIN queue' :
        /\ worker'.turn < queue'[j] /\ queue'[j] <= made'
        /\ \A i \in DOMAIN queue' : i < j => queue'[i] < queue'[j]
        /\ \A c \in Calls : call'[c].turn < queue'[j]
  <2>1. CASE queue' = queue BY <1>6, <2>1
  <2>2. CASE queue' = <<>> BY <2>2
  <2> QED BY <2>1, <2>2
<1>8. worker'.turn <= made' BY <1>2, <1>3
<1>9. TurnsOK' BY <1>2, <1>5, <1>7, <1>8 DEF TurnsOK
<1>10. GrantsBounded'
  <2>1. ASSUME NEW t \in Turns
        PROVE  Cardinality({c \in Calls : call'[c].turn = t /\ call'[c].out = "auto"})
                 <= IF t \in Scheduled THEN MaxUses ELSE 0
    <3>1. {c \in Calls : call'[c].turn = t /\ call'[c].out = "auto"}
            = {c \in Calls : call[c].turn = t /\ call[c].out = "auto"}
      OBVIOUS
    <3> QED BY <1>1, <3>1 DEF GrantsBounded
  <2> QED BY <2>1 DEF GrantsBounded
<1> QED BY <1>9, <1>10 DEF Granted

LEMMA EndTurnStep == ASSUME IInv, EndTurn PROVE IInv'
<1>1. TypeT /\ Granted BY Types DEF IInv
<1>2. /\ Awake /\ Room(1) /\ Publish("end", NoCall) /\ worker' = Resting /\ saved' = Snapshot(ring')
      /\ UNCHANGED <<life, made, queue, call, crashes>>
  BY DEF EndTurn
<1>3. "end" \in Kinds \ {"ask"} BY DEF Kinds
<1>4. TypeS' /\ Streamed' /\ Asked' /\ RoomLeft' BY <1>2, <1>3, TurnPublishes
<1>5. TypeT' BY <1>1, <1>2, RestingIs DEF TypeT
<1>6. Granted' BY <1>1, <1>2, RestStep
<1> QED BY <1>4, <1>5, <1>6, TypesNext DEF IInv

\* One approval changes.
LEMMA OneCall ==
    ASSUME TypeT, NEW c \in Calls, NEW a \in Approvals, call' = [call EXCEPT ![c] = a],
           UNCHANGED <<made, queue>>, worker' \in Workers
    PROVE  /\ TypeT' /\ \A o \in Calls : call'[o] = IF o = c THEN a ELSE call[o]
<1>1. call' \in [Calls -> Approvals] /\ \A o \in Calls : call'[o] = IF o = c THEN a ELSE call[o] BY DEF TypeT
<1> QED BY <1>1 DEF TypeT

LEMMA AllowedStep ==
    ASSUME IInv, NEW c \in Calls, AllowedByGrant(c) PROVE IInv'
<1>1. TypeS /\ TypeT /\ Streamed /\ Asked /\ Granted /\ RoomLeft /\ TypeOK BY Types DEF IInv
<1> DEFINE a == [call[c] EXCEPT !.st = "over", !.turn = worker.turn, !.out = "auto"]
<1>2. /\ Awake /\ worker.turn # 0 /\ call[c].st = "none" /\ Room(1) /\ worker.grants
      /\ worker.uses < MaxUses /\ worker' = [worker EXCEPT !.uses = @ + 1] /\ Publish("auto", c)
      /\ call' = [call EXCEPT ![c] = a] /\ UNCHANGED <<saved, life, made, queue, crashes>>
  BY DEF AllowedByGrant, Asks
<1>3. worker \in Workers /\ worker.turn \in 0 .. MaxTurns /\ worker.uses \in Nat /\ MaxUses \in Nat
  BY <1>1, BoundsAssumption DEF TypeT, Workers
<1>4. /\ worker' \in Workers /\ worker'.turn = worker.turn /\ worker'.grants = worker.grants
      /\ worker'.uses = worker.uses + 1
  <2>1. worker.uses + 1 \in 0 .. MaxUses BY <1>2, <1>3
  <2> QED BY <1>2, <1>3, <2>1 DEF Workers
<1>5. a \in Approvals /\ a.st = "over" /\ a.turn = worker.turn /\ a.out = "auto"
  <2>1. call[c] \in Approvals BY <1>1, CallFields
  <2> QED BY <1>3, <2>1 DEF Approvals
<1> HIDE DEF a
<1>6. TypeT' /\ \A o \in Calls : call'[o] = IF o = c THEN a ELSE call[o] BY <1>1, <1>2, <1>4, <1>5, OneCall
<1>7. "auto" \in Kinds /\ Len(log) + 1 <= MaxLog BY <1>1, <1>2, RoomFor DEF Kinds
<1>8. /\ TypeS' /\ Streamed' /\ Len(log') = Len(log) + 1
      /\ log'[Len(log) + 1] = [kind |-> "auto", call |-> c]
      /\ \A k \in 1 .. Len(log) : log'[k] = log[k]
  BY <1>1, <1>2, <1>7, PublishStep
<1>9. Asked'
  <2>1. \A o \in Calls : Decided(call'[o]) BY <1>1, <1>5, <1>6 DEF Asked, Decided
  <2>2. CardsOK /\ Len(log) \in Nat BY <1>1, HeldItems DEF Asked
  <2>3. \A o \in Calls : call[o].st # "none" => call'[o].st # "none" BY <1>2, <1>6
  <2>4. \A o \in Calls : call'[o].st = "over" => call[o].st \in {"over", "none"} BY <1>2, <1>6
  <2>5. \A o \in Calls : log'[Len(log')] # [kind |-> "ask", call |-> o] BY <1>8
  <2>6. CardsOK' BY <1>8, <2>2, <2>3, <2>4, <2>5, CardsStep
  <2> QED BY <2>1, <2>6 DEF Asked
<1>10. RoomLeft'
  <2>1. Open' = Open BY <1>2, <1>5, <1>6 DEF Open
  <2> QED BY <1>1, <1>2, <1>8, <2>1, RoomSame
<1>11. Granted'
  <2> DEFINE now(t) == {o \in Calls : call'[o].turn = t /\ call'[o].out = "auto"}
  <2>1. TurnsOK /\ GrantsBounded BY <1>1 DEF Granted
  <2>2. call[c].out = "none" BY <1>1, <1>2 DEF Asked, Decided
  <2>3. now(worker.turn) = AutoOf(worker.turn) \cup {c} /\ c \notin AutoOf(worker.turn)
    BY <1>5, <1>6, <2>2 DEF AutoOf
  <2>4. \A t : t # worker.turn => now(t) = AutoOf(t) BY <1>5, <1>6, <2>2 DEF AutoOf
  <2>5. /\ IsFiniteSet(AutoOf(worker.turn)) /\ Cardinality(AutoOf(worker.turn)) \in Nat
        /\ Cardinality(AutoOf(worker.turn)) <= worker.uses
    <3>1. AutoOf(worker.turn) \in SUBSET Calls BY DEF AutoOf
    <3> QED BY <1>2, <2>1, <3>1, OpenFinite DEF TurnsOK
  <2>6. Cardinality(now(worker.turn)) = Cardinality(AutoOf(worker.turn)) + 1
    BY <2>3, <2>5, FS_AddElement
  <2> HIDE DEF now
  <2>7. Cardinality(now(worker.turn)) <= worker.uses + 1 /\ Cardinality(now(worker.turn)) <= MaxUses
    BY <1>2, <1>3, <2>5, <2>6
  <2>8. worker.turn \in Scheduled BY <1>2, <2>1 DEF TurnsOK
  <2>9. ASSUME NEW t \in Turns PROVE Cardinality(now(t)) <= IF t \in Scheduled THEN MaxUses ELSE 0
    <3>1. CASE t = worker.turn BY <2>7, <2>8, <3>1
    <3>2. CASE t # worker.turn
      <4>1. Cardinality(AutoOf(t)) <= IF t \in Scheduled THEN MaxUses ELSE 0
        BY <2>1 DEF GrantsBounded, AutoOf
      <4> QED BY <2>4, <3>2, <4>1
    <3> QED BY <3>1, <3>2
  <2>10. GrantsBounded' BY <2>9 DEF GrantsBounded, now
  <2>11. \A o \in Calls : call'[o].turn = call[o].turn \/ call'[o].turn = worker.turn BY <1>5, <1>6
  <2>12. TurnsOK'
    <3>1. worker'.turn <= made' /\ \A o \in Calls : call'[o].turn <= made' BY <1>2, <1>4, <2>1, <2>11 DEF TurnsOK
    <3>2. ASSUME NEW j \in DOMAIN queue'
          PROVE  /\ worker'.turn < queue'[j] /\ queue'[j] <= made'
                 /\ \A i \in DOMAIN queue' : i < j => queue'[i] < queue'[j]
                 /\ \A o \in Calls : call'[o].turn < queue'[j]
      BY <1>2, <1>4, <2>1, <2>11 DEF TurnsOK
    <3>3. worker'.grants => worker'.turn \in Scheduled BY <1>4, <2>8
    <3>4. Cardinality(now(worker'.turn)) <= worker'.uses BY <1>4, <2>7
    <3> QED BY <3>1, <3>2, <3>3, <3>4 DEF TurnsOK, AutoOf, now
  <2> QED BY <2>10, <2>12 DEF Granted
<1> QED BY <1>6, <1>8, <1>9, <1>10, <1>11, TypesNext DEF IInv

LEMMA AskStep ==
    ASSUME IInv, NEW c \in Calls, Ask(c) PROVE IInv'
<1>1. TypeS /\ TypeT /\ Streamed /\ Asked /\ Granted /\ RoomLeft /\ TypeOK BY Types DEF IInv
<1> DEFINE a == [call[c] EXCEPT !.st = "pending", !.turn = worker.turn]
<1>2. /\ Awake /\ worker.turn # 0 /\ call[c].st = "none" /\ Room(2) /\ Publish("ask", c)
      /\ call' = [call EXCEPT ![c] = a] /\ UNCHANGED <<saved, life, made, queue, worker, crashes>>
  BY DEF Ask, Asks
<1>3. worker \in Workers /\ worker' \in Workers /\ worker.turn \in 0 .. MaxTurns
  BY <1>1, <1>2 DEF TypeT, Workers
<1>4. /\ a \in Approvals /\ a.st = "pending" /\ a.turn = worker.turn /\ a.out = call[c].out
      /\ a.said = call[c].said
  <2>1. call[c] \in Approvals BY <1>1, CallFields
  <2> QED BY <1>3, <2>1 DEF Approvals
<1> HIDE DEF a
<1>5. TypeT' /\ \A o \in Calls : call'[o] = IF o = c THEN a ELSE call[o] BY <1>1, <1>2, <1>3, <1>4, OneCall
<1>6. "ask" \in Kinds /\ Len(log) \in Nat /\ Len(log) + 1 <= MaxLog
  <2>1. Len(log) + 2 <= MaxLog /\ Len(log) \in Nat BY <1>1, <1>2, RoomFor, HeldItems
  <2> QED BY <2>1, BoundsAssumption DEF Kinds
<1>7. /\ TypeS' /\ Streamed' /\ Len(log') = Len(log) + 1
      /\ log'[Len(log) + 1] = [kind |-> "ask", call |-> c]
      /\ \A k \in 1 .. Len(log) : log'[k] = log[k]
  BY <1>1, <1>2, <1>6, PublishStep
<1>8. call[c].said = "nothing" /\ call[c].out = "none" BY <1>1, <1>2 DEF Asked, Decided
<1>9. Asked'
  <2>1. \A o \in Calls : Decided(call'[o]) BY <1>1, <1>4, <1>5, <1>8 DEF Asked, Decided
  <2>2. CardsOK BY <1>1 DEF Asked
  <2>3. \A o \in Calls : call[o].st # "none" => call'[o].st # "none" BY <1>2, <1>5
  <2>4. \A o \in Calls : call'[o].st = "over" => call[o].st \in {"over", "none"} BY <1>4, <1>5
  <2>5. ASSUME NEW o \in Calls, log'[Len(log')] = [kind |-> "ask", call |-> o]
        PROVE  call'[o].st = "pending"
    <3>1. o = c BY <1>7, <2>5
    <3> QED BY <1>4, <1>5, <3>1
  <2>6. CardsOK' BY <1>6, <1>7, <2>2, <2>3, <2>4, <2>5, CardsStep
  <2> QED BY <2>1, <2>6 DEF Asked
<1>10. RoomLeft'
  <2>1. Open' = Open \cup {c} /\ c \notin Open /\ Open \in SUBSET Calls BY <1>2, <1>4, <1>5 DEF Open
  <2>2. Cardinality(Open') = Cardinality(Open) + 1 BY <2>1, OpenFinite, FS_AddElement
  <2>3. Cardinality(Open) \in Nat BY <2>1, OpenFinite
  <2> QED BY <1>2, <1>6, <1>7, <2>2, <2>3, BoundsAssumption DEF RoomLeft, Room
<1>11. \A o \in Calls :
         /\ call'[o].turn = call[o].turn \/ call'[o].turn = worker.turn
         /\ call'[o].out = "auto" <=> call[o].out = "auto"
         /\ call[o].out = "auto" => call'[o].turn = call[o].turn
  BY <1>4, <1>5, <1>8
<1>12. Granted' BY <1>1, <1>2, <1>11, GrantsSame
<1> QED BY <1>5, <1>7, <1>9, <1>10, <1>12, TypesNext DEF IInv

\* A decision, by a user or by the clock, publishes nothing.
LEMMA DecideStep ==
    ASSUME IInv, Awake, NEW c \in Calls, call[c].st \in {"pending", "answered"},
           NEW a \in Approvals, a.turn = call[c].turn, a.out \in {"allow", "deny"},
           a.st \in {"answered", "expired"}, Decided(a), call' = [call EXCEPT ![c] = a],
           UNCHANGED <<log, seq, ring, saved, life, made, queue, worker, tab, crashes>>
    PROVE  IInv'
<1>1. TypeS /\ TypeT /\ Streamed /\ Asked /\ Granted /\ RoomLeft /\ TypeOK BY Types DEF IInv
<1>2. worker' \in Workers BY <1>1 DEF TypeT
<1>3. TypeT' /\ \A o \in Calls : call'[o] = IF o = c THEN a ELSE call[o] BY <1>1, <1>2, OneCall
<1>4. TypeS' /\ Streamed' BY <1>1, StreamsSame
<1>5. Asked'
  <2>1. \A o \in Calls : Decided(call'[o]) BY <1>1, <1>3 DEF Asked
  <2>2. CardsOK /\ Len(log) \in Nat BY <1>1, HeldItems DEF Asked
  <2>3. \A o \in Calls : call[o].st # "none" => call'[o].st # "none" BY <1>3
  <2>4. \A o \in Calls : call'[o].st = "over" => call[o].st \in {"over", "none"} BY <1>3
  <2>5. Len(log') # Len(log) + 1 BY <2>2
  <2>6. CardsOK' BY <2>2, <2>3, <2>4, <2>5, CardsStep
  <2> QED BY <2>1, <2>6 DEF Asked
<1>6. Open' = Open BY <1>3 DEF Open
<1>7. RoomLeft' BY <1>1, <1>6, RoomSame
<1>8. call[c].out # "auto"
  <2>1. Decided(call[c]) /\ call[c].said \in {"nothing", "allow", "deny"} BY <1>1, CallFields DEF Asked
  <2> QED BY <2>1 DEF Decided
<1>9. \A o \in Calls :
        /\ call'[o].turn = call[o].turn \/ call'[o].turn = worker.turn
        /\ call'[o].out = "auto" <=> call[o].out = "auto"
        /\ call[o].out = "auto" => call'[o].turn = call[o].turn
  BY <1>3, <1>8
<1>10. Granted' BY <1>1, <1>9, GrantsSame
<1> QED BY <1>3, <1>4, <1>5, <1>7, <1>10, TypesNext DEF IInv

LEMMA AnswerStep ==
    ASSUME IInv, NEW c \in Calls, NEW d \in {"allow", "deny"}, Answer(c, d) PROVE IInv'
<1> DEFINE a == [call[c] EXCEPT !.st = "answered", !.out = d, !.said = d]
<1>1. /\ Awake /\ call[c].st = "pending" /\ call' = [call EXCEPT ![c] = a]
      /\ UNCHANGED <<log, seq, ring, saved, life, made, queue, worker, tab, crashes>>
  BY DEF Answer
<1>2. call[c] \in Approvals BY Types, CallFields DEF IInv
<1>3. a \in Approvals /\ a.turn = call[c].turn /\ a.out = d /\ a.said = d /\ a.st = "answered"
  BY <1>2 DEF Approvals
<1> HIDE DEF a
<1>4. Decided(a) BY <1>3 DEF Decided
<1> QED BY <1>1, <1>3, <1>4, DecideStep

LEMMA ExpireStep ==
    ASSUME IInv, NEW c \in Calls, Expire(c) PROVE IInv'
<1> DEFINE a == [call[c] EXCEPT !.st = "expired", !.out = "deny"]
<1>1. /\ Awake /\ call[c].st \in {"pending", "answered"} /\ call' = [call EXCEPT ![c] = a]
      /\ UNCHANGED <<log, seq, ring, saved, life, made, queue, worker, tab, crashes>>
  BY DEF Expire
<1>2. call[c] \in Approvals BY Types, CallFields DEF IInv
<1>3. a \in Approvals /\ a.turn = call[c].turn /\ a.out = "deny" /\ a.st = "expired"
  BY <1>2 DEF Approvals
<1> HIDE DEF a
<1>4. Decided(a) BY <1>3 DEF Decided
<1> QED BY <1>1, <1>3, <1>4, DecideStep

LEMMA SettleStep ==
    ASSUME IInv, NEW c \in Calls, Settle(c) PROVE IInv'
<1>1. TypeS /\ TypeT /\ Streamed /\ Asked /\ Granted /\ RoomLeft /\ TypeOK BY Types DEF IInv
<1> DEFINE a == [call[c] EXCEPT !.st = "over"]
<1>2. /\ Awake /\ call[c].st \in {"answered", "expired"} /\ Publish("settled", c)
      /\ call' = [call EXCEPT ![c] = a] /\ UNCHANGED <<saved, life, made, queue, worker, crashes>>
  BY DEF Settle
<1>3. worker' \in Workers BY <1>1, <1>2 DEF TypeT
<1>4. /\ a \in Approvals /\ a.st = "over" /\ a.turn = call[c].turn /\ a.out = call[c].out
      /\ a.said = call[c].said
  <2>1. call[c] \in Approvals BY <1>1, CallFields
  <2> QED BY <2>1 DEF Approvals
<1> HIDE DEF a
<1>5. TypeT' /\ \A o \in Calls : call'[o] = IF o = c THEN a ELSE call[o] BY <1>1, <1>2, <1>3, <1>4, OneCall
<1>6. /\ Open' = Open \ {c} /\ c \in Open /\ Open \in SUBSET Calls
  BY <1>2, <1>4, <1>5 DEF Open
<1>7. Cardinality(Open') = Cardinality(Open) - 1 /\ Cardinality(Open) \in Nat /\ Cardinality(Open') \in Nat
  <2>1. Open' \in SUBSET Calls BY <1>6
  <2> QED BY <1>6, <2>1, OpenFinite, FS_RemoveElement
<1>8. Len(log) \in Nat /\ Len(log) + Cardinality(Open) <= MaxLog /\ MaxLog \in Nat
  BY <1>1, HeldItems, BoundsAssumption DEF RoomLeft
<1>9. "settled" \in Kinds /\ Len(log) + 1 <= MaxLog BY <1>7, <1>8 DEF Kinds
<1>10. /\ TypeS' /\ Streamed' /\ Len(log') = Len(log) + 1
       /\ log'[Len(log) + 1] = [kind |-> "settled", call |-> c]
       /\ \A k \in 1 .. Len(log) : log'[k] = log[k]
  BY <1>1, <1>2, <1>9, PublishStep
<1>11. RoomLeft' BY <1>7, <1>8, <1>10 DEF RoomLeft
<1>12. Decided(call[c]) BY <1>1 DEF Asked
<1>13. Asked'
  <2>1. Decided(a)
    <3>1. a.out \in {a.said, "deny", "auto"} BY <1>2, <1>4, <1>12 DEF Decided
    <3> QED BY <1>4, <3>1 DEF Decided
  <2>2. \A o \in Calls : Decided(call'[o]) BY <1>1, <1>5, <2>1 DEF Asked
  <2>3. CardsOK BY <1>1 DEF Asked
  <2>4. \A o \in Calls : call[o].st # "none" => call'[o].st # "none" BY <1>4, <1>5
  <2>5. \A o \in Calls : call'[o].st = "over" =>
          \/ call[o].st \in {"over", "none"}
          \/ Len(log') = Len(log) + 1 /\ log'[Len(log')] = [kind |-> "settled", call |-> o]
    BY <1>5, <1>10
  <2>6. \A o \in Calls : log'[Len(log')] # [kind |-> "ask", call |-> o] BY <1>10
  <2>7. CardsOK' BY <1>8, <1>10, <2>3, <2>4, <2>5, <2>6, CardsStep
  <2> QED BY <2>2, <2>7 DEF Asked
<1>14. \A o \in Calls :
         /\ call'[o].turn = call[o].turn \/ call'[o].turn = worker.turn
         /\ call'[o].out = "auto" <=> call[o].out = "auto"
         /\ call[o].out = "auto" => call'[o].turn = call[o].turn
  BY <1>4, <1>5
<1>15. Granted' BY <1>1, <1>2, <1>14, GrantsSame
<1> QED BY <1>5, <1>10, <1>11, <1>13, <1>15, TypesNext DEF IInv

\* What goes with the object: its turns, and the approvals that were open.
LEMMA GoneStep ==
    ASSUME IInv, Goes, TypeS', Streamed' PROVE IInv'
<1>1. TypeT /\ Asked /\ Granted /\ RoomLeft /\ TypeS BY Types DEF IInv
<1>2. /\ queue' = <<>> /\ worker' = Resting /\ UNCHANGED <<log, made>>
      /\ call' = [c \in Calls |-> IF c \in Open THEN [call[c] EXCEPT !.st = "gone"] ELSE call[c]]
  BY DEF Goes
<1>3. ASSUME NEW o \in Calls
      PROVE  /\ call'[o] \in Approvals /\ call'[o].turn = call[o].turn /\ call'[o].out = call[o].out
             /\ call'[o].st = (IF o \in Open THEN "gone" ELSE call[o].st)
             /\ Decided(call'[o])
  <2>1. call[o] \in Approvals /\ Decided(call[o]) BY <1>1, CallFields DEF Asked
  <2>2. CASE o \in Open
    <3> DEFINE a == [call[o] EXCEPT !.st = "gone"]
    <3>1. a \in Approvals /\ a.turn = call[o].turn /\ a.out = call[o].out /\ a.st = "gone"
      BY <2>1 DEF Approvals
    <3>2. call'[o] = a BY <1>2, <2>2
    <3> HIDE DEF a
    <3>3. Decided(a) BY <3>1 DEF Decided
    <3> QED BY <2>2, <3>1, <3>2, <3>3
  <2>3. CASE o \notin Open
    <3>1. call'[o] = call[o] BY <1>2, <2>3
    <3> QED BY <2>1, <2>3, <3>1
  <2> QED BY <2>2, <2>3
<1>4. TypeT'
  <2>1. call' \in [Calls -> Approvals] BY <1>2, <1>3
  <2>2. <<>> \in Seq(Turns) OBVIOUS
  <2> QED BY <1>1, <1>2, <2>1, <2>2, RestingIs DEF TypeT
<1>5. Open' = {} BY <1>3 DEF Open
<1>6. Len(log) \in Nat /\ Len(log) <= MaxLog BY <1>1, HeldItems DEF TypeS
<1>7. RoomLeft' BY <1>2, <1>5, <1>6, FS_EmptySet, BoundsAssumption DEF RoomLeft
<1>8. Asked'
  <2>1. CardsOK BY <1>1 DEF Asked
  <2>2. \A o \in Calls : call[o].st # "none" => call'[o].st # "none" BY <1>3
  <2>3. \A o \in Calls : call'[o].st = "over" => call[o].st \in {"over", "none"} BY <1>3
  <2>4. Len(log') # Len(log) + 1 /\ Len(log') = Len(log) /\ \A k \in 1 .. Len(log) : log'[k] = log[k]
    BY <1>2, <1>6
  <2>5. CardsOK' BY <1>6, <2>1, <2>2, <2>3, <2>4, CardsStep
  <2> QED BY <1>3, <2>5 DEF Asked
<1>9. Granted' BY <1>1, <1>2, <1>3, RestStep
<1> QED BY <1>4, <1>7, <1>8, <1>9, TypesNext DEF IInv

\* A step of the streams that leaves the turns and the approvals alone.
LEMMA RestSame ==
    ASSUME IInv, UNCHANGED <<log, made, queue, worker, call>>, TypeS', Streamed' PROVE IInv'
<1>1. TypeT /\ Asked /\ Granted /\ RoomLeft /\ TypeS /\ TypeOK BY Types DEF IInv
<1>2. TypeT' BY <1>1 DEF TypeT
<1>3. Asked' BY <1>1, HeldItems, AskedSame
<1>4. Granted' BY <1>1, GrantsSame
<1>5. Open' = Open BY DEF Open
<1>6. RoomLeft' BY <1>1, <1>5, RoomSame
<1> QED BY <1>2, <1>3, <1>4, <1>6, TypesNext DEF IInv

LEMMA InitInvariant == Init => IInv
<1> SUFFICES ASSUME Init PROVE IInv OBVIOUS
<1>1. /\ log = <<>> /\ seq = 0 /\ ring = <<>> /\ saved = NoRecord /\ life = "awake"
      /\ made = 0 /\ queue = <<>> /\ worker = Resting /\ call = [c \in Calls |-> Unasked]
      /\ tab = [b \in Tabs |-> NewTab] /\ crashes = 0
  BY DEF Init
<1>2. saved.events = <<>> /\ saved \in [kept : BOOLEAN, events : Seq(Items)] BY <1>1, NoEvents DEF NoRecord
<1>3. Held = {} /\ Awake /\ Current = <<>> BY <1>1, <1>2, NoEvents DEF Held, Awake, Current
<1>4. /\ NewTab \in Browsers /\ Len(NewTab.queue) <= QueueMax
      /\ TabOK(NewTab, Held, 0) /\ CleanTab(NewTab, <<>>, 0)
  BY NoEvents, TabNew
<1>5. TypeS
  <2>1. tab \in [Tabs -> Browsers] /\ \A b \in Tabs : Len(tab[b].queue) <= QueueMax BY <1>1, <1>4
  <2>2. /\ 0 \in 0 .. MaxLog /\ 0 \in 0 .. MaxCrashes /\ 0 <= MaxLog /\ 0 <= RingMax /\ 0 <= Persist
    BY BoundsAssumption
  <2>3. log \in Seq(Events) BY <1>1
  <2> QED BY <1>1, <1>2, <2>1, <2>2, <2>3, NoEvents DEF TypeS
<1>6. Unasked \in Approvals /\ Unasked.st = "none" /\ Unasked.turn = 0 /\ Unasked.out = "none"
      /\ Unasked.said = "nothing"
  <2>1. 0 \in 0 .. MaxTurns BY BoundsAssumption
  <2> QED BY <2>1 DEF Unasked, Approvals
<1>7. \A c \in Calls : call[c] = Unasked BY <1>1
<1>8. TypeT
  <2>1. 0 \in 0 .. MaxTurns BY BoundsAssumption
  <2>2. call \in [Calls -> Approvals] BY <1>1, <1>6
  <2>3. queue \in Seq(Turns) BY <1>1
  <2> QED BY <1>1, <2>1, <2>2, <2>3, RestingIs DEF TypeT
<1>9. StoreOK BY <1>1, <1>2, <1>3, NoEvents DEF StoreOK, Rising, Numbered
<1>10. \A b \in Tabs : TabOK(tab[b], Held, Len(log)) BY <1>1, <1>4, NoEvents
<1>11. Clean
  <2>1. CleanStore(Current, Held, Len(log), seq, Awake) BY <1>1, <1>3, NoEvents DEF CleanStore, Tailed
  <2>2. \A b \in Tabs : CleanTab(tab[b], Current, Len(log)) BY <1>1, <1>3, <1>4, NoEvents
  <2> QED BY <2>1, <2>2 DEF Clean
<1>12. Open = {} BY <1>6, <1>7 DEF Open
<1>13. RoomLeft BY <1>1, <1>12, NoEvents, FS_EmptySet, BoundsAssumption DEF RoomLeft
<1>14. Asked
  <2>1. \A c \in Calls : Decided(call[c]) BY <1>6, <1>7 DEF Decided
  <2>2. CardsOK BY <1>1, NoEvents DEF CardsOK
  <2> QED BY <2>1, <2>2 DEF Asked
<1>15. Granted
  <2>1. TurnsOK BY <1>1, <1>6, <1>7, RestingIs DEF TurnsOK
  <2>2. ASSUME NEW t \in Turns
        PROVE  Cardinality({c \in Calls : call[c].turn = t /\ call[c].out = "auto"})
                 <= IF t \in Scheduled THEN MaxUses ELSE 0
    <3>1. {c \in Calls : call[c].turn = t /\ call[c].out = "auto"} = {} BY <1>6, <1>7
    <3>2. Cardinality({c \in Calls : call[c].turn = t /\ call[c].out = "auto"}) = 0 BY <3>1, FS_EmptySet
    <3> QED BY <3>2, BoundsAssumption
  <2>3. GrantsBounded BY <2>2 DEF GrantsBounded
  <2> QED BY <2>1, <2>3 DEF Granted
<1> QED BY <1>5, <1>8, <1>9, <1>10, <1>11, <1>13, <1>14, <1>15, Types DEF IInv, Streamed

LEMMA NextInvariant == IInv /\ [Next]_vars => IInv'
<1> SUFFICES ASSUME IInv, [Next]_vars PROVE IInv' OBVIOUS
<1>1. TypeS /\ Streamed /\ TypeOK BY Types DEF IInv
<1>2. CASE Submit BY <1>2, SubmitStep
<1>3. CASE TakeTurn BY <1>3, TakeTurnStep
<1>4. CASE Say BY <1>4, SayStep
<1>5. CASE EndTurn BY <1>5, EndTurnStep
<1>6. CASE Sleep
  <2>1. Goes BY <1>6 DEF Sleep
  <2> QED BY <1>1, <1>6, <2>1, SleepStep, GoneStep
<1>7. CASE Wake
  <2>1. UNCHANGED <<log, made, queue, worker, call>> BY <1>7 DEF Wake
  <2> QED BY <1>1, <1>7, <2>1, WakeStep, RestSame
<1>8. CASE Crash
  <2>1. Goes BY <1>8 DEF Crash
  <2> QED BY <1>1, <1>8, <2>1, CrashStep, GoneStep
<1>9. CASE \E c \in Calls : AllowedByGrant(c) \/ Ask(c) \/ Approval(c)
                            \/ \E d \in {"allow", "deny"} : Answer(c, d)
  BY <1>9, AllowedStep, AskStep, ExpireStep, SettleStep, AnswerStep DEF Approval
<1>10. CASE \E b \in Tabs : Page(b)
  <2>1. PICK b \in Tabs : Page(b) BY <1>10
  <2>2. UNCHANGED <<log, made, queue, worker, call>>
    BY <2>1 DEF Page, Load, Reconnect, Joins, Deliver, Disconnect
  <2> QED BY <1>1, <2>1, <2>2, PageStep, RestSame
<1>11. CASE UNCHANGED vars
  <2>1. UNCHANGED <<log, seq, ring, saved, life, made, queue, worker, call, tab, crashes>>
    BY <1>11 DEF vars
  <2>2. Awake' = Awake /\ Held' = Held /\ Current' = Current /\ Open' = Open
    BY <2>1 DEF Awake, Held, Current, Open
  <2>3. TypeS' BY <1>1, <2>1 DEF TypeS
  <2>4. StoreOK' BY <1>1, <2>1, <2>2 DEF Streamed, StoreOK, Numbered, Rising
  <2>5. Streamed' BY <1>1, <2>1, <2>2, <2>4 DEF Streamed, Clean
  <2> QED BY <2>1, <2>3, <2>5, RestSame
<1> QED BY <1>2, <1>3, <1>4, <1>5, <1>6, <1>7, <1>8, <1>9, <1>10, <1>11 DEF Next

LEMMA Always == Spec => []IInv
<1> QED BY InitInvariant, NextInvariant, PTL DEF Spec

-----------------------------------------------------------------------------
(* The theorems.                                                           *)

\* Every variable keeps its type, the ring and the queues of the subscribers their
\* bounds: _RING_MAX, _SUB_QUEUE_MAX, _PERSIST_EVENTS.
THEOREM TypeCorrect == Spec => []TypeOK
<1>1. IInv => TypeOK BY DEF IInv
<1> QED BY <1>1, Always, PTL

\* No page shows an event twice or out of order, whatever it loses, however often
\* it reconnects and whatever crashes.
THEOREM InOrder == Spec => []ShownInOrder
<1>1. IInv => ShownInOrder BY DEF IInv, Streamed, TabOK, ShownInOrder
<1> QED BY <1>1, Always, PTL

\* What is on its way to a page, one stream after the other.
LEMMA FlightIs ==
    ASSUME TypeS, NEW b \in Tabs
    PROVE  InFlight(b) = {p.k : p \in Pend(tab[b])}
<1> DEFINE s == tab[b].backlog  q == tab[b].queue  w == s \o q
<1>1. s \in Seq(Items) /\ q \in Seq(Items) BY TabFields DEF TypeS
<1>2. InFlight(b) = {w[j].k : j \in 1 .. Len(w)} BY DEF InFlight
<1>3. Pend(tab[b]) = Range(s) \cup Range(q) BY DEF Pend
<1> HIDE DEF s, q
<1>4. Len(s) \in Nat /\ Len(q) \in Nat /\ Len(w) = Len(s) + Len(q)
      /\ (\A j \in 1 .. Len(s) : w[j] = s[j])
      /\ (\A j \in 1 .. Len(q) : w[Len(s) + j] = q[j])
  BY <1>1
<1>5. (\A x : x \in Range(s) <=> \E j \in 1 .. Len(s) : x = s[j])
      /\ (\A x : x \in Range(q) <=> \E j \in 1 .. Len(q) : x = q[j])
  BY <1>1, RangeIs
<1> HIDE DEF w
<1>6. ASSUME NEW j \in 1 .. Len(w) PROVE w[j] \in Range(s) \cup Range(q)
  <2>1. CASE j \in 1 .. Len(s) BY <1>4, <1>5, <2>1
  <2>2. CASE j \notin 1 .. Len(s)
    <3> DEFINE i == j - Len(s)
    <3>1. i \in 1 .. Len(q) /\ j = Len(s) + i BY <1>4, <2>2
    <3> HIDE DEF i
    <3> QED BY <1>4, <1>5, <3>1
  <2> QED BY <2>1, <2>2
<1>7. ASSUME NEW x \in Range(s) \cup Range(q) PROVE \E j \in 1 .. Len(w) : w[j] = x
  <2>1. CASE x \in Range(s)
    <3>1. PICK j \in 1 .. Len(s) : x = s[j] BY <1>5, <2>1
    <3>2. j \in 1 .. Len(w) /\ w[j] = x BY <1>4, <3>1
    <3> QED BY <3>2
  <2>2. CASE x \in Range(q)
    <3>1. PICK j \in 1 .. Len(q) : x = q[j] BY <1>5, <2>2
    <3>2. Len(s) + j \in 1 .. Len(w) /\ w[Len(s) + j] = x BY <1>4, <3>1
    <3> QED BY <3>2
  <2> QED BY <2>1, <2>2
<1> QED BY <1>2, <1>3, <1>6, <1>7

LEMMA SlipsNothing == IInv => NothingSlips
<1> SUFFICES ASSUME IInv, crashes = 0, NEW b \in Subscribers, NEW j \in DOMAIN ring
             PROVE  ring[j].k \in Shown(b) \cup InFlight(b)
  BY DEF NothingSlips
<1>1. TypeS /\ Streamed BY Types DEF IInv
<1>2. b \in Tabs /\ tab[b].at = "on" BY DEF Subscribers
<1>3. ring[j] \in Range(ring) BY DEF Range
<1>4. Current = ring
  <2>1. ring # <<>> OBVIOUS
  <2> QED BY <1>1, <2>1 DEF Streamed, StoreOK, Current
<1>5. CleanTab(tab[b], ring, Len(log)) BY <1>1, <1>2, <1>4 DEF Streamed, Clean
<1>6. Reached(tab[b], ring[j].k) BY <1>2 DEF Reached
<1>7. ring[j].k \in Range(tab[b].shown) \/ \E p \in Pend(tab[b]) : p.k = ring[j].k
  BY <1>3, <1>5, <1>6 DEF CleanTab
<1>8. InFlight(b) = {p.k : p \in Pend(tab[b])} /\ Shown(b) = Range(tab[b].shown)
  BY <1>1, <1>2, FlightIs DEF Shown, Range
<1> QED BY <1>7, <1>8

\* No event slips between the backlog a page is sent and its queue, and none that
\* the ring still holds is lost with a queue that overflows.
THEOREM SlipFree == Spec => []NothingSlips
<1> QED BY SlipsNothing, Always, PTL

\* The first decision of an approval is the one that counts.
THEOREM FirstCounts == Spec => []FirstAnswerCounts
<1>1. IInv => FirstAnswerCounts BY DEF IInv, Asked, Decided, FirstAnswerCounts
<1> QED BY <1>1, Always, PTL

\* The grants of a turn are used by that turn, AGENT_GRANT_MAX_USES times at most.
THEOREM GrantsKept == Spec => []GrantsBounded
<1>1. IInv => GrantsBounded BY DEF IInv, Granted
<1> QED BY <1>1, Always, PTL

\* A page that has been sent everything shows no buttons for an approval that is over.
THEOREM CardsTakenBack == Spec => []CardsSettle
<1>1. ASSUME IInv, crashes = 0, NEW b \in Subscribers, NEW c \in Calls, InFlight(b) = {},
             call[c].st = "over", NEW j \in DOMAIN ring, log[ring[j].k] = [kind |-> "ask", call |-> c]
      PROVE  OnPage(b, "settled", c)
  <2> DEFINE k == ring[j].k  top == Len(log)
  <2>1. TypeS /\ Streamed /\ CardsOK BY <1>1, Types DEF IInv, Asked
  <2>2. ring \in Seq(Items) /\ Len(ring) \in Nat /\ DOMAIN ring = 1 .. Len(ring) /\ top \in Nat
        /\ ring[j] \in Items
    BY <2>1, HeldItems, RangeIs
  <2>3. Current = ring
    <3>1. ring # <<>> BY <2>2
    <3> QED BY <2>1, <3>1 DEF Streamed, StoreOK, Current
  <2>4. Tailed(ring, top) BY <1>1, <2>1, <2>3 DEF Streamed, Clean, CleanStore
  <2>5. k = top - Len(ring) + j BY <2>4 DEF Tailed
  <2>6. k \in Nat \ {0} BY <2>2, ItemFields
  <2>7. k \in 1 .. top BY <2>2, <2>5, <2>6
  <2>8. PICK m \in 1 .. top : m > k /\ log[m] = [kind |-> "settled", call |-> c]
    BY <1>1, <2>1, <2>7 DEF CardsOK
  <2>9. m \in Nat /\ top - Len(ring) < m /\ m <= top BY <2>2, <2>5, <2>6, <2>8
  <2>10. \E p \in Range(ring) : p.k = m BY <2>2, <2>4, <2>9, EndHolds
  <2>11. PICK i \in DOMAIN ring : ring[i].k = m BY <2>10 DEF Range
  <2>12. m \in Shown(b) BY <1>1, <2>11, SlipsNothing DEF NothingSlips
  <2> QED BY <2>8, <2>12 DEF Shown, OnPage
<1>2. IInv => CardsSettle BY <1>1 DEF CardsSettle
<1> QED BY <1>2, Always, PTL
=============================================================================
