----------------------------- MODULE PartsProofs -----------------------------
(***************************************************************************)
(* Theorems about the components that stand alone: the daily budget, the   *)
(* permission policy, the agent registry, the cadence of schedules, the    *)
(* orchestrated build's ledger and the journal of what was done.           *)
(***************************************************************************)
EXTENDS Budget, Policy, Registry, Cadence, BuildLedger, Journal, FiniteSetTheorems,
        SequenceTheorems, WellFoundedInduction, TLAPS

-----------------------------------------------------------------------------
(* Numbers. The least of a set is what stands in for induction.            *)

LEMMA LeastNumber == ASSUME NEW S \in SUBSET Nat, S # {} PROVE \E x \in S : \A y \in S : x <= y
<1> DEFINE R == OpToRel(<, Nat)
<1>1. IsWellFoundedOn(R, Nat)
  BY NatLessThanWellFounded
<1>2. \A y, x \in Nat : y < x => <<y, x>> \in R
  BY DEF OpToRel
<1> HIDE DEF R
<1>3. PICK x \in S : \A y \in S : ~(<<y, x>> \in R)
  BY <1>1, WFMin
<1>4. ASSUME NEW y \in S PROVE x <= y
  <2>1. x \in Nat /\ y \in Nat
    OBVIOUS
  <2>2. ~(y < x)
    BY <1>2, <1>3, <2>1
  <2> QED
    BY <2>1, <2>2
<1> QED
  BY <1>4

\* A nonempty set of numbers with a bound has a greatest one: its least bound.
LEMMA GreatestNumber ==
    ASSUME NEW S \in SUBSET Nat, S # {}, NEW n \in Nat, \A x \in S : x <= n
    PROVE  \E x \in S : \A y \in S : y <= x
<1> DEFINE bounds == {b \in Nat : \A x \in S : x <= b}
<1>1. PICK b \in bounds : \A c \in bounds : b <= c
  BY LeastNumber
<1>2. b \in S
  <2>1. SUFFICES ASSUME b \notin S PROVE FALSE
    OBVIOUS
  <2>2. b \in Nat /\ \A x \in S : x <= b /\ x # b /\ x \in Nat
    BY <1>1, <2>1
  <2>3. b >= 1
    <3>1. PICK x \in S : TRUE
      OBVIOUS
    <3> QED
      BY <2>2, <3>1
  <2>4. b - 1 \in Nat /\ \A x \in S : x <= b - 1
    BY <2>2, <2>3
  <2> QED
    BY <1>1, <2>2, <2>4
<1> QED
  BY <1>1, <1>2

-----------------------------------------------------------------------------
(* The budget. What is still to be spent is a set of turns: one for every  *)
(* place a client's accepted turns take up, at work or in its queue.       *)

Load(h) == h.queue + (IF h.busy THEN 1 ELSE 0)
Places == Clients \X (1 .. MaxQueued + 1)
Pending == {p \in Places : p[2] <= Load(client[p[1]])}
Room == Cardinality(Places) * MaxCost

\* A meter has seen the whole of its client's total, and the coming days are
\* blank. What today may still cost, with all that is pending, is within the bound.
Metered == \A c \in Clients : client[c].last = client[c].total
Blank == \A d \in Days : d > day => spent[d] = 0
Bounded == \A d \in Days : d < day => spent[d] <= BudgetCap - 1 + Room
Today == spent[day] + Cardinality(Pending) * MaxCost <= BudgetCap - 1 + Room

BudgetInv == BudgetTypeOK /\ Metered /\ Blank /\ (BudgetCap # 0 => Bounded /\ Today)

\* The places are finite, and as many as the bound of the property counts.
LEMMA PlacesCount ==
    /\ IsFiniteSet(Places)
    /\ Cardinality(Places) = Cardinality(Clients) * (MaxQueued + 1)
    /\ Cardinality(Places) \in Nat
<1>1. IsFiniteSet(Clients) /\ MaxQueued \in Nat
  BY BudgetAssumption
<1>2. IsFiniteSet(1 .. MaxQueued + 1) /\ Cardinality(1 .. MaxQueued + 1) = MaxQueued + 1
  <2>1. PICK m \in Nat : m = MaxQueued + 1
    BY <1>1
  <2>2. IsFiniteSet(1 .. m) /\ Cardinality(1 .. m) = m
    BY FS_Interval
  <2> QED
    BY <2>1, <2>2
<1>3. /\ IsFiniteSet(Places)
      /\ Cardinality(Places) = Cardinality(Clients) * Cardinality(1 .. MaxQueued + 1)
  BY <1>1, <1>2, FS_Product DEF Places
<1> QED
  BY <1>2, <1>3, FS_CardinalityType

\* More turns cost more: the one step of the argument that is not linear.
LEMMA CostGrows ==
    ASSUME NEW a \in Nat, NEW b \in Nat, NEW m \in Nat, a <= b
    PROVE  a * m \in Nat /\ b * m \in Nat /\ a * m <= b * m
<1>1. PICK k \in Nat : b = a + k
  <2> WITNESS b - a \in Nat
  <2> QED
    OBVIOUS
<1>2. b * m = a * m + k * m /\ a * m \in Nat /\ k * m \in Nat
  BY <1>1
<1> QED
  BY <1>2

\* One turn fewer costs a turn's cost less.
LEMMA CostOfOne ==
    ASSUME NEW a \in Nat, NEW m \in Nat, a >= 1
    PROVE  (a - 1) * m \in Nat /\ (a - 1) * m + m = a * m
<1>1. PICK k \in Nat : a = k + 1
  <2> WITNESS a - 1 \in Nat
  <2> QED
    OBVIOUS
<1>2. (k + 1) * m = k * m + m /\ k * m \in Nat
  OBVIOUS
<1> QED
  BY <1>1, <1>2

\* What is pending is finite, and no more than the places.
LEMMA PendingCount ==
    /\ IsFiniteSet(Pending) /\ Cardinality(Pending) \in Nat
    /\ Cardinality(Pending) <= Cardinality(Places)
<1>1. Pending \subseteq Places
  BY DEF Pending
<1> QED
  BY <1>1, PlacesCount, FS_Subset, FS_CardinalityType

LEMMA RoomIsNat == Room \in Nat
  BY PlacesCount, CostGrows, BudgetAssumption DEF Room

\* In the beginning nothing is spent and nothing pending.
LEMMA BudgetStarts == BudgetInit => BudgetInv
<1> SUFFICES ASSUME BudgetInit PROVE BudgetInv
  OBVIOUS
<1> USE BudgetAssumption
<1>1. BudgetTypeOK /\ Metered /\ Blank
  BY DEF BudgetInit, BudgetTypeOK, Client, Away, Days, Metered, Blank
<1>2. Pending = {}
  BY DEF Pending, Places, BudgetInit, Away, Load
<1>3. Cardinality(Pending) * MaxCost = 0 /\ spent[day] = 0
  BY <1>2, FS_EmptySet DEF BudgetInit, Days
<1>4. ASSUME BudgetCap # 0 PROVE Bounded /\ Today
  BY <1>3, <1>4, RoomIsNat DEF BudgetInit, Bounded, Today, Days
<1> QED
  BY <1>1, <1>4 DEF BudgetInv

\* A step that spends nothing, keeps the day and accepts nothing keeps the bound.
LEMMA NoMorePending ==
    ASSUME BudgetInv, UNCHANGED <<day, spent>>, Pending' \subseteq Pending
    PROVE  Blank' /\ (BudgetCap # 0 => Bounded' /\ Today')
<1> USE BudgetAssumption
<1>1. Cardinality(Pending') <= Cardinality(Pending) /\ Cardinality(Pending') \in Nat
  BY PendingCount, FS_Subset, FS_CardinalityType
<1>2. Cardinality(Pending') * MaxCost <= Cardinality(Pending) * MaxCost
  BY <1>1, PendingCount, CostGrows
<1>3. Cardinality(Pending') * MaxCost \in Nat /\ Cardinality(Pending) * MaxCost \in Nat
  BY <1>1, PendingCount, CostGrows
<1>4. spent[day] \in Nat /\ Room \in Nat
  BY RoomIsNat DEF BudgetInv, BudgetTypeOK
<1>5. Room' = Room
  BY DEF Room, Places
<1> QED
  BY <1>2, <1>3, <1>4, <1>5 DEF BudgetInv, Blank, Bounded, Today

LEMMA AcceptKeeps ==
    ASSUME BudgetInv, NEW c \in Clients, Accept(c)
    PROVE  BudgetInv'
<1> USE BudgetAssumption
<1>1. BudgetTypeOK' /\ Metered'
  BY DEF BudgetInv, Accept, BudgetTypeOK, Client, Metered
<1>2. Blank'
  BY DEF BudgetInv, Accept, Blank
<1>3. ASSUME BudgetCap # 0 PROVE Bounded' /\ Today'
  <2>1. Bounded'
    BY <1>3 DEF BudgetInv, Accept, Bounded, Room, Places
  <2>2. spent[day] \in Nat /\ spent[day] <= BudgetCap - 1
    BY <1>3 DEF Accept, Exceeded, BudgetInv, BudgetTypeOK
  <2>3. Pending' \subseteq Places /\ IsFiniteSet(Places)
    BY PlacesCount DEF Pending, Places
  <2>4. Cardinality(Pending') <= Cardinality(Places) /\ Cardinality(Pending') \in Nat
    BY <2>3, FS_Subset, FS_CardinalityType
  <2>5. Cardinality(Pending') * MaxCost <= Room /\ Cardinality(Pending') * MaxCost \in Nat
    BY <2>4, PlacesCount, CostGrows DEF Room
  <2>6. Room' = Room /\ Room \in Nat
    BY RoomIsNat DEF Room, Places
  <2> QED
    BY <2>1, <2>2, <2>5, <2>6 DEF Today, Accept
<1> QED
  BY <1>1, <1>2, <1>3 DEF BudgetInv

\* A turn that goes to work was pending already, in the queue.
LEMMA TakesTurnKeeps ==
    ASSUME BudgetInv, NEW c \in Clients, TakesTurn(c)
    PROVE  BudgetInv'
<1> USE BudgetAssumption
<1>1. BudgetTypeOK' /\ Metered'
  BY DEF BudgetInv, TakesTurn, BudgetTypeOK, Client, Metered
<1>2. \A e \in Clients : Load(client'[e]) = Load(client[e])
  BY DEF BudgetInv, TakesTurn, BudgetTypeOK, Client, Load
<1>3. Pending' \subseteq Pending
  BY <1>2 DEF Pending, Places
<1> QED
  BY <1>1, <1>3, NoMorePending DEF BudgetInv, TakesTurn

LEMMA TurnFailsKeeps ==
    ASSUME BudgetInv, NEW c \in Clients, TurnFails(c)
    PROVE  BudgetInv'
<1> USE BudgetAssumption
<1>1. BudgetTypeOK' /\ Metered'
  BY DEF BudgetInv, TurnFails, BudgetTypeOK, Client, Metered
<1>2. \A e \in Clients : Load(client'[e]) <= Load(client[e]) /\ {Load(client'[e]), Load(client[e])} \subseteq Nat
  BY DEF BudgetInv, TurnFails, BudgetTypeOK, Client, Load
<1>3. Pending' \subseteq Pending
  BY <1>2 DEF Pending, Places
<1> QED
  BY <1>1, <1>3, NoMorePending DEF BudgetInv, TurnFails

LEMMA GoneKeeps ==
    ASSUME BudgetInv, NEW c \in Clients, Gone(c)
    PROVE  BudgetInv'
<1> USE BudgetAssumption
<1>1. BudgetTypeOK' /\ Metered'
  BY DEF BudgetInv, Gone, BudgetTypeOK, Client, Away, Metered
<1>2. \A e \in Clients : Load(client'[e]) <= Load(client[e]) /\ {Load(client'[e]), Load(client[e])} \subseteq Nat
  BY DEF BudgetInv, Gone, BudgetTypeOK, Client, Away, Load
<1>3. Pending' \subseteq Pending
  BY <1>2 DEF Pending, Places
<1> QED
  BY <1>1, <1>3, NoMorePending DEF BudgetInv, Gone

\* A turn that ends gives up one place, and what it adds to the ledger is its own
\* cost, as its client's meter had seen all the client had spent before.
LEMMA TurnEndsKeeps ==
    ASSUME BudgetInv, NEW c \in Clients, TurnEnds(c)
    PROVE  BudgetInv'
<1> USE BudgetAssumption
<1> DEFINE h == client[c]
<1>1. h.busy /\ day' = day /\ h \in Client /\ h.last = h.total
  BY DEF BudgetInv, TurnEnds, BudgetTypeOK, Metered
<1>2. PICK cost \in 0 .. MaxCost :
        /\ client' = [client EXCEPT ![c].busy = FALSE, ![c].total = @ + cost, ![c].last = h.total + cost]
        /\ \/ spent' = [spent EXCEPT ![day] = @ + Observe(h, h.total + cost)]
           \/ UNCHANGED spent
  BY DEF TurnEnds
<1>3. Observe(h, h.total + cost) = cost /\ cost \in Nat
  BY <1>1 DEF Observe, Client
<1>4. /\ spent' \in [Days -> Nat] /\ spent'[day] <= spent[day] + MaxCost
      /\ \A d \in Days \ {day} : spent'[d] = spent[d]
  BY <1>2, <1>3 DEF BudgetInv, BudgetTypeOK
<1>5. BudgetTypeOK' /\ Metered'
  <2>1. /\ client'[c] = [h EXCEPT !.busy = FALSE, !.total = @ + cost, !.last = h.total + cost]
        /\ client \in [Clients -> Client]
        /\ client' = [client EXCEPT ![c] = [h EXCEPT !.busy = FALSE, !.total = @ + cost, !.last = h.total + cost]]
    BY <1>2 DEF BudgetInv, BudgetTypeOK
  <2>2. client'[c] \in Client /\ client'[c].last = client'[c].total
    <3>1. PICK g \in Client : g = h
      BY <1>1
    <3>2. g.total + cost \in Nat
      BY <1>3 DEF Client
    <3>3. [g EXCEPT !.busy = FALSE, !.total = @ + cost, !.last = g.total + cost] \in Client
      BY <3>2 DEF Client
    <3> QED
      BY <2>1, <3>1, <3>3 DEF Client
  <2>3. client' \in [Clients -> Client]
    BY <2>1, <2>2
  <2>4. day' \in Days
    BY <1>1 DEF BudgetInv, BudgetTypeOK
  <2>5. Metered'
    BY <2>1, <2>2 DEF BudgetInv, Metered
  <2> QED
    BY <1>4, <2>3, <2>4, <2>5 DEF BudgetTypeOK
<1>6. Blank'
  BY <1>1, <1>4 DEF BudgetInv, BudgetTypeOK, Blank, Days
<1>7. ASSUME BudgetCap # 0 PROVE Bounded' /\ Today'
  <2> DEFINE place == <<c, Load(h)>>
  <2>1. /\ Load(client'[c]) = Load(h) - 1 /\ Load(h) \in 1 .. MaxQueued + 1
        /\ \A e \in Clients \ {c} : client'[e] = client[e]
    BY <1>1, <1>2 DEF BudgetInv, BudgetTypeOK, Client, Load
  <2>2. \A e \in Clients : Load(client[e]) \in Nat
    BY DEF BudgetInv, BudgetTypeOK, Client, Load
  <2>3. place \in Pending
    BY <2>1 DEF Pending, Places
  <2>4. Pending' \subseteq Pending \ {place}
    <3> SUFFICES ASSUME NEW p \in Pending' PROVE p \in Pending \ {place}
      OBVIOUS
    <3>1. p \in Places /\ p[2] <= Load(client'[p[1]])
      BY DEF Pending, Places
    <3>2. PICK e \in Clients, n \in 1 .. MaxQueued + 1 : p = <<e, n>>
      BY <3>1 DEF Places
    <3>3. n <= Load(client'[e])
      BY <3>1, <3>2
    <3>4. n <= Load(client[e]) /\ <<e, n>> # place
      BY <2>1, <2>2, <3>3
    <3> QED
      BY <3>1, <3>2, <3>4 DEF Pending
  <2>5. /\ IsFiniteSet(Pending \ {place})
        /\ Cardinality(Pending \ {place}) = Cardinality(Pending) - 1
    BY <2>3, PendingCount, FS_RemoveElement
  <2>6. /\ Cardinality(Pending') <= Cardinality(Pending) - 1 /\ Cardinality(Pending') \in Nat
    BY <2>4, <2>5, FS_Subset, FS_CardinalityType
  <2>7. Cardinality(Pending') * MaxCost \in Nat
        /\ Cardinality(Pending') * MaxCost + MaxCost <= Cardinality(Pending) * MaxCost
    <3>1. Cardinality(Pending) \in Nat /\ Cardinality(Pending) >= 1 /\ Cardinality(Pending) - 1 \in Nat
      BY <2>6, PendingCount
    <3>2. /\ (Cardinality(Pending) - 1) * MaxCost + MaxCost = Cardinality(Pending) * MaxCost
          /\ (Cardinality(Pending) - 1) * MaxCost \in Nat
      BY <3>1, CostOfOne
    <3>3. Cardinality(Pending') * MaxCost <= (Cardinality(Pending) - 1) * MaxCost
          /\ Cardinality(Pending') * MaxCost \in Nat
      BY <2>6, <3>1, CostGrows
    <3>4. Cardinality(Pending) * MaxCost \in Nat
      BY <3>1, CostGrows
    <3> QED
      BY <3>2, <3>3, <3>4
  <2>8. Room' = Room /\ Room \in Nat
    BY RoomIsNat DEF Room, Places
  <2>9. spent[day] \in Nat /\ spent'[day] \in Nat
    BY <1>4 DEF BudgetInv, BudgetTypeOK
  <2>10. Cardinality(Pending) * MaxCost \in Nat
    BY PendingCount, CostGrows
  <2>11. Today'
    BY <1>1, <1>4, <1>7, <2>7, <2>8, <2>9, <2>10 DEF BudgetInv, Today
  <2>12. Bounded'
    <3>1. day' = day /\ (\A d \in Days : d < day => spent[d] <= BudgetCap - 1 + Room) /\ day \in Days
      BY <1>1, <1>7 DEF BudgetInv, BudgetTypeOK, Bounded
    <3>2. \A d \in Days : d < day => d # day
      BY <3>1 DEF Days
    <3> QED
      BY <1>4, <2>8, <3>1, <3>2 DEF Bounded
  <2> QED
    BY <2>11, <2>12
<1> QED
  BY <1>5, <1>6, <1>7 DEF BudgetInv

\* The new day begins with nothing spent; what is pending from the day before has
\* its room. The day that ends stays as it was.
LEMMA MidnightKeeps ==
    ASSUME BudgetInv, Midnight
    PROVE  BudgetInv'
<1> USE BudgetAssumption
<1>1. BudgetTypeOK' /\ Metered' /\ Blank'
  BY DEF BudgetInv, Midnight, BudgetTypeOK, Metered, Blank, Days
<1>2. ASSUME BudgetCap # 0 PROVE Bounded' /\ Today'
  <2>1. Pending' = Pending /\ Room' = Room /\ Room \in Nat
    BY RoomIsNat DEF Midnight, Pending, Places, Room
  <2>2. Cardinality(Pending) * MaxCost \in Nat /\ Cardinality(Pending) * MaxCost <= Room
    BY PendingCount, PlacesCount, CostGrows DEF Room
  <2>3. spent[day] \in Nat /\ spent[day] <= BudgetCap - 1 + Room
    BY <1>2, <2>1, <2>2 DEF BudgetInv, BudgetTypeOK, Today
  <2>4. Bounded'
    <3>1. (\A d \in Days : d < day => spent[d] <= BudgetCap - 1 + Room) /\ day \in Days
      BY <1>2 DEF BudgetInv, BudgetTypeOK, Bounded
    <3>2. \A d \in Days : d < day + 1 => d < day \/ d = day
      BY <3>1 DEF Days
    <3>3. day' = day + 1 /\ spent' = spent
      BY DEF Midnight
    <3> QED
      BY <2>1, <2>3, <3>1, <3>2, <3>3 DEF Bounded
  <2>5. spent[day'] = 0
    BY DEF BudgetInv, BudgetTypeOK, Midnight, Blank, Days
  <2> QED
    BY <1>2, <2>1, <2>2, <2>4, <2>5 DEF Midnight, Today
<1> QED
  BY <1>1, <1>2 DEF BudgetInv

LEMMA BudgetStep == BudgetInv /\ [BudgetNext]_budgetVars => BudgetInv'
<1> SUFFICES ASSUME BudgetInv, [BudgetNext]_budgetVars PROVE BudgetInv'
  OBVIOUS
<1>1. ASSUME NEW c \in Clients,
             Accept(c) \/ TakesTurn(c) \/ TurnEnds(c) \/ TurnFails(c) \/ Gone(c)
      PROVE  BudgetInv'
  BY <1>1, AcceptKeeps, TakesTurnKeeps, TurnEndsKeeps, TurnFailsKeeps, GoneKeeps
<1>2. CASE Midnight
  BY <1>2, MidnightKeeps
<1>3. CASE UNCHANGED budgetVars
  BY <1>3 DEF budgetVars, BudgetInv, BudgetTypeOK, Metered, Blank, Bounded, Today, Pending, Places, Room
<1> QED
  BY <1>1, <1>2, <1>3 DEF BudgetNext

\* The ledger's days and the clients with their meters keep their types.
THEOREM BudgetTyped == BudgetSpec => []BudgetTypeOK
<1>1. BudgetInv => BudgetTypeOK
  BY DEF BudgetInv
<1> QED
  BY <1>1, BudgetStarts, BudgetStep, PTL DEF BudgetSpec

\* What is spent in a day exceeds the cap by no more than what had been accepted
\* before: for any clients, cap, queue and cost, on every day, however clients come
\* and go, midnight falls and the ledger fails.
THEOREM Overshoot == BudgetSpec => []OvershootBounded
<1>1. BudgetInv => OvershootBounded
  <2> SUFFICES ASSUME BudgetInv, BudgetCap # 0, NEW d \in Days
               PROVE  spent[d] <= (BudgetCap - 1) + Cardinality(Clients) * (MaxQueued + 1) * MaxCost
    BY DEF OvershootBounded
  <2>1. Room = Cardinality(Clients) * (MaxQueued + 1) * MaxCost /\ Room \in Nat
    BY PlacesCount, RoomIsNat DEF Room
  <2>2. BudgetCap \in Nat /\ day \in Days /\ spent \in [Days -> Nat]
    BY BudgetAssumption DEF BudgetInv, BudgetTypeOK
  <2>3. CASE d < day
    BY <2>1, <2>3 DEF BudgetInv, Bounded
  <2>4. CASE d = day
    <3>1. Cardinality(Pending) * MaxCost \in Nat
      BY PendingCount, CostGrows, BudgetAssumption
    <3> QED
      BY <2>1, <2>2, <2>4, <3>1 DEF BudgetInv, Today
  <2>5. CASE d > day
    BY <2>1, <2>2, <2>5 DEF BudgetInv, Blank
  <2> QED
    BY <2>2, <2>3, <2>4, <2>5 DEF Days
<1> QED
  BY <1>1, BudgetStarts, BudgetStep, PTL DEF BudgetSpec

-----------------------------------------------------------------------------
(* The registry. What an operation has read and is about to put are records *)
(* that from_dict would accept, and only a create refuses a taken name.     *)

Sound(h) ==
    /\ h \in Writing
    /\ \A n \in Names : h.held[n] \in Profiles => Valid(h.held[n])
    /\ h.pc # "idle" => h.name \in Names
    /\ h.pc = "put" => h.put \in Profiles /\ Valid(h.put)
    /\ h.pc = "remove" => ~h.new
    /\ h.pc \in {"remove", "archive"} => h.space \in AgentSpaces

RegistryInv == RegistryTypeOK /\ \A w \in Writers : Sound(writer[w])

LEMMA NothingIsSound == Sound(Nothing)
  BY RegistryAssumption, NoRecordAssumption DEF Sound, Nothing, Writing, Spaces

LEMMA RegistryStarts == RegistryInit => RegistryInv
  BY NothingIsSound, NoRecordAssumption, RegistryAssumption
     DEF RegistryInit, RegistryInv, RegistryTypeOK, Registered, Sound

\* What a store reads are records, and valid ones.
LEMMA ReadIsSound ==
    ASSUME RegistryInv
    PROVE  /\ Readable \in [Names -> Profiles \cup {NoAgent}]
           /\ \A n \in Names : Readable[n] \in Profiles => Valid(Readable[n])
  BY NoRecordAssumption DEF RegistryInv, RegistryTypeOK, Readable, Registered

LEMMA OpensKeeps ==
    ASSUME RegistryInv, NEW w \in Writers, NEW h, Sound(h), Opens(w, h)
    PROVE  RegistryInv'
<1>1. writer' = [writer EXCEPT ![w] = h] /\ h \in Writing /\ writer \in [Writers -> Writing]
  BY DEF Opens, RegistryInv, RegistryTypeOK, Sound
<1>2. \A v \in Writers : Sound(writer'[v])
  BY <1>1 DEF RegistryInv
<1>3. writer' \in [Writers -> Writing]
  BY <1>1
<1>4. edits' \in 0 .. MaxEdits
  BY RegistryAssumption DEF Opens, RegistryInv, RegistryTypeOK
<1> QED
  BY <1>2, <1>3, <1>4 DEF Opens, RegistryInv, RegistryTypeOK, Registered, Sound, Valid

LEMMA IntentIsSound ==
    ASSUME RegistryInv, NEW n \in Names, NEW space \in Spaces, NEW new \in BOOLEAN, NEW keep \in BOOLEAN
    PROVE  /\ \A p \in Profiles : Valid(p) => Sound(Intent("put", n, p, new, space, keep))
           /\ space \in AgentSpaces => Sound(Intent("remove", n, NoAgent, FALSE, space, keep))
  BY ReadIsSound DEF Sound, Writing, Intent

LEMMA PutsKeeps ==
    ASSUME RegistryInv, NEW w \in Writers, NEW n \in Names, NEW p \in Profiles, Puts(w, n, p)
    PROVE  RegistryInv'
<1>1. Sound(Intent("put", n, p, FALSE, MainSpace, FALSE))
  BY IntentIsSound DEF Puts, Spaces
<1> QED
  BY <1>1, OpensKeeps DEF Puts

\* Every space an operation names is an agent's.
LEMMA HomesAreSpaces ==
    ASSUME RegistryInv
    PROVE  /\ AgentSpaces \subseteq Spaces /\ Names \subseteq AgentSpaces /\ Pools \subseteq AgentSpaces
           /\ \A m \in Names : Home(Readable, m) \in AgentSpaces
<1>1. AgentSpaces \subseteq Spaces /\ Names \subseteq AgentSpaces /\ Pools \subseteq AgentSpaces
  BY RegistryAssumption DEF AgentSpaces, Spaces
<1>2. ASSUME NEW m \in Names PROVE Home(Readable, m) \in AgentSpaces
  BY <1>1, ReadIsSound DEF Home, Profiles
<1> QED
  BY <1>1, <1>2

\* Profiles stay profiles when a field is changed.
LEMMA ProfileFields ==
    ASSUME NEW p \in Profiles
    PROVE  /\ p.inherits \subseteq AgentSpaces /\ p.home \in AgentSpaces
           /\ Clean(p) \in Profiles
  BY DEF Profiles, Clean

LEMMA InheritsChange ==
    ASSUME NEW p \in Profiles, NEW inherits \in SUBSET AgentSpaces
    PROVE  [p EXCEPT !.inherits = inherits] \in Profiles
  BY DEF Profiles

LEMMA TokenChange ==
    ASSUME NEW p \in Profiles, NEW token \in BOOLEAN
    PROVE  [p EXCEPT !.token = token] \in Profiles
  BY DEF Profiles

LEMMA HomeChange ==
    ASSUME NEW p \in Profiles, NEW home \in AgentSpaces, NEW mode \in {"individual", "collective"}
    PROVE  [p EXCEPT !.mode = mode, !.home = home] \in Profiles
  BY DEF Profiles

LEMMA CreateAgentKeeps ==
    ASSUME RegistryInv, NEW w \in Writers, NEW n \in Names, CreateAgent(w, n)
    PROVE  RegistryInv'
<1>1. PICK parents \in SUBSET Registered(Readable), forks \in SUBSET Registered(Readable),
           home \in {n} \cup AgentSpaces, mode \in {"individual", "collective"}, isolated \in BOOLEAN :
        LET inherited == Lineage(Readable, parents) \cup UNION {Readable[m].inherits : m \in forks}
            p == Clean([mode |-> mode, home |-> home, inherits |-> inherited, isolated |-> isolated, token |-> FALSE])
            source == IF forks = {} THEN MainSpace ELSE Readable[CHOOSE m \in forks : TRUE].home
        IN  /\ Readable[n] = NoAgent /\ Cardinality(forks) <= 1
            /\ mode = "collective" => forks = {}
            /\ Valid(p)
            /\ Opens(w, Intent("put", n, p, TRUE, source, FALSE))
  BY Zenon DEF CreateAgent
<1> DEFINE inherited == Lineage(Readable, parents) \cup UNION {Readable[m].inherits : m \in forks}
<1> DEFINE drawn == [mode |-> mode, home |-> home, inherits |-> inherited, isolated |-> isolated, token |-> FALSE]
<1> DEFINE p == Clean(drawn)
<1> DEFINE source == IF forks = {} THEN MainSpace ELSE Readable[CHOOSE m \in forks : TRUE].home
<1>2. \A m \in Registered(Readable) : Readable[m].home \in AgentSpaces /\ Readable[m].inherits \subseteq AgentSpaces
  BY DEF Registered, Profiles
<1>3. inherited \in SUBSET AgentSpaces
  BY <1>2 DEF Lineage
<1>4. home \in AgentSpaces
  BY HomesAreSpaces
<1>5. p \in Profiles
  <2> HIDE DEF inherited
  <2>1. drawn \in Profiles
    BY <1>3, <1>4 DEF Profiles
  <2> QED
    BY <2>1, ProfileFields
<1>6. source \in Spaces
  <2>1. CASE forks = {}
    BY <2>1 DEF Spaces
  <2>2. CASE forks # {}
    <3>1. (CHOOSE m \in forks : TRUE) \in forks
      BY <2>2
    <3> QED
      BY <1>2, <2>2, <3>1, HomesAreSpaces
  <2> QED
    BY <2>1, <2>2
<1>7. Valid(p) /\ Opens(w, Intent("put", n, p, TRUE, source, FALSE))
  BY <1>1
<1> HIDE DEF p, source
<1>8. Sound(Intent("put", n, p, TRUE, source, FALSE))
  BY <1>5, <1>6, <1>7, IntentIsSound
<1> QED
  BY <1>7, <1>8, OpensKeeps

\* Every other operation puts a changed copy of the agent's own record.
LEMMA ChangesKeep ==
    ASSUME RegistryInv, NEW w \in Writers, NEW n \in Names,
           Attach(w, n) \/ Detach(w, n) \/ SetMemory(w, n) \/ SetToken(w, n)
    PROVE  RegistryInv'
<1>1. Readable[n] # NoAgent
  BY DEF Attach, Detach, SetMemory, SetToken
<1>2. PICK p \in Profiles : p = Readable[n]
  BY <1>1, ReadIsSound
<1>3. p.inherits \in SUBSET AgentSpaces /\ p.home \in AgentSpaces
  BY ProfileFields
<1>4. CASE Attach(w, n)
  <2>1. PICK space \in {Home(Readable, m) : m \in Names} \cup Pools :
          Puts(w, n, [p EXCEPT !.inherits = p.inherits \cup {space}])
    BY <1>2, <1>4 DEF Attach
  <2>2. p.inherits \cup {space} \in SUBSET AgentSpaces
    BY <1>3, HomesAreSpaces
  <2>3. [p EXCEPT !.inherits = p.inherits \cup {space}] \in Profiles
    BY <2>2, InheritsChange
  <2> QED
    BY <2>1, <2>3, PutsKeeps
<1>5. CASE Detach(w, n)
  <2>1. PICK space \in {Home(Readable, m) : m \in Names} \cup Pools :
          Puts(w, n, [p EXCEPT !.inherits = p.inherits \ {space}])
    BY <1>2, <1>5 DEF Detach
  <2>2. p.inherits \ {space} \in SUBSET AgentSpaces
    BY <1>3
  <2>3. [p EXCEPT !.inherits = p.inherits \ {space}] \in Profiles
    BY <2>2, InheritsChange
  <2> QED
    BY <2>1, <2>3, PutsKeeps
<1>6. CASE SetToken(w, n)
  <2>1. PICK token \in BOOLEAN : Puts(w, n, [p EXCEPT !.token = token])
    BY <1>2, <1>6 DEF SetToken
  <2>2. [p EXCEPT !.token = token] \in Profiles
    BY TokenChange
  <2> QED
    BY <2>1, <2>2, PutsKeeps
<1>7. CASE SetMemory(w, n)
  <2>1. PICK mode \in {"individual", "collective"}, pool \in Pools :
          LET home == IF mode = "collective" THEN pool ELSE IF p.mode = "collective" THEN n ELSE p.home
              moved == Clean([p EXCEPT !.mode = mode, !.home = home])
          IN  Puts(w, n, IF home = p.home THEN moved ELSE [moved EXCEPT !.inherits = @ \cup {p.home}])
    BY <1>2, <1>7 DEF SetMemory
  <2> DEFINE home == IF mode = "collective" THEN pool ELSE IF p.mode = "collective" THEN n ELSE p.home
  <2> DEFINE moved == Clean([p EXCEPT !.mode = mode, !.home = home])
  <2> DEFINE new == IF home = p.home THEN moved ELSE [moved EXCEPT !.inherits = @ \cup {p.home}]
  <2>2. home \in AgentSpaces
    BY <1>3, HomesAreSpaces
  <2>3. moved \in Profiles
    <3> HIDE DEF home
    <3>1. [p EXCEPT !.mode = mode, !.home = home] \in Profiles
      BY <2>2, HomeChange
    <3> QED
      BY <3>1, ProfileFields
  <2>4. Puts(w, n, new)
    BY <2>1
  <2>5. new \in Profiles
    <3> HIDE DEF moved, home
    <3>1. moved.inherits \cup {p.home} \in SUBSET AgentSpaces
      BY <1>3, <2>3, ProfileFields
    <3>2. [moved EXCEPT !.inherits = moved.inherits \cup {p.home}] \in Profiles
      BY <2>3, <3>1, InheritsChange
    <3> QED
      BY <2>3, <3>2
  <2> HIDE DEF new
  <2> QED
    BY <2>4, <2>5, PutsKeeps
<1> QED
  BY <1>4, <1>5, <1>6, <1>7

LEMMA DeleteAgentKeeps ==
    ASSUME RegistryInv, NEW w \in Writers, NEW n \in Names, DeleteAgent(w, n)
    PROVE  RegistryInv'
<1>1. PICK keep \in BOOLEAN : Opens(w, Intent("remove", n, NoAgent, FALSE, Readable[n].home, keep))
  BY DEF DeleteAgent
<1>2. PICK space \in AgentSpaces : space = Readable[n].home
  BY ReadIsSound, ProfileFields DEF DeleteAgent
<1>3. Sound(Intent("remove", n, NoAgent, FALSE, space, keep))
  BY IntentIsSound, HomesAreSpaces
<1> QED
  BY <1>1, <1>2, <1>3, OpensKeeps

\* Under the lock an operation knows what the file says, or what it has read.
LEMMA RefreshedIsSound ==
    ASSUME RegistryInv, NEW w \in Writers
    PROVE  /\ Refreshed(w) \in [Names -> Profiles \cup {NoAgent}]
           /\ \A n \in Names : Refreshed(w)[n] \in Profiles => Valid(Refreshed(w)[n])
<1>1. CASE Broken
  BY <1>1 DEF Refreshed, RegistryInv, Sound, Writing
<1>2. CASE ~Broken
  <2>1. file \in [Names -> Profiles \cup {NoAgent}]
    BY <1>2 DEF Broken, RegistryInv, RegistryTypeOK
  <2> QED
    BY <1>2, <2>1 DEF Refreshed, RegistryInv, RegistryTypeOK, Registered
<1> QED
  BY <1>1, <1>2

LEMMA GoesIsSound ==
    ASSUME RegistryInv, NEW w \in Writers, NEW pc \in {"idle", "copy", "archive"}, Goes(w, pc),
           writer[w].pc # "idle", pc = "archive" => writer[w].pc = "remove"
    PROVE  /\ writer' \in [Writers -> Writing]
           /\ \A v \in Writers : Sound(writer'[v])
<1>1. PICK h \in Writing : h = writer[w]
  BY DEF RegistryInv, RegistryTypeOK
<1>2. Sound(h) /\ h.pc # "idle" /\ (pc = "archive" => h.pc = "remove")
  BY <1>1 DEF RegistryInv
<1>3. [h EXCEPT !.pc = pc] \in Writing
  BY DEF Writing
<1>4. Sound([h EXCEPT !.pc = pc])
  BY <1>2, <1>3 DEF Sound, Writing
<1>5. writer' = [writer EXCEPT ![w] = IF pc = "idle" THEN Nothing ELSE [h EXCEPT !.pc = pc]]
  BY <1>1 DEF Goes
<1>6. writer \in [Writers -> Writing] /\ \A v \in Writers : Sound(writer[v])
  BY DEF RegistryInv, RegistryTypeOK
<1>7. PICK g : g = IF pc = "idle" THEN Nothing ELSE [h EXCEPT !.pc = pc]
  OBVIOUS
<1>8. Sound(g) /\ g \in Writing
  BY <1>4, <1>7, NothingIsSound DEF Sound
<1> QED
  BY <1>5, <1>6, <1>7, <1>8

\* What is saved are records, and what is set aside agents' names.
LEMMA SavedIsTyped ==
    ASSUME RegistryInv, NEW items \in [Names -> Profiles \cup {NoAgent}], Saved(items),
           \A n \in Names : items[n] \in Profiles => Valid(items[n])
    PROVE  /\ file' \in [Names -> Profiles \cup {NoAgent, Hidden}]
           /\ \A n \in Registered(file') : Valid(file'[n])
           /\ aside' \subseteq Names
  BY DEF Saved, Registered

LEMMA PutKeeps ==
    ASSUME RegistryInv, NEW w \in Writers, Put(w)
    PROVE  RegistryInv'
<1> DEFINE h == writer[w]
<1>1. /\ h.pc = "put" /\ h.name \in Names /\ h.put \in Profiles /\ Valid(h.put)
  BY DEF Put, RegistryInv, Sound
<1>2. PICK items : items = [Refreshed(w) EXCEPT ![h.name] = h.put]
  OBVIOUS
<1>3. /\ items \in [Names -> Profiles \cup {NoAgent}]
      /\ \A n \in Names : items[n] \in Profiles => Valid(items[n])
  BY <1>1, <1>2, RefreshedIsSound
<1>4. /\ file' \in [Names -> Profiles \cup {NoAgent, Hidden}]
      /\ \A n \in Registered(file') : Valid(file'[n])
      /\ aside' \subseteq Names
  BY <1>2, <1>3, SavedIsTyped DEF Put
<1>5. PICK pc \in {"idle", "copy"} : Goes(w, pc)
  BY DEF Put
<1>6. /\ writer' \in [Writers -> Writing]
      /\ \A v \in Writers : Sound(writer'[v])
  BY <1>1, <1>5, GoesIsSound
<1> QED
  BY <1>4, <1>6 DEF Put, RegistryInv, RegistryTypeOK, Registered

LEMMA RemoveProfileKeeps ==
    ASSUME RegistryInv, NEW w \in Writers, RemoveProfile(w)
    PROVE  RegistryInv'
<1> DEFINE h == writer[w]
<1>1. h.pc = "remove" /\ h.name \in Names
  BY DEF RemoveProfile, RegistryInv, Sound
<1>2. PICK items : items = [Refreshed(w) EXCEPT ![h.name] = NoAgent]
  OBVIOUS
<1>3. /\ items \in [Names -> Profiles \cup {NoAgent}]
      /\ \A n \in Names : items[n] \in Profiles => Valid(items[n])
  BY <1>1, <1>2, RefreshedIsSound, NoRecordAssumption
<1>4. /\ file' \in [Names -> Profiles \cup {NoAgent, Hidden}]
      /\ \A n \in Registered(file') : Valid(file'[n])
      /\ aside' \subseteq Names
  <2>1. CASE Refreshed(w)[h.name] = NoAgent
    BY <2>1 DEF RemoveProfile, RegistryInv, RegistryTypeOK, Registered
  <2>2. CASE Refreshed(w)[h.name] # NoAgent
    BY <1>2, <1>3, <2>2, SavedIsTyped DEF RemoveProfile
  <2> QED
    BY <2>1, <2>2
<1>5. PICK pc \in {"idle", "copy", "archive"} : Goes(w, pc)
  BY DEF RemoveProfile
<1>6. /\ writer' \in [Writers -> Writing]
      /\ \A v \in Writers : Sound(writer'[v])
  BY <1>1, <1>5, GoesIsSound
<1> QED
  BY <1>4, <1>6 DEF RemoveProfile, RegistryInv, RegistryTypeOK, Registered

\* The steps after the lock, and an operation that fails or dies, leave the file.
LEMMA EndsKeep ==
    ASSUME RegistryInv, NEW w \in Writers, PutFails(w) \/ CopySpace(w) \/ ArchiveSpace(w) \/ Dies(w)
    PROVE  RegistryInv'
<1>1. writer[w].pc # "idle" /\ Goes(w, "idle") /\ UNCHANGED <<file, aside, edits>>
  BY DEF PutFails, CopySpace, ArchiveSpace, Dies
<1>2. /\ writer' \in [Writers -> Writing]
      /\ \A v \in Writers : Sound(writer'[v])
  BY <1>1, GoesIsSound
<1>3. shelved' \subseteq AgentSpaces
  <2>1. CASE ArchiveSpace(w)
    BY <2>1 DEF ArchiveSpace, RegistryInv, RegistryTypeOK, Sound
  <2>2. CASE ~ArchiveSpace(w)
    BY <2>2 DEF PutFails, CopySpace, Dies, RegistryInv, RegistryTypeOK
  <2> QED
    BY <2>1, <2>2
<1> QED
  BY <1>1, <1>2, <1>3 DEF RegistryInv, RegistryTypeOK, Registered

\* What users and the critic do beside the operations.
LEMMA OthersKeep ==
    ASSUME RegistryInv, Breaks \/ (\E n \in Names : Promote(n)) \/ UNCHANGED registryVars
    PROVE  RegistryInv'
<1>1. CASE Breaks
  <2>1. PICK bad \in SUBSET Registered(file) : file' = [n \in Names |-> IF n \in bad THEN Hidden ELSE file[n]]
    BY <1>1 DEF Breaks
  <2>2. /\ file' \in [Names -> Profiles \cup {NoAgent, Hidden}]
        /\ \A n \in Registered(file') : Valid(file'[n])
    BY <2>1, NoRecordAssumption DEF RegistryInv, RegistryTypeOK, Registered
  <2>3. edits' \in 0 .. MaxEdits
    BY <1>1, RegistryAssumption DEF Breaks, RegistryInv, RegistryTypeOK
  <2> QED
    BY <1>1, <2>2, <2>3 DEF Breaks, RegistryInv, RegistryTypeOK
<1>2. CASE \E n \in Names : Promote(n)
  BY <1>2 DEF Promote, RegistryInv, RegistryTypeOK, Registered
<1>3. CASE UNCHANGED registryVars
  BY <1>3 DEF registryVars, RegistryInv, RegistryTypeOK, Registered
<1> QED
  BY <1>1, <1>2, <1>3

LEMMA RegistryStep == RegistryInv /\ [RegistryNext]_registryVars => RegistryInv'
<1> SUFFICES ASSUME RegistryInv, [RegistryNext]_registryVars PROVE RegistryInv'
  OBVIOUS
<1>1. ASSUME NEW w \in Writers, NEW n \in Names,
             \/ CreateAgent(w, n) \/ Attach(w, n) \/ Detach(w, n) \/ SetMemory(w, n)
             \/ SetToken(w, n) \/ DeleteAgent(w, n)
      PROVE  RegistryInv'
  BY <1>1, CreateAgentKeeps, ChangesKeep, DeleteAgentKeeps
<1>2. ASSUME NEW w \in Writers,
             Put(w) \/ PutFails(w) \/ RemoveProfile(w) \/ CopySpace(w) \/ ArchiveSpace(w) \/ Dies(w)
      PROVE  RegistryInv'
  BY <1>2, PutKeeps, RemoveProfileKeeps, EndsKeep
<1>3. CASE Breaks \/ (\E n \in Names : Promote(n)) \/ UNCHANGED registryVars
  BY <1>3, OthersKeep
<1> QED
  BY <1>1, <1>2, <1>3 DEF RegistryNext

\* The registry's types, for any agents, spaces and operations under way; every
\* record in the file obeys from_dict, whatever raced.
THEOREM RegistryTyped == RegistrySpec => []RegistryTypeOK
<1>1. RegistryInv => RegistryTypeOK
  BY DEF RegistryInv
<1> QED
  BY <1>1, RegistryStarts, RegistryStep, PTL DEF RegistrySpec

\* What an operation on `name' may make of the file.
Apart(n) ==
    \/ file'[n] = Hidden
    \/ n \in aside'
    \/ \E w \in Writers :
          \/ writer'[w] # writer[w] /\ writer[w].name = n /\ (writer[w].new => file[n] = NoAgent)
          \/ Returns(w, n)

\* The operation that saves is seen to: its writer goes on.
LEMMA GoingShows ==
    ASSUME RegistryInv, NEW w \in Writers, writer[w].pc \in {"put", "remove"},
           NEW pc \in {"idle", "copy", "archive"}, Goes(w, pc)
    PROVE  writer'[w] # writer[w]
<1>1. PICK h \in Writing : h = writer[w] /\ h.pc \in {"put", "remove"}
  BY DEF RegistryInv, RegistryTypeOK
<1>2. writer'[w] = IF pc = "idle" THEN Nothing ELSE [h EXCEPT !.pc = pc]
  BY <1>1 DEF Goes, RegistryInv, RegistryTypeOK
<1>3. Nothing.pc = "idle" /\ [h EXCEPT !.pc = pc].pc = pc
  BY DEF Nothing, Writing
<1>4. writer'[w].pc = pc
  BY <1>2, <1>3
<1> QED
  BY <1>1, <1>4

\* A save changes what it is about; of the rest, what the file said is what it
\* says, or, where the file does not read, it is in the copy kept aside.
LEMMA SavingIsApart ==
    ASSUME RegistryInv, NEW w \in Writers, NEW p, Saved([Refreshed(w) EXCEPT ![writer[w].name] = p]),
           writer[w].new => Refreshed(w)[writer[w].name] = NoAgent,
           writer[w].name \in Names, writer'[w] # writer[w],
           NEW n \in Names, file'[n] # file[n]
    PROVE  Apart(n)
<1> DEFINE name == writer[w].name
<1>1. PICK items : items = Refreshed(w) /\ items \in [Names -> Profiles \cup {NoAgent}]
  BY RefreshedIsSound
<1>2. file'[name] = p /\ \A m \in Names \ {name} : file'[m] = items[m]
  BY <1>1 DEF Saved
<1>3. CASE ~Broken
  <2>1. items = file
    BY <1>1, <1>3 DEF Refreshed
  <2>2. n = name
    BY <1>2, <2>1
  <2> QED
    BY <1>1, <2>1, <2>2 DEF Apart
<1>4. CASE Broken
  <2>1. items = writer[w].held /\ aside' = {m \in Names : file[m] # NoAgent}
    BY <1>1, <1>4 DEF Refreshed, Saved
  <2>2. CASE file[n] # NoAgent
    BY <2>1, <2>2 DEF Apart
  <2>3. CASE file[n] = NoAgent /\ n = name
    BY <2>3 DEF Apart
  <2>4. CASE file[n] = NoAgent /\ n # name
    BY <1>2, <1>4, <2>1, <2>4 DEF Apart, Returns
  <2> QED
    BY <2>2, <2>3, <2>4
<1> QED
  BY <1>3, <1>4

LEMMA StepIsApart ==
    ASSUME RegistryInv, [RegistryNext]_registryVars, NEW n \in Names, file'[n] # file[n]
    PROVE  Apart(n)
<1>1. ASSUME NEW w \in Writers, Put(w) PROVE Apart(n)
  <2>1. writer[w].pc = "put" /\ writer[w].name \in Names
    BY <1>1 DEF Put, RegistryInv, Sound
  <2>2. PICK pc \in {"idle", "copy", "archive"} : Goes(w, pc)
    BY <1>1 DEF Put
  <2>3. writer'[w] # writer[w]
    BY <2>1, <2>2, GoingShows
  <2>4. /\ Saved([Refreshed(w) EXCEPT ![writer[w].name] = writer[w].put])
        /\ writer[w].new => Refreshed(w)[writer[w].name] = NoAgent
    BY <1>1 DEF Put
  <2> QED
    BY <2>1, <2>3, <2>4, SavingIsApart
<1>2. ASSUME NEW w \in Writers, RemoveProfile(w) PROVE Apart(n)
  <2>1. writer[w].pc = "remove" /\ writer[w].name \in Names /\ ~writer[w].new
    BY <1>2 DEF RemoveProfile, RegistryInv, Sound
  <2>2. PICK pc \in {"idle", "copy", "archive"} : Goes(w, pc)
    BY <1>2 DEF RemoveProfile
  <2>3. writer'[w] # writer[w]
    BY <2>1, <2>2, GoingShows
  <2>4. Saved([Refreshed(w) EXCEPT ![writer[w].name] = NoAgent])
    BY <1>2 DEF RemoveProfile
  <2> QED
    BY <2>1, <2>3, <2>4, SavingIsApart
<1>3. ASSUME Breaks PROVE Apart(n)
  BY <1>3 DEF Breaks, Apart
<1>4. CASE UNCHANGED file
  BY <1>4
<1>5. ASSUME NEW w \in Writers, NEW m \in Names,
             \/ CreateAgent(w, m) \/ Attach(w, m) \/ Detach(w, m) \/ SetMemory(w, m)
             \/ SetToken(w, m) \/ DeleteAgent(w, m)
      PROVE  UNCHANGED file
  BY <1>5 DEF CreateAgent, Attach, Detach, SetMemory, SetToken, DeleteAgent, Puts, Opens
<1>6. ASSUME NEW w \in Writers, PutFails(w) \/ CopySpace(w) \/ ArchiveSpace(w) \/ Dies(w)
      PROVE  UNCHANGED file
  BY <1>6 DEF PutFails, CopySpace, ArchiveSpace, Dies
<1>7. (\E m \in Names : Promote(m)) \/ UNCHANGED registryVars => UNCHANGED file
  BY DEF Promote, registryVars
<1> QED
  BY <1>1, <1>2, <1>3, <1>4, <1>5, <1>6, <1>7 DEF RegistryNext

\* However operations of several processes interleave, die or fail, and whatever is
\* broken by hand meanwhile: a record changes only by an operation on its agent, or
\* is in the copy kept aside, or returns over a file that does not read.
THEOREM Apartness == RegistrySpec => WritersApart
<1>1. RegistryInv /\ [RegistryNext]_registryVars =>
        [\A n \in Names : file'[n] # file[n] =>
            \/ file'[n] = Hidden
            \/ n \in aside'
            \/ \E w \in Writers :
                  \/ writer'[w] # writer[w] /\ writer[w].name = n /\ (writer[w].new => file[n] = NoAgent)
                  \/ Returns(w, n)]_registryVars
  BY StepIsApart DEF Apart
<1> QED
  BY <1>1, RegistryStarts, RegistryStep, PTL DEF RegistrySpec, WritersApart

-----------------------------------------------------------------------------
(* The permission policy. The policy lets a call run that does nothing      *)
(* outside; the two are worked out apart, and agree tool by tool.           *)

PolicyInv ==
    /\ PolicyTypeOK
    /\ verdict = "open" => person = "unasked"
    /\ verdict = "run" /\ person # "yes" => Policy \/ GrantAllows
    /\ person # "unasked" => ~Policy

\* A line that is allowed holds nothing but what stays in the workspace, and one
\* that is not allowed holds something else.
LEMMA LineJudged ==
    ASSUME NEW layer \in Layer
    PROVE  LayerAllowed(layer) <=> layer \subseteq Harmless
<1>1. CASE layer = {}
  BY <1>1 DEF LayerAllowed, Escapes
<1>2. ASSUME NEW t \in Traits, layer = {t} PROVE LayerAllowed(layer) <=> layer \subseteq Harmless
  <2>1. CASE t \in {Outward, GlobalInstall, GhOutward}
    <3>1. t \notin Harmless
      BY <2>1 DEF Harmless, Outward, GlobalInstall, GhOutward
    <3>2. ~LayerAllowed(layer)
      BY <1>2, <2>1 DEF LayerAllowed
    <3> QED
      BY <1>2, <3>1, <3>2
  <2>2. CASE t \in WriteTargets
    <3>1. PICK p \in Paths : t = <<"writes", p>>
      BY <2>2 DEF WriteTargets
    <3>2. layer \cap {Outward, GlobalInstall, GhOutward} = {}
      BY <1>2, <3>1 DEF Outward, GlobalInstall, GhOutward
    <3>3. \A q \in Paths : <<"writes", q>> \in layer <=> q = p
      BY <1>2, <3>1
    <3>4. \A q \in Paths : <<"deletes", q>> \notin layer
      BY <1>2, <3>1
    <3>5. LayerAllowed(layer) <=> p \in {"inside", "var"}
      BY <3>2, <3>3, <3>4 DEF LayerAllowed, Escapes, Paths
    <3>6. layer \subseteq Harmless <=> p \in {"inside", "var"}
      BY <1>2, <3>1 DEF Harmless, Paths
    <3> QED
      BY <3>5, <3>6
  <2>3. CASE t \in DeleteTargets
    <3>1. PICK p \in Paths : t = <<"deletes", p>>
      BY <2>3 DEF DeleteTargets
    <3>2. layer \cap {Outward, GlobalInstall, GhOutward} = {}
      BY <1>2, <3>1 DEF Outward, GlobalInstall, GhOutward
    <3>3. \A q \in Paths : <<"deletes", q>> \in layer <=> q = p
      BY <1>2, <3>1
    <3>4. \A q \in Paths : <<"writes", q>> \notin layer
      BY <1>2, <3>1
    <3>5. LayerAllowed(layer) <=> p = "inside"
      BY <3>2, <3>3, <3>4 DEF LayerAllowed, Escapes, Paths
    <3>6. layer \subseteq Harmless <=> p = "inside"
      BY <1>2, <3>1 DEF Harmless, Paths
    <3> QED
      BY <3>5, <3>6
  <2> QED
    BY <2>1, <2>2, <2>3 DEF Traits
<1> QED
  BY <1>1, <1>2 DEF Layer, AtMostOne

\* A command line runs by itself exactly when it does nothing outside, the lines
\* it hands to other shells included.
LEMMA ShellJudged ==
    ASSUME call \in ShellCalls
    PROVE  ShellAllowed(call.layers) <=> ShellDoes = {}
<1>1. PICK n \in 1 .. MaxLayers : call.layers \in [1 .. n -> Layer]
  BY DEF ShellCalls
<1>2. \A i \in DOMAIN call.layers : call.layers[i] \in Layer
  BY <1>1
<1>3. ShellAllowed(call.layers) <=> \A i \in DOMAIN call.layers : call.layers[i] \subseteq Harmless
  BY <1>2, LineJudged DEF ShellAllowed
<1> DEFINE traits == UNION {call.layers[i] : i \in DOMAIN call.layers}
<1>5. ShellDoes = {trait[1] : trait \in traits \ Harmless}
  BY DEF ShellDoes
<1>6. ShellDoes = {} <=> traits \subseteq Harmless
  <2> HIDE DEF traits
  <2> QED
    BY <1>5
<1>7. traits \subseteq Harmless <=> \A i \in DOMAIN call.layers : call.layers[i] \subseteq Harmless
  OBVIOUS
<1> QED
  BY <1>3, <1>6, <1>7

\* A connector's operation that runs by itself says that it reads, or drafts.
LEMMA ConnectorJudged ==
    ASSUME call \in ConnectorCalls
    PROVE  ConnectorAllowed(call) <=> ConnectorDoes = {}
<1>1. call.words \subseteq Words
  BY DEF ConnectorCalls
<1>2. ASSUME "write" \notin call.words
      PROVE  call.words \subseteq {"read"}
  BY <1>1, <1>2 DEF ConnectorCalls, Words
<1> QED
  BY <1>1, <1>2 DEF ConnectorAllowed, ConnectorDoes

\* The policy agrees with what a call does, but for a plan's, which needs none.
LEMMA PolicyJudged ==
    ASSUME PolicyTypeOK
    PROVE  Policy <=> Does = {}
<1>1. CASE call \in ShellCalls
  <2>1. call.tool = "shell"
    BY <1>1 DEF ShellCalls
  <2>2. Does = ShellDoes
    BY <2>1 DEF Does
  <2> QED
    BY <1>1, <2>1, <2>2, ShellJudged DEF Policy, Classify, ClassifyConfined
<1>2. CASE call \in ConnectorCalls
  <2>1. call.tool = "connector"
    BY <1>2 DEF ConnectorCalls
  <2>2. Does = ConnectorDoes
    BY <2>1 DEF Does
  <2> QED
    BY <1>2, <2>1, <2>2, ConnectorJudged DEF Policy, Classify, ClassifyConfined
<1>3. CASE call \in FileCalls
  BY <1>3 DEF FileCalls, Does, Policy, Classify, ClassifyConfined
<1>4. CASE call \in ReadCalls
  BY <1>4 DEF ReadCalls, Does, Policy, Classify, ClassifyConfined
<1>5. CASE call \in OtherCalls
  BY <1>5 DEF OtherCalls, Does, Policy, Classify, ClassifyConfined
<1> QED
  BY <1>1, <1>2, <1>3, <1>4, <1>5 DEF PolicyTypeOK, Calls

\* A grant that lets a call through vouches for it: the one thing the call does is
\* what the grant is for, and everyone it reaches is on the grant's list.
LEMMA GrantVouches ==
    ASSUME PolicyTypeOK, GrantAllows
    PROVE  Does = {} \/ Vouched
<1>1. CASE call.tool = "shell" /\ \E g \in grants : PullMatches(g)
  <2>1. PICK g \in grants : g.kind = "pull_request" /\ g.bound # NoPull /\ call.pull = g.bound
    BY <1>1 DEF PullMatches
  <2>2. call \in ShellCalls
    BY <1>1 DEF PolicyTypeOK, Calls, ReadCalls, FileCalls, ConnectorCalls, OtherCalls
  <2>3. call.pull \in Branches /\ call.layers = <<{GhOutward}>>
    BY <2>1, <2>2 DEF ShellCalls
  <2>4. ShellDoes = {"gh"}
    <3>1. (UNION {call.layers[i] : i \in DOMAIN call.layers}) \ Harmless = {GhOutward}
      <4>1. DOMAIN call.layers = {1} /\ call.layers[1] = {GhOutward}
        BY <2>3
      <4>2. GhOutward \notin Harmless
        BY DEF GhOutward, Harmless
      <4> QED
        BY <4>1, <4>2
    <3>2. ShellDoes = {trait[1] : trait \in {GhOutward}}
      BY <3>1 DEF ShellDoes
    <3>3. GhOutward[1] = "gh"
      BY DEF GhOutward
    <3> QED
      BY <3>2, <3>3
  <2>5. Does = {"gh"}
    BY <1>1, <2>4 DEF Does
  <2> QED
    BY <1>1, <2>1, <2>3, <2>5 DEF Vouched
<1>2. CASE /\ call.tool = "connector" /\ "never" \notin call.words
           /\ \E g \in grants : OperationFits(g) /\ PeopleFit(g)
  <2>1. PICK g \in grants : OperationFits(g) /\ PeopleFit(g)
    BY <1>2
  <2>2. call \in ConnectorCalls
    BY <1>2 DEF PolicyTypeOK, Calls, ReadCalls, FileCalls, ShellCalls, OtherCalls
  <2>3. "write" \in call.words
    BY <2>1, <2>2 DEF OperationFits, ConnectorCalls
  <2>4. Does = IF call.draftRead THEN {} ELSE {"acts outside"}
    BY <1>2, <2>3 DEF Does, ConnectorDoes
  <2>5. <<g.kind, call.service>> \in {<<"email", "mail">>, <<"calendar", "calendar">>}
    BY <2>1 DEF OperationFits
  <2>6. /\ call.to \subseteq g.allowed /\ ~call.junk
        /\ g.kind = "email" => ~call.hidden /\ call.to # {}
    BY <2>1 DEF PeopleFit
  <2>7. CASE call.draftRead
    BY <2>4, <2>7
  <2>8. CASE ~call.draftRead
    <3>1. Does = {"acts outside"}
      BY <2>4, <2>8
    <3> QED
      BY <1>2, <2>5, <2>6, <3>1 DEF Vouched
  <2> QED
    BY <2>7, <2>8
<1> QED
  BY <1>1, <1>2 DEF GrantAllows

LEMMA PolicyStarts == PolicyInit => PolicyInv
<1> SUFFICES ASSUME PolicyInit PROVE PolicyInv
  OBVIOUS
<1>1. {} \in GrantSets
  <2> DEFINE mails == AtMostOne({g \in Grants : g.kind = "email"})
  <2> DEFINE meetings == AtMostOne({g \in Grants : g.kind = "calendar"})
  <2> DEFINE pulls == AtMostOne({g \in Grants : g.kind = "pull_request"})
  <2>1. {} \in mails /\ {} \in meetings /\ {} \in pulls
    BY DEF AtMostOne
  <2>2. GrantSets = {mail \cup event \cup pull : mail \in mails, event \in meetings, pull \in pulls}
    BY DEF GrantSets
  <2>3. {} = {} \cup {} \cup {}
    OBVIOUS
  <2> HIDE DEF mails, meetings, pulls
  <2> QED
    BY <2>1, <2>2, <2>3
<1>2. PolicyTypeOK
  BY <1>1 DEF PolicyInit, PolicyTypeOK, Calls
<1> QED
  BY <1>2 DEF PolicyInit, PolicyInv

LEMMA PolicyStep == PolicyInv /\ [PolicyNext]_policyVars => PolicyInv'
<1> SUFFICES ASSUME PolicyInv, [PolicyNext]_policyVars PROVE PolicyInv'
  OBVIOUS
<1>1. UNCHANGED <<call, confined, grants>>
  BY DEF PolicyNext, RunsAlone, AsksFirst, policyVars
<1>2. (Policy' <=> Policy) /\ (GrantAllows' <=> GrantAllows)
  BY <1>1 DEF Policy, Classify, ClassifyConfined, ShellAllowed, ConnectorAllowed, GrantAllows,
     PullMatches, OperationFits, PeopleFit
<1>3. CASE RunsAlone
  BY <1>1, <1>2, <1>3 DEF RunsAlone, PolicyInv, PolicyTypeOK
<1>4. CASE AsksFirst
  BY <1>1, <1>2, <1>4 DEF AsksFirst, PolicyInv, PolicyTypeOK
<1>5. CASE UNCHANGED policyVars
  BY <1>1, <1>2, <1>5 DEF policyVars, PolicyInv, PolicyTypeOK
<1> QED
  BY <1>3, <1>4, <1>5 DEF PolicyNext

\* What is asked about, in whose turn, and how it was decided keep their types.
THEOREM PolicyTyped == PolicySpec => []PolicyTypeOK
<1>1. PolicyInv => PolicyTypeOK
  BY DEF PolicyInv
<1> QED
  BY <1>1, PolicyStarts, PolicyStep, PTL DEF PolicySpec

\* For any addresses, branches and depth of nesting, whatever grants the turn has:
\* nothing acts outside without a person or a grant that vouches for it, and nobody
\* is asked about a call that does nothing outside.
THEOREM PolicyIsSound == PolicySpec => []PolicySound
<1>1. PolicyInv => PolicySound
  BY PolicyJudged, GrantVouches DEF PolicyInv, PolicySound
<1> QED
  BY <1>1, PolicyStarts, PolicyStep, PTL DEF PolicySpec

-----------------------------------------------------------------------------
(* The cadence. *)

\* Division with remainder, and that it is unique: a slot is told by its day and hour.
LEMMA DayAndHour ==
    ASSUME NEW d \in Nat \ {0}, NEW t \in Nat
    PROVE  t \div d \in Nat /\ t % d \in 0 .. d - 1 /\ t = (t \div d) * d + (t % d)
  OBVIOUS

LEMMA LaterDays ==
    ASSUME NEW d \in Nat \ {0}, NEW p \in Nat, NEW q \in Nat, NEW r \in 0 .. d - 1, NEW h \in 0 .. d - 1
    PROVE  /\ p < q => p * d + r < q * d + h /\ p * d + d <= q * d
           /\ p * d + r = q * d + h => p = q /\ r = h
<1>1. p < q => (p + 1) * d <= q * d
  BY CostGrows
<1>2. q < p => (q + 1) * d <= p * d
  BY CostGrows
<1>3. (p + 1) * d = p * d + d /\ (q + 1) * d = q * d + d /\ p * d \in Nat /\ q * d \in Nat
  OBVIOUS
<1> QED
  BY <1>1, <1>2, <1>3

LEMMA SlotTold ==
    ASSUME NEW d \in Nat \ {0}, NEW q \in Nat, NEW h \in 0 .. d - 1
    PROVE  q * d + h \in Nat /\ (q * d + h) \div d = q /\ (q * d + h) % d = h
<1>1. PICK t \in Nat : t = q * d + h
  OBVIOUS
<1>2. t \div d \in Nat /\ t % d \in 0 .. d - 1 /\ t = (t \div d) * d + (t % d)
  BY DayAndHour
<1>3. PICK p \in Nat, r \in 0 .. d - 1 : p = t \div d /\ r = t % d
  BY <1>2
<1>4. p * d + r = q * d + h
  BY <1>1, <1>2, <1>3
<1>5. p = q /\ r = h
  BY <1>4, LaterDays
<1> QED
  BY <1>1, <1>3, <1>5

\* A unit that goes into an interval is no longer than it.
LEMMA UnitFits ==
    ASSUME NEW n \in Nat \ {0}, NEW u \in Nat \ {0}, n % u = 0
    PROVE  n \div u \in Nat /\ (n \div u) * u = n /\ u <= n
<1>1. PICK q \in Nat : q = n \div u
  BY DayAndHour
<1>2. n = q * u
  BY <1>1, DayAndHour
<1>3. q # 0
  BY <1>2
<1>4. 1 * u <= q * u
  BY <1>3, CostGrows
<1> QED
  BY <1>1, <1>2, <1>4

\* An interval is stored in the largest unit that divides it, and is the same.
LEMMA CanonicalSame ==
    ASSUME NEW s \in Every
    PROVE  /\ Canonical(s).kind = "every" /\ Seconds(Canonical(s)) = Seconds(s)
           /\ Canonical(s) \in Every
<1>1. s.count \in Nat \ {0} /\ s.unit \in Nat \ {0} /\ s.kind = "every"
  <2>1. Units \subseteq Nat \ {0} /\ 2 * DayLength \in Nat
    BY CadenceAssumption
  <2>2. s.count \in 1 .. 2 * DayLength /\ s.unit \in Units /\ s.kind = "every"
    BY DEF Every
  <2>3. s.count \in Nat \ {0}
    BY <2>2
  <2>4. s.unit \in Nat \ {0}
    BY <2>1, <2>2
  <2> QED
    BY <2>2, <2>3, <2>4
<1>2. PICK n \in Nat \ {0} : n = Seconds(s)
  BY <1>1 DEF Seconds
<1> DEFINE units == {u \in Units : Seconds(s) % u = 0}
<1> DEFINE bounds == {b \in Nat : \A u \in units : u <= b}
<1>3. 1 \in units /\ units \subseteq Nat \ {0}
  <2>1. n % 1 \in 0 .. 0
    BY DayAndHour
  <2>2. Seconds(s) % 1 = 0
    BY <1>2, <2>1
  <2>3. 1 \in Units /\ Units \subseteq Nat \ {0}
    BY CadenceAssumption
  <2> QED
    BY <2>2, <2>3
<1>4. n \in bounds
  BY <1>2, <1>3, UnitFits
<1>5. PICK b \in bounds : \A c \in bounds : b <= c
  BY <1>4, LeastNumber
<1>6. b \in units
  <2>1. SUFFICES ASSUME b \notin units PROVE FALSE
    OBVIOUS
  <2>2. b >= 1 /\ b \in Nat /\ \A u \in units : u <= b /\ u # b /\ u \in Nat
    BY <1>3, <1>5, <2>1
  <2>3. b - 1 \in bounds
    BY <2>2
  <2> QED
    BY <1>5, <2>2, <2>3
<1>7. Max(units) \in units
  <2>1. b \in units /\ \A u \in units : b >= u
    BY <1>3, <1>5, <1>6
  <2> HIDE DEF units
  <2> QED
    BY <2>1 DEF Max
<1>8. PICK unit \in Units : unit = Max(units) /\ n % unit = 0 /\ unit \in Nat \ {0}
  BY <1>2, <1>3, <1>7
<1>9. Canonical(s) = [s EXCEPT !.count = n \div unit, !.unit = unit]
  BY <1>2, <1>8 DEF Canonical
<1>10. Canonical(s) = [kind |-> "every", count |-> n \div unit, unit |-> unit]
  BY <1>1, <1>9 DEF Every
<1>11. (n \div unit) * unit = n
  BY <1>8, UnitFits
<1>12. n \div unit \in 1 .. 2 * DayLength
  <2>1. PICK m \in Nat : m = n \div unit
    BY <1>8, DayAndHour
  <2>2. m * unit = n /\ s.count * s.unit = n
    BY <1>2, <1>11, <2>1 DEF Seconds
  <2>3. m # 0
    BY <1>2, <1>8, <2>2
  <2>4. s.unit <= unit
    <3>1. s.unit \in Units
      BY DEF Every
    <3>2. n % s.unit = 0
      <4>1. (s.count * s.unit + 0) % s.unit = 0 /\ s.count * s.unit + 0 = s.count * s.unit
        BY <1>1, SlotTold
      <4> QED
        BY <2>2, <4>1
    <3>3. s.unit \in units
      BY <1>2, <3>1, <3>2
    <3>4. \A u \in units : b >= u
      BY <1>3, <1>5
    <3>5. unit = b
      <4>1. unit \in units /\ unit >= b
        <5>1. b \in units /\ \A u \in units : b >= u
          BY <1>6, <3>4
        <5> HIDE DEF units
        <5> QED
          BY <1>8, <5>1 DEF Max
      <4> QED
        BY <1>3, <1>5, <3>4, <4>1
    <3> QED
      BY <3>3, <3>4, <3>5
  <2>5. m <= s.count
    <3>1. SUFFICES ASSUME s.count + 1 <= m PROVE FALSE
      BY <1>1, <2>1
    <3>2. (s.count + 1) * s.unit <= m * s.unit
      BY <1>1, <3>1, CostGrows
    <3>3. m * s.unit <= m * unit
      <4>1. s.unit * m <= unit * m
        BY <1>1, <1>8, <2>4, CostGrows
      <4> QED
        BY <1>1, <1>8, <4>1
    <3>4. (s.count + 1) * s.unit = s.count * s.unit + s.unit
      BY <1>1
    <3> QED
      BY <1>1, <1>2, <1>8, <2>2, <3>2, <3>3, <3>4
  <2>6. s.count \in 1 .. 2 * DayLength
    BY DEF Every
  <2> QED
    BY <2>1, <2>3, <2>5, <2>6, CadenceAssumption
<1>13. Canonical(s) \in Every
  BY <1>8, <1>10, <1>12 DEF Every
<1> QED
  BY <1>2, <1>10, <1>11, <1>13 DEF Seconds

-----------------------------------------------------------------------------

\* A wall-clock time at which a spec fires.
AtSlot(s, wall) == wall % DayLength = s.hour /\ (s.days = {} \/ Weekday(wall) \in s.days)

\* The days next_run looks at: today, and those of the week that follows.
SlotOf(s, wall, i) == (wall \div DayLength + i) * DayLength + s.hour

LEMMA SlotOfDay ==
    ASSUME NEW s \in At, NEW wall \in Nat, NEW i \in Nat
    PROVE  /\ SlotOf(s, wall, i) \in Nat
           /\ SlotOf(s, wall, i) % DayLength = s.hour
           /\ SlotOf(s, wall, i) \div DayLength = wall \div DayLength + i
<1>1. DayLength \in Nat \ {0} /\ s.hour \in 0 .. DayLength - 1
  BY CadenceAssumption DEF At
<1>2. wall \div DayLength + i \in Nat
  <2>1. wall \div DayLength \in Nat
    BY <1>1, DayAndHour
  <2> QED
    BY <2>1
<1>3. PICK q \in Nat : q = wall \div DayLength + i
  BY <1>2
<1> QED
  BY <1>1, <1>3, SlotTold DEF SlotOf

\* What is found is a slot, and still to come.
LEMMA SlotsAreSlots ==
    ASSUME NEW s \in At, NEW wall \in Nat
    PROVE  \A c \in Slots(s, wall) : c \in Nat /\ c > wall /\ AtSlot(s, c)
<1>1. ASSUME NEW c \in Slots(s, wall) PROVE c \in Nat /\ c > wall /\ AtSlot(s, c)
  <2>1. PICK i \in 0 .. WeekLength : c = SlotOf(s, wall, i)
    BY <1>1 DEF Slots, SlotOf
  <2>2. c > wall /\ (s.days = {} \/ Weekday(c) \in s.days)
    BY <1>1 DEF Slots
  <2>3. i \in Nat
    BY <2>1, CadenceAssumption
  <2>4. c \in Nat /\ c % DayLength = s.hour
    BY <2>1, <2>3, SlotOfDay
  <2> QED
    BY <2>2, <2>4 DEF AtSlot
<1> QED
  BY <1>1

\* A week holds a slot: the hour of a day that is asked for, today only if it is
\* still to come.
LEMMA SomeSlot ==
    ASSUME NEW s \in At, NEW wall \in Nat
    PROVE  Slots(s, wall) # {}
<1>1. DayLength \in Nat \ {0} /\ WeekLength \in Nat \ {0} /\ s.hour \in 0 .. DayLength - 1
      /\ s.days \subseteq 0 .. WeekLength - 1
  BY CadenceAssumption DEF At, Weekdays
<1>2. PICK q \in Nat, r \in 0 .. DayLength - 1 : q = wall \div DayLength /\ r = wall % DayLength
  BY <1>1, DayAndHour
<1>3. wall = q * DayLength + r
  BY <1>1, <1>2, DayAndHour
<1>4. \A i \in Nat \ {0} : SlotOf(s, wall, i) > wall
  <2> SUFFICES ASSUME NEW i \in Nat \ {0} PROVE SlotOf(s, wall, i) > wall
    OBVIOUS
  <2>1. PICK p \in Nat : p = q + i
    OBVIOUS
  <2>2. q < p
    BY <2>1
  <2>3. q * DayLength + r < p * DayLength + s.hour
    BY <1>1, <2>2, LaterDays
  <2>4. p * DayLength + s.hour \in Nat
    BY <1>1, SlotTold
  <2> QED
    BY <1>2, <1>3, <2>1, <2>3, <2>4 DEF SlotOf
<1>5. ASSUME NEW i \in 1 .. WeekLength, s.days = {} \/ Weekday(SlotOf(s, wall, i)) \in s.days
      PROVE  SlotOf(s, wall, i) \in Slots(s, wall)
  <2>1. i \in 0 .. WeekLength /\ i \in Nat \ {0}
    BY <1>1, <1>5
  <2>2. SlotOf(s, wall, i) > wall
    BY <1>4, <2>1
  <2> QED
    BY <1>5, <2>1, <2>2 DEF Slots, SlotOf
<1>6. CASE s.days = {}
  <2>1. 1 \in 1 .. WeekLength
    BY <1>1
  <2> QED
    BY <1>5, <1>6, <2>1
<1>7. ASSUME NEW wanted \in s.days PROVE Slots(s, wall) # {}
  <2>1. PICK k \in Nat, today \in 0 .. WeekLength - 1 :
          k = q \div WeekLength /\ today = q % WeekLength /\ q = k * WeekLength + today
    BY <1>1, DayAndHour
  <2>2. wanted \in 0 .. WeekLength - 1
    BY <1>1, <1>7
  <2>3. PICK i \in 1 .. WeekLength, n \in Nat : q + i = n * WeekLength + wanted
    <3>1. CASE wanted > today
      <4>1. wanted - today \in 1 .. WeekLength /\ q + (wanted - today) = k * WeekLength + wanted
        BY <1>1, <2>1, <2>2, <3>1
      <4> QED
        BY <4>1
    <3>2. CASE wanted <= today
      <4>1. (k + 1) * WeekLength = k * WeekLength + WeekLength /\ k + 1 \in Nat /\ k * WeekLength \in Nat
        BY <1>1
      <4>2. wanted + WeekLength - today \in 1 .. WeekLength
        BY <1>1, <2>1, <2>2, <3>2
      <4>3. q + (wanted + WeekLength - today) = (k + 1) * WeekLength + wanted
        BY <1>1, <2>1, <2>2, <4>1
      <4> QED
        BY <4>1, <4>2, <4>3
    <3> QED
      BY <2>1, <2>2, <3>1, <3>2
  <2>4. SlotOf(s, wall, i) \div DayLength = q + i
    <3>1. i \in Nat
      BY <1>1
    <3>2. SlotOf(s, wall, i) \div DayLength = wall \div DayLength + i
      BY <3>1, SlotOfDay
    <3> QED
      BY <1>2, <3>2
  <2>5. (n * WeekLength + wanted) % WeekLength = wanted
    BY <1>1, <2>2, SlotTold
  <2>6. Weekday(SlotOf(s, wall, i)) = wanted
    BY <2>3, <2>4, <2>5 DEF Weekday
  <2> QED
    BY <1>5, <1>7, <2>6
<1> QED
  BY <1>6, <1>7

\* The first of them is the first there is: no slot to come is before it.
LEMMA FirstSlot ==
    ASSUME NEW s \in At, NEW wall \in Nat
    PROVE  /\ Min(Slots(s, wall)) \in Slots(s, wall)
           /\ \A w \in Nat : w > wall /\ AtSlot(s, w) => Min(Slots(s, wall)) <= w
<1> DEFINE first == Min(Slots(s, wall))
<1>1. DayLength \in Nat \ {0} /\ WeekLength \in Nat \ {0} /\ s.hour \in 0 .. DayLength - 1
  BY CadenceAssumption DEF At
<1>2. Slots(s, wall) \subseteq Nat
  BY SlotsAreSlots
<1>3. PICK x \in Slots(s, wall) : \A y \in Slots(s, wall) : x <= y
  BY <1>2, SomeSlot, LeastNumber
<1>4. first \in Slots(s, wall) /\ \A y \in Slots(s, wall) : first <= y
  BY <1>3 DEF Min
<1>5. ASSUME NEW w \in Nat, w > wall, AtSlot(s, w) PROVE first <= w
  <2>1. PICK q \in Nat, r \in 0 .. DayLength - 1 :
          q = wall \div DayLength /\ r = wall % DayLength /\ wall = q * DayLength + r
    BY <1>1, DayAndHour
  <2>2. PICK p \in Nat : p = w \div DayLength /\ w = p * DayLength + s.hour
    BY <1>1, <1>5, DayAndHour DEF AtSlot
  <2>3. p >= q
    <3>1. SUFFICES ASSUME p < q PROVE FALSE
      BY <2>1, <2>2
    <3>2. p * DayLength + s.hour < q * DayLength + r
      BY <1>1, <3>1, LaterDays
    <3> QED
      BY <1>5, <2>1, <2>2, <3>2
  <2>4. CASE p <= q + WeekLength
    <3>1. PICK i \in 0 .. WeekLength : p = q + i
      <4>1. p - q \in 0 .. WeekLength /\ p = q + (p - q)
        BY <1>1, <2>3, <2>4
      <4> QED
        BY <4>1
    <3>2. w = SlotOf(s, wall, i)
      BY <2>1, <2>2, <3>1 DEF SlotOf
    <3>3. w \in Slots(s, wall)
      BY <1>5, <3>2 DEF Slots, SlotOf, AtSlot
    <3> QED
      BY <1>4, <3>3
  <2>5. CASE p > q + WeekLength
    <3>1. PICK i \in 0 .. WeekLength : first = SlotOf(s, wall, i)
      BY <1>4 DEF Slots, SlotOf
    <3>2. PICK n \in Nat : n = q + i
      BY <1>1, <3>1
    <3>3. n < p
      BY <1>1, <2>5, <3>2
    <3>4. n * DayLength + s.hour < p * DayLength + s.hour
      BY <1>1, <3>3, LaterDays
    <3>5. first = n * DayLength + s.hour /\ first \in Nat
      BY <1>2, <1>4, <2>1, <3>1, <3>2 DEF SlotOf
    <3> QED
      BY <2>2, <3>4, <3>5
  <2> QED
    BY <1>1, <2>4, <2>5
<1> QED
  BY <1>4, <1>5

\* Two slots are a day apart.
LEMMA SlotsApart ==
    ASSUME NEW s \in At, NEW v \in Nat, NEW w \in Nat, AtSlot(s, v), AtSlot(s, w), v < w
    PROVE  v + DayLength <= w
<1>1. DayLength \in Nat \ {0} /\ s.hour \in 0 .. DayLength - 1
  BY CadenceAssumption DEF At
<1>2. PICK p \in Nat : p = v \div DayLength /\ v = p * DayLength + s.hour
  BY <1>1, DayAndHour DEF AtSlot
<1>3. PICK q \in Nat : q = w \div DayLength /\ w = q * DayLength + s.hour
  BY <1>1, DayAndHour DEF AtSlot
<1>4. p < q
  <2>1. SUFFICES ASSUME q <= p PROVE FALSE
    OBVIOUS
  <2>2. q * DayLength <= p * DayLength /\ q * DayLength \in Nat /\ p * DayLength \in Nat
    BY <1>1, <2>1, CostGrows
  <2> QED
    BY <1>1, <1>2, <1>3, <2>2
<1>5. p * DayLength + DayLength <= q * DayLength
  BY <1>1, <1>4, LaterDays
<1> QED
  BY <1>1, <1>2, <1>3, <1>5

\* What the clock says, and what next_run takes it for, are times.
LEMMA ClockIsTime ==
    ASSUME NEW t \in Nat
    PROVE  Wall(t) \in Nat /\ Wall(t) >= t
  BY CadenceAssumption DEF Wall

\* The instant of the first slot after what the clock says at `at': it is to
\* come, the clock shows a slot then or has skipped one, and no slot is passed over.
LEMMA NextIsNext ==
    ASSUME NEW s \in At, NEW moment \in Nat, ~Repeated(moment),
           NEW t \in Nat, t = Instant(Min(Slots(s, Wall(moment))))
    PROVE  /\ t > moment
           /\ AtSlot(s, Wall(t)) \/ (t \in Forward .. Forward + Shift - 1 /\ AtSlot(s, t))
           /\ \A u \in moment + 1 .. t - 1 : AtSlot(s, Wall(u)) => Repeated(u)
<1>1. {Forward, Back, Shift, DayLength} \subseteq Nat /\ Forward + Shift < Back /\ Shift <= DayLength
  BY CadenceAssumption
<1>2. PICK wall \in Nat : wall = Wall(moment)
  BY ClockIsTime
<1>3. PICK m \in Nat : m = Min(Slots(s, wall)) /\ m > wall /\ AtSlot(s, m)
  BY FirstSlot, SlotsAreSlots
<1>4. \A w \in Nat : w > wall /\ AtSlot(s, w) => m <= w
  BY <1>3, FirstSlot
<1>5. t = Instant(m)
  BY <1>2, <1>3
<1>6. t > moment
  BY <1>1, <1>2, <1>3, <1>5 DEF Wall, Instant, Repeated
<1>7. Wall(t) = m \/ (t \in Forward .. Forward + Shift - 1 /\ t = m)
  BY <1>1, <1>5 DEF Wall, Instant
<1>8. ASSUME NEW u \in moment + 1 .. t - 1, AtSlot(s, Wall(u)), ~Repeated(u) PROVE FALSE
  <2>1. u \in Nat /\ moment < u /\ u < t
    OBVIOUS
  <2>2. PICK w \in Nat : w = Wall(u)
    BY <2>1, ClockIsTime
  <2>3. w > wall
    BY <1>1, <1>2, <1>8, <2>1, <2>2 DEF Wall, Repeated
  <2>4. m <= w
    BY <1>4, <1>8, <2>2, <2>3
  <2>5. CASE m < w
    <3>1. m + DayLength <= w
      BY <1>3, <1>8, <2>2, <2>5, SlotsApart
    <3> QED
      BY <1>1, <1>5, <1>8, <2>1, <2>2, <3>1 DEF Wall, Instant, Repeated
  <2>6. CASE m = w
    BY <1>1, <1>5, <1>8, <2>1, <2>2, <2>6 DEF Wall, Instant, Repeated
  <2> QED
    BY <2>4, <2>5, <2>6
<1> QED
  BY <1>3, <1>6, <1>7, <1>8

\* What was asked, its canonical form and the answer belong together.
CadenceInv ==
    /\ asked \in Every \cup At /\ at \in 1 .. Horizon
    /\ spec \in {NotYet, IF asked.kind = "every" THEN Canonical(asked) ELSE asked}
    /\ next # 0 =>
          /\ spec # NotYet
          /\ next = IF spec.kind = "every" THEN at + Seconds(spec) ELSE Instant(Min(Slots(spec, Wall(at))))

LEMMA CadenceStarts == CadenceInit => CadenceInv
  BY DEF CadenceInit, CadenceInv

LEMMA CadenceStep == CadenceInv /\ [CadenceNext]_cadenceVars => CadenceInv'
<1> SUFFICES ASSUME CadenceInv, [CadenceNext]_cadenceVars PROVE CadenceInv'
  OBVIOUS
<1>1. CASE Normalize
  BY <1>1 DEF Normalize, CadenceInv
<1>2. CASE NextRun
  BY <1>2 DEF NextRun, CadenceInv
<1>3. CASE UNCHANGED cadenceVars
  BY <1>3 DEF cadenceVars, CadenceInv
<1> QED
  BY <1>1, <1>2, <1>3 DEF CadenceNext

LEMMA CadenceFollows == CadenceInv => CadenceTypeOK
<1> SUFFICES ASSUME CadenceInv PROVE CadenceTypeOK
  OBVIOUS
<1>1. at \in Nat /\ asked \in Every \cup At
  BY CadenceAssumption DEF CadenceInv
<1>2. spec \in Every \cup At \cup {NotYet}
  <2>1. CASE asked \in Every
    <3>1. Canonical(asked) \in Every /\ asked.kind = "every"
      BY <2>1, CanonicalSame DEF Every
    <3> QED
      BY <3>1 DEF CadenceInv
  <2>2. CASE asked \in At
    <3>1. asked.kind = "at"
      BY <2>2 DEF At
    <3> QED
      BY <2>2, <3>1 DEF CadenceInv
  <2> QED
    BY <1>1, <2>1, <2>2
<1>3. CASE next = 0
  BY <1>1, <1>2, <1>3 DEF CadenceInv, CadenceTypeOK
<1>4. CASE next # 0
  <2>1. spec # NotYet /\ next = IF spec.kind = "every" THEN at + Seconds(spec) ELSE Instant(Min(Slots(spec, Wall(at))))
    BY <1>4 DEF CadenceInv
  <2>2. CASE spec \in Every
    <3>1. spec.kind = "every" /\ spec.count \in 1 .. 2 * DayLength /\ spec.unit \in Units
      BY <2>2 DEF Every
    <3>2. spec.count \in Nat
      BY <3>1
    <3>3. spec.unit \in Nat
      BY <3>1, CadenceAssumption
    <3>4. Seconds(spec) \in Nat
      BY <3>2, <3>3 DEF Seconds
    <3>5. next \in Nat
      BY <1>1, <2>1, <3>1, <3>4
    <3> QED
      BY <1>1, <1>2, <3>5 DEF CadenceInv, CadenceTypeOK
  <2>3. CASE spec \in At
    <3>1. spec.kind = "at"
      BY <2>3 DEF At
    <3>2. Min(Slots(spec, Wall(at))) \in Nat
      BY <1>1, <2>3, ClockIsTime, FirstSlot, SlotsAreSlots
    <3>3. next = Instant(Min(Slots(spec, Wall(at))))
      BY <2>1, <3>1
    <3>4. next \in Nat
      BY <3>2, <3>3, CadenceAssumption DEF Instant
    <3> QED
      BY <1>1, <1>2, <3>4 DEF CadenceInv, CadenceTypeOK
  <2> QED
    BY <1>2, <2>1, <2>2, <2>3
<1> QED
  BY <1>3, <1>4

\* For any lengths of day and week, any intervals and any hour by which a clock is
\* put forward and back: an interval is the one that was asked for, and a daily or
\* weekly schedule fires next at the next slot.
THEOREM Fires == CadenceSpec => []FiresNext
<1>1. CadenceInv => FiresNext
  <2> SUFFICES ASSUME CadenceInv, next # 0 PROVE FiresNext
    BY DEF FiresNext
  <2>1. at \in Nat \ {0} /\ asked \in Every \cup At
    BY CadenceAssumption DEF CadenceInv
  <2>2. CASE asked \in Every
    <3>1. asked.kind = "every"
      BY <2>2 DEF Every
    <3>2. spec = Canonical(asked) /\ spec.kind = "every"
      BY <2>2, <3>1, CanonicalSame DEF CadenceInv
    <3>3. next = at + Seconds(asked)
      BY <2>2, <3>2, CanonicalSame DEF CadenceInv
    <3> QED
      BY <3>1, <3>3 DEF FiresNext
  <2>3. CASE asked \in At
    <3>1. asked.kind = "at"
      BY <2>3 DEF At
    <3>2. spec = asked /\ next = Instant(Min(Slots(asked, Wall(at))))
      BY <3>1 DEF CadenceInv
    <3>3. \A w : AtSlot(asked, w) <=> IsSlot(w)
      BY DEF AtSlot, IsSlot
    <3>4. next \in Nat
      <4>1. Wall(at) \in Nat
        BY <2>1, ClockIsTime
      <4>2. Min(Slots(asked, Wall(at))) \in Nat
        BY <2>3, <4>1, FirstSlot, SlotsAreSlots
      <4> QED
        BY <3>2, <4>2, CadenceAssumption DEF Instant
    <3>5. ASSUME ~Repeated(at)
          PROVE  /\ next > at
                 /\ IsSlot(Wall(next)) \/ (next \in Forward .. Forward + Shift - 1 /\ IsSlot(next))
                 /\ \A t \in at + 1 .. next - 1 : IsSlot(Wall(t)) => Repeated(t)
      BY <2>1, <2>3, <3>2, <3>3, <3>4, <3>5, NextIsNext
    <3> QED
      BY <3>1, <3>5 DEF FiresNext
  <2> QED
    BY <2>1, <2>2, <2>3
<1> QED
  BY <1>1, CadenceStarts, CadenceStep, PTL DEF CadenceSpec

\* What was asked for and what it is stored as are specifications a user may give,
\* and the next time is a time.
THEOREM CadenceTyped == CadenceSpec => []CadenceTypeOK
<1>1. CadenceInv => CadenceTypeOK
  BY CadenceFollows
<1> QED
  BY <1>1, CadenceStarts, CadenceStep, PTL DEF CadenceSpec

-----------------------------------------------------------------------------
(* The build's ledger keeps what Progress promises, for plans of any       *)
(* length. What the agent heard of is in the file and in the ledger the    *)
(* process holds, so that no later write can lose it; and before the agent *)
(* works and after its session the two are the same.                       *)

Told ==
    /\ build # "off" <=> inMind # NoPlan
    /\ build # "off" => onDisk # NoPlan
    /\ onDisk = NoPlan => told = {}
    /\ onDisk # NoPlan => told \subseteq Done(onDisk)
    /\ inMind # NoPlan => told \subseteq Done(inMind)
InStep == build \notin {"off", "work"} => inMind = onDisk

BuildInv == BuildTypeOK /\ Told /\ InStep

-----------------------------------------------------------------------------
(* Ledgers.                                                                *)

LEMMA LedgerTyped ==
  ASSUME NEW ledger \in Ledger
  PROVE  /\ ledger # NoPlan /\ ledger.plan \in Plans /\ ledger.session \in BOOLEAN
         /\ DOMAIN ledger.plan \subseteq 1 .. MaxMilestones /\ Done(ledger) \subseteq DOMAIN ledger.plan
<1>1. ledger # NoPlan /\ ledger.plan \in Plans /\ ledger.session \in BOOLEAN
  BY NoPlanAssumption DEF Ledger
<1>2. PICK n \in 0 .. MaxMilestones : ledger.plan \in [1 .. n -> Statuses]
  BY <1>1 DEF Plans
<1>3. DOMAIN ledger.plan \subseteq 1 .. MaxMilestones
  BY <1>2, BuildAssumption
<1>. QED
  BY <1>1, <1>3 DEF Done

LEMMA CreatedTyped == Created \in Ledger /\ Created.plan = <<>> /\ Done(Created) = {}
<1>1. <<>> \in [1 .. 0 -> Statuses] /\ DOMAIN <<>> = {}
  OBVIOUS
<1>2. <<>> \in Plans
  BY <1>1, BuildAssumption DEF Plans
<1>. QED
  BY <1>1, <1>2 DEF Created, Ledger, Done

LEMMA SessionTyped ==
  ASSUME NEW ledger \in Ledger, NEW b \in BOOLEAN
  PROVE  LET changed == [ledger EXCEPT !.session = b]
         IN  changed \in Ledger /\ changed.plan = ledger.plan /\ Done(changed) = Done(ledger)
  BY DEF Ledger, Done

LEMMA PlannedTyped ==
  ASSUME NEW ledger \in Ledger, NEW n \in 1 .. MaxMilestones
  PROVE  [ledger EXCEPT !.plan = [i \in 1 .. n |-> "pending"]] \in Ledger
<1>1. [i \in 1 .. n |-> "pending"] \in [1 .. n -> Statuses] /\ n \in 0 .. MaxMilestones
  BY BuildAssumption DEF Statuses
<1>2. [i \in 1 .. n |-> "pending"] \in Plans
  BY <1>1 DEF Plans
<1>. QED
  BY <1>2 DEF Ledger

\* Setting one milestone's status changes what is done by that milestone only.
LEMMA UpdatedTyped ==
  ASSUME NEW ledger \in Ledger, NEW i \in DOMAIN ledger.plan, NEW status \in Statuses
  PROVE  LET changed == [ledger EXCEPT !.plan[i] = status]
         IN  /\ changed \in Ledger /\ DOMAIN changed.plan = DOMAIN ledger.plan
             /\ Done(changed) = IF status = "done" THEN Done(ledger) \cup {i} ELSE Done(ledger) \ {i}
<1>. DEFINE changed == [ledger EXCEPT !.plan[i] = status]
            after == [ledger.plan EXCEPT ![i] = status]
<1>1. PICK n \in 0 .. MaxMilestones : ledger.plan \in [1 .. n -> Statuses]
  BY LedgerTyped DEF Plans
<1>2. after \in [1 .. n -> Statuses] /\ DOMAIN after = DOMAIN ledger.plan
      /\ \A j \in DOMAIN after : after[j] = IF j = i THEN status ELSE ledger.plan[j]
  BY <1>1
<1>3. after \in Plans
  BY <1>2 DEF Plans
<1>4. changed.plan = after /\ changed = [plan |-> after, session |-> ledger.session]
  BY DEF Ledger
<1>. HIDE DEF after, changed
<1>5. changed \in Ledger
  BY <1>3, <1>4, LedgerTyped DEF Ledger
<1>6. Done(changed) = IF status = "done" THEN Done(ledger) \cup {i} ELSE Done(ledger) \ {i}
  BY <1>2, <1>4 DEF Done
<1>. QED
  BY <1>2, <1>4, <1>5, <1>6 DEF changed

-----------------------------------------------------------------------------
(* The invariant.                                                          *)

LEMMA BuildInitInv == BuildInit => BuildInv
  BY DEF BuildInit, BuildInv, BuildTypeOK, Told, InStep

LEMMA BuildStepInv == BuildInv /\ [BuildNext]_buildVars => BuildInv'
<1>1. SUFFICES ASSUME BuildInv, [BuildNext]_buildVars PROVE BuildInv'
  OBVIOUS
<1>. USE DEF BuildInv
<1>2. build # "off" => inMind \in Ledger /\ onDisk \in Ledger
  BY <1>1 DEF BuildTypeOK, Told
<1>3. CASE Create
  BY <1>1, <1>3, CreatedTyped, LedgerTyped DEF Create, Save, BuildTypeOK, Told, InStep
<1>4. CASE Resume
  BY <1>1, <1>4 DEF Resume, BuildTypeOK, Told, InStep
<1>5. CASE Connect
  BY <1>1, <1>5 DEF Connect, BuildTypeOK, Told, InStep
<1>6. CASE SessionGone
  <2>. DEFINE ledger == [inMind EXCEPT !.session = FALSE]
  <2>1. inMind \in Ledger /\ inMind = onDisk
    BY <1>1, <1>2, <1>6 DEF SessionGone, InStep
  <2>2. ledger \in Ledger /\ ledger # NoPlan /\ Done(ledger) = Done(inMind)
    BY <2>1, SessionTyped, LedgerTyped
  <2>3. inMind' = ledger /\ onDisk' = ledger /\ build' = "retry" /\ alive' = alive /\ told' = told /\ build = "connect"
    BY <1>6 DEF SessionGone, Save
  <2>. HIDE DEF ledger
  <2>. QED
    BY <1>1, <2>1, <2>2, <2>3 DEF BuildTypeOK, Told, InStep
<1>7. CASE SetPlan
  <2>1. PICK n \in 1 .. MaxMilestones : LET ledger == [inMind EXCEPT !.plan = [i \in 1 .. n |-> "pending"]]
                                        IN  Save(ledger) \/ SaveFails(ledger)
    BY <1>7 DEF SetPlan
  <2>. DEFINE ledger == [inMind EXCEPT !.plan = [i \in 1 .. n |-> "pending"]]
  <2>2. ledger \in Ledger /\ ledger # NoPlan
    BY <1>2, <1>7, PlannedTyped, LedgerTyped DEF SetPlan
  <2>3. inMind' = ledger /\ (onDisk' = ledger \/ onDisk' = onDisk)
    BY <2>1 DEF Save, SaveFails
  <2>4. build' = "work" /\ build = "work" /\ alive' = alive /\ told' = {}
    BY <1>7 DEF SetPlan
  <2>. HIDE DEF ledger
  <2>. QED
    BY <1>1, <1>2, <2>2, <2>3, <2>4, LedgerTyped DEF BuildTypeOK, Told, InStep
<1>8. CASE Update
  <2>1. PICK i \in DOMAIN inMind.plan, status \in Statuses :
          LET ledger == [inMind EXCEPT !.plan[i] = status]
          IN  \/ Save(ledger) /\ told' = IF status = "done" THEN told \cup {i} ELSE told \ {i}
              \/ SaveFails(ledger) /\ told' = IF status = "done" THEN told ELSE told \ {i}
    BY <1>8 DEF Update
  <2>. DEFINE ledger == [inMind EXCEPT !.plan[i] = status]
  <2>2. build' = "work" /\ build = "work" /\ alive' = alive /\ inMind \in Ledger /\ onDisk \in Ledger
    BY <1>2, <1>8 DEF Update
  <2>3. /\ ledger \in Ledger /\ ledger # NoPlan /\ i \in 1 .. MaxMilestones
        /\ Done(ledger) = IF status = "done" THEN Done(inMind) \cup {i} ELSE Done(inMind) \ {i}
    BY <2>2, UpdatedTyped, LedgerTyped
  <2>4. told \subseteq Done(inMind) /\ told \subseteq Done(onDisk) /\ inMind # NoPlan /\ onDisk # NoPlan
    BY <1>1, <2>2 DEF Told
  <2>5. CASE Save(ledger) /\ told' = IF status = "done" THEN told \cup {i} ELSE told \ {i}
    <3>1. inMind' = ledger /\ onDisk' = ledger
      BY <2>5 DEF Save
    <3>. HIDE DEF ledger
    <3>. QED
      BY <1>1, <2>2, <2>3, <2>4, <2>5, <3>1 DEF BuildTypeOK, Told, InStep
  <2>6. CASE SaveFails(ledger) /\ told' = IF status = "done" THEN told ELSE told \ {i}
    <3>1. inMind' = ledger /\ onDisk' = onDisk
      BY <2>6 DEF SaveFails
    <3>. HIDE DEF ledger
    <3>. QED
      BY <1>1, <2>2, <2>3, <2>4, <2>6, <3>1 DEF BuildTypeOK, Told, InStep
  <2>. QED
    BY <2>1, <2>5, <2>6
<1>9. CASE Result
  <2>1. CASE Save([inMind EXCEPT !.session = TRUE]) /\ build' = "result" /\ alive' = TRUE
    <3>. DEFINE ledger == [inMind EXCEPT !.session = TRUE]
    <3>1. build # "off" /\ inMind \in Ledger /\ told' = told
      BY <1>2, <1>9 DEF Result
    <3>2. ledger \in Ledger /\ ledger # NoPlan /\ Done(ledger) = Done(inMind)
      BY <3>1, SessionTyped, LedgerTyped
    <3>3. inMind' = ledger /\ onDisk' = ledger /\ build' = "result" /\ alive' = TRUE
      BY <2>1 DEF Save
    <3>. HIDE DEF ledger
    <3>. QED
      BY <1>1, <3>1, <3>2, <3>3 DEF BuildTypeOK, Told, InStep
  <2>2. CASE inMind' = NoPlan /\ UNCHANGED <<onDisk, alive>> /\ build' = "off"
    BY <1>1, <1>9, <2>2 DEF Result, BuildTypeOK, Told, InStep
  <2>. QED
    BY <1>9, <2>1, <2>2 DEF Result
<1>10. CASE Announce
  BY <1>1, <1>10 DEF Announce, BuildTypeOK, Told, InStep
<1>11. CASE Ends
  BY <1>1, <1>11 DEF Ends, BuildTypeOK, Told, InStep
<1>12. CASE Expire
  BY <1>1, <1>12 DEF Expire, BuildTypeOK, Told, InStep
<1>13. CASE UNCHANGED buildVars
  BY <1>1, <1>13 DEF buildVars, BuildTypeOK, Told, InStep
<1>. QED
  BY <1>1, <1>3, <1>4, <1>5, <1>6, <1>7, <1>8, <1>9, <1>10, <1>11, <1>12, <1>13 DEF BuildNext

-----------------------------------------------------------------------------
(* The refinement: what each step is to the promise.                       *)

Planned == IF onDisk = NoPlan THEN {} ELSE DOMAIN onDisk.plan
Durable == IF onDisk = NoPlan THEN {} ELSE Done(onDisk)

LEMMA PromiseInit == BuildInit => Promise!ProgressInit
  BY DEF BuildInit, Promise!ProgressInit

\* Where the invariant holds, any write is one the promise allows.
LEMMA PromiseWrites ==
  ASSUME BuildInv'
  PROVE  Promise!Writes
<1>. USE DEF BuildInv
<1>1. CASE onDisk' = NoPlan
  BY <1>1 DEF Promise!Writes, Told
<1>2. CASE onDisk' # NoPlan
  <2>1. onDisk' \in Ledger
    BY <1>2 DEF BuildTypeOK
  <2>2. DOMAIN onDisk'.plan \subseteq 1 .. MaxMilestones /\ Done(onDisk)' \subseteq DOMAIN onDisk'.plan
    <3>1. DOMAIN onDisk'.plan \subseteq 1 .. MaxMilestones
      BY <2>1, LedgerTyped
    <3>2. Done(onDisk)' \subseteq DOMAIN onDisk'.plan
      BY DEF Done
    <3>. QED
      BY <3>1, <3>2
  <2>3. told' \subseteq Done(onDisk)'
    BY <1>2 DEF Told
  <2>. QED
    BY <1>2, <2>2, <2>3 DEF Promise!Writes
<1>. QED
  BY <1>1, <1>2

LEMMA PromiseStutters ==
  ASSUME Planned' = Planned, Durable' = Durable, told' = told, (build = "complete")' <=> build = "complete"
  PROVE  UNCHANGED Promise!progressVars
  BY DEF Planned, Durable, Promise!progressVars

LEMMA PromiseStep ==
  ASSUME BuildInv, BuildInv', [BuildNext]_buildVars
  PROVE  [Promise!ProgressNext]_Promise!progressVars
<1>1. CASE Create
  <2>1. Planned' = Planned /\ Durable' = Durable
    BY <1>1, CreatedTyped, LedgerTyped DEF Create, Save, Planned, Durable
  <2>. QED
    BY <1>1, <2>1, PromiseStutters DEF Create
<1>2. CASE Resume \/ Connect \/ Expire
  <2>1. onDisk' = onDisk /\ told' = told /\ ((build = "complete")' <=> build = "complete")
    BY <1>2 DEF Resume, Connect, Expire
  <2>2. Planned' = Planned /\ Durable' = Durable
    BY <2>1 DEF Planned, Durable
  <2>. QED
    BY <2>1, <2>2, PromiseStutters
<1>3. CASE SessionGone
  <2>. DEFINE ledger == [inMind EXCEPT !.session = FALSE]
  <2>1. inMind \in Ledger /\ inMind = onDisk
    BY <1>3 DEF SessionGone, BuildInv, BuildTypeOK, Told, InStep
  <2>2. ledger \in Ledger /\ ledger # NoPlan /\ ledger.plan = onDisk.plan /\ Done(ledger) = Done(onDisk)
    BY <2>1, SessionTyped, LedgerTyped
  <2>3. onDisk' = ledger
    BY <1>3 DEF SessionGone, Save
  <2>. HIDE DEF ledger
  <2>4. onDisk # NoPlan
    BY <2>1, LedgerTyped
  <2>5. Planned' = Planned /\ Durable' = Durable
    BY <2>2, <2>3, <2>4 DEF Planned, Durable
  <2>. QED
    BY <1>3, <2>5, PromiseStutters DEF SessionGone
<1>4. CASE SetPlan
  <2>1. Promise!Replan
    BY <1>4, PromiseWrites DEF SetPlan, Promise!Replan
  <2>. QED
    BY <2>1 DEF Promise!ProgressNext
<1>5. CASE Update
  <2>1. PICK i \in DOMAIN inMind.plan, status \in Statuses :
          LET ledger == [inMind EXCEPT !.plan[i] = status]
          IN  \/ Save(ledger) /\ told' = IF status = "done" THEN told \cup {i} ELSE told \ {i}
              \/ SaveFails(ledger) /\ told' = IF status = "done" THEN told ELSE told \ {i}
    BY <1>5 DEF Update
  <2>2. i \in 1 .. MaxMilestones /\ UNCHANGED build
    BY <1>5, LedgerTyped DEF Update, BuildInv, BuildTypeOK, Told
  <2>3. CASE told' = told \cup {i}
    BY <2>2, <2>3, PromiseWrites DEF Promise!Hear, Promise!ProgressNext
  <2>4. CASE told' = told \ {i}
    BY <2>2, <2>4, PromiseWrites DEF Promise!TakeBack, Promise!ProgressNext
  <2>5. CASE told' = told /\ onDisk' = onDisk
    <3>1. Planned' = Planned /\ Durable' = Durable
      BY <2>5 DEF Planned, Durable
    <3>. QED
      BY <2>2, <2>5, <3>1, PromiseStutters
  <2>. QED
    BY <2>1, <2>3, <2>4, <2>5 DEF SaveFails
<1>6. CASE Result
  <2>1. CASE build' = "result"
    <3>1. Promise!CatchUp
      BY <1>6, <2>1, PromiseWrites DEF Result, Promise!CatchUp
    <3>. QED
      BY <3>1 DEF Promise!ProgressNext
  <2>2. CASE build' # "result"
    <3>1. onDisk' = onDisk /\ told' = told /\ ((build = "complete")' <=> build = "complete")
      BY <1>6, <2>2 DEF Result
    <3>2. Planned' = Planned /\ Durable' = Durable
      BY <3>1 DEF Planned, Durable
    <3>. QED
      BY <3>1, <3>2, PromiseStutters
  <2>. QED
    BY <2>1, <2>2
<1>7. CASE Announce
  <2>1. UNCHANGED <<onDisk, told>> /\ inMind = onDisk /\ onDisk \in Ledger /\ onDisk # NoPlan
    BY <1>7 DEF Announce, BuildInv, BuildTypeOK, Told, InStep
  <2>2. CASE Complete(inMind)
    <3>1. DOMAIN onDisk.plan # {}
      <4>1. onDisk.plan # <<>> /\ onDisk.plan \in Plans
        BY <2>1, <2>2, LedgerTyped DEF Complete
      <4>2. PICK n \in 0 .. MaxMilestones : onDisk.plan \in [1 .. n -> Statuses]
        BY <4>1 DEF Plans
      <4>3. n # 0
        BY <4>1, <4>2
      <4>. QED
        BY <4>2, <4>3
    <3>2. Promise!Announce
      BY <1>7, <2>1, <2>2, <3>1 DEF Announce, Complete, Promise!Announce
    <3>. QED
      BY <3>2 DEF Promise!ProgressNext
  <2>3. CASE ~Complete(inMind)
    <3>1. (build = "complete")' <=> build = "complete"
      BY <1>7, <2>3 DEF Announce
    <3>2. Planned' = Planned /\ Durable' = Durable
      BY <2>1 DEF Planned, Durable
    <3>. QED
      BY <2>1, <3>1, <3>2, PromiseStutters
  <2>. QED
    BY <2>2, <2>3
<1>8. CASE Ends
  <2>1. UNCHANGED <<onDisk, told>> /\ build' = "off"
    BY <1>8 DEF Ends
  <2>2. CASE build = "complete"
    <3>1. Promise!Close
      BY <2>1, <2>2 DEF Promise!Close
    <3>. QED
      BY <3>1 DEF Promise!ProgressNext
  <2>3. CASE build # "complete"
    <3>1. Planned' = Planned /\ Durable' = Durable
      BY <2>1 DEF Planned, Durable
    <3>. QED
      BY <2>1, <2>3, <3>1, PromiseStutters
  <2>. QED
    BY <2>2, <2>3
<1>9. CASE UNCHANGED buildVars
  <2>1. Planned' = Planned /\ Durable' = Durable
    BY <1>9 DEF buildVars, Planned, Durable
  <2>. QED
    BY <1>9, <2>1, PromiseStutters DEF buildVars
<1>. QED
  BY <1>1, <1>2, <1>3, <1>4, <1>5, <1>6, <1>7, <1>8, <1>9 DEF BuildNext

\* For plans of any length: the ledger (ledger.save, update_milestone) keeps its
\* promise through failed writes, crashes, resumes and expired sessions.
THEOREM BuildImplements == BuildSpec => ProgressKept
<1>. QED
  BY BuildInitInv, BuildStepInv, PromiseInit, PromiseStep, PTL DEF BuildSpec, ProgressKept, Promise!ProgressSpec

\* The file, the process's ledger and where the build is keep their types.
THEOREM BuildTyped == BuildSpec => []BuildTypeOK
<1>1. BuildInv => BuildTypeOK
  BY DEF BuildInv
<1>. QED
  BY <1>1, BuildInitInv, BuildStepInv, PTL DEF BuildSpec

-----------------------------------------------------------------------------
(* The journal. *)

\* The remaining calls of a chat: what its turn's start is looked up in.
Logged(c) == {i \in Remaining : events[i].chat = c}

\* Pruning keeps the end of the log, and the throttle counts from a watermark no
\* pass moves beyond it.
LogSound ==
    /\ events \in Seq([chat : JChats, label : Labels]) /\ pruned \in Nat
    /\ pruned = 0 \/ pruned + EventsKeep <= Len(events)
    /\ watermark \in Nat /\ unread \in Nat /\ watermark + unread <= Len(events)

\* A turn's watermark stands behind every call of its chat from before the turn
\* that is not pruned.
TurnSound(c) ==
    /\ turns[c].start \in Nat /\ turns[c].from \in Nat
    /\ turns[c].start <= turns[c].from /\ turns[c].from <= Len(events)
    /\ \A i \in 1 .. turns[c].from :
          i > pruned /\ events[i].chat = c => i <= turns[c].start

JournalInv == LogSound /\ DOMAIN turns = JChats /\ (\A c \in JChats : TurnSound(c)) /\ EpisodesOwn

LEMMA LogEndIsEnd == LogSound => LogEnd = Len(events)
<1> SUFFICES ASSUME LogSound PROVE LogEnd = Len(events)
  OBVIOUS
<1>1. EventsKeep \in Nat \ {0} /\ Len(events) \in Nat /\ pruned \in Nat
  BY JournalAssumption DEF LogSound
<1>2. CASE Len(events) = 0
  BY <1>1, <1>2 DEF LogEnd, Remaining
<1>3. CASE Len(events) # 0
  <2>1. Len(events) \in Remaining
    BY <1>1, <1>3 DEF LogSound, Remaining
  <2> QED
    BY <2>1 DEF LogEnd
<1> QED
  BY <1>2, <1>3

\* The latest of some calls hold the last of them.
LEMMA StartIsLast ==
    ASSUME LogSound, NEW c \in JChats
    PROVE  /\ StartId(c) \in Nat /\ StartId(c) <= Len(events)
           /\ \A i \in Logged(c) : i <= StartId(c)
<1>1. LogWindow \in Nat \ {0} /\ Len(events) \in Nat /\ pruned \in Nat
  BY JournalAssumption DEF LogSound
<1>2. Logged(c) \subseteq Nat /\ \A i \in Logged(c) : i <= Len(events)
  BY <1>1 DEF Logged, Remaining
<1>3. OfChat(c) = {i \in Logged(c) : Cardinality({j \in Logged(c) : j > i}) < LogWindow}
  BY DEF OfChat, Latest, Logged
<1>4. CASE Logged(c) = {}
  <2>1. OfChat(c) = {}
    BY <1>3, <1>4
  <2> QED
    BY <1>1, <1>4, <2>1 DEF StartId
<1>5. CASE Logged(c) # {}
  <2>1. PICK last \in Logged(c) : \A i \in Logged(c) : i <= last
    BY <1>1, <1>2, <1>5, GreatestNumber
  <2>2. {j \in Logged(c) : j > last} = {}
    BY <1>2, <2>1
  <2>3. last \in OfChat(c)
    BY <1>1, <1>3, <2>2, FS_EmptySet
  <2>4. OfChat(c) \subseteq Logged(c)
    BY <1>3
  <2>5. last \in OfChat(c) /\ \A j \in OfChat(c) : j <= last
    BY <2>1, <2>3, <2>4
  <2>6. StartId(c) = CHOOSE i \in OfChat(c) : \A j \in OfChat(c) : j <= i
    BY <2>3 DEF StartId
  <2>7. StartId(c) \in OfChat(c) /\ \A j \in OfChat(c) : j <= StartId(c)
    BY <2>5, <2>6
  <2>8. last <= StartId(c) /\ StartId(c) \in Logged(c)
    BY <2>4, <2>5, <2>7
  <2> QED
    BY <1>2, <2>1, <2>8
<1> QED
  BY <1>4, <1>5

LEMMA JournalStarts == JournalInit => JournalInv
  BY DEF JournalInit, JournalInv, LogSound, TurnSound, NoTurn, NoEpisode, EpisodesOwn

\* Without an episode there is nothing to tell.
LEMMA NothingTold == episode' = NoEpisode => EpisodesOwn'
  BY DEF NoEpisode, EpisodesOwn

\* What leaves log and turns alone, and prunes no less.
LEMMA TurnsStand ==
    ASSUME JournalInv, UNCHANGED <<events, turns>>, pruned' \in Nat, pruned <= pruned'
    PROVE  DOMAIN turns' = JChats /\ \A c \in JChats : TurnSound(c)'
  BY DEF JournalInv, TurnSound, LogSound

LEMMA PromptKeeps ==
    ASSUME JournalInv, NEW c \in JChats, PromptHook(c)
    PROVE  JournalInv'
<1>1. UNCHANGED <<events, pruned, watermark, unread>> /\ episode' = NoEpisode
  BY DEF PromptHook, HooksOnly
<1>2. LogSound'
  BY <1>1 DEF JournalInv, LogSound
<1>3. PICK h : /\ turns' = [turns EXCEPT ![c] = h]
               /\ \/ h = [on |-> TRUE, start |-> StartId(c), from |-> Len(events)]
                  \/ h = [on |-> TRUE, start |-> 0, from |-> 0]
  BY DEF PromptHook
<1>4. DOMAIN turns' = JChats /\ turns'[c] = h /\ \A d \in JChats \ {c} : turns'[d] = turns[d]
  BY <1>3 DEF JournalInv
<1>5. ASSUME NEW d \in JChats \ {c} PROVE TurnSound(d)'
  BY <1>1, <1>4 DEF JournalInv, TurnSound
<1>6. TurnSound(c)'
  <2>1. Len(events) \in Nat
    BY DEF JournalInv, LogSound
  <2>2. CASE h = [on |-> TRUE, start |-> StartId(c), from |-> Len(events)]
    <3>1. StartId(c) \in Nat /\ StartId(c) <= Len(events) /\ \A i \in Logged(c) : i <= StartId(c)
      BY StartIsLast DEF JournalInv
    <3>2. \A i \in 1 .. Len(events) : i > pruned /\ events[i].chat = c => i \in Logged(c)
      BY <2>1 DEF Logged, Remaining, JournalInv, LogSound
    <3>3. turns'[c].start = StartId(c) /\ turns'[c].from = Len(events)
      BY <1>4, <2>2
    <3> QED
      BY <1>1, <2>1, <3>1, <3>2, <3>3 DEF TurnSound
  <2>3. CASE h = [on |-> TRUE, start |-> 0, from |-> 0]
    <3>1. turns'[c].start = 0 /\ turns'[c].from = 0
      BY <1>4, <2>3
    <3> QED
      BY <1>1, <2>1, <3>1 DEF TurnSound
  <2> QED
    BY <1>3, <2>2, <2>3
<1> QED
  BY <1>1, <1>2, <1>4, <1>5, <1>6, NothingTold DEF JournalInv

LEMMA EventKeeps ==
    ASSUME JournalInv, NEW c \in JChats, NEW label \in Labels, EventHook(c, label)
    PROVE  JournalInv'
<1>1. /\ UNCHANGED <<pruned, watermark, turns>> /\ episode' = NoEpisode /\ unread' = unread + 1
      /\ events' = Append(events, [chat |-> c, label |-> label])
  BY DEF EventHook, HooksOnly
<1>2. /\ events' \in Seq([chat : JChats, label : Labels]) /\ Len(events') = Len(events) + 1
      /\ Len(events) \in Nat /\ \A i \in 1 .. Len(events) : events'[i] = events[i]
  BY <1>1 DEF JournalInv, LogSound
<1>3. LogSound'
  BY <1>1, <1>2, JournalAssumption DEF JournalInv, LogSound
<1>4. ASSUME NEW d \in JChats PROVE TurnSound(d)'
  BY <1>1, <1>2 DEF JournalInv, TurnSound
<1> QED
  BY <1>1, <1>3, <1>4, NothingTold DEF JournalInv

\* The episode of a turn: what of it the log still holds within the window.
LEMMA EpisodeKeeps ==
    ASSUME JournalInv, NEW c \in JChats, EpisodeHook(c)
    PROVE  JournalInv'
<1> DEFINE ids == {i \in OfChat(c) : i > turns[c].start}
<1>1. UNCHANGED <<events, pruned, watermark, unread>> /\ turns' = [turns EXCEPT ![c] = NoTurn]
  BY DEF EpisodeHook, HooksOnly
<1>2. LogSound'
  BY <1>1 DEF JournalInv, LogSound
<1>3. DOMAIN turns' = JChats /\ turns'[c] = NoTurn /\ \A d \in JChats \ {c} : turns'[d] = turns[d]
  BY <1>1 DEF JournalInv
<1>4. ASSUME NEW d \in JChats PROVE TurnSound(d)'
  <2>1. CASE d = c
    BY <1>1, <1>3, <2>1 DEF JournalInv, LogSound, TurnSound, NoTurn
  <2>2. CASE d # c
    BY <1>1, <1>3, <2>2 DEF JournalInv, TurnSound
  <2> QED
    BY <2>1, <2>2
<1>5. CASE episode' = NoEpisode
  BY <1>2, <1>3, <1>4, <1>5, NothingTold DEF JournalInv
<1>6. CASE episode' = [chat |-> c, from |-> turns[c].from, upto |-> Len(events), ids |-> ids]
  <2> DEFINE own == {i \in turns[c].from + 1 .. Len(events) : events[i].chat = c}
  <2>1. /\ Len(events) \in Nat /\ pruned \in Nat /\ turns[c].from \in Nat /\ turns[c].start \in Nat
        /\ turns[c].start <= turns[c].from
        /\ \A i \in 1 .. turns[c].from : i > pruned /\ events[i].chat = c => i <= turns[c].start
    BY DEF JournalInv, LogSound, TurnSound
  <2>2. OfChat(c) = {i \in Logged(c) : Cardinality({j \in Logged(c) : j > i}) < LogWindow}
    BY DEF OfChat, Latest, Logged
  <2>3. \A i : i \in Logged(c) <=> i \in pruned + 1 .. Len(events) /\ events[i].chat = c
    BY DEF Logged, Remaining
  <2>4. ids \subseteq own
    <3> SUFFICES ASSUME NEW i \in ids PROVE i \in own
      OBVIOUS
    <3>1. i \in pruned + 1 .. Len(events) /\ events[i].chat = c /\ i > turns[c].start
      BY <2>2, <2>3
    <3>2. ~(i \in 1 .. turns[c].from)
      BY <2>1, <3>1
    <3> QED
      BY <2>1, <3>1, <3>2
  <2>5. ASSUME NEW i \in own \ ids PROVE i <= pruned \/ Cardinality({j \in own : j > i}) >= LogWindow
    <3>1. i \in turns[c].from + 1 .. Len(events) /\ events[i].chat = c /\ i \in Nat /\ i > turns[c].start
      BY <2>1
    <3>2. SUFFICES ASSUME i > pruned PROVE Cardinality({j \in own : j > i}) >= LogWindow
      BY <2>1, <3>1
    <3>3. i \in Logged(c)
      BY <2>1, <2>3, <3>1, <3>2
    <3>4. i \notin OfChat(c)
      BY <3>1
    <3>5. ~(Cardinality({j \in Logged(c) : j > i}) < LogWindow)
      BY <2>2, <3>3, <3>4
    <3>6. {j \in Logged(c) : j > i} = {j \in own : j > i}
      <4>1. \A j : j \in Logged(c) /\ j > i => j \in own
        BY <2>1, <2>3, <3>1
      <4>2. \A j : j \in own /\ j > i => j \in Logged(c)
        BY <2>1, <2>3, <3>1, <3>2
      <4> QED
        BY <4>1, <4>2
    <3>7. IsFiniteSet({j \in own : j > i})
      <4>1. PICK a \in Int : a = turns[c].from + 1
        BY <2>1
      <4>2. PICK b \in Int : b = Len(events)
        BY <2>1
      <4>3. IsFiniteSet(a .. b)
        BY FS_Interval
      <4>4. {j \in own : j > i} \subseteq a .. b
        BY <4>1, <4>2
      <4> QED
        BY <4>3, <4>4, FS_Subset
    <3>8. Cardinality({j \in own : j > i}) \in Nat
      BY <3>7, FS_CardinalityType
    <3>9. LogWindow \in Nat
      BY JournalAssumption
    <3>10. ~(Cardinality({j \in own : j > i}) < LogWindow)
      BY ONLY <3>5, <3>6
    <3> HIDE DEF own
    <3> QED
      BY <3>8, <3>9, <3>10
  <2>6. EpisodesOwn'
    <3>1. /\ episode'.chat = c /\ episode'.from = turns[c].from /\ episode'.upto = Len(events)
          /\ episode'.ids = ids
      BY <1>6
    <3> HIDE DEF ids
    <3>2. {i \in episode'.from + 1 .. episode'.upto : events'[i].chat = episode'.chat} = own
      BY <1>1, <3>1
    <3> HIDE DEF own
    <3> QED
      BY <1>1, <2>4, <2>5, <3>1, <3>2 DEF EpisodesOwn
  <2> QED
    BY <1>2, <1>3, <1>4, <2>6 DEF JournalInv
<1> QED
  BY <1>5, <1>6 DEF EpisodeHook

\* A step of a pass neither adds to the log nor takes a turn back.
LEMMA PassKeeps ==
    ASSUME JournalInv, UNCHANGED <<events, turns>>, episode' = NoEpisode,
           pruned' = pruned \/ (pruned' = Len(events) - EventsKeep /\ pruned' > pruned),
           UNCHANGED <<watermark, unread>> \/ (watermark' = Len(events) /\ unread' = 0)
    PROVE  JournalInv'
<1>1. EventsKeep \in Nat \ {0} /\ Len(events) \in Nat /\ pruned \in Nat /\ watermark \in Nat /\ unread \in Nat
  BY JournalAssumption DEF JournalInv, LogSound
<1>2. pruned' \in Nat /\ pruned <= pruned' /\ (pruned' = 0 \/ pruned' + EventsKeep <= Len(events))
  BY <1>1 DEF JournalInv, LogSound
<1>3. watermark' \in Nat /\ unread' \in Nat /\ watermark' + unread' <= Len(events)
  BY <1>1 DEF JournalInv, LogSound
<1>4. LogSound'
  BY <1>2, <1>3 DEF JournalInv, LogSound
<1> QED
  BY <1>2, <1>4, TurnsStand, NothingTold DEF JournalInv

LEMMA MinersKeep ==
    ASSUME JournalInv, NEW p \in Miners,
           \/ StartMining(p) \/ MineNext(p) \/ LookUp(p) \/ WriteWorkflow(p)
           \/ PruneLog(p) \/ EndMining(p) \/ MinerDies(p)
    PROVE  JournalInv'
<1>1. UNCHANGED <<events, turns>> /\ episode' = NoEpisode
  BY DEF StartMining, MineNext, LookUp, WriteWorkflow, PruneLog, EndMining, MinerDies, PassTo
<1>2. LogEnd = Len(events)
  BY LogEndIsEnd DEF JournalInv
<1>3. pruned' = pruned \/ (pruned' = Len(events) - EventsKeep /\ pruned' > pruned)
  BY <1>2 DEF StartMining, MineNext, LookUp, WriteWorkflow, PruneLog, EndMining, MinerDies
<1>4. UNCHANGED <<watermark, unread>> \/ (watermark' = Len(events) /\ unread' = 0)
  BY <1>2 DEF StartMining, MineNext, LookUp, WriteWorkflow, PruneLog, EndMining, MinerDies
<1> QED
  BY <1>1, <1>3, <1>4, PassKeeps

LEMMA JournalStep == JournalInv /\ [JournalNext]_journalVars => JournalInv'
<1> SUFFICES ASSUME JournalInv, [JournalNext]_journalVars PROVE JournalInv'
  OBVIOUS
<1>1. CASE UNCHANGED journalVars
  BY <1>1 DEF journalVars, JournalInv, LogSound, TurnSound, EpisodesOwn
<1>2. CASE \E c \in JChats : PromptHook(c)
  BY <1>2, PromptKeeps
<1>3. CASE \E c \in JChats : EpisodeHook(c)
  BY <1>3, EpisodeKeeps
<1>4. CASE \E c \in JChats, label \in Labels : EventHook(c, label)
  BY <1>4, EventKeeps
<1>5. CASE \E p \in Miners : \/ StartMining(p) \/ MineNext(p) \/ LookUp(p) \/ WriteWorkflow(p)
                             \/ PruneLog(p) \/ EndMining(p) \/ MinerDies(p)
  BY <1>5, MinersKeep
<1>6. CASE SaveWorkflow
  <2>1. UNCHANGED <<events, turns, pruned, watermark, unread>> /\ episode' = NoEpisode
    BY <1>6 DEF SaveWorkflow
  <2> QED
    BY <2>1, PassKeeps
<1> QED
  BY <1>1, <1>2, <1>3, <1>4, <1>5, <1>6 DEF JournalNext

LEMMA LogIsSound == JournalSpec => []JournalInv
  BY JournalStarts, JournalStep, PTL DEF JournalSpec

\* An episode saved at the end of a turn is of that turn's calls, all that the log
\* still holds of them within the window (hooks.py).
THEOREM Episodes == JournalSpec => []EpisodesOwn
<1>1. JournalInv => EpisodesOwn
  BY DEF JournalInv
<1> QED
  BY <1>1, LogIsSound, PTL

\* However passes prune and end, the throttle never counts fewer calls than were
\* journaled since the last of them (consolidate.py).
THEOREM Throttle == JournalSpec => []ThrottleFires
<1>1. JournalInv => ThrottleFires
  <2> SUFFICES ASSUME JournalInv, unread >= ConsolidateEvery PROVE ShouldAutoRun
    BY DEF ThrottleFires
  <2>1. LogEnd = Len(events)
    BY LogEndIsEnd DEF JournalInv
  <2>2. watermark + unread <= Len(events) /\ watermark \in Nat /\ unread \in Nat /\ Len(events) \in Nat
    BY DEF JournalInv, LogSound
  <2>3. ConsolidateEvery \in Nat
    BY JournalAssumption
  <2> QED
    BY <2>1, <2>2, <2>3 DEF ShouldAutoRun
<1> QED
  BY <1>1, LogIsSound, PTL


(***************************************************************************)
(* What recurs in a window of the log was done, and as often. Where a      *)
(* window cuts a run of one label, its first call stands for an action     *)
(* that began before it; every other action of the window is an action of  *)
(* the whole log.                                                          *)
(***************************************************************************)
\* Actions and Occurs of some log, and where one chat of a space did a sequence.
ActionsIn(log, ids) ==
    {i \in ids : \A j \in ids : (\A k \in ids : k < i <=> k <= j) => log[j].label # log[i].label}
OccursIn(log, gram, ids, i) == \E steps \in [DOMAIN gram -> ActionsIn(log, ids)] :
    /\ steps[1] = i /\ \A k \in DOMAIN gram : log[steps[k]].label = gram[k]
    /\ \A k \in 1 .. Len(gram) - 1 :
          steps[k] < steps[k + 1] /\ \A j \in ActionsIn(log, ids) : ~(steps[k] < j /\ j < steps[k + 1])
CallsOf(log, c) == {j \in DOMAIN log : log[j].chat = c}
DoneIn(log, s, gram) ==
    {i \in DOMAIN log : log[i].chat \in ChatsOf[s] /\ OccursIn(log, gram, CallsOf(log, log[i].chat), i)}

\* The end of a set of calls, as of a query's window.
EndOf(win, all) == win \subseteq all /\ \A j \in win, k \in all : k > j => k \in win

\* What began an action among all calls begins one among the last of them.
LEMMA ActionOfAll ==
    ASSUME NEW log, NEW all \in SUBSET Nat, NEW win, EndOf(win, all), NEW i \in win, i \in ActionsIn(log, all)
    PROVE  i \in ActionsIn(log, win)
<1> SUFFICES ASSUME NEW j \in win, \A k \in win : k < i <=> k <= j PROVE log[j].label # log[i].label
  BY DEF ActionsIn
<1>1. ASSUME NEW k \in all PROVE k < i <=> k <= j
  <2>1. k \in Nat /\ i \in Nat /\ j \in Nat
    BY DEF EndOf
  <2>2. CASE k \in win
    BY <2>2
  <2>3. CASE k \notin win
    BY <2>1, <2>3 DEF EndOf
  <2> QED
    BY <2>2, <2>3
<1> QED
  BY <1>1 DEF ActionsIn, EndOf

\* And the other way round, but for the first of them.
LEMMA ActionOfWindow ==
    ASSUME NEW log, NEW all \in SUBSET Nat, NEW win, EndOf(win, all), NEW i \in ActionsIn(log, win),
           NEW m \in win, m < i
    PROVE  i \in ActionsIn(log, all)
<1>1. i \in win /\ i \in all
  BY DEF ActionsIn, EndOf
<1> SUFFICES ASSUME NEW j \in all, \A k \in all : k < i <=> k <= j PROVE log[j].label # log[i].label
  BY <1>1 DEF ActionsIn
<1>2. m \in Nat /\ i \in Nat /\ j \in Nat /\ m \in all
  BY <1>1 DEF EndOf
<1>3. m <= j
  BY <1>2
<1>4. j \in win
  BY <1>2, <1>3 DEF EndOf
<1>5. \A k \in win : k < i <=> k <= j
  BY DEF EndOf
<1> QED
  BY <1>4, <1>5 DEF ActionsIn

\* The action a call belongs to: the last that began until it, of the same label.
LEMMA ActionOfCall ==
    ASSUME NEW log, NEW all \in SUBSET Nat, NEW i \in all
    PROVE  \E x \in ActionsIn(log, all) :
              /\ x <= i /\ log[x].label = log[i].label
              /\ \A y \in ActionsIn(log, all) : y <= i => y <= x
<1> DEFINE began == {y \in ActionsIn(log, all) : y <= i}
<1>1. began \subseteq Nat /\ i \in Nat /\ ActionsIn(log, all) \subseteq all
  BY DEF ActionsIn
<1>2. began # {}
  <2>1. PICK least \in all : \A y \in all : least <= y
    BY LeastNumber
  <2>2. ASSUME NEW j \in all, \A k \in all : k < least <=> k <= j PROVE FALSE
    <3>1. j < least
      BY <2>2
    <3> QED
      BY <2>1, <3>1
  <2>3. least \in ActionsIn(log, all)
    BY <2>1, <2>2 DEF ActionsIn
  <2> QED
    BY <2>1, <2>3
<1>3. PICK x \in began : \A y \in began : y <= x
  <2> HIDE DEF began
  <2>1. \A y \in began : y <= i
    BY DEF began
  <2> QED
    BY <1>1, <1>2, <2>1, GreatestNumber
<1>4. x \in ActionsIn(log, all) /\ x \in all /\ x \in Nat /\ x <= i
  BY <1>1, <1>3
<1>5. \A y \in ActionsIn(log, all) : y <= i => y <= x
  BY <1>3
<1>6. log[x].label = log[i].label
  <2> DEFINE other == {k \in all : x <= k /\ k <= i /\ log[k].label # log[x].label}
  <2>1. SUFFICES ASSUME other # {} PROVE FALSE
    BY <1>4
  <2>2. other \subseteq Nat
    OBVIOUS
  <2>3. PICK b \in other : \A k \in other : b <= k
    <3> HIDE DEF other
    <3> QED
      BY <2>1, <2>2, LeastNumber
  <2>4. b \in all /\ b \in Nat /\ x < b /\ b <= i /\ log[b].label # log[x].label
    BY <1>4, <2>3
  <2>5. ASSUME NEW j \in all, \A k \in all : k < b <=> k <= j PROVE log[j].label # log[b].label
    <3>1. j \in Nat /\ j < b /\ x <= j
      BY <1>4, <2>4, <2>5
    <3>2. j \notin other
      BY <2>3, <2>4, <3>1
    <3>3. log[j].label = log[x].label
      BY <1>1, <2>4, <3>1, <3>2
    <3> QED
      BY <2>4, <3>3
  <2>6. b \in ActionsIn(log, all)
    BY <2>4, <2>5 DEF ActionsIn
  <2>7. b <= x
    BY <1>5, <2>4, <2>6
  <2> QED
    BY <1>4, <2>4, <2>7
<1> QED
  BY <1>4, <1>5, <1>6

\* An occurrence at the end of the calls, and where its first action began.
OccursAtEnd(log, gram, all, win, i) == EndOf(win, all) /\ i \in win /\ OccursIn(log, gram, win, i)
BeganAt(log, gram, all, win, i, x) ==
    x <= i /\ OccursIn(log, gram, all, x) /\ ((\E m \in win : m < i) => x = i)

\* A sequence that occurs at a call of the window was done where that call's
\* action began.
LEMMA OccursInAll ==
    ASSUME NEW log, NEW all \in SUBSET Nat, NEW win, NEW gram \in Grams, NEW i,
           OccursAtEnd(log, gram, all, win, i)
    PROVE  \E x \in all : BeganAt(log, gram, all, win, i, x)
<1>0. EndOf(win, all) /\ i \in win /\ OccursIn(log, gram, win, i)
  BY DEF OccursAtEnd
<1>1. PICK n \in GramSizes : gram \in [1 .. n -> Labels]
  BY DEF Grams
<1>2. n \in Nat \ {0} /\ DOMAIN gram = 1 .. n /\ Len(gram) = n
  BY <1>1, JournalAssumption
<1>3. PICK steps \in [DOMAIN gram -> ActionsIn(log, win)] :
         /\ steps[1] = i /\ \A k \in DOMAIN gram : log[steps[k]].label = gram[k]
         /\ \A k \in 1 .. Len(gram) - 1 :
               steps[k] < steps[k + 1] /\ \A j \in ActionsIn(log, win) : ~(steps[k] < j /\ j < steps[k + 1])
  BY <1>0, Zenon DEF OccursIn
<1>4. i \in all /\ win \subseteq all /\ i \in Nat /\ ActionsIn(log, win) \subseteq win /\ ActionsIn(log, all) \subseteq all
  BY <1>0 DEF EndOf, ActionsIn
<1>5. PICK x \in ActionsIn(log, all) :
         /\ x <= i /\ log[x].label = log[i].label
         /\ \A y \in ActionsIn(log, all) : y <= i => y <= x
  BY <1>4, ActionOfCall
<1>6. x \in all /\ x \in Nat
  BY <1>4
<1>7. (\E m \in win : m < i) => x = i
  <2> SUFFICES ASSUME NEW m \in win, m < i PROVE x = i
    OBVIOUS
  <2>1. i \in ActionsIn(log, win)
    BY <1>2, <1>3
  <2>2. i \in ActionsIn(log, all)
    BY <1>0, <2>1, ActionOfWindow
  <2> QED
    BY <1>4, <1>5, <1>6, <2>2
<1> DEFINE moved == [steps EXCEPT ![1] = x]
<1>8. \A k \in 1 .. n : steps[k] \in win /\ steps[k] \in Nat
  BY <1>2, <1>3, <1>4
<1>9. ASSUME NEW k \in 2 .. n PROVE steps[k] \in ActionsIn(log, all)
  <2>1. k - 1 \in 1 .. n - 1 /\ k - 1 \in 1 .. n /\ k \in 1 .. n
    BY <1>2
  <2>2. steps[k - 1] < steps[k - 1 + 1] /\ k - 1 + 1 = k
    BY <1>2, <1>3, <2>1
  <2>3. steps[k - 1] < steps[k] /\ steps[k - 1] \in win
    BY <1>8, <2>1, <2>2
  <2>4. steps[k] \in ActionsIn(log, win)
    BY <1>2, <1>3, <2>1
  <2> QED
    BY <1>0, <2>3, <2>4, ActionOfWindow
<1>10. moved \in [DOMAIN gram -> ActionsIn(log, all)] /\ moved[1] = x /\ \A k \in 2 .. n : moved[k] = steps[k]
  BY <1>2, <1>3, <1>9
<1>11. \A k \in DOMAIN gram : log[moved[k]].label = gram[k]
  <2> SUFFICES ASSUME NEW k \in 1 .. n PROVE log[moved[k]].label = gram[k]
    BY <1>2
  <2>1. CASE k = 1
    <3>1. log[steps[1]].label = gram[1]
      BY <1>2, <1>3
    <3> QED
      BY <1>3, <1>5, <1>10, <2>1, <3>1
  <2>2. CASE k # 1
    BY <1>2, <1>3, <1>10, <2>2
  <2> QED
    BY <2>1, <2>2
<1> HIDE DEF moved
<1>12. ASSUME NEW k \in 1 .. n - 1
       PROVE  moved[k] < moved[k + 1] /\ \A j \in ActionsIn(log, all) : ~(moved[k] < j /\ j < moved[k + 1])
  <2>1. k \in 1 .. n /\ k + 1 \in 2 .. n /\ k + 1 \in 1 .. n
    BY <1>2
  <2>2. moved[k + 1] = steps[k + 1] /\ moved[k] <= steps[k] /\ moved[k] \in Nat
    <3>1. moved[k + 1] = steps[k + 1]
      BY <1>10, <2>1
    <3>2. CASE k = 1
      BY <1>3, <1>5, <1>6, <1>10, <3>1, <3>2
    <3>3. CASE k # 1
      <4>1. k \in 2 .. n
        BY <2>1, <3>3
      <4>2. moved[k] = steps[k] /\ steps[k] \in Nat
        BY <1>8, <1>10, <2>1, <4>1
      <4> QED
        BY <3>1, <4>2
    <3> QED
      BY <3>2, <3>3
  <2>3. steps[k] < steps[k + 1] /\ \A j \in ActionsIn(log, win) : ~(steps[k] < j /\ j < steps[k + 1])
    BY <1>2, <1>3
  <2>4. steps[k] \in win /\ steps[k] \in Nat /\ steps[k + 1] \in Nat
    BY <1>8, <2>1
  <2>5. ASSUME NEW j \in ActionsIn(log, all), moved[k] < j, j < steps[k + 1] PROVE FALSE
    <3>1. j \in all /\ j \in Nat
      BY <1>4
    <3>2. CASE steps[k] < j
      <4>1. j \in win
        BY <1>0, <2>4, <3>1, <3>2 DEF EndOf
      <4>2. j \in ActionsIn(log, win)
        BY <1>0, <1>4, <4>1, ActionOfAll
      <4> QED
        BY <2>3, <2>5, <3>2, <4>2
    <3>3. CASE j <= steps[k]
      <4>1. k = 1
        BY <1>2, <1>10, <2>4, <2>5, <3>1, <3>3
      <4>2. j <= i /\ x < j
        BY <1>3, <1>10, <2>5, <3>3, <4>1
      <4> QED
        BY <1>5, <1>6, <3>1, <4>2
    <3> QED
      BY <2>4, <3>1, <3>2, <3>3
  <2> QED
    BY <2>2, <2>3, <2>4, <2>5
<1>13. OccursIn(log, gram, all, x)
  BY <1>2, <1>10, <1>11, <1>12, Zenon DEF OccursIn
<1> QED
  BY <1>5, <1>6, <1>7, <1>13 DEF BeganAt

\* What is done stays done as the log grows.
LEMMA DoneGrows ==
    ASSUME NEW log \in Seq([chat : JChats, label : Labels]), NEW row \in [chat : JChats, label : Labels],
           NEW s \in JSpaces, NEW gram \in Grams
    PROVE  DoneIn(log, s, gram) \subseteq DoneIn(Append(log, row), s, gram)
<1>1. PICK n \in GramSizes : gram \in [1 .. n -> Labels]
  BY DEF Grams
<1>2. n \in Nat \ {0} /\ DOMAIN gram = 1 .. n /\ Len(gram) = n
  BY <1>1, JournalAssumption
<1>3. PICK longer : longer = Append(log, row)
  OBVIOUS
<1>4. PICK len \in Nat : len = Len(log)
  OBVIOUS
<1>5. /\ DOMAIN log = 1 .. len /\ DOMAIN longer = 1 .. len + 1
      /\ \A k \in 1 .. len : longer[k] = log[k]
  BY <1>3, <1>4
<1> SUFFICES ASSUME NEW i \in DoneIn(log, s, gram) PROVE i \in DoneIn(longer, s, gram)
  BY <1>3
<1> DEFINE c == log[i].chat
<1> DEFINE before == CallsOf(log, c)
<1> DEFINE after == CallsOf(longer, c)
<1>6. i \in 1 .. len /\ c \in ChatsOf[s] /\ OccursIn(log, gram, before, i)
  BY <1>5 DEF DoneIn
<1>7. before \subseteq 1 .. len /\ before \subseteq after /\ after \ before \subseteq {len + 1}
  BY <1>5 DEF CallsOf
<1> HIDE DEF before, after
<1>8. ASSUME NEW j \in 1 .. len PROVE j \in ActionsIn(log, before) <=> j \in ActionsIn(longer, after)
  <2>1. j \in before <=> j \in after
    BY <1>7
  <2>2. ASSUME NEW m \in 1 .. len
        PROVE  (\A k \in before : k < j <=> k <= m) <=> (\A k \in after : k < j <=> k <= m)
    <3>1. ~(len + 1 < j) /\ ~(len + 1 <= m)
      OBVIOUS
    <3> QED
      BY <1>7, <3>1
  <2>3. ASSUME NEW m \in after, \A k \in after : k < j <=> k <= m PROVE m \in before
    <3>1. m < j /\ m \in 1 .. len + 1
      BY <1>7, <2>3
    <3> QED
      BY <1>7, <3>1
  <2>4. ASSUME j \in ActionsIn(log, before) PROVE j \in ActionsIn(longer, after)
    <3> SUFFICES ASSUME NEW m \in after, \A k \in after : k < j <=> k <= m
                 PROVE  longer[m].label # longer[j].label
      BY <2>1, <2>4 DEF ActionsIn
    <3>1. m \in before /\ m \in 1 .. len
      BY <1>7, <2>3
    <3>2. log[m].label # log[j].label
      BY <2>2, <2>4, <3>1 DEF ActionsIn
    <3> QED
      BY <1>5, <3>1, <3>2
  <2>5. ASSUME j \in ActionsIn(longer, after) PROVE j \in ActionsIn(log, before)
    <3>1. j \in after
      BY <2>5 DEF ActionsIn
    <3> SUFFICES ASSUME NEW m \in before, \A k \in before : k < j <=> k <= m
                 PROVE  log[m].label # log[j].label
      BY <2>1, <3>1 DEF ActionsIn
    <3>2. m \in after /\ m \in 1 .. len
      BY <1>7
    <3>3. longer[m].label # longer[j].label
      BY <2>2, <2>5, <3>2 DEF ActionsIn
    <3> QED
      BY <1>5, <3>2, <3>3
  <2> QED
    BY <2>4, <2>5
<1>9. OccursIn(longer, gram, after, i)
  <2>1. PICK steps \in [DOMAIN gram -> ActionsIn(log, before)] :
           /\ steps[1] = i /\ \A k \in DOMAIN gram : log[steps[k]].label = gram[k]
           /\ \A k \in 1 .. Len(gram) - 1 :
                 steps[k] < steps[k + 1] /\ \A j \in ActionsIn(log, before) : ~(steps[k] < j /\ j < steps[k + 1])
    BY <1>6, Zenon DEF OccursIn
  <2>2. ActionsIn(log, before) \subseteq 1 .. len
    BY <1>7 DEF ActionsIn
  <2>3. \A k \in DOMAIN gram : steps[k] \in 1 .. len /\ steps[k] \in ActionsIn(longer, after)
    BY <1>8, <2>1, <2>2
  <2>4. steps \in [DOMAIN gram -> ActionsIn(longer, after)]
    BY <2>1, <2>3
  <2>5. \A k \in DOMAIN gram : longer[steps[k]].label = gram[k]
    BY <1>5, <2>1, <2>3
  <2>6. ASSUME NEW k \in 1 .. Len(gram) - 1
        PROVE  steps[k] < steps[k + 1] /\ \A j \in ActionsIn(longer, after) : ~(steps[k] < j /\ j < steps[k + 1])
    <3>1. k \in DOMAIN gram /\ k + 1 \in DOMAIN gram
      <4>1. k \in 1 .. n - 1
        BY <1>2
      <4>2. k \in 1 .. n /\ k + 1 \in 1 .. n
        BY <1>2, <4>1
      <4> QED
        BY <1>2, <4>2
    <3>2. steps[k] \in 1 .. len /\ steps[k + 1] \in 1 .. len
      BY <2>3, <3>1
    <3>3. ASSUME NEW j \in ActionsIn(longer, after), steps[k] < j, j < steps[k + 1] PROVE FALSE
      <4>1. j \in 1 .. len + 1
        BY <1>7 DEF ActionsIn
      <4>2. j \in 1 .. len
        BY <3>2, <3>3, <4>1
      <4>3. j \in ActionsIn(log, before)
        BY <1>8, <4>2
      <4> QED
        BY <2>1, <3>3, <4>3
    <3> QED
      BY <2>1, <3>3
  <2> QED
    BY <2>1, <2>4, <2>5, <2>6, Zenon DEF OccursIn
<1>10. longer[i].chat = c /\ i \in DOMAIN longer
  BY <1>5, <1>6
<1> QED
  BY <1>6, <1>9, <1>10 DEF DoneIn, after

LEMMA DoneIsFinite ==
    ASSUME NEW log \in Seq([chat : JChats, label : Labels]), NEW s, NEW gram
    PROVE  IsFiniteSet(DoneIn(log, s, gram)) /\ Cardinality(DoneIn(log, s, gram)) \in Nat
<1>1. PICK len \in Int : len = Len(log)
  OBVIOUS
<1>2. IsFiniteSet(1 .. len)
  BY FS_Interval
<1>3. DoneIn(log, s, gram) \in SUBSET (1 .. len)
  BY <1>1 DEF DoneIn
<1> QED
  BY <1>2, <1>3, FS_Subset, FS_CardinalityType

\* The calls of a space that a query may return.
LoggedIn(s) == {i \in Remaining : events[i].chat \in ChatsOf[s]}

Window(s, c) == {j \in OfSpace(s) : events[j].chat = c}

\* A query returns the end of what a chat of the space did.
LEMMA WindowIsEnd ==
    ASSUME LogSound, NEW s \in JSpaces, NEW c \in ChatsOf[s]
    PROVE  /\ CallsOf(events, c) \in SUBSET Nat
           /\ EndOf(Window(s, c), CallsOf(events, c))
<1> DEFINE win == {j \in OfSpace(s) : events[j].chat = c}
<1>1. PICK len \in Nat : len = Len(events) /\ DOMAIN events = 1 .. len
  BY DEF LogSound
<1>2. PICK first \in Nat : first = pruned + 1
  BY DEF LogSound
<1>3. OfSpace(s) = {i \in LoggedIn(s) : Cardinality({j \in LoggedIn(s) : j > i}) < LogWindow}
  BY DEF OfSpace, Latest, LoggedIn
<1>4. LoggedIn(s) = {i \in first .. len : events[i].chat \in ChatsOf[s]}
  BY <1>1, <1>2 DEF LoggedIn, Remaining
<1>5. first >= 1
  BY <1>2 DEF LogSound
<1>6. win \subseteq CallsOf(events, c)
  BY <1>1, <1>3, <1>4, <1>5 DEF CallsOf
<1>7. ASSUME NEW j \in win, NEW k \in CallsOf(events, c), k > j PROVE k \in win
  <2>1. j \in first .. len /\ k \in 1 .. len /\ events[k].chat = c /\ Cardinality({m \in LoggedIn(s) : m > j}) < LogWindow
    BY <1>1, <1>3, <1>4 DEF CallsOf
  <2>2. k \in LoggedIn(s)
    BY <1>4, <1>7, <2>1
  <2>3. IsFiniteSet(LoggedIn(s))
    <3>1. IsFiniteSet(first .. len)
      BY FS_Interval
    <3> QED
      BY <1>4, <3>1, FS_Subset
  <2>4. PICK later : later = {m \in LoggedIn(s) : m > j}
    OBVIOUS
  <2>5. PICK latest : latest = {m \in LoggedIn(s) : m > k}
    OBVIOUS
  <2>6. latest \subseteq later
    BY <1>4, <1>7, <2>1, <2>4, <2>5
  <2>7. IsFiniteSet(later)
    BY <2>3, <2>4, FS_Subset
  <2>8. IsFiniteSet(latest) /\ Cardinality(latest) <= Cardinality(later)
    BY <2>6, <2>7, FS_Subset
  <2>9. Cardinality(latest) \in Nat /\ Cardinality(later) \in Nat
    BY <2>7, <2>8, FS_CardinalityType
  <2>10. Cardinality(latest) < LogWindow
    BY <2>1, <2>4, <2>8, <2>9, JournalAssumption
  <2> QED
    BY <1>3, <2>1, <2>2, <2>5, <2>10
<1>8. CallsOf(events, c) \in SUBSET Nat
  BY <1>1 DEF CallsOf
<1> QED
  BY <1>6, <1>7, <1>8 DEF EndOf, Window

\* Where a call x of a chat stands to the one at i that was seen in its window.
DoneFrom(s, c, i, x) ==
    x \in Nat /\ x <= i /\ events[x].chat = c /\ ((\E m \in Window(s, c) : m < i) => x = i)

\* A sequence seen at a call of the window was done by that call's chat, and there
\* unless the call is the chat's first in the window.
LEMMA SeenAtWasDone ==
    ASSUME LogSound, NEW s \in JSpaces, NEW gram \in Grams, NEW c \in ChatsOf[s],
           NEW i \in Window(s, c), OccursIn(events, gram, Window(s, c), i)
    PROVE  \E x \in DoneIn(events, s, gram) : DoneFrom(s, c, i, x)
<1>1. PICK win, log : win = Window(s, c) /\ log = events
  OBVIOUS
<1>2. PICK all \in SUBSET Nat : all = CallsOf(log, c) /\ OccursAtEnd(log, gram, all, win, i)
  BY <1>1, WindowIsEnd DEF OccursAtEnd
<1>3. PICK x \in all : BeganAt(log, gram, all, win, i, x)
  <2>1. OccursAtEnd(log, gram, all, win, i)
    BY <1>2
  <2> QED
    BY <2>1, OccursInAll
<1>4. x \in DOMAIN events /\ events[x].chat = c /\ x \in Nat
  BY <1>1, <1>2 DEF CallsOf
<1>5. x <= i /\ OccursIn(events, gram, CallsOf(events, c), x) /\ ((\E m \in Window(s, c) : m < i) => x = i)
  BY <1>1, <1>2, <1>3 DEF BeganAt
<1>6. x \in DoneIn(events, s, gram)
  BY <1>4, <1>5 DEF DoneIn
<1> QED
  BY <1>4, <1>5, <1>6 DEF DoneFrom

\* However the log is pruned and cut, no more is seen than was done.
LEMMA SeenWasDone ==
    ASSUME LogSound, NEW s \in JSpaces, NEW gram \in Grams
    PROVE  Seen(s, gram) \in Nat /\ Seen(s, gram) <= Cardinality(DoneIn(events, s, gram))
<1> DEFINE seen == {i \in OfSpace(s) : OccursIn(events, gram, Window(s, events[i].chat), i)}
<1> DEFINE done == DoneIn(events, s, gram)
<1>1. Seen(s, gram) = Cardinality(seen)
  BY DEF Seen, Occurs, OccursIn, Actions, ActionsIn, Window
<1>2. \A i \in OfSpace(s) : i \in Nat /\ events[i].chat \in ChatsOf[s] /\ i \in Window(s, events[i].chat)
  BY DEF OfSpace, Latest, Remaining, LogSound, Window
<1>3. ASSUME NEW i \in seen PROVE \E x \in done : DoneFrom(s, events[i].chat, i, x)
  <2>1. PICK c \in ChatsOf[s] : c = events[i].chat
    BY <1>2
  <2>2. i \in Window(s, c) /\ OccursIn(events, gram, Window(s, c), i)
    BY <1>2, <2>1
  <2>3. \E x \in done : DoneFrom(s, c, i, x)
    BY <2>2, SeenAtWasDone
  <2> QED
    BY <2>1, <2>3
<1> DEFINE place == [i \in seen |-> CHOOSE x \in done : DoneFrom(s, events[i].chat, i, x)]
<1>4. \A i \in seen : place[i] \in done /\ DoneFrom(s, events[i].chat, i, place[i])
  BY <1>3
<1>5. \A i \in seen : i \in Nat /\ i \in Window(s, events[i].chat)
  BY <1>2
<1>6. place \in [seen -> done]
  BY <1>4
<1> HIDE DEF place, done
<1>7. ASSUME NEW i \in seen, NEW j \in seen, place[i] = place[j], i < j PROVE FALSE
  <2>1. events[i].chat = events[j].chat
    BY <1>4, <1>7 DEF DoneFrom
  <2>2. i \in Window(s, events[j].chat)
    BY <1>5, <2>1
  <2>3. place[j] = j /\ place[i] <= i
    BY <1>4, <1>7, <2>2 DEF DoneFrom
  <2> QED
    BY <1>5, <1>7, <2>3
<1> HIDE DEF seen
<1>8. \A i, j \in seen : place[i] = place[j] => i = j
  BY <1>5, <1>7
<1>9. place \in Injection(seen, done)
  BY <1>6, <1>8 DEF Injection, IsInjective
<1>10. IsFiniteSet(done)
  BY DoneIsFinite DEF done, LogSound
<1>11. IsFiniteSet(seen) /\ Cardinality(seen) <= Cardinality(done)
  BY <1>9, <1>10, FS_Injection
<1> QED
  BY <1>1, <1>11, FS_CardinalityType DEF done

\* A workflow that its space's chats did, each for itself, as often as the
\* threshold asks.
Grounded ==
    {w \in Workflows : Cardinality(DoneIn(events, w[1], w[2])) >= RecurThreshold /\ IsMeaningful(w[2])}

\* What a pass has still to write was done, as what it wrote was.
Minings == [at : {"idle", "mine", "stamp"}, space : 0 .. Len(ChatsOf),
            found : SUBSET Grounded, missing : SUBSET Grounded]
LearnInv == synthesized \subseteq Grounded /\ miner \in [Miners -> Minings]

LEMMA DoneByIsDone ==
    ASSUME NEW s, NEW gram
    PROVE  DoneBy(s, gram) = DoneIn(events, s, gram)
  BY DEF DoneBy, DoneIn, CallsOf, Occurs, OccursIn, Actions, ActionsIn

LEMMA SpacesAre == Len(ChatsOf) \in Nat \ {0} /\ JSpaces = 1 .. Len(ChatsOf)
<1>1. ChatsOf \in Seq(SUBSET JChats) /\ ChatsOf # <<>>
  BY JournalAssumption
<1> QED
  BY <1>1 DEF JSpaces

LEMMA NoMiningIs == NoMining \in Minings
<1>1. Len(ChatsOf) \in Nat
  BY SpacesAre
<1> QED
  BY <1>1 DEF NoMining, Minings

\* What a pass promotes was done.
LEMMA FoundIsGrounded ==
    ASSUME LogSound, NEW s \in JSpaces
    PROVE  FoundIn(s) \in Minings
<1>1. ASSUME NEW gram \in Promoted(s) PROVE <<s, gram>> \in Grounded
  <2>1. gram \in Grams /\ Seen(s, gram) >= RecurThreshold /\ IsMeaningful(gram)
    BY DEF Promoted, Recurring
  <2>2. Seen(s, gram) \in Nat /\ Seen(s, gram) <= Cardinality(DoneIn(events, s, gram))
    BY <2>1, SeenWasDone
  <2>3. Cardinality(DoneIn(events, s, gram)) \in Nat /\ RecurThreshold \in Nat
    BY DoneIsFinite, JournalAssumption DEF LogSound
  <2>4. Cardinality(DoneIn(events, s, gram)) >= RecurThreshold
    BY <2>1, <2>2, <2>3
  <2> QED
    BY <2>1, <2>4 DEF Grounded, Workflows
<1>2. {<<s, gram>> : gram \in Promoted(s)} \subseteq Grounded
  BY <1>1
<1>3. s \in 0 .. Len(ChatsOf)
  BY SpacesAre
<1> QED
  BY <1>2, <1>3 DEF FoundIn, Minings

\* What was done stays done, whatever is logged after it.
LEMMA GroundedGrows ==
    ASSUME LogSound, NEW row \in [chat : JChats, label : Labels],
           events' = events \/ events' = Append(events, row)
    PROVE  Grounded \subseteq Grounded'
<1>1. CASE events' = events
  BY <1>1 DEF Grounded
<1>2. CASE events' = Append(events, row)
  <2> SUFFICES ASSUME NEW w \in Grounded PROVE w \in Grounded'
    OBVIOUS
  <2>1. PICK s \in JSpaces, gram \in Grams : w = <<s, gram>>
    BY DEF Grounded, Workflows
  <2>2. PICK log \in Seq([chat : JChats, label : Labels]) : log = events
    BY DEF LogSound
  <2>3. Append(log, row) \in Seq([chat : JChats, label : Labels])
    OBVIOUS
  <2>4. PICK longer \in Seq([chat : JChats, label : Labels]) : longer = Append(log, row)
    BY <2>3
  <2>5. DoneIn(log, s, gram) \subseteq DoneIn(longer, s, gram)
    BY <2>4, DoneGrows
  <2>6. IsFiniteSet(DoneIn(longer, s, gram)) /\ Cardinality(DoneIn(longer, s, gram)) \in Nat
    BY DoneIsFinite
  <2>7. Cardinality(DoneIn(log, s, gram)) \in Nat
    BY DoneIsFinite
  <2>8. Cardinality(DoneIn(log, s, gram)) <= Cardinality(DoneIn(longer, s, gram))
    BY <2>5, <2>6, FS_Subset
  <2>9. Cardinality(DoneIn(log, s, gram)) >= RecurThreshold /\ IsMeaningful(gram)
    BY <2>1, <2>2 DEF Grounded
  <2>10. Cardinality(DoneIn(longer, s, gram)) >= RecurThreshold
    BY <2>6, <2>7, <2>8, <2>9, JournalAssumption
  <2>11. events' = longer
    BY <1>2, <2>2, <2>4
  <2> QED
    BY <2>1, <2>9, <2>10, <2>11 DEF Grounded, Workflows
<1> QED
  BY <1>1, <1>2

LEMMA LearnStarts == JournalInit => LearnInv
  BY NoMiningIs DEF JournalInit, LearnInv

\* The hooks and the user leave what passes found as it is.
LEMMA LearnStands ==
    ASSUME LearnInv, Grounded \subseteq Grounded', miner' = miner, synthesized' \subseteq synthesized
    PROVE  LearnInv'
<1>1. Minings \subseteq Minings'
  BY DEF Minings
<1> QED
  BY <1>1 DEF LearnInv

\* A step of a pass adds what it read just now, or what it had found.
LEMMA PassLearns ==
    ASSUME JournalInv, LearnInv, NEW p \in Miners,
           \/ StartMining(p) \/ MineNext(p) \/ LookUp(p) \/ WriteWorkflow(p)
           \/ PruneLog(p) \/ EndMining(p) \/ MinerDies(p)
    PROVE  LearnInv'
<1>1. events' = events
  BY DEF StartMining, MineNext, LookUp, WriteWorkflow, PruneLog, EndMining, MinerDies, PassTo
<1>2. Grounded' = Grounded /\ Minings' = Minings
  BY <1>1 DEF Grounded, Minings
<1>3. miner \in [Miners -> Minings] /\ synthesized \subseteq Grounded /\ miner[p] \in Minings
  BY DEF LearnInv
<1>4. ASSUME NEW h, PassTo(p, h), h \in Minings, synthesized' \subseteq Grounded PROVE LearnInv'
  <2>1. miner' = [miner EXCEPT ![p] = h]
    BY <1>4 DEF PassTo
  <2> QED
    BY <1>2, <1>3, <1>4, <2>1 DEF LearnInv
<1>5. CASE StartMining(p)
  <2>1. PassTo(p, FoundIn(1)) /\ synthesized' = synthesized /\ 1 \in JSpaces
    BY <1>5, SpacesAre DEF StartMining
  <2>2. FoundIn(1) \in Minings
    BY <2>1, FoundIsGrounded DEF JournalInv
  <2> QED
    BY <1>3, <1>4, <2>1, <2>2
<1>6. CASE MineNext(p)
  <2>1. /\ PassTo(p, FoundIn(miner[p].space + 1)) /\ synthesized' = synthesized
        /\ miner[p].space < Len(ChatsOf)
    BY <1>6 DEF MineNext
  <2>2. PICK s \in JSpaces : s = miner[p].space + 1
    BY <1>3, <2>1, SpacesAre DEF Minings
  <2>3. FoundIn(s) \in Minings
    BY FoundIsGrounded DEF JournalInv
  <2> QED
    BY <1>3, <1>4, <2>1, <2>2, <2>3
<1>7. CASE LookUp(p)
  <2>1. PICK w \in miner[p].found :
           PassTo(p, [miner[p] EXCEPT !.found = @ \ {w}, !.missing = {w} \ (synthesized \cup supplied)])
    BY <1>7 DEF LookUp
  <2>2. [miner[p] EXCEPT !.found = @ \ {w}, !.missing = {w} \ (synthesized \cup supplied)] \in Minings
    BY <1>3 DEF Minings
  <2>3. synthesized' = synthesized
    BY <1>7 DEF LookUp
  <2> QED
    BY <1>3, <1>4, <2>1, <2>2, <2>3
<1>8. CASE WriteWorkflow(p)
  <2>1. PassTo(p, [miner[p] EXCEPT !.missing = {}]) /\ synthesized' = synthesized \cup miner[p].missing
    BY <1>8 DEF WriteWorkflow
  <2>2. [miner[p] EXCEPT !.missing = {}] \in Minings /\ miner[p].missing \subseteq Grounded
    BY <1>3 DEF Minings
  <2> QED
    BY <1>3, <1>4, <2>1, <2>2
<1>9. CASE PruneLog(p)
  <2>1. PassTo(p, [miner[p] EXCEPT !.at = "stamp"]) /\ synthesized' = synthesized
    BY <1>9 DEF PruneLog
  <2>2. [miner[p] EXCEPT !.at = "stamp"] \in Minings
    BY <1>3 DEF Minings
  <2> QED
    BY <1>3, <1>4, <2>1, <2>2
<1>10. CASE EndMining(p) \/ MinerDies(p)
  <2>1. PassTo(p, NoMining) /\ synthesized' = synthesized
    BY <1>10 DEF EndMining, MinerDies
  <2> QED
    BY <1>3, <1>4, <2>1, NoMiningIs
<1> QED
  BY <1>5, <1>6, <1>7, <1>8, <1>9, <1>10

LEMMA LearnStep == JournalInv /\ LearnInv /\ [JournalNext]_journalVars => LearnInv'
<1> SUFFICES ASSUME JournalInv, LearnInv, [JournalNext]_journalVars PROVE LearnInv'
  OBVIOUS
<1>1. LogSound
  BY DEF JournalInv
<1>2. CASE UNCHANGED journalVars
  BY <1>2 DEF journalVars, LearnInv, Minings, Grounded
<1>3. CASE \E c \in JChats : PromptHook(c) \/ EpisodeHook(c)
  <2>1. events' = events /\ miner' = miner /\ synthesized' = synthesized
    BY <1>3 DEF PromptHook, EpisodeHook, HooksOnly
  <2>2. Grounded \subseteq Grounded'
    BY <2>1 DEF Grounded
  <2> QED
    BY <2>1, <2>2, LearnStands
<1>4. CASE \E c \in JChats : \E label \in Labels : EventHook(c, label)
  <2>1. PICK c \in JChats, label \in Labels : EventHook(c, label)
    BY <1>4
  <2>2. PICK row \in [chat : JChats, label : Labels] : events' = Append(events, row)
    BY <2>1 DEF EventHook
  <2>3. miner' = miner /\ synthesized' = synthesized
    BY <2>1 DEF EventHook, HooksOnly
  <2>4. Grounded \subseteq Grounded'
    BY <1>1, <2>2, GroundedGrows
  <2> QED
    BY <2>3, <2>4, LearnStands
<1>5. CASE \E p \in Miners : \/ StartMining(p) \/ MineNext(p) \/ LookUp(p) \/ WriteWorkflow(p)
                             \/ PruneLog(p) \/ EndMining(p) \/ MinerDies(p)
  BY <1>5, PassLearns
<1>6. CASE SaveWorkflow
  <2>1. events' = events /\ miner' = miner /\ synthesized' \subseteq synthesized
    BY <1>6 DEF SaveWorkflow
  <2>2. Grounded \subseteq Grounded'
    BY <2>1 DEF Grounded
  <2> QED
    BY <2>1, <2>2, LearnStands
<1> QED
  BY <1>2, <1>3, <1>4, <1>5, <1>6 DEF JournalNext

\* A workflow that passes detected is a sequence that chats of its own space did,
\* each step by step and as often as the threshold asks, however the log was cut,
\* pruned and read meanwhile; episodes tell of their own turns; the throttle does
\* not stall (hooks.py, consolidate.py).
THEOREM LearnsTruly == JournalSpec => []LearntTruly
<1>1. LearnInv => WorkflowsRecur
  <2> SUFFICES ASSUME LearnInv, NEW w \in synthesized
               PROVE  Cardinality(DoneBy(w[1], w[2])) >= RecurThreshold /\ IsMeaningful(w[2])
    BY DEF WorkflowsRecur
  <2>1. w \in Grounded
    BY DEF LearnInv
  <2>2. DoneBy(w[1], w[2]) = DoneIn(events, w[1], w[2])
    BY DoneByIsDone
  <2> QED
    BY <2>1, <2>2 DEF Grounded
<1>2. JournalSpec => [](JournalInv /\ LearnInv)
  BY JournalStarts, JournalStep, LearnStarts, LearnStep, PTL DEF JournalSpec
<1>3. JournalSpec => []WorkflowsRecur
  BY <1>1, <1>2, PTL
<1>4. LearntTruly <=> EpisodesOwn /\ WorkflowsRecur /\ ThrottleFires
  BY DEF LearntTruly
<1> QED
  BY <1>3, <1>4, Episodes, Throttle, PTL

\* Type correctness. The bound on the log is EventHook's.
TurnStates == [on : BOOLEAN, start : 0 .. MaxEvents, from : 0 .. MaxEvents]
Tellings == [chat : JChats, from : 0 .. MaxEvents, upto : 0 .. MaxEvents, ids : SUBSET (1 .. MaxEvents)]
JournalSizes ==
    /\ Len(events) <= MaxEvents /\ turns \in [JChats -> TurnStates] /\ episode \in Tellings \cup {NoEpisode}
    /\ supplied \subseteq JSpaces \X Seq(Labels) /\ commands \in 0 .. MaxCommands

LEMMA LatestCalls == ASSUME LogSound, NEW c PROVE OfChat(c) \subseteq 1 .. Len(events)
<1>1. pruned \in Nat /\ Len(events) \in Nat
  BY DEF LogSound
<1> QED
  BY <1>1 DEF OfChat, Latest, Remaining

LEMMA SizesStart == JournalInit => JournalSizes
<1> SUFFICES ASSUME JournalInit PROVE JournalSizes
  OBVIOUS
<1>1. MaxEvents \in Nat /\ MaxCommands \in Nat
  BY JournalAssumption
<1>2. turns \in [JChats -> TurnStates]
  BY <1>1 DEF JournalInit, NoTurn, TurnStates
<1> QED
  BY <1>1, <1>2 DEF JournalInit, JournalSizes

LEMMA SizesStep == JournalSizes /\ JournalInv /\ [JournalNext]_journalVars => JournalSizes'
<1> SUFFICES ASSUME JournalSizes, JournalInv, [JournalNext]_journalVars PROVE JournalSizes'
  OBVIOUS
<1> USE DEF JournalSizes, TurnStates, Tellings
<1>1. Len(events) \in Nat /\ MaxEvents \in Nat /\ MaxCommands \in Nat
  BY JournalAssumption DEF JournalInv, LogSound
<1>2. ASSUME UNCHANGED <<events, turns>>, episode' = NoEpisode, supplied' \subseteq JSpaces \X Seq(Labels),
             commands' \in 0 .. MaxCommands
      PROVE  JournalSizes'
  BY <1>2
<1>3. CASE UNCHANGED journalVars
  BY <1>3 DEF journalVars
<1>4. ASSUME NEW c \in JChats, PromptHook(c) PROVE JournalSizes'
  <2>1. UNCHANGED <<events, supplied>> /\ episode' = NoEpisode /\ commands' = commands + 1 /\ commands < MaxCommands
    BY <1>4 DEF PromptHook, HooksOnly
  <2>2. PICK h \in TurnStates : turns' = [turns EXCEPT ![c] = h]
    <3>1. StartId(c) \in Nat /\ StartId(c) <= Len(events)
      BY StartIsLast DEF JournalInv
    <3>2. StartId(c) \in 0 .. MaxEvents /\ Len(events) \in 0 .. MaxEvents /\ 0 \in 0 .. MaxEvents
      BY <1>1, <3>1
    <3>3. /\ [on |-> TRUE, start |-> StartId(c), from |-> Len(events)] \in TurnStates
          /\ [on |-> TRUE, start |-> 0, from |-> 0] \in TurnStates
      BY <3>2
    <3> QED
      BY <1>4, <3>3 DEF PromptHook
  <2>3. turns' \in [JChats -> TurnStates]
    BY <2>2
  <2>4. commands' \in 0 .. MaxCommands
    BY <1>1, <2>1
  <2> QED
    BY <2>1, <2>3, <2>4
<1>5. ASSUME NEW c \in JChats, NEW label \in Labels, EventHook(c, label) PROVE JournalSizes'
  <2>1. /\ UNCHANGED <<turns, supplied, commands>> /\ episode' = NoEpisode /\ Len(events) < MaxEvents
        /\ events' = Append(events, [chat |-> c, label |-> label])
    BY <1>5 DEF EventHook, HooksOnly
  <2>2. Len(events') = Len(events) + 1
    BY <2>1 DEF JournalInv, LogSound
  <2> QED
    BY <1>1, <2>1, <2>2
<1>6. ASSUME NEW c \in JChats, EpisodeHook(c) PROVE JournalSizes'
  <2>1. UNCHANGED <<events, supplied, commands>> /\ turns' = [turns EXCEPT ![c] = NoTurn]
    BY <1>6 DEF EpisodeHook, HooksOnly
  <2>2. turns' \in [JChats -> TurnStates]
    <3>1. NoTurn \in TurnStates
      BY <1>1 DEF NoTurn
    <3> QED
      BY <2>1, <3>1
  <2>3. episode' \in Tellings \cup {NoEpisode}
    <3>1. PICK ids : ids = {i \in OfChat(c) : i > turns[c].start}
      OBVIOUS
    <3>2. ids \subseteq 1 .. MaxEvents
      <4>1. OfChat(c) \subseteq 1 .. Len(events)
        BY LatestCalls DEF JournalInv
      <4> QED
        BY <1>1, <3>1, <4>1
    <3>3. turns[c].from \in 0 .. MaxEvents /\ Len(events) \in 0 .. MaxEvents
      BY <1>1
    <3>4. [chat |-> c, from |-> turns[c].from, upto |-> Len(events), ids |-> ids] \in Tellings
      BY <3>2, <3>3
    <3>5. \/ episode' = NoEpisode
          \/ episode' = [chat |-> c, from |-> turns[c].from, upto |-> Len(events), ids |-> ids]
      BY <1>6, <3>1 DEF EpisodeHook
    <3> QED
      BY <3>4, <3>5
  <2> QED
    BY <2>1, <2>2, <2>3
<1>7. ASSUME NEW p \in Miners,
              \/ StartMining(p) \/ MineNext(p) \/ LookUp(p) \/ WriteWorkflow(p)
              \/ PruneLog(p) \/ EndMining(p) \/ MinerDies(p)
       PROVE  JournalSizes'
  <2>1. UNCHANGED <<events, turns, commands>> /\ episode' = NoEpisode
    BY <1>7 DEF StartMining, MineNext, LookUp, WriteWorkflow, PruneLog, EndMining, MinerDies, PassTo
  <2>2. supplied' \subseteq supplied
    BY <1>7 DEF StartMining, MineNext, LookUp, WriteWorkflow, PruneLog, EndMining, MinerDies
  <2> QED
    BY <1>2, <2>1, <2>2
<1>8. CASE SaveWorkflow
  <2>1. UNCHANGED <<events, turns>> /\ episode' = NoEpisode /\ commands' = commands + 1 /\ commands < MaxCommands
    BY <1>8 DEF SaveWorkflow
  <2>2. supplied' \subseteq JSpaces \X Seq(Labels)
    BY <1>8, JournalAssumption DEF SaveWorkflow
  <2> QED
    BY <1>1, <1>2, <2>1, <2>2
<1>9. CASE \E c \in JChats : PromptHook(c) \/ EpisodeHook(c) \/ (\E label \in Labels : EventHook(c, label))
  BY <1>4, <1>5, <1>6, <1>9
<1>10. CASE \E p \in Miners : \/ StartMining(p) \/ MineNext(p) \/ LookUp(p) \/ WriteWorkflow(p)
                              \/ PruneLog(p) \/ EndMining(p) \/ MinerDies(p)
  BY <1>7, <1>10
<1> QED
  BY <1>3, <1>8, <1>9, <1>10 DEF JournalNext

\* The rest of the type invariant follows from what the log and the passes keep to.
LEMMA TypeFollows == JournalSizes /\ JournalInv /\ LearnInv => JournalTypeOK
<1> SUFFICES ASSUME JournalSizes, JournalInv, LearnInv PROVE JournalTypeOK
  OBVIOUS
<1>1. EventsKeep \in Nat /\ Len(events) \in Nat
  BY JournalAssumption DEF JournalInv, LogSound
<1>2. pruned \in 0 .. Len(events) /\ watermark \in 0 .. Len(events) /\ unread \in 0 .. Len(events)
  BY <1>1 DEF JournalInv, LogSound
<1>3. Grounded \subseteq Workflows
  BY DEF Grounded
<1>4. \A h \in Minings : h \in [at : {"idle", "mine", "stamp"}, space : 0 .. Len(ChatsOf),
                                found : SUBSET Workflows, missing : SUBSET Workflows]
  BY <1>3 DEF Minings
<1>5. miner \in [Miners -> [at : {"idle", "mine", "stamp"}, space : 0 .. Len(ChatsOf),
                           found : SUBSET Workflows, missing : SUBSET Workflows]]
  BY <1>4 DEF LearnInv
<1>6. synthesized \subseteq Workflows /\ events \in Seq([chat : JChats, label : Labels])
  BY <1>3 DEF JournalInv, LogSound, LearnInv
<1> QED
  BY <1>2, <1>5, <1>6 DEF JournalTypeOK, JournalSizes, TurnStates, Tellings

\* The journal's type invariant.
THEOREM JournalTyped == JournalSpec => []JournalTypeOK
<1>1. JournalInv /\ LearnInv /\ JournalSizes /\ [JournalNext]_journalVars
      => (JournalInv /\ LearnInv /\ JournalSizes)'
  BY JournalStep, LearnStep, SizesStep
<1>2. JournalSpec => [](JournalInv /\ LearnInv /\ JournalSizes)
  BY <1>1, JournalStarts, LearnStarts, SizesStart, PTL DEF JournalSpec
<1> QED
  BY <1>2, TypeFollows, PTL
=============================================================================
