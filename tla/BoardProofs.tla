----------------------------- MODULE BoardProofs -----------------------------
(***************************************************************************)
(* Theorems about Board, for any processes, builds, items, facts, days and *)
(* thresholds.                                                             *)
(*                                                                         *)
(* The inductive invariant adds to the types whose the lock is, and that a *)
(* process which migrates works from the version the table holds.          *)
(***************************************************************************)
EXTENDS Board, SequenceTheorems, FiniteSetTheorems, WellFoundedInduction, TLAPS

(* Who is not out holds the lock. *)
Owned == \A p \in Processes : process[p] # "out" => lock = p

(* While a process migrates, its version is the recorded one. *)
VersionIsRead ==
  \A p \in Processes : process[p] = "migrating" => versions # <<>> /\ current[p] = versions[1]

IInv == TypeOK /\ Owned /\ VersionIsRead /\ SchemaWhole

-----------------------------------------------------------------------------
(* The newest of some positions or days. *)

LEMMA MaxExists ==
  ASSUME NEW n \in Nat, NEW S \in SUBSET (0 .. n), S # {}
  PROVE  Max(S) \in S /\ \A y \in S : y <= Max(S)
<1> DEFINE T == {n - k : k \in S}
           Below == OpToRel(<, Nat)
<1>1. PICK d \in T : \A e \in T : ~(<<e, d>> \in Below)
  <2>1. T \subseteq Nat /\ T # {}
    OBVIOUS
  <2>2. IsWellFoundedOn(Below, Nat)
    BY NatLessThanWellFounded
  <2> HIDE DEF T, Below
  <2> QED BY <2>1, <2>2, WFMin
<1>2. PICK k \in S : d = n - k
  OBVIOUS
<1>3. ASSUME NEW j \in S PROVE k >= j
  <2>1. n - j \in T /\ n - j \in Nat /\ d \in Nat
    BY <1>2
  <2>2. ~(n - j < d)
    BY <1>1, <2>1 DEF OpToRel
  <2> QED BY <1>2, <2>2
<1>4. Max(S) \in S /\ \A y \in S : Max(S) >= y
  <2> HIDE DEF T, Below
  <2> QED BY <1>3, Zenon DEF Max
<1> QED BY <1>4

LEMMA MinExists ==
  ASSUME NEW S \in SUBSET Nat, S # {}
  PROVE  Min(S) \in S /\ \A y \in S : Min(S) <= y
<1> DEFINE Below == OpToRel(<, Nat)
<1>1. PICK k \in S : \A e \in S : ~(<<e, k>> \in Below)
  <2>1. IsWellFoundedOn(Below, Nat)
    BY NatLessThanWellFounded
  <2> HIDE DEF Below
  <2> QED BY <2>1, WFMin
<1>2. ASSUME NEW j \in S PROVE k <= j
  <2>1. j \in Nat /\ k \in Nat
    OBVIOUS
  <2>2. ~(j < k)
    BY <1>1, <2>1 DEF OpToRel
  <2> QED BY <2>1, <2>2
<1>3. Min(S) \in S /\ \A y \in S : Min(S) <= y
  <2> HIDE DEF Below
  <2> QED BY <1>2, Zenon DEF Min
<1> QED BY <1>3

-----------------------------------------------------------------------------
(* Sorting. *)

TotalOrder(R, S) ==
  \A x, y, z \in S :
    /\ <<x, x>> \notin R
    /\ x # y => <<x, y>> \in R \/ <<y, x>> \in R
    /\ <<x, y>> \in R /\ <<y, z>> \in R => <<x, z>> \in R

IsLast(x, R, S) == \A y \in S : y # x => <<y, x>> \in R

IsSorting(list, R, S) ==
  /\ list \in [1 .. Cardinality(S) -> S]
  /\ Range(list) = S
  /\ \A m, n \in DOMAIN list : m < n => <<list[m], list[n]>> \in R

(* A subset with one member less. *)
LEMMA OneLess ==
  ASSUME NEW S, IsFiniteSet(S), NEW T \in SUBSET S, NEW x \in T
  PROVE  /\ IsFiniteSet(T) /\ T \ {x} \in SUBSET S
         /\ Cardinality(T) \in Nat /\ Cardinality(T \ {x}) \in Nat
         /\ Cardinality(T \ {x}) = Cardinality(T) - 1
<1>1. IsFiniteSet(T)
  BY FS_Subset
<1>2. Cardinality(T) \in Nat /\ IsFiniteSet(T \ {x}) /\ Cardinality(T \ {x}) = Cardinality(T) - 1
  BY <1>1, FS_CardinalityType, FS_RemoveElement
<1>3. Cardinality(T \ {x}) \in Nat
  BY <1>2, FS_CardinalityType
<1>4. QED
  BY <1>1, <1>2, <1>3

(* Of the subsets that are bad, one is of least size. *)
LEMMA LeastBad ==
  ASSUME NEW S, IsFiniteSet(S), NEW Bad \in SUBSET SUBSET S, Bad # {}
  PROVE  \E T \in Bad : \A x \in T : T \ {x} \notin Bad
<1> DEFINE Sizes == {Cardinality(T) : T \in Bad}
           Below == OpToRel(<, Nat)
<1>1. Sizes \subseteq Nat /\ Sizes # {}
  <2>1. \A T \in Bad : Cardinality(T) \in Nat
    BY FS_Subset, FS_CardinalityType
  <2>2. QED
    BY <2>1
<1>2. PICK n \in Sizes : \A m \in Sizes : ~(<<m, n>> \in Below)
  <2>1. IsWellFoundedOn(Below, Nat)
    BY NatLessThanWellFounded
  <2> HIDE DEF Below, Sizes
  <2> QED BY <1>1, <2>1, WFMin
<1>3. PICK T \in Bad : Cardinality(T) = n
  BY <1>2
<1>4. ASSUME NEW x \in T, T \ {x} \in Bad PROVE FALSE
  <2>1. Cardinality(T \ {x}) \in Sizes
    BY <1>4
  <2>2. n \in Nat /\ Cardinality(T \ {x}) \in Nat /\ Cardinality(T \ {x}) = n - 1
    BY <1>3, <1>4, OneLess
  <2>3. Cardinality(T \ {x}) < n
    BY <2>2
  <2>4. <<Cardinality(T \ {x}), n>> \in Below
    BY <2>2, <2>3 DEF OpToRel
  <2>5. QED
    BY <1>2, <2>1, <2>4
<1>5. QED
  BY <1>4

LEMMA LastExists ==
  ASSUME NEW S, IsFiniteSet(S), NEW R, TotalOrder(R, S), S # {}
  PROVE  \E x \in S : IsLast(x, R, S)
<1> DEFINE Bad == {T \in SUBSET S : T # {} /\ ~ \E x \in T : IsLast(x, R, T)}
<1>1. ASSUME Bad # {} PROVE FALSE
  <2>1. PICK T \in Bad : \A x \in T : T \ {x} \notin Bad
    <3>1. Bad \in SUBSET SUBSET S
      OBVIOUS
    <3> HIDE DEF Bad
    <3>2. QED
      BY <1>1, <3>1, LeastBad
  <2>2. PICK x \in T : TRUE
    OBVIOUS
  <2>3. CASE T = {x}
    BY <2>3 DEF IsLast
  <2>4. CASE T # {x}
    <3>1. PICK y \in T \ {x} : IsLast(y, R, T \ {x})
      <4>1. T \ {x} \in SUBSET S /\ T \ {x} # {}
        BY <2>4
      <4>2. T \ {x} \notin Bad
        BY <2>1
      <4>3. QED
        BY <4>1, <4>2
    <3>2. CASE <<x, y>> \in R
      BY <3>1, <3>2 DEF IsLast
    <3>3. CASE <<y, x>> \in R
      <4>1. ASSUME NEW z \in T, z # x PROVE <<z, x>> \in R
        BY <3>1, <3>3, <4>1 DEF IsLast, TotalOrder
      <4>2. QED
        BY <4>1 DEF IsLast
    <3>4. QED
      BY <3>1, <3>2, <3>3 DEF TotalOrder
  <2>5. QED
    BY <2>3, <2>4
<1>2. QED
  BY <1>1

(* A finite set can be listed in any total order of its members. *)
LEMMA SortingExists ==
  ASSUME NEW S, IsFiniteSet(S), NEW R, TotalOrder(R, S)
  PROVE  \E list : IsSorting(list, R, S)
<1> DEFINE Bad == {T \in SUBSET S : ~ \E list : IsSorting(list, R, T)}
<1>1. ASSUME Bad # {} PROVE FALSE
  <2>1. PICK T \in Bad : \A x \in T : T \ {x} \notin Bad
    <3>1. Bad \in SUBSET SUBSET S
      OBVIOUS
    <3> HIDE DEF Bad
    <3>2. QED
      BY <1>1, <3>1, LeastBad
  <2>2. IsFiniteSet(T)
    BY FS_Subset
  <2>3. CASE T = {}
    <3>1. Cardinality(T) = 0
      BY <2>3, FS_EmptySet
    <3>2. IsSorting([k \in {} |-> k], R, T)
      BY <2>3, <3>1 DEF IsSorting, Range
    <3>3. QED
      BY <3>2
  <2>4. CASE T # {}
    <3>1. PICK x \in T : IsLast(x, R, T)
      <4>1. TotalOrder(R, T)
        BY DEF TotalOrder
      <4>2. QED
        BY <2>2, <2>4, <4>1, LastExists
    <3>2. PICK list : IsSorting(list, R, T \ {x})
      BY <2>1
    <3> DEFINE n    == Cardinality(T)
               more == [k \in 1 .. n |-> IF k = n THEN x ELSE list[k]]
    <3>3. n \in Nat /\ Cardinality(T \ {x}) = n - 1 /\ n - 1 \in Nat
      <4>1. T \in SUBSET S
        OBVIOUS
      <4> HIDE DEF Bad
      <4>2. Cardinality(T) \in Nat /\ Cardinality(T \ {x}) = Cardinality(T) - 1
        BY <4>1, OneLess
      <4>3. Cardinality(T \ {x}) \in Nat
        BY <4>1, OneLess
      <4>4. QED
        BY <4>2, <4>3
    <3>4. /\ list \in [1 .. n - 1 -> T \ {x}] /\ Range(list) = T \ {x}
          /\ \A k, m \in 1 .. n - 1 : k < m => <<list[k], list[m]>> \in R
      BY <3>2, <3>3 DEF IsSorting
    <3> HIDE DEF n
    <3>5. more \in [1 .. n -> T]
      BY <3>3, <3>4
    <3>6. Range(more) = T
      <4>1. \A y \in T \ {x} : \E k \in 1 .. n - 1 : list[k] = y
        BY <3>4 DEF Range
      <4>2. \A y \in T \ {x} : \E k \in 1 .. n : more[k] = y
        BY <3>3, <4>1
      <4>3. n \in 1 .. n /\ more[n] = x
        BY <3>3
      <4>4. \A y \in T : \E k \in 1 .. n : more[k] = y
        BY <4>2, <4>3
      <4>5. QED
        BY <3>5, <4>4 DEF Range
    <3>7. ASSUME NEW k \in 1 .. n, NEW m \in 1 .. n, k < m PROVE <<more[k], more[m]>> \in R
      <4>1. k \in 1 .. n - 1 /\ more[k] = list[k] /\ list[k] \in T \ {x}
        BY <3>3, <3>4, <3>7
      <4>2. CASE m = n
        BY <3>1, <4>1, <4>2 DEF IsLast
      <4>3. CASE m # n
        BY <3>3, <3>4, <3>7, <4>1, <4>3
      <4>4. QED
        BY <4>2, <4>3
    <3>8. IsSorting(more, R, T)
      BY <3>5, <3>6, <3>7 DEF IsSorting, n
    <3>9. QED
      BY <3>8
  <2>5. QED
    BY <2>3, <2>4
<1>2. QED
  BY <1>1

(* By its places a list puts its items in a total order. *)
LEMMA PlaceIsPlace ==
  ASSUME NEW list, NEW i \in Range(list)
  PROVE  Place(i, list) \in DOMAIN list /\ list[Place(i, list)] = i
BY Zenon DEF Place, Range

LEMMA SortedByPlace ==
  ASSUME NEW list, DOMAIN list \subseteq Nat,
         NEW S, IsFiniteSet(S), S \subseteq Range(list)
  PROVE  LET sub == Following(list, S)
         IN  /\ sub \in [1 .. Cardinality(S) -> S] /\ Range(sub) = S
             /\ \A m, n \in DOMAIN sub : m < n => Place(sub[m], list) < Place(sub[n], list)
<1> DEFINE R == {p \in S \X S : Place(p[1], list) < Place(p[2], list)}
<1>1. \A i \in S : Place(i, list) \in Nat /\ list[Place(i, list)] = i
  BY PlaceIsPlace
<1>2. \A i, j \in S : <<i, j>> \in R <=> Place(i, list) < Place(j, list)
  OBVIOUS
<1> HIDE DEF R
<1>3. TotalOrder(R, S)
  <2>1. \A x, y \in S : x # y => Place(x, list) # Place(y, list)
    BY <1>1
  <2>2. ASSUME NEW x \in S, NEW y \in S, NEW z \in S
        PROVE  /\ <<x, x>> \notin R
               /\ x # y => <<x, y>> \in R \/ <<y, x>> \in R
               /\ <<x, y>> \in R /\ <<y, z>> \in R => <<x, z>> \in R
    <3> DEFINE px == Place(x, list)  py == Place(y, list)  pz == Place(z, list)
    <3>1. px \in Nat /\ py \in Nat /\ pz \in Nat /\ (x # y => px # py)
      BY <1>1, <2>1
    <3>2. /\ <<x, x>> \in R <=> px < px
          /\ <<x, y>> \in R <=> px < py
          /\ <<y, x>> \in R <=> py < px
          /\ <<y, z>> \in R <=> py < pz
          /\ <<x, z>> \in R <=> px < pz
      BY <1>2
    <3> HIDE DEF px, py, pz
    <3>3. QED
      BY <3>1, <3>2
  <2>3. QED
    BY <2>2 DEF TotalOrder
<1>4. PICK sub : IsSorting(sub, R, S)
  BY <1>3, SortingExists
<1>5. \A m, n \in DOMAIN sub : m < n => Place(sub[m], list) < Place(sub[n], list)
  BY <1>2, <1>4 DEF IsSorting
<1>6. \E l \in [1 .. Cardinality(S) -> S] :
         Range(l) = S /\ \A m, n \in DOMAIN l : m < n => Place(l[m], list) < Place(l[n], list)
  BY <1>4, <1>5 DEF IsSorting
<1>7. QED
  BY <1>6, Zenon DEF Following, Sorted

-----------------------------------------------------------------------------
(* The readers of a log. *)

(* A row known on a day is known on every later one. *)
LEMMA RowGrows ==
  ASSUME NEW d \in Nat, NEW e \in Nat, d <= e
  PROVE  Row(d) \subseteq Row(e) /\ Seq(Row(d)) \subseteq Seq(Row(e))
<1>1. 0 .. d \subseteq 0 .. e
  OBVIOUS
<1>2. Row(d) \subseteq Row(e)
  BY <1>1 DEF Row
<1> QED BY <1>2, SeqMonotonic

LEMMA RowKinds ==
  ASSUME NEW d \in Nat, NEW row \in Row(d)
  PROVE  /\ row.kind \in {"observed", "removed"} \cup SignalTypes
         /\ row.at \in 0 .. d
         /\ row.kind = "observed" => row.fact \in Facts /\ row.updated \in {Untimed} \cup 0 .. d
         /\ row.kind \in SignalTypes => row.occurred \in {Untimed} \cup 0 .. d
BY DEF Row, SignalTypes

LEMMA LatestFact ==
  ASSUME NEW d \in Nat, NEW log \in Seq(Row(d)), FactIds(log) # {}
  PROVE  /\ Max(FactIds(log)) \in FactIds(log)
         /\ \A k \in FactIds(log) : k <= Max(FactIds(log))
<1>1. FactIds(log) \in SUBSET (0 .. Len(log)) /\ Len(log) \in Nat
  BY DEF FactIds, IdsOf
<1> QED BY <1>1, MaxExists

LEMMA LatestSnapshot ==
  ASSUME NEW d \in Nat, NEW log \in Seq(Row(d)), IdsOf("observed", log) # {}
  PROVE  /\ Max(IdsOf("observed", log)) \in IdsOf("observed", log)
         /\ \A k \in IdsOf("observed", log) : k <= Max(IdsOf("observed", log))
<1>1. IdsOf("observed", log) \in SUBSET (0 .. Len(log)) /\ Len(log) \in Nat
  BY DEF IdsOf
<1> QED BY <1>1, MaxExists

(* An item is on the board exactly when its latest fact is an open one, and *)
(* then the latest fact is the latest snapshot.                            *)
LEMMA OnBoardIsOpen ==
  ASSUME NEW d \in Nat, NEW log \in Seq(Row(d))
  PROVE  /\ OnBoard(log) <=> LatestIsOpenFact(log)
         /\ OnBoard(log) => /\ LatestFacts(log) = log[Max(FactIds(log))].fact
                            /\ LatestFacts(log) \in Facts
                            /\ Max(IdsOf("observed", log)) \in IdsOf("observed", log)
<1>1. IdsOf("observed", log) \subseteq 1 .. Len(log) /\ IdsOf("removed", log) \subseteq 1 .. Len(log)
      /\ \A k \in FactIds(log) : k \in Nat /\ log[k] \in Row(d)
  BY DEF IdsOf, FactIds
<1>2. ASSUME OnBoard(log)
      PROVE  LatestIsOpenFact(log) /\ Max(IdsOf("observed", log)) = Max(FactIds(log))
             /\ Max(IdsOf("observed", log)) \in IdsOf("observed", log)
  <2>1. PICK k \in IdsOf("observed", log) :
          /\ \A j \in IdsOf("observed", log) : j <= k
          /\ \A j \in IdsOf("removed", log) : j < k
          /\ log[k].fact.open
    BY <1>2 DEF OnBoard
  <2>2. k \in FactIds(log) /\ \A j \in FactIds(log) : j <= k
    BY <1>1, <2>1 DEF FactIds
  <2>3. Max(FactIds(log)) = k
    BY <1>1, <2>2, LatestFact
  <2>4. Max(IdsOf("observed", log)) = k
    BY <1>1, <2>1, LatestSnapshot
  <2>5. log[k].kind = "observed"
    BY <2>1 DEF IdsOf
  <2> QED BY <2>1, <2>2, <2>3, <2>4, <2>5 DEF LatestIsOpenFact
<1>3. ASSUME LatestIsOpenFact(log) PROVE OnBoard(log)
  <2> DEFINE k == Max(FactIds(log))
  <2>1. k \in FactIds(log) /\ (\A j \in FactIds(log) : j <= k)
    BY <1>3, LatestFact DEF LatestIsOpenFact
  <2>2. log[k].kind = "observed" /\ log[k].fact.open
    BY <1>3 DEF LatestIsOpenFact
  <2>3. k \in IdsOf("observed", log) /\ k \notin IdsOf("removed", log)
    BY <2>1, <2>2 DEF IdsOf, FactIds
  <2> HIDE DEF k
  <2>4. ASSUME NEW j \in IdsOf("removed", log) PROVE j < k
    <3>1. j \in FactIds(log) /\ j # k
      BY <2>3 DEF FactIds
    <3>2. j \in Nat /\ k \in Nat /\ j <= k
      BY <1>1, <2>1, <3>1
    <3> QED BY <3>1, <3>2
  <2> QED BY <2>1, <2>2, <2>3, <2>4 DEF OnBoard, FactIds
<1>4. ASSUME OnBoard(log) PROVE LatestFacts(log) \in Facts
  <2>1. Max(IdsOf("observed", log)) \in FactIds(log) /\ log[Max(IdsOf("observed", log))].kind = "observed"
    BY <1>2, <1>4 DEF IdsOf, FactIds
  <2> QED BY <1>1, <2>1, RowKinds DEF LatestFacts
<1> QED BY <1>2, <1>3, <1>4 DEF LatestFacts

-----------------------------------------------------------------------------
(* Type correctness and the invariant. *)

LEMMA DayIsNatural == TypeOK => now \in Nat /\ \A t \in Reported : t \in 0 .. now
<1> SUFFICES ASSUME TypeOK PROVE now \in Nat /\ \A t \in Reported : t \in 0 .. now
  OBVIOUS
<1>1. now \in Days /\ Days \subseteq Nat /\ Delays \subseteq Nat
  BY BoardAssumption DEF TypeOK
<1>2. ASSUME NEW d \in Delays, d <= now PROVE now - d \in 0 .. now
  BY <1>1, <1>2
<1>3. ASSUME NEW t \in Reported PROVE \E d \in Delays : d <= now /\ t = now - d
  BY DEF Reported
<1> QED BY <1>1, <1>2, <1>3

LEMMA OpenKeysType == TypeOK => AllOpenTicketKeys \subseteq Keys
<1> SUFFICES ASSUME TypeOK, NEW i \in Items, LatestIsOpenFact(logs[i])
             PROVE  Range(logs[i][Max(FactIds(logs[i]))].fact.ticketKeys) \subseteq Keys
  BY DEF AllOpenTicketKeys
<1>1. now \in Nat /\ logs[i] \in Seq(Row(now))
  BY DayIsNatural DEF TypeOK
<1>2. logs[i][Max(FactIds(logs[i]))].fact \in Facts
  BY <1>1, OnBoardIsOpen
<1> QED BY <1>2, BoardAssumption DEF Range

LEMMA InitIInv == Init => IInv
<1> SUFFICES ASSUME Init PROVE IInv
  OBVIOUS
<1>1. \A p \in Processes : migrations[p] \in Nat /\ migrations[p] >= 1
  BY StoreAssumption
<1>2. 1 \in Known
  BY <1>1, StoreAssumption DEF Known
<1>3. versions \in Seq({0} \cup Known) /\ applied \subseteq Known
  <2>1. ASSUME NEW S, 1 \in S PROVE <<>> \in Seq(S) /\ <<1>> \in Seq(S)
    BY <2>1
  <2>2. versions \in {<<>>, <<1>>} /\ applied \subseteq {1}
    BY DEF Init
  <2> QED BY <1>2, <2>1, <2>2
<1>4. ASSUME NEW f \in Facts PROVE <<Snapshot(f, 0, 0, 0)>> \in Seq(Row(0))
  <2>1. Snapshot(f, 0, 0, 0) \in Row(0)
    BY DEF Snapshot, Row
  <2> QED BY <2>1
<1>5. logs \in [Items -> Seq(Row(0))]
  <2>1. <<>> \in Seq(Row(0))
    OBVIOUS
  <2>2. \/ logs = [i \in Items |-> <<>>]
        \/ \E f \in Facts : logs = [i \in Items |-> <<Snapshot(f, 0, 0, 0)>>]
    BY DEF Init
  <2> QED BY <1>4, <2>1, <2>2
<1>6. pins \in [Items -> {NotPinned} \cup 0 .. 0]
  BY DEF Init
<1>7. TypeOK
  <2>1. now = 0 /\ 0 \in Days /\ MaxSteps \in Nat
    BY BoardAssumption DEF Init
  <2>2. lock = NoOwner /\ process \in [Processes -> Phases] /\ current \in [Processes -> {0} \cup Known]
    BY DEF Init, Phases
  <2>3. tickets \in [Keys -> Statuses \cup {Blank, NoRow}] /\ news \in BOOLEAN /\ spent = 0
        /\ sweep \in [pc : {"idle", "fetching", "pruning"}, keys : SUBSET Keys,
                      left : SUBSET Keys, changed : BOOLEAN]
    BY DEF Init, Idle, At
  <2> QED BY <1>3, <1>5, <1>6, <2>1, <2>2, <2>3 DEF TypeOK
<1>8. Owned /\ VersionIsRead
  BY DEF Init, Owned, VersionIsRead
<1>9. SchemaWhole
  <2>1. \/ versions = <<>> /\ applied = {}
        \/ Len(versions) = 1 /\ applied = 1 .. versions[1]
    <3>1. 1 .. 1 = {1}
      OBVIOUS
    <3>2. (versions = <<>> /\ applied = {}) \/ (versions = <<1>> /\ applied = {1})
      BY DEF Init
    <3> QED BY <3>1, <3>2
  <2> QED BY <2>1 DEF Init, SchemaWhole
<1> QED BY <1>7, <1>8, <1>9 DEF IInv

(* What does not touch the owner or the schema keeps what is said of them. *)
LEMMA OwnerKept ==
  ASSUME IInv, TypeOK', UNCHANGED <<owner, schema>>
  PROVE  IInv'
BY DEF IInv, Owned, VersionIsRead, SchemaWhole, owner, schema

LEMMA WriteType ==
  ASSUME TypeOK, NEW i \in Items, NEW row \in Row(now), EngineWrites(i, row)
  PROVE  TypeOK' /\ UNCHANGED <<owner, schema>>
<1>1. logs' \in [Items -> Seq(Row(now))]
  BY DEF EngineWrites, WriteEvent, TypeOK
<1>2. spent' \in 0 .. MaxSteps
  BY BoardAssumption DEF EngineWrites, Spend, TypeOK
<1> QED BY <1>1, <1>2 DEF EngineWrites, TypeOK, owner, schema, refresher

LEMMA EngineRow ==
  ASSUME TypeOK, NEW i \in Items, Observe(i) \/ Reap(i) \/ SignalArrives(i)
  PROVE  \E row : row \in Row(now) /\ EngineWrites(i, row)
<1>1. now \in Nat /\ now \in 0 .. now /\ \A t \in Reported : t \in 0 .. now
  BY DayIsNatural
<1>2. IdsOf("observed", logs[i]) \subseteq Nat /\ IdsOf("removed", logs[i]) \subseteq Nat
      /\ logs[i] \in Seq(Row(now))
  BY DEF TypeOK, IdsOf
<1>3. CASE Observe(i)
  <2>1. PICK f \in Facts, t \in Reported, salt \in Nat : EngineWrites(i, Snapshot(f, t, salt, now))
    BY <1>2, <1>3 DEF Observe
  <2>2. Snapshot(f, t, salt, now) \in Row(now)
    BY <1>1 DEF Snapshot, Row
  <2> QED BY <2>1, <2>2
<1>4. CASE Reap(i)
  <2>1. LatestIsOpenFact(logs[i]) /\ EngineWrites(i, Removal(Max(IdsOf("observed", logs[i])), now))
    BY <1>4 DEF Reap
  <2>2. Max(IdsOf("observed", logs[i])) \in Nat
    BY <1>1, <1>2, <2>1, OnBoardIsOpen
  <2>3. Removal(Max(IdsOf("observed", logs[i])), now) \in Row(now)
    BY <1>1, <2>2 DEF Removal, Row
  <2> QED BY <2>1, <2>3
<1>5. CASE SignalArrives(i)
  <2>1. PICK type \in Signals, t \in {Untimed} \cup (Reported \ {now}) :
          EngineWrites(i, Signal(type, t, now))
    BY <1>5 DEF SignalArrives
  <2>2. Signal(type, t, now) \in Row(now)
    BY <1>1, BoardAssumption DEF Signal, Row
  <2> QED BY <2>1, <2>2
<1> QED BY <1>3, <1>4, <1>5

LEMMA EngineType ==
  ASSUME TypeOK, NEW i \in Items, Observe(i) \/ Reap(i) \/ SignalArrives(i)
  PROVE  TypeOK' /\ UNCHANGED <<owner, schema>>
BY EngineRow, WriteType

LEMMA FlagType ==
  ASSUME TypeOK, NEW i \in Items, NEW flagged \in BOOLEAN, handleFlag(i, flagged)
  PROVE  TypeOK' /\ UNCHANGED <<owner, schema>>
<1>1. now \in 0 .. now
  BY DayIsNatural
<1>2. pins' \in [Items -> {NotPinned} \cup 0 .. now]
  BY <1>1 DEF handleFlag, SetHandleNext, TypeOK
<1>3. spent' \in 0 .. MaxSteps
  BY BoardAssumption DEF handleFlag, Spend, TypeOK
<1> QED BY <1>2, <1>3 DEF handleFlag, TypeOK, owner, schema, refresher

LEMMA TickType ==
  ASSUME TypeOK, Tick
  PROVE  TypeOK' /\ UNCHANGED <<owner, schema>>
<1>1. now \in Nat /\ now' \in Nat /\ now <= now' /\ now' \in Days
  BY DayIsNatural, BoardAssumption DEF Tick
<1>2. UNCHANGED <<owner, schema, logs, pins, tickets, sweep, news, spent>>
  BY DEF Tick, store, tables, refresher
<1>3. Seq(Row(now)) \subseteq Seq(Row(now'))
  BY <1>1, RowGrows
<1>4. logs' \in [Items -> Seq(Row(now'))]
  BY <1>2, <1>3 DEF TypeOK
<1>5. pins' \in [Items -> {NotPinned} \cup 0 .. now']
  BY <1>1, <1>2 DEF TypeOK
<1> QED BY <1>1, <1>2, <1>4, <1>5 DEF TypeOK, owner, schema

SweepRecords ==
  [pc : {"idle", "fetching", "pruning"}, keys : SUBSET Keys, left : SUBSET Keys, changed : BOOLEAN]

LEMMA ContinueType ==
  ASSUME NEW keys \in SUBSET Keys, NEW left \in SUBSET Keys, NEW changed \in BOOLEAN,
         Continue(keys, left, changed)
  PROVE  sweep' \in SweepRecords
BY DEF Continue, At, SweepRecords

LEMMA IdleType == Idle \in SweepRecords
BY DEF Idle, At, SweepRecords

LEMMA SweepType ==
  ASSUME TypeOK, (Sweep /\ UNCHANGED <<now, spent>>) \/ (Trouble /\ Spend /\ UNCHANGED now)
  PROVE  TypeOK' /\ UNCHANGED <<owner, schema>>
<1>1. sweep \in SweepRecords /\ news \in BOOLEAN
      /\ tickets \in [Keys -> Statuses \cup {Blank, NoRow}]
  BY DEF TypeOK, SweepRecords
<1>2. spent' \in 0 .. MaxSteps /\ now' = now
  BY BoardAssumption DEF Spend, TypeOK
<1>3. SUFFICES /\ UNCHANGED <<owner, schema, logs, pins>>
               /\ tickets' \in [Keys -> Statuses \cup {Blank, NoRow}]
               /\ sweep' \in SweepRecords /\ news' \in BOOLEAN
  BY <1>2 DEF TypeOK, SweepRecords, owner, schema
<1>4. CASE CollectKeys
  BY <1>1, <1>4, OpenKeysType, ContinueType DEF CollectKeys, store, owner, schema, tables
<1>5. ASSUME NEW k \in Keys, NEW status \in Statuses \cup {Blank},
             Fetched(k, status) \/ FetchRefused(k) \/ FetchBreaks(k)
      PROVE  /\ UNCHANGED <<owner, schema, logs, pins>>
             /\ tickets' \in [Keys -> Statuses \cup {Blank, NoRow}]
             /\ sweep' \in SweepRecords /\ news' \in BOOLEAN
  <2>1. sweep.keys \in SUBSET Keys /\ sweep.left \ {k} \in SUBSET Keys /\ sweep.changed \in BOOLEAN
    BY <1>1 DEF SweepRecords
  <2>2. sweep' \in SweepRecords
    BY <1>5, <2>1, ContinueType DEF Fetched, FetchRefused, FetchBreaks
  <2>3. tickets' \in [Keys -> Statuses \cup {Blank, NoRow}]
    BY <1>1, <1>5 DEF Fetched, FetchRefused, FetchBreaks, UpsertJiraTicket, store, tables
  <2> QED BY <1>1, <1>5, <2>2, <2>3 DEF Fetched, FetchRefused, FetchBreaks, store, tables
<1>6. CASE Prune \/ PruneBreaks
  <2>1. tickets' \in [Keys -> Statuses \cup {Blank, NoRow}]
    BY <1>1, <1>6 DEF Prune, PruneBreaks, PruneJiraTickets, store, tables
  <2> QED BY <1>1, <1>6, <2>1, IdleType DEF Prune, PruneBreaks, AttentionChanged, store, tables
<1> QED BY <1>4, <1>5, <1>6 DEF Sweep, Trouble

(* What a process does leaves the tables alone. *)
LEMMA ProcessFrame ==
  ASSUME TypeOK, NEW p \in Processes,
         \/ Start(p) \/ Going(p)
         \/ Stopping(p) /\ Spend /\ sweep' = Idle /\ UNCHANGED <<news, now>>
  PROVE  /\ UNCHANGED <<tables, news, now>>
         /\ sweep' \in SweepRecords /\ spent' \in 0 .. MaxSteps
<1>1. sweep \in SweepRecords /\ spent \in 0 .. MaxSteps
  BY DEF TypeOK, SweepRecords
<1>2. CASE Start(p)
  BY <1>1, <1>2 DEF Start, acquireLock, refresher
<1>3. CASE Going(p)
  BY <1>1, <1>3 DEF Going, ReadVersion, Migrate, Serve, ClosePools, release, refresher
<1>4. CASE Stopping(p) /\ Spend /\ sweep' = Idle /\ UNCHANGED <<news, now>>
  <2>1. UNCHANGED tables
    BY <1>4 DEF Stopping, OpenFails, Cancel, Crash
  <2>2. spent' \in 0 .. MaxSteps
    BY <1>4, BoardAssumption DEF Spend, TypeOK
  <2> QED BY <1>4, <2>1, <2>2, IdleType
<1> QED BY <1>2, <1>3, <1>4

OwnerType ==
  /\ lock \in Processes \cup {NoOwner}
  /\ process \in [Processes -> Phases]
  /\ current \in [Processes -> {0} \cup Known]
  /\ versions \in Seq({0} \cup Known) /\ applied \subseteq Known

OwnerInv == OwnerType /\ Owned /\ VersionIsRead /\ SchemaWhole

LEMMA KnownSteps ==
  /\ \A v \in {0} \cup Known : v \in Nat
  /\ \A p \in Processes : migrations[p] \in Nat /\ migrations[p] >= 1
  /\ \A p \in Processes, v \in Nat : v < migrations[p] => v + 1 \in Known
  /\ NoOwner \notin Processes
<1>1. \A p \in Processes : migrations[p] \in Nat /\ migrations[p] >= 1
  BY StoreAssumption
<1>2. \A p \in Processes, v \in Nat : v < migrations[p] => v + 1 \in 1 .. migrations[p]
  BY <1>1
<1> QED BY <1>1, <1>2, StoreAssumption DEF Known

(* One process at a time is not out. *)
LEMMA Alone ==
  ASSUME OwnerInv, NEW p \in Processes, process[p] # "out"
  PROVE  lock = p /\ \A q \in Processes : q # p => process[q] = "out"
BY DEF OwnerInv, Owned

LEMMA StartInv ==
  ASSUME OwnerInv, NEW p \in Processes, Start(p)
  PROVE  OwnerInv'
<1>1. \A q \in Processes : process[q] = "out"
  BY KnownSteps DEF OwnerInv, Owned, Start, acquireLock
<1>2. process' = [process EXCEPT ![p] = "locked"] /\ lock' = p /\ UNCHANGED <<current, versions, applied>>
  BY DEF Start, acquireLock, Enter, schema
<1>3. OwnerType' /\ Owned' /\ VersionIsRead'
  BY <1>1, <1>2 DEF OwnerInv, OwnerType, Owned, VersionIsRead, Phases
<1>4. SchemaWhole'
  BY <1>1, <1>2 DEF OwnerInv, OwnerType, SchemaWhole
<1> QED BY <1>3, <1>4 DEF OwnerInv

LEMMA ReadVersionInv ==
  ASSUME OwnerInv, NEW p \in Processes, ReadVersion(p)
  PROVE  OwnerInv'
<1>1. lock = p /\ (\A q \in Processes : q # p => process[q] = "out")
  BY Alone DEF ReadVersion, Enter
<1>2. /\ process' = [process EXCEPT ![p] = "migrating"]
      /\ versions' = IF versions = <<>> THEN <<0>> ELSE versions
      /\ current' = [current EXCEPT ![p] = Head(versions')]
      /\ UNCHANGED <<lock, applied>>
  BY DEF ReadVersion, Enter
<1>3. versions' \in Seq({0} \cup Known) /\ versions' # <<>>
  <2>1. ASSUME NEW S, 0 \in S PROVE <<0>> \in Seq(S) /\ <<0>> # <<>>
    BY <2>1
  <2> QED BY <1>2, <2>1 DEF OwnerInv, OwnerType
<1>4. Head(versions') = versions'[1] /\ Head(versions') \in {0} \cup Known
  BY <1>3
<1>5. OwnerType'
  BY <1>2, <1>3, <1>4 DEF OwnerInv, OwnerType, Phases
<1>6. Owned' /\ VersionIsRead'
  BY <1>1, <1>2, <1>3, <1>4 DEF OwnerInv, OwnerType, Owned, VersionIsRead
<1>7. SchemaWhole'
  <2>1. Len(versions') = 1 /\ applied = 1 .. versions'[1]
    <3>1. CASE versions = <<>>
      <4>1. applied = {} /\ versions' = <<0>>
        BY <1>2, <3>1 DEF OwnerInv, SchemaWhole
      <4>2. 1 .. 0 = {} /\ Len(<<0>>) = 1 /\ <<0>>[1] = 0
        OBVIOUS
      <4> QED BY <4>1, <4>2
    <3>2. CASE versions # <<>>
      BY <1>2, <3>2 DEF OwnerInv, SchemaWhole
    <3> QED BY <3>1, <3>2
  <2>2. \A q \in Processes : process'[q] # "serving"
    BY <1>1, <1>2 DEF OwnerInv, OwnerType
  <2> QED BY <1>2, <2>1, <2>2 DEF SchemaWhole
<1> QED BY <1>5, <1>6, <1>7 DEF OwnerInv

LEMMA MigrateInv ==
  ASSUME OwnerInv, NEW p \in Processes, Migrate(p)
  PROVE  OwnerInv'
<1> DEFINE step == current[p] + 1
<1>1. lock = p /\ (\A q \in Processes : q # p => process[q] = "out")
  BY Alone DEF Migrate
<1>2. /\ process[p] = "migrating" /\ current[p] < migrations[p]
      /\ applied' = applied \cup {step}
      /\ versions' = [r \in DOMAIN versions |-> IF versions[r] = current[p] THEN step ELSE versions[r]]
      /\ current' = [current EXCEPT ![p] = step]
      /\ UNCHANGED <<lock, process>>
  BY DEF Migrate
<1>3. versions # <<>> /\ current[p] = versions[1] /\ current[p] \in Nat /\ step \in Known
  <2>1. current[p] \in Nat
    BY KnownSteps DEF OwnerInv, OwnerType
  <2> QED BY <1>2, <2>1, KnownSteps DEF OwnerInv, VersionIsRead
<1>4. Len(versions) = 1 /\ applied = 1 .. current[p] /\ DOMAIN versions = 1 .. 1
  BY <1>3 DEF OwnerInv, SchemaWhole, OwnerType
<1>5. versions' = [r \in 1 .. 1 |-> step]
  <2>1. \A r \in 1 .. 1 : r = 1
    OBVIOUS
  <2> QED BY <1>2, <1>3, <1>4, <2>1
<1>6. versions' \in Seq({0} \cup Known) /\ Len(versions') = 1 /\ versions'[1] = step
  <2>1. ASSUME NEW S, NEW v \in S
        PROVE  LET s == [r \in 1 .. 1 |-> v] IN s \in Seq(S) /\ Len(s) = 1 /\ s[1] = v
    OBVIOUS
  <2> QED BY <1>3, <1>5, <2>1
<1>7. applied' = 1 .. step
  BY <1>2, <1>3, <1>4
<1>8. OwnerType'
  BY <1>2, <1>3, <1>6 DEF OwnerInv, OwnerType
<1>9. Owned' /\ VersionIsRead'
  <2>1. versions' # <<>>
    BY <1>6
  <2>2. current'[p] = versions'[1]
    BY <1>2, <1>6 DEF OwnerInv, OwnerType
  <2> HIDE DEF step
  <2> QED BY <1>1, <1>2, <2>1, <2>2 DEF OwnerInv, Owned, VersionIsRead
<1>10. SchemaWhole'
  <2>1. \A q \in Processes : process'[q] # "serving"
    BY <1>1, <1>2
  <2> QED BY <1>6, <1>7, <2>1 DEF SchemaWhole
<1> QED BY <1>8, <1>9, <1>10 DEF OwnerInv

LEMMA ServeInv ==
  ASSUME OwnerInv, NEW p \in Processes, Serve(p)
  PROVE  OwnerInv'
<1>1. lock = p /\ (\A q \in Processes : q # p => process[q] = "out")
  BY Alone DEF Serve, Enter
<1>2. /\ process[p] = "migrating" /\ current[p] >= migrations[p]
      /\ process' = [process EXCEPT ![p] = "serving"]
      /\ current' = [current EXCEPT ![p] = 0]
      /\ UNCHANGED <<lock, versions, applied>>
  BY DEF Serve, Enter, Forget, schema
<1>3. OwnerType' /\ Owned' /\ VersionIsRead'
  BY <1>1, <1>2 DEF OwnerInv, OwnerType, Owned, VersionIsRead, Phases
<1>4. Len(versions) = 1 /\ applied = 1 .. current[p]
  BY <1>2 DEF OwnerInv, SchemaWhole, VersionIsRead
<1>5. 1 .. migrations[p] \subseteq applied
  <2>1. migrations[p] \in Nat /\ current[p] \in Nat
    BY KnownSteps DEF OwnerInv, OwnerType
  <2> QED BY <1>2, <1>4, <2>1
<1>6. SchemaWhole'
  BY <1>1, <1>2, <1>4, <1>5 DEF OwnerInv, OwnerType, SchemaWhole, VersionIsRead
<1> QED BY <1>3, <1>6 DEF OwnerInv

(* Stopping, whoever makes it stop: the lock goes when the process is out. *)
LEMMA LeaveInv ==
  ASSUME OwnerInv, NEW p \in Processes, process[p] # "out",
         NEW to \in {"draining", "closing", "out"},
         process' = [process EXCEPT ![p] = to],
         lock' = IF to = "out" THEN NoOwner ELSE lock,
         UNCHANGED current \/ current' = [current EXCEPT ![p] = 0],
         UNCHANGED schema
  PROVE  OwnerInv'
<1>1. lock = p /\ (\A q \in Processes : q # p => process[q] = "out") /\ NoOwner \notin Processes
  BY Alone, KnownSteps
<1>2. UNCHANGED <<versions, applied>>
  BY DEF schema
<1>3. OwnerType' /\ Owned' /\ VersionIsRead'
  BY <1>1, <1>2 DEF OwnerInv, OwnerType, Owned, VersionIsRead, Phases
<1>4. SchemaWhole'
  <2>1. \A q \in Processes : process'[q] # "serving"
    BY <1>1 DEF OwnerInv, OwnerType
  <2> QED BY <1>2, <2>1 DEF OwnerInv, SchemaWhole
<1> QED BY <1>3, <1>4 DEF OwnerInv

LEMMA ProcessInv ==
  ASSUME OwnerInv, NEW p \in Processes, Start(p) \/ Going(p) \/ Stopping(p)
  PROVE  OwnerInv'
<1>1. CASE Start(p)
  BY <1>1, StartInv
<1>2. CASE ReadVersion(p) \/ Migrate(p) \/ Serve(p)
  BY <1>2, ReadVersionInv, MigrateInv, ServeInv
<1>3. CASE ClosePools(p) \/ Cancel(p)
  <2>1. process[p] # "out" /\ UNCHANGED <<lock, current, schema>>
        /\ \E to \in {"draining", "closing"} : process' = [process EXCEPT ![p] = to]
    BY <1>3 DEF ClosePools, Cancel, Enter
  <2> QED BY <2>1, LeaveInv
<1>4. CASE release(p) \/ OpenFails(p) \/ Crash(p)
  <2>1. process[p] # "out"
    BY <1>4 DEF release, OpenFails, Crash, Enter
  <2>2. lock = p
    BY <2>1, Alone
  <2>3. /\ process' = [process EXCEPT ![p] = "out"] /\ lock' = NoOwner /\ UNCHANGED schema
        /\ UNCHANGED current \/ current' = [current EXCEPT ![p] = 0]
    BY <1>4, <2>2 DEF release, OpenFails, Crash, Enter, Forget
  <2> QED BY <2>1, <2>3, LeaveInv
<1> QED BY <1>1, <1>2, <1>3, <1>4 DEF Going, Stopping

LEMMA IInvParts == IInv <=> TypeOK /\ OwnerInv
BY DEF IInv, OwnerInv, OwnerType, TypeOK

LEMMA ProcessStep ==
  ASSUME IInv, NEW p \in Processes,
         \/ Start(p) \/ Going(p)
         \/ Stopping(p) /\ Spend /\ sweep' = Idle /\ UNCHANGED <<news, now>>
  PROVE  IInv'
<1>1. OwnerInv'
  BY IInvParts, ProcessInv
<1>2. UNCHANGED <<tables, news, now>> /\ sweep' \in SweepRecords /\ spent' \in 0 .. MaxSteps
  BY IInvParts, ProcessFrame
<1>3. TypeOK'
  BY <1>1, <1>2, IInvParts DEF TypeOK, tables, SweepRecords, OwnerInv, OwnerType
<1> QED BY <1>1, <1>3 DEF IInv, OwnerInv

LEMMA NextIInv == IInv /\ [Next]_vars => IInv'
<1> SUFFICES ASSUME IInv, [Next]_vars PROVE IInv'
  OBVIOUS
<1>1. TypeOK
  BY DEF IInv
<1>2. ASSUME NEW i \in Items, Observe(i) \/ Reap(i) \/ SignalArrives(i) PROVE IInv'
  BY <1>1, <1>2, EngineType, OwnerKept
<1>3. ASSUME NEW i \in Items, NEW flagged \in BOOLEAN, handleFlag(i, flagged) PROVE IInv'
  BY <1>1, <1>3, FlagType, OwnerKept
<1>4. CASE Tick
  BY <1>1, <1>4, TickType, OwnerKept
<1>5. CASE (Sweep /\ UNCHANGED <<now, spent>>) \/ (Trouble /\ Spend /\ UNCHANGED now)
  BY <1>1, <1>5, SweepType, OwnerKept
<1>6. CASE UNCHANGED vars
  <2>1. UNCHANGED <<owner, schema, logs, pins, tickets, sweep, news, now, spent>>
    BY <1>6 DEF vars, store, tables, refresher
  <2>2. TypeOK'
    BY <1>1, <2>1 DEF TypeOK, owner, schema
  <2> QED BY <2>1, <2>2, OwnerKept
<1> QED BY <1>2, <1>3, <1>4, <1>5, <1>6, ProcessStep DEF Next

(* Every state of every behaviour is of its type.                          *)
THEOREM TypeCorrect == Spec => []TypeOK
<1>1. IInv => TypeOK
  BY DEF IInv
<1> QED BY <1>1, InitIInv, NextIInv, PTL DEF Spec

THEOREM Invariance == Spec => []IInv
BY InitIInv, NextIInv, PTL DEF Spec

(* However many runs of the program are started on a database, and however *)
(* they end, the one that can write to it holds its lock.                  *)
THEOREM WriterTheorem == Spec => []WriterHoldsLock
<1>1. IInv => WriterHoldsLock
  BY DEF IInv, Owned, WriterHoldsLock, WritePoolOpen
<1> QED BY <1>1, Invariance, PTL

(* Builds of any age can take turns and be killed at any moment: the       *)
(* recorded version is always the steps that ran.                          *)
THEOREM SchemaTheorem == Spec => []SchemaWhole
<1>1. IInv => SchemaWhole
  BY DEF IInv
<1> QED BY <1>1, Invariance, PTL

-----------------------------------------------------------------------------
(* Every start and every stop goes through. *)

(* A process that opens never finds the tables of its next schema step     *)
(* there already, whichever builds came before and wherever they died      *)
(* (migrate in schema.go).                                                 *)
StartsUnblocked ==
  \A p \in Processes :
    process[p] = "migrating" /\ current[p] < migrations[p] => current[p] + 1 \notin applied

(* The steps of its own that a process which opens or closes has to go.    *)
StepsToGo(p) ==
  LET left(v) == IF v < migrations[p] THEN migrations[p] - v ELSE 0 IN
  CASE process[p] = "locked" -> 2 + left(IF versions = <<>> THEN 0 ELSE versions[1])
    [] process[p] = "migrating" -> 1 + left(current[p])
    [] process[p] = "draining" -> 2
    [] process[p] = "closing" -> 1
    [] OTHER -> 0

(* Each of its own steps brings a process nearer to serving or to the end, *)
(* and nobody else's takes it further away: only a start or the signal to  *)
(* stop sets it new work (Open, run, Close).                               *)
OpeningRunsOut ==
  [][\A p \in Processes :
       /\ Going(p) => StepsToGo(p)' < StepsToGo(p)
       /\ StepsToGo(p)' > StepsToGo(p) => Start(p) \/ Cancel(p)]_vars

(* No start fails because a table it has to create is there (migrate).     *)
THEOREM StartsTheorem == Spec => []StartsUnblocked
<1>1. ASSUME IInv PROVE StartsUnblocked
  <2> SUFFICES ASSUME NEW p \in Processes, process[p] = "migrating", current[p] < migrations[p]
               PROVE  current[p] + 1 \notin applied
    BY DEF StartsUnblocked
  <2>1. versions # <<>> /\ versions[1] = current[p] /\ current[p] \in Nat
    BY <1>1, KnownSteps, IInvParts DEF OwnerInv, OwnerType, VersionIsRead
  <2>2. applied = 1 .. current[p]
    BY <1>1, <2>1 DEF IInv, SchemaWhole
  <2> QED BY <2>1, <2>2
<1> QED BY <1>1, Invariance, PTL

LEMMA VersionTypes ==
  ASSUME OwnerInv, NEW p \in Processes
  PROVE  /\ migrations[p] \in Nat /\ current[p] \in Nat
         /\ versions # <<>> => versions[1] \in Nat
<1>1. /\ migrations[p] \in Nat /\ current[p] \in {0} \cup Known
      /\ versions \in Seq({0} \cup Known)
  BY KnownSteps DEF OwnerInv, OwnerType
<1>2. versions # <<>> => versions[1] \in {0} \cup Known
  BY <1>1
<1> QED BY <1>1, <1>2, KnownSteps

(* A step of its own. *)
LEMMA GoingGetsNearer ==
  ASSUME OwnerInv, OwnerInv', NEW p \in Processes, Going(p)
  PROVE  StepsToGo(p)' < StepsToGo(p) /\ ~(StepsToGo(p)' > StepsToGo(p))
<1>1. /\ migrations[p] \in Nat /\ current[p] \in Nat /\ current'[p] \in Nat
      /\ versions # <<>> => versions[1] \in Nat
      /\ p \in DOMAIN process /\ p \in DOMAIN current
  <2>1. current'[p] \in {0} \cup Known /\ p \in DOMAIN process /\ p \in DOMAIN current
    BY DEF OwnerInv, OwnerType
  <2> QED BY <2>1, VersionTypes, KnownSteps
<1>2. CASE ReadVersion(p)
  <2>1. /\ process[p] = "locked" /\ process'[p] = "migrating"
        /\ versions' = IF versions = <<>> THEN <<0>> ELSE versions
        /\ current'[p] = Head(versions')
    BY <1>1, <1>2 DEF ReadVersion, Enter
  <2>2. current'[p] = IF versions = <<>> THEN 0 ELSE versions[1]
    <3>1. CASE versions = <<>>
      BY <2>1, <3>1
    <3>2. CASE versions # <<>>
      BY <2>1, <3>2 DEF OwnerInv, OwnerType
    <3> QED BY <3>1, <3>2
  <2> QED BY <1>1, <2>1, <2>2 DEF StepsToGo
<1>3. CASE Migrate(p)
  <2>1. /\ process[p] = "migrating" /\ process'[p] = "migrating" /\ current[p] < migrations[p]
        /\ current'[p] = current[p] + 1
    BY <1>1, <1>3 DEF Migrate
  <2> QED BY <1>1, <2>1 DEF StepsToGo
<1>4. CASE Serve(p)
  <2>1. process[p] = "migrating" /\ process'[p] = "serving"
    BY <1>1, <1>4 DEF Serve, Enter
  <2> QED BY <1>1, <2>1 DEF StepsToGo
<1>5. CASE ClosePools(p) \/ release(p)
  <2>1. \/ process[p] = "draining" /\ process'[p] = "closing"
        \/ process[p] = "closing" /\ process'[p] = "out"
    BY <1>1, <1>5 DEF ClosePools, release, Enter
  <2> QED BY <2>1 DEF StepsToGo
<1> QED BY <1>2, <1>3, <1>4, <1>5 DEF Going

LEMMA StepsAreNatural ==
  ASSUME OwnerInv, NEW p \in Processes
  PROVE  StepsToGo(p) \in Nat /\ ~(StepsToGo(p) > StepsToGo(p)) /\ ~(0 > StepsToGo(p))
<1> DEFINE lacking(v) == IF v < migrations[p] THEN migrations[p] - v ELSE 0
           recorded == IF versions = <<>> THEN 0 ELSE versions[1]
<1>1. migrations[p] \in Nat /\ current[p] \in Nat /\ recorded \in Nat
  BY VersionTypes
<1>2. \A v \in Nat : lacking(v) \in Nat
  BY <1>1
<1>3. lacking(current[p]) \in Nat /\ lacking(recorded) \in Nat
  BY <1>1, <1>2
<1>4. CASE process[p] = "locked"
  <2>1. StepsToGo(p) = 2 + lacking(recorded)
    BY <1>4 DEF StepsToGo
  <2> QED BY <1>3, <2>1
<1>5. CASE process[p] = "migrating"
  <2>1. StepsToGo(p) = 1 + lacking(current[p])
    BY <1>5 DEF StepsToGo
  <2> QED BY <1>3, <2>1
<1>6. CASE process[p] \notin {"locked", "migrating"}
  <2>1. StepsToGo(p) \in {0, 1, 2}
    BY <1>6 DEF StepsToGo
  <2> QED BY <2>1
<1> QED BY <1>4, <1>5, <1>6

LEMMA IdleKeepsSteps ==
  ASSUME OwnerInv, NEW p \in Processes, UNCHANGED <<owner, schema>>
  PROVE  ~(StepsToGo(p)' > StepsToGo(p))
<1>1. StepsToGo(p)' = StepsToGo(p)
  BY DEF StepsToGo, owner, schema
<1> QED BY <1>1, StepsAreNatural, Zenon

(* A process that is out has nothing to go. *)
LEMMA NothingToGo ==
  ASSUME OwnerInv, NEW p \in Processes, process'[p] = "out"
  PROVE  ~(StepsToGo(p)' > StepsToGo(p))
<1>1. StepsToGo(p)' = 0
  BY DEF StepsToGo
<1> QED BY <1>1, StepsAreNatural, Zenon

LEMMA OthersKeepSteps ==
  ASSUME OwnerInv, NEW p \in Processes, NEW q \in Processes, q # p,
         Start(q) \/ Going(q) \/ Stopping(q)
  PROVE  process'[p] = "out"
<1>1. process'[p] = process[p]
  BY DEF OwnerInv, OwnerType, Start, Going, Stopping, acquireLock, ReadVersion, Migrate, Serve,
         ClosePools, release, OpenFails, Cancel, Crash, Enter
<1>2. CASE Start(q)
  BY <1>1, <1>2, KnownSteps DEF OwnerInv, Owned, Start, acquireLock
<1>3. CASE Going(q) \/ Stopping(q)
  <2>1. process[q] # "out"
    BY <1>3 DEF Going, Stopping, ReadVersion, Migrate, Serve, ClosePools, release, OpenFails,
                Cancel, Crash, Enter
  <2> QED BY <1>1, <2>1, Alone
<1> QED BY <1>2, <1>3

(* Whatever has been started serves, and whatever stops is out, after a    *)
(* number of its own steps that is fixed when it begins: two and one for   *)
(* each schema step it lacks, or two.                                      *)
THEOREM OpeningBounded == Spec => OpeningRunsOut
<1> DEFINE Nearer == \A p \in Processes :
             /\ Going(p) => StepsToGo(p)' < StepsToGo(p)
             /\ StepsToGo(p)' > StepsToGo(p) => Start(p) \/ Cancel(p)
<1>1. ASSUME IInv, IInv', [Next]_vars PROVE [Nearer]_vars
  <2> SUFFICES ASSUME Next, NEW p \in Processes
               PROVE  /\ Going(p) => StepsToGo(p)' < StepsToGo(p)
                      /\ StepsToGo(p)' > StepsToGo(p) => Start(p) \/ Cancel(p)
    BY <1>1
  <2>1. OwnerInv /\ OwnerInv' /\ TypeOK
    BY <1>1 DEF IInv, OwnerInv, OwnerType, TypeOK
  <2>2. Going(p) => StepsToGo(p)' < StepsToGo(p)
    BY <2>1, GoingGetsNearer
  <2>3. ~(StepsToGo(p)' > StepsToGo(p)) \/ Start(p) \/ Cancel(p)
    <3>1. CASE UNCHANGED <<owner, schema>>
      BY <2>1, <3>1, IdleKeepsSteps
    <3>2. CASE \E q \in Processes : Start(q) \/ Going(q) \/ Stopping(q)
      <4>1. PICK q \in Processes : Start(q) \/ Going(q) \/ Stopping(q)
        BY <3>2
      <4>2. CASE q # p \/ OpenFails(p) \/ Crash(p)
        <5>1. process'[p] = "out"
          BY <2>1, <4>1, <4>2, OthersKeepSteps DEF OwnerInv, OwnerType, OpenFails, Crash
        <5> QED BY <2>1, <5>1, NothingToGo
      <4>3. CASE Going(p)
        BY <2>1, <4>3, GoingGetsNearer
      <4> QED BY <4>1, <4>2, <4>3 DEF Stopping
    <3>3. UNCHANGED <<owner, schema>> \/ \E q \in Processes : Start(q) \/ Going(q) \/ Stopping(q)
      BY <2>1, EngineType, FlagType, TickType, SweepType DEF Next
    <3> QED BY <3>1, <3>2, <3>3
  <2> QED BY <2>2, <2>3
<1> QED BY <1>1, Invariance, PTL DEF Spec, OpeningRunsOut

-----------------------------------------------------------------------------
(* The refresher and the fold. *)

(* The refresher asks for the tickets of the items the list shows, and of  *)
(* the open ones it does not show because their connection has left the    *)
(* config; of no others.                                                   *)
THEOREM ReadersTheorem == Spec => []ReadersAgree
<1>1. ASSUME TypeOK PROVE ReadersAgree
  <2>1. ASSUME NEW i \in Items
        PROVE  /\ OnBoard(logs[i]) <=> LatestIsOpenFact(logs[i])
               /\ OnBoard(logs[i]) => LatestFacts(logs[i]) = logs[i][Max(FactIds(logs[i]))].fact
    <3>1. now \in Nat /\ logs[i] \in Seq(Row(now))
      BY <1>1, DayIsNatural DEF TypeOK
    <3> QED BY <3>1, OnBoardIsOpen
  <2> DEFINE keysOf(i) == Range(LatestFacts(logs[i]).ticketKeys)
  <2>2. AllOpenTicketKeys = UNION {keysOf(i) : i \in {j \in Items : LatestIsOpenFact(logs[j])}}
    BY <2>1 DEF AllOpenTicketKeys
  <2>3. SUFFICES ASSUME NEW p \in Processes
                 PROVE  AllOpenTicketKeys =
                          ListedKeys(p) \cup UNION {keysOf(i) : i \in {j \in Items \ configured[p] :
                                                                       LatestIsOpenFact(logs[j])}}
    BY DEF ReadersAgree, Servers
  <2>4. configured[p] \in SUBSET Items
    BY StoreAssumption
  <2>5. ListedKeys(p) = UNION {keysOf(i) : i \in {j \in configured[p] : LatestIsOpenFact(logs[j])}}
    BY <2>1, <2>4 DEF ListedKeys
  <2> HIDE DEF keysOf
  <2> QED BY <2>2, <2>4, <2>5
<1> QED BY <1>1, TypeCorrect, PTL

-----------------------------------------------------------------------------
(* The clocks. *)

LEMMA ClockRange ==
  ASSUME NEW d \in Nat, NEW log \in Seq(Row(d)), OnBoard(log),
         NEW signals \in SUBSET SignalsOf(log)
  PROVE  newestSignalTime(log, signals) \in 0 .. d
<1>1. \A k \in DOMAIN log : log[k] \in Row(d)
  OBVIOUS
<1>2. CASE signals # {}
  <2> DEFINE times == {signalTime(log[k]) : k \in signals}
  <2>1. \A k \in signals : signalTime(log[k]) \in 0 .. d
    <3>1. SUFFICES ASSUME NEW k \in signals PROVE signalTime(log[k]) \in 0 .. d
      OBVIOUS
    <3>2. log[k] \in Row(d) /\ log[k].kind \in SignalTypes
      BY <1>1 DEF SignalsOf
    <3> QED BY <3>2, RowKinds DEF signalTime
  <2>2. times \in SUBSET (0 .. d) /\ times # {}
    BY <1>2, <2>1
  <2>3. newestSignalTime(log, signals) = Max(times)
    BY <1>2 DEF newestSignalTime
  <2> HIDE DEF times
  <2> QED BY <2>2, <2>3, MaxExists
<1>3. CASE signals = {}
  <2> DEFINE k == Max(IdsOf("observed", log))
  <2>1. k \in IdsOf("observed", log)
    BY OnBoardIsOpen
  <2>2. log[k] \in Row(d) /\ log[k].kind = "observed"
    BY <1>1, <2>1 DEF IdsOf
  <2>3. snapshotTime(log[k]) \in 0 .. d
    BY <2>2, RowKinds DEF snapshotTime
  <2> QED BY <1>3, <2>3 DEF newestSignalTime
<1> QED BY <1>2, <1>3

LEMMA ClockTypes ==
  ASSUME NEW d \in Nat, NEW log \in Seq(Row(d)), OnBoard(log)
  PROVE  rankingTime(log) \in Nat /\ rankingTimeExcludingCIFailed(log) \in Nat
<1>1. rankingTime(log) \in 0 .. d
  BY ClockRange DEF rankingTime
<1>2. rankingTimeExcludingCIFailed(log) \in 0 .. d
  <2>1. SignalsOf(log) \ IdsOf("ci_failed", log) \in SUBSET SignalsOf(log)
    OBVIOUS
  <2> QED BY <2>1, ClockRange DEF rankingTimeExcludingCIFailed
<1> QED BY <1>1, <1>2

LEMMA BoardClocks ==
  ASSUME TypeOK, NEW i \in Items, OnBoard(logs[i])
  PROVE  /\ now \in Nat /\ rankingTime(logs[i]) \in Nat
         /\ rankingTimeExcludingCIFailed(logs[i]) \in Nat
<1>1. now \in Nat /\ logs[i] \in Seq(Row(now))
  BY DayIsNatural DEF TypeOK
<1> QED BY <1>1, ClockTypes

(* No broken build, however new, keeps an item on the board from ageing    *)
(* out: whatever is not old has seen real activity within the threshold.   *)
THEOREM ActivityTheorem == Spec => []RealActivityCounts
<1>1. ASSUME TypeOK PROVE RealActivityCounts
  <2>1. SUFFICES ASSUME NEW i \in Items, OnBoard(logs[i]), ~old(logs[i], now)
                 PROVE  now - rankingTimeExcludingCIFailed(logs[i]) <= OldThreshold
    BY DEF RealActivityCounts
  <2> DEFINE base == rankingTimeExcludingCIFailed(logs[i])
  <2>2. now \in Nat /\ base \in Nat /\ OldThreshold \in Nat
    BY <1>1, <2>1, BoardClocks, ThresholdAssumption
  <2>3. ~(now - base > OldThreshold)
    BY <2>1 DEF old, updatedAt
  <2>4. now - base <= OldThreshold
    <3> HIDE DEF base
    <3> QED BY <2>2, <2>3
  <2> QED BY <2>4
<1> QED BY <1>1, TypeCorrect, PTL

-----------------------------------------------------------------------------
(* The list. *)

(* sortItems orders the items on the board, the last resort being the id. *)
LEMMA FoldIsSorted ==
  ASSUME TypeOK, NEW p \in Processes
  PROVE  LET B == {i \in configured[p] : OnBoard(logs[i])}
             list == Fold([i \in configured[p] |-> logs[i]], now)
         IN  /\ list \in [1 .. Cardinality(B) -> B] /\ Range(list) = B
             /\ \A m, n \in DOMAIN list : m < n => Before(list[m], list[n], logs, now)
<1> DEFINE read == [i \in configured[p] |-> logs[i]]
           B == {i \in configured[p] : OnBoard(logs[i])}
           R == {pair \in B \X B : Before(pair[1], pair[2], logs, now)}
<1>0. configured[p] \in SUBSET Items
  BY StoreAssumption
<1>1. IsFiniteSet(B) /\ B \subseteq Items
  BY <1>0, StoreAssumption, FS_Subset
<1>2. \A i, j \in B : <<i, j>> \in R <=> Before(i, j, logs, now)
  OBVIOUS
<1> HIDE DEF R
<1>3. ASSUME NEW x \in B, NEW y \in B, NEW z \in B
      PROVE  /\ <<x, x>> \notin R
             /\ x # y => <<x, y>> \in R \/ <<y, x>> \in R
             /\ <<x, y>> \in R /\ <<y, z>> \in R => <<x, z>> \in R
  <2> DEFINE band(i) == ageBand(logs[i], now)
             updated(i) == updatedAt(logs[i], now)
  <2>1. \A i \in B : band(i) \in Nat /\ updated(i) \in Nat /\ i \in Nat
    <3>1. SUFFICES ASSUME NEW i \in B PROVE band(i) \in Nat /\ updated(i) \in Nat /\ i \in Nat
      OBVIOUS
    <3>4. i \in Items /\ OnBoard(logs[i])
      BY <1>1
    <3>2. updated(i) \in Nat
      BY <3>4, BoardClocks DEF updatedAt
    <3>3. band(i) \in Nat
      BY DEF ageBand
    <3> QED BY <3>4, <3>2, <3>3, StoreAssumption
  <2>2. \A i, j \in B : <<i, j>> \in R <=>
          \/ band(i) < band(j)
          \/ band(i) = band(j) /\ updated(i) > updated(j)
          \/ band(i) = band(j) /\ updated(i) = updated(j) /\ i < j
    BY <1>2 DEF Before
  <2> HIDE DEF band, updated, B
  <2> QED BY <2>1, <2>2
<1>4. PICK list : IsSorting(list, R, B)
  <2>1. TotalOrder(R, B)
    BY <1>3 DEF TotalOrder
  <2> QED BY <1>1, <2>1, SortingExists
<1>5. \E l \in [1 .. Cardinality(B) -> B] :
        /\ Range(l) = B
        /\ \A m, n \in DOMAIN l : m < n => Before(l[m], l[n], logs, now)
  <2>1. \A m, n \in DOMAIN list : m < n => Before(list[m], list[n], logs, now)
    BY <1>2, <1>4 DEF IsSorting
  <2> QED BY <1>4, <2>1 DEF IsSorting
<1>6. {i \in DOMAIN read : OnBoard(read[i])} = B
  OBVIOUS
<1>7. ASSUME NEW i \in B, NEW j \in B PROVE Before(i, j, read, now) <=> Before(i, j, logs, now)
  <2>1. read[i] = logs[i] /\ read[j] = logs[j]
    OBVIOUS
  <2> HIDE DEF read, B
  <2> QED BY <2>1, Zenon DEF Before
<1> HIDE DEF read, B
<1>8. Fold(read, now) = CHOOSE l \in [1 .. Cardinality(B) -> B] :
        /\ Range(l) = B
        /\ \A m, n \in DOMAIN l : m < n => Before(l[m], l[n], read, now)
  BY <1>6, Zenon DEF Fold, Sorted
<1>9. \A l \in [1 .. Cardinality(B) -> B] : \A m, n \in DOMAIN l :
        Before(l[m], l[n], read, now) <=> Before(l[m], l[n], logs, now)
  BY <1>7
<1>10. \E l \in [1 .. Cardinality(B) -> B] :
         /\ Range(l) = B
         /\ \A m, n \in DOMAIN l : m < n => Before(l[m], l[n], read, now)
  BY <1>5, <1>9, Zenon
<1>11. /\ Fold(read, now) \in [1 .. Cardinality(B) -> B] /\ Range(Fold(read, now)) = B
       /\ \A m, n \in DOMAIN Fold(read, now) : m < n =>
            Before(Fold(read, now)[m], Fold(read, now)[n], read, now)
  BY <1>8, <1>10, Zenon
<1>12. \A m, n \in DOMAIN Fold(read, now) : m < n =>
         Before(Fold(read, now)[m], Fold(read, now)[n], logs, now)
  BY <1>9, <1>11, Zenon
<1> QED BY <1>11, <1>12, Zenon DEF B, read

(* The rows of handle_next order the pinned items by time and id. *)
LEMMA PinsAreSorted ==
  ASSUME TypeOK
  PROVE  LET P == {i \in Items : pins[i] # NotPinned}  list == ListHandleNext
         IN  /\ list \in [1 .. Cardinality(P) -> P] /\ Range(list) = P
             /\ \A m, n \in DOMAIN list : m < n => PinnedBefore(list[m], list[n])
<1> DEFINE P == {i \in Items : pins[i] # NotPinned}
           R == {p \in P \X P : PinnedBefore(p[1], p[2])}
<1>1. IsFiniteSet(P)
  BY StoreAssumption, FS_Subset
<1>2. \A i, j \in P : <<i, j>> \in R <=> PinnedBefore(i, j)
  OBVIOUS
<1> HIDE DEF R
<1>3. \A i \in P : pins[i] \in Nat /\ i \in Nat
  BY StoreAssumption, DayIsNatural DEF TypeOK
<1>4. TotalOrder(R, P)
  <2>1. ASSUME NEW x \in P, NEW y \in P, NEW z \in P
        PROVE  /\ <<x, x>> \notin R
               /\ x # y => <<x, y>> \in R \/ <<y, x>> \in R
               /\ <<x, y>> \in R /\ <<y, z>> \in R => <<x, z>> \in R
    <3>1. \A i, j \in P : <<i, j>> \in R <=> pins[i] < pins[j] \/ (pins[i] = pins[j] /\ i < j)
      BY <1>2 DEF PinnedBefore
    <3> HIDE DEF P
    <3>2. QED
      BY <1>3, <3>1
  <2>2. QED
    BY <2>1 DEF TotalOrder
<1>5. PICK list : IsSorting(list, R, P)
  BY <1>1, <1>4, SortingExists
<1>6. \E l \in [1 .. Cardinality(P) -> P] :
        /\ Range(l) = P
        /\ \A m, n \in DOMAIN l : m < n => PinnedBefore(l[m], l[n])
  <2>1. \A m, n \in DOMAIN list : m < n => PinnedBefore(list[m], list[n])
    BY <1>2, <1>5 DEF IsSorting
  <2> QED BY <1>5, <2>1 DEF IsSorting
<1> QED BY <1>6, Zenon DEF ListHandleNext, Sorted

(* The list shows every item on the board whose connection is in the       *)
(* config once, the pinned ones first and in the order of their pins, then *)
(* the others by band (List, pin).                                         *)
THEOREM ListedTheorem == Spec => []ListedOnce
<1>1. ASSUME TypeOK, NEW p \in Processes
      PROVE  LET list == List(p)  band(i) == ageBand(logs[i], now) IN
             /\ Range(list) = {i \in configured[p] : OnBoard(logs[i])}
             /\ \A m, n \in DOMAIN list : m < n =>
                  LET a == list[m]  b == list[n] IN
                  /\ a # b
                  /\ pins[b] # NotPinned => pins[a] # NotPinned /\ PinnedBefore(a, b)
                  /\ pins[a] = NotPinned => band(a) <= band(b)
  <2> DEFINE B     == {i \in configured[p] : OnBoard(logs[i])}
             P     == {i \in Items : pins[i] # NotPinned}
             ranked == Fold([i \in configured[p] |-> logs[i]], now)
             pinned == ListHandleNext
             zone  == Following(pinned, B \cap P)
             rest  == Following(ranked, B \ P)
             k     == Cardinality(B \cap P)
             l     == Cardinality(B \ P)
             band(i) == ageBand(logs[i], now)
             list  == List(p)
  <2>1. /\ ranked \in [1 .. Cardinality(B) -> B] /\ Range(ranked) = B
        /\ \A m, n \in DOMAIN ranked : m < n => Before(ranked[m], ranked[n], logs, now)
    BY <1>1, FoldIsSorted
  <2>2. /\ pinned \in [1 .. Cardinality(P) -> P] /\ Range(pinned) = P
        /\ \A m, n \in DOMAIN pinned : m < n => PinnedBefore(pinned[m], pinned[n])
    BY <1>1, PinsAreSorted
  <2>3. IsFiniteSet(B \cap P) /\ IsFiniteSet(B \ P) /\ k \in Nat /\ l \in Nat
    BY StoreAssumption, FS_Subset, FS_CardinalityType
  <2>4. list = zone \o rest
    BY <2>1, <2>2 DEF List, pin
  <2> HIDE DEF B, P, ranked, pinned, list
  <2>5. /\ zone \in [1 .. k -> B \cap P] /\ Range(zone) = B \cap P
        /\ \A m, n \in DOMAIN zone : m < n => Place(zone[m], pinned) < Place(zone[n], pinned)
    <3>1. DOMAIN pinned \subseteq Nat /\ B \cap P \subseteq Range(pinned)
      BY <2>2
    <3> DEFINE S == B \cap P
    <3> HIDE DEF S
    <3>2. IsFiniteSet(S) /\ S \subseteq Range(pinned)
      BY <2>3, <3>1 DEF S
    <3>3. LET sub == Following(pinned, S)
          IN  /\ sub \in [1 .. Cardinality(S) -> S] /\ Range(sub) = S
              /\ \A m, n \in DOMAIN sub : m < n => Place(sub[m], pinned) < Place(sub[n], pinned)
      BY <3>1, <3>2, SortedByPlace
    <3>4. QED
      BY <3>3 DEF S
  <2>6. /\ rest \in [1 .. l -> B \ P] /\ Range(rest) = B \ P
        /\ \A m, n \in DOMAIN rest : m < n => Place(rest[m], ranked) < Place(rest[n], ranked)
    <3>1. DOMAIN ranked \subseteq Nat /\ B \ P \subseteq Range(ranked)
      BY <2>1
    <3> DEFINE S == B \ P
    <3> HIDE DEF S
    <3>2. IsFiniteSet(S) /\ S \subseteq Range(ranked)
      BY <2>3, <3>1 DEF S
    <3>3. LET sub == Following(ranked, S)
          IN  /\ sub \in [1 .. Cardinality(S) -> S] /\ Range(sub) = S
              /\ \A m, n \in DOMAIN sub : m < n => Place(sub[m], ranked) < Place(sub[n], ranked)
      BY <3>1, <3>2, SortedByPlace
    <3>4. QED
      BY <3>3 DEF S
  <2> HIDE DEF zone, rest, k, l
  <2>7. /\ DOMAIN list = 1 .. (k + l)
        /\ \A n \in 1 .. k : list[n] = zone[n] /\ zone[n] \in B \cap P
        /\ \A n \in (k + 1) .. (k + l) : /\ n - k \in 1 .. l
                                         /\ list[n] = rest[n - k] /\ rest[n - k] \in B \ P
    <3>1. zone \in Seq(B) /\ rest \in Seq(B) /\ Len(zone) = k /\ Len(rest) = l
      BY <2>3, <2>5, <2>6
    <3>2. /\ Len(list) = k + l /\ list \in Seq(B)
          /\ \A n \in 1 .. (k + l) : list[n] = IF n <= k THEN zone[n] ELSE rest[n - k]
      BY <2>3, <2>4, <3>1
    <3>3. ASSUME NEW n \in 1 .. k PROVE list[n] = zone[n] /\ zone[n] \in B \cap P
      BY <2>3, <2>5, <3>2
    <3>4. ASSUME NEW n \in (k + 1) .. (k + l)
          PROVE  n - k \in 1 .. l /\ list[n] = rest[n - k] /\ rest[n - k] \in B \ P
      <4>1. n - k \in 1 .. l /\ n \in 1 .. (k + l) /\ ~(n <= k)
        BY <2>3
      <4>2. QED
        BY <2>6, <3>2, <4>1
    <3>5. QED
      BY <2>3, <3>2, <3>3, <3>4
  <2>8. Range(list) = B
    <3>1. Range(list) \subseteq B
      <4>1. \A n \in DOMAIN list : list[n] \in B
        BY <2>3, <2>7
      <4>2. QED
        BY <4>1 DEF Range
    <3>2. ASSUME NEW i \in B PROVE i \in Range(list)
      <4>1. CASE i \in P
        <5>1. PICK n \in 1 .. k : zone[n] = i
          BY <2>5, <4>1 DEF Range
        <5>2. n \in DOMAIN list /\ list[n] = i
          BY <2>3, <2>7, <5>1
        <5>3. QED
          BY <5>2 DEF Range
      <4>2. CASE i \notin P
        <5>1. PICK n \in 1 .. l : rest[n] = i
          BY <2>6, <4>2 DEF Range
        <5>2. k + n \in (k + 1) .. (k + l) /\ (k + n) - k = n
          BY <2>3
        <5>3. k + n \in DOMAIN list /\ list[k + n] = i
          BY <2>3, <2>7, <5>1, <5>2
        <5>4. QED
          BY <5>3 DEF Range
      <4>3. QED
        BY <4>1, <4>2
    <3>3. QED
      BY <3>1, <3>2
  <2>9. ASSUME NEW m \in DOMAIN list, NEW n \in DOMAIN list, m < n
        PROVE  LET a == list[m]  b == list[n] IN
               /\ a # b
               /\ pins[b] # NotPinned => pins[a] # NotPinned /\ PinnedBefore(a, b)
               /\ pins[a] = NotPinned => band(a) <= band(b)
    <3> DEFINE a == list[m]  b == list[n]
    <3>0. m \in 1 .. (k + l) /\ n \in 1 .. (k + l)
      BY <2>7
    <3>1. CASE n <= k
      <4>1. m \in 1 .. k /\ n \in 1 .. k /\ a = zone[m] /\ b = zone[n] /\ a \in P /\ b \in P
        BY <2>3, <2>7, <2>9, <3>0, <3>1
      <4>2. Place(a, pinned) < Place(b, pinned)
        BY <2>5, <2>9, <4>1
      <4>3. /\ Place(a, pinned) \in DOMAIN pinned /\ pinned[Place(a, pinned)] = a
            /\ Place(b, pinned) \in DOMAIN pinned /\ pinned[Place(b, pinned)] = b
        BY <2>2, <4>1, PlaceIsPlace
      <4>4. PinnedBefore(a, b) /\ a # b
        <5>1. Place(a, pinned) \in Nat
          BY <2>2, <4>3
        <5>2. QED
          BY <2>2, <4>2, <4>3, <5>1
      <4>5. pins[a] # NotPinned
        BY <4>1 DEF P
      <4>6. QED
        BY <4>4, <4>5
    <3>2. CASE m > k
      <4>1. /\ m - k \in 1 .. l /\ n - k \in 1 .. l /\ m - k < n - k
            /\ a = rest[m - k] /\ b = rest[n - k] /\ a \in B \ P /\ b \in B \ P
        <5>1. m \in (k + 1) .. (k + l) /\ n \in (k + 1) .. (k + l)
          BY <2>3, <2>9, <3>0, <3>2
        <5>2. m - k < n - k
          BY <2>3, <2>9, <3>0
        <5>3. QED
          BY <2>7, <5>1, <5>2
      <4>2. Place(a, ranked) < Place(b, ranked)
        BY <2>6, <4>1
      <4>3. /\ Place(a, ranked) \in DOMAIN ranked /\ ranked[Place(a, ranked)] = a
            /\ Place(b, ranked) \in DOMAIN ranked /\ ranked[Place(b, ranked)] = b
        BY <2>1, <4>1, PlaceIsPlace
      <4>4. Before(a, b, logs, now) /\ a # b
        <5>1. Place(a, ranked) \in Nat
          BY <2>1, <4>3
        <5>2. QED
          BY <2>1, <4>2, <4>3, <5>1
      <4>5. pins[b] = NotPinned
        BY <4>1, StoreAssumption DEF P, B
      <4>6. band(a) <= band(b)
        <5>1. band(a) \in 0 .. 2 /\ band(b) \in 0 .. 2
          BY DEF ageBand
        <5>2. band(a) < band(b) \/ band(a) = band(b)
          BY <4>4 DEF Before
        <5> HIDE DEF band
        <5>3. QED
          BY <5>1, <5>2
      <4>7. QED
        BY <4>4, <4>5, <4>6
    <3>3. CASE m <= k /\ n > k
      <4>1. a \in B \cap P /\ b \in B \ P
        BY <2>3, <2>7, <3>0, <3>3
      <4>2. pins[a] # NotPinned /\ pins[b] = NotPinned
        BY <4>1, StoreAssumption DEF P, B
      <4>3. QED
        BY <4>1, <4>2
    <3>4. QED
      BY <2>3, <2>9, <3>0, <3>1, <3>2, <3>3
  <2>10. QED
    BY <2>8, <2>9 DEF B, list
<1>2. TypeOK => ListedOnce
  BY <1>1 DEF ListedOnce, Servers
<1>3. QED
  BY <1>2, TypeCorrect, PTL

(* What a later day does to the order of two items: a and x are their      *)
(* ranking clocks, b and y the ones without broken builds.                 *)
LEMMA AgeingOfTwo ==
  ASSUME NEW d \in Nat, NEW e \in Nat, d <= e,
         NEW i \in Items, NEW j \in Items, TypeOK, OnBoard(logs[i]), OnBoard(logs[j]),
         Before(i, j, logs, d), Before(j, i, logs, e),
         rankingTime(logs[j]) >= rankingTimeExcludingCIFailed(logs[j])
  PROVE  ageBand(logs[i], e) > ageBand(logs[i], d)
<1> DEFINE a == rankingTime(logs[i])  b == rankingTimeExcludingCIFailed(logs[i])
           x == rankingTime(logs[j])  y == rankingTimeExcludingCIFailed(logs[j])
<1>1. a \in Nat /\ b \in Nat /\ x \in Nat /\ y \in Nat /\ x >= y
  BY BoardClocks
<1>2. StaleThreshold \in Nat /\ OldThreshold \in Nat /\ StaleThreshold < OldThreshold
      /\ i \in Nat /\ j \in Nat
  BY ThresholdAssumption, StoreAssumption
<1>3. /\ updatedAt(logs[i], d) = IF d - b > OldThreshold THEN b ELSE a
      /\ updatedAt(logs[j], d) = IF d - y > OldThreshold THEN y ELSE x
      /\ updatedAt(logs[i], e) = IF e - b > OldThreshold THEN b ELSE a
      /\ updatedAt(logs[j], e) = IF e - y > OldThreshold THEN y ELSE x
  BY DEF updatedAt
<1> DEFINE ui == updatedAt(logs[i], d)  uj == updatedAt(logs[j], d)
           vi == updatedAt(logs[i], e)  vj == updatedAt(logs[j], e)
           Band(u, day) == IF day - u > OldThreshold THEN 2 ELSE IF day - u > StaleThreshold THEN 1 ELSE 0
<1>4. /\ ageBand(logs[i], d) = Band(ui, d) /\ ageBand(logs[j], d) = Band(uj, d)
      /\ ageBand(logs[i], e) = Band(vi, e) /\ ageBand(logs[j], e) = Band(vj, e)
  BY DEF ageBand, old, stale
<1>5. /\ Band(ui, d) < Band(uj, d) \/ (Band(ui, d) = Band(uj, d) /\ (ui > uj \/ (ui = uj /\ i < j)))
      /\ Band(vj, e) < Band(vi, e) \/ (Band(vj, e) = Band(vi, e) /\ (vj > vi \/ (vj = vi /\ j < i)))
  BY <1>4 DEF Before
<1> HIDE DEF a, b, x, y
<1>6. ui \in Nat /\ uj \in Nat /\ vi \in Nat /\ vj \in Nat /\ vj <= uj
  BY <1>1, <1>2, <1>3
<1>7. Band(vj, e) >= Band(uj, d)
  BY <1>2, <1>6
<1>8. vi = ui \/ (Band(vi, e) = 2 /\ (Band(ui, d) = 2 => vi > ui))
  BY <1>1, <1>2, <1>3
<1> HIDE DEF ui, uj, vi, vj
<1>9. CASE vi = ui
  BY <1>2, <1>4, <1>5, <1>6, <1>7, <1>9
<1>10. CASE vi # ui
  BY <1>2, <1>4, <1>5, <1>6, <1>7, <1>8, <1>10
<1> QED BY <1>9, <1>10

(* The list changes with time alone only as INV-5 has it: an item sinks by *)
(* ageing into a lower band.                                               *)
THEOREM AgeingTheorem == Spec => AgeingOnlySinks
<1>1. ASSUME TypeOK, [Next]_vars, now' # now, NEW i \in Items, NEW j \in Items,
             OnBoard(logs[i]), OnBoard(logs[j]), Before(i, j, logs, now), Before(j, i, logs, now')
      PROVE  \/ ageBand(logs[i], now') > ageBand(logs[i], now)
             \/ rankingTime(logs[j]) < rankingTimeExcludingCIFailed(logs[j])
  <2>1. now' \in {d \in Days : d > now}
    <3>1. CASE UNCHANGED vars
      BY <1>1, <3>1 DEF vars
    <3>2. CASE Next
      BY <1>1, <3>2 DEF Next, Observe, Reap, SignalArrives, EngineWrites, handleFlag, Tick, Start, Going
    <3> QED BY <1>1, <3>1, <3>2
  <2>2. now \in Nat /\ now' \in Nat /\ now <= now'
    BY <1>1, <2>1, DayIsNatural, BoardAssumption
  <2>3. rankingTime(logs[j]) \in Nat /\ rankingTimeExcludingCIFailed(logs[j]) \in Nat
    BY <1>1, BoardClocks
  <2> QED BY <1>1, <2>2, <2>3, AgeingOfTwo
<1>2. TypeOK /\ [Next]_vars =>
        [now' # now => \A i, j \in {k \in Items : OnBoard(logs[k])} :
           Before(i, j, logs, now) /\ Before(j, i, logs, now') =>
             \/ ageBand(logs[i], now') > ageBand(logs[i], now)
             \/ rankingTime(logs[j]) < rankingTimeExcludingCIFailed(logs[j])]_vars
  BY <1>1
<1> QED BY <1>2, TypeCorrect, PTL DEF Spec, AgeingOnlySinks

-----------------------------------------------------------------------------
(* Pins and badges. *)

(* Nothing but taking a pin off changes the time of an item that is pinned. *)
LEMMA PinStays ==
  ASSUME TypeOK, [Next]_vars, NEW i \in Items, pins[i] # NotPinned, pins'[i] # NotPinned
  PROVE  pins'[i] = pins[i]
<1>1. ASSUME NEW j \in Items, NEW flagged \in BOOLEAN, handleFlag(j, flagged)
      PROVE  pins'[i] = pins[i]
  BY <1>1 DEF handleFlag, SetHandleNext, TypeOK
<1>2. (\E j \in Items, flagged \in BOOLEAN : handleFlag(j, flagged)) \/ UNCHANGED pins
  <2>1. ASSUME NEW p \in Processes,
               \/ Start(p) \/ Going(p)
               \/ Stopping(p) /\ Spend /\ sweep' = Idle /\ UNCHANGED <<news, now>>
        PROVE  UNCHANGED pins
    BY <2>1, ProcessFrame DEF tables
  <2>2. CASE Sweep \/ Trouble
    BY <2>2 DEF Sweep, Trouble, CollectKeys, Fetched, FetchRefused, FetchBreaks, Prune, PruneBreaks, store, tables
  <2>3. CASE UNCHANGED vars \/ Tick
    BY <2>3 DEF vars, Tick, store, tables
  <2> QED BY <2>1, <2>2, <2>3 DEF Next, Observe, Reap, SignalArrives, EngineWrites
<1> QED BY <1>1, <1>2

(* Whatever happens in between, pins keep the order they were set in.      *)
THEOREM PinsTheorem == Spec => PinsKeepOrder
<1>1. TypeOK /\ [Next]_vars =>
        [\A i, j \in Items :
           /\ pins[i] # NotPinned /\ pins[j] # NotPinned
           /\ pins'[i] # NotPinned /\ pins'[j] # NotPinned
           => (PinnedBefore(i, j) <=> PinnedBefore(i, j)')]_vars
  BY PinStays DEF PinnedBefore
<1> QED BY <1>1, TypeCorrect, PTL DEF Spec, PinsKeepOrder

BadgeOf(keys, cache) ==
  LET known == {n \in DOMAIN keys : cache[keys[n]] \in Statuses}
  IN  IF known = {} THEN Blank ELSE cache[keys[Min(known)]]

LEMMA BadgeIsAStatus ==
  ASSUME NEW keys \in Seq(Keys), NEW cache
  PROVE  BadgeOf(keys, cache) # Blank <=> \E n \in DOMAIN keys : cache[keys[n]] \in Statuses
<1> DEFINE known == {n \in DOMAIN keys : cache[keys[n]] \in Statuses}
<1>1. known \in SUBSET Nat
  OBVIOUS
<1>2. CASE known = {}
  BY <1>2 DEF BadgeOf
<1>3. CASE known # {}
  <2>1. Min(known) \in known
    <3> HIDE DEF known
    <3> QED BY <1>1, <1>3, MinExists
  <2>2. BadgeOf(keys, cache) \in Statuses
    BY <1>3, <2>1 DEF BadgeOf
  <2> QED BY <1>3, <2>2, StoreAssumption
<1> QED BY <1>2, <1>3

(* The one read for all items serves each of them as a read of its own. *)
BadgeForm ==
  \A p \in Processes : \A i \in configured[p] : OnBoard(logs[i]) =>
    /\ badge(p, i) = BadgeOf(LatestFacts(logs[i]).ticketKeys, tickets)
    /\ LatestFacts(logs[i]).ticketKeys \in Seq(Keys)

LEMMA BadgeIsOfForm == Spec => []BadgeForm
<1>1. ASSUME TypeOK PROVE BadgeForm
  <2>1. SUFFICES ASSUME NEW p \in Processes, NEW i \in configured[p], OnBoard(logs[i])
                 PROVE  /\ badge(p, i) = BadgeOf(LatestFacts(logs[i]).ticketKeys, tickets)
                        /\ LatestFacts(logs[i]).ticketKeys \in Seq(Keys)
    BY DEF BadgeForm
  <2> DEFINE keys == LatestFacts(logs[i]).ticketKeys
  <2>2. keys \in Seq(Keys)
    <3>0. i \in Items
      BY <2>1, StoreAssumption
    <3>1. now \in Nat /\ logs[i] \in Seq(Row(now))
      BY <1>1, <3>0, DayIsNatural DEF TypeOK
    <3>2. LatestFacts(logs[i]) \in Facts
      BY <2>1, <3>1, OnBoardIsOpen
    <3> QED BY <3>2, BoardAssumption
  <2>3. \A n \in DOMAIN keys :
          keys[n] \in fetchJiraTickets(p) /\ tickets[keys[n]] # Blank <=> tickets[keys[n]] \in Statuses
    <3>1. SUFFICES ASSUME NEW n \in DOMAIN keys
                   PROVE  keys[n] \in fetchJiraTickets(p) /\ tickets[keys[n]] # Blank <=> tickets[keys[n]] \in Statuses
      OBVIOUS
    <3>2. keys[n] \in Keys /\ keys[n] \in Range(keys)
      BY <2>2 DEF Range
    <3>3. keys[n] \in fetchJiraTickets(p) <=> tickets[keys[n]] # NoRow
      BY <2>1, <3>2 DEF fetchJiraTickets, ListedKeys, GetJiraTickets
    <3>4. tickets[keys[n]] \in Statuses \cup {Blank, NoRow}
      BY <1>1, <3>2 DEF TypeOK
    <3> QED BY <3>3, <3>4, StoreAssumption
  <2>4. {n \in DOMAIN keys : keys[n] \in fetchJiraTickets(p) /\ tickets[keys[n]] # Blank}
          = {n \in DOMAIN keys : tickets[keys[n]] \in Statuses}
    BY <2>3
  <2> QED BY <2>2, <2>4 DEF badge, BadgeOf
<1> QED BY <1>1, TypeCorrect, PTL

(* A status is only ever replaced by another, except by the deletion and   *)
(* by an answer without one.                                               *)
LEMMA StatusStays ==
  ASSUME TypeOK, [Next]_vars, NEW k \in Keys, tickets[k] \in Statuses
  PROVE  \/ tickets'[k] \in Statuses
         \/ sweep.pc = "pruning" /\ k \notin sweep.keys
         \/ Fetched(k, Blank)
<1>1. ASSUME NEW j \in Keys, NEW status \in Statuses \cup {Blank}, NEW failed \in BOOLEAN,
             UpsertJiraTicket(j, status, failed), failed \/ j # k \/ status \in Statuses
      PROVE  tickets'[k] \in Statuses
  BY <1>1, StoreAssumption DEF UpsertJiraTicket, TypeOK
<1>2. CASE Sweep \/ Trouble
  <2>1. CASE Prune
    BY <2>1 DEF Prune, PruneJiraTickets
  <2>2. ASSUME NEW j \in Keys, NEW status \in Statuses \cup {Blank}, Fetched(j, status) \/ FetchRefused(j)
        PROVE  tickets'[k] \in Statuses \/ Fetched(k, Blank)
    <3>1. CASE Fetched(j, status) /\ (j # k \/ status \in Statuses)
      BY <1>1, <3>1 DEF Fetched
    <3>2. CASE FetchRefused(j)
      BY <1>1, <3>2 DEF FetchRefused
    <3> QED BY <2>2, <3>1, <3>2
  <2>3. CASE CollectKeys \/ PruneBreaks \/ \E j \in Keys : FetchBreaks(j)
    BY <2>3 DEF CollectKeys, PruneBreaks, FetchBreaks, store, tables
  <2> QED BY <1>2, <2>1, <2>2, <2>3 DEF Sweep, Trouble
<1>3. CASE ~(Sweep \/ Trouble)
  <2>1. ASSUME NEW p \in Processes,
               \/ Start(p) \/ Going(p)
               \/ Stopping(p) /\ Spend /\ sweep' = Idle /\ UNCHANGED <<news, now>>
        PROVE  UNCHANGED tickets
    BY <2>1, ProcessFrame DEF tables
  <2>2. CASE UNCHANGED vars \/ Tick
    BY <2>2 DEF vars, Tick, store, tables
  <2> QED BY <1>3, <2>1, <2>2 DEF Next, Observe, Reap, SignalArrives, EngineWrites, handleFlag
<1> QED BY <1>2, <1>3

(* Whatever is refused and whoever crashes, an item that stays on the      *)
(* board keeps its badge, unless the sweep missed the item or the tracker  *)
(* answered without a status.                                              *)
THEOREM BadgeTheorem == Spec => BadgeKept
<1> DEFINE keysOf(i) == LatestFacts(logs[i]).ticketKeys
<1>1. ASSUME TypeOK, BadgeForm, BadgeForm', [Next]_vars,
             NEW p \in Processes, NEW i \in configured[p],
             OnBoard(logs[i]), OnBoard(logs'[i]), keysOf(i)' = keysOf(i),
             badge(p, i) # Blank, ~(sweep.pc = "pruning" /\ ~(Range(keysOf(i)) \subseteq sweep.keys)),
             \A k \in Range(keysOf(i)) : ~Fetched(k, Blank)
      PROVE  badge(p, i)' # Blank
  <2>1. keysOf(i) \in Seq(Keys)
    BY <1>1 DEF BadgeForm
  <2>2. badge(p, i) = BadgeOf(keysOf(i), tickets) /\ badge(p, i)' = BadgeOf(keysOf(i), tickets')
    BY <1>1 DEF BadgeForm
  <2> DEFINE keys == keysOf(i)
  <2> HIDE DEF keysOf, keys
  <2>3. keys \in Seq(Keys) /\ badge(p, i) = BadgeOf(keys, tickets) /\ badge(p, i)' = BadgeOf(keys, tickets')
        /\ ~(sweep.pc = "pruning" /\ ~(Range(keys) \subseteq sweep.keys))
        /\ \A k \in Range(keys) : ~Fetched(k, Blank)
    BY <1>1, <2>1, <2>2 DEF keys
  <2>4. PICK n \in DOMAIN keys : tickets[keys[n]] \in Statuses
    BY <1>1, <2>3, BadgeIsAStatus
  <2>5. keys[n] \in Keys /\ keys[n] \in Range(keys)
    BY <2>3, <2>4 DEF Range
  <2>6. tickets'[keys[n]] \in Statuses
    BY <1>1, <2>3, <2>4, <2>5, StatusStays
  <2> QED BY <2>3, <2>4, <2>6, BadgeIsAStatus
<1>2. TypeOK /\ BadgeForm /\ BadgeForm' /\ [Next]_vars =>
        [\A p \in Servers : \A i \in configured[p] :
           LET keys == LatestFacts(logs[i]).ticketKeys IN
           /\ OnBoard(logs[i]) /\ badge(p, i) # Blank
           /\ OnBoard(logs'[i]) /\ LatestFacts(logs'[i]).ticketKeys = keys
           => \/ badge(p, i)' # Blank
              \/ sweep.pc = "pruning" /\ ~(Range(keys) \subseteq sweep.keys)
              \/ \E k \in Range(keys) : Fetched(k, Blank)]_<<logs, tickets>>
  BY <1>1 DEF Servers
<1> QED BY <1>2, TypeCorrect, BadgeIsOfForm, PTL DEF Spec, BadgeKept

-----------------------------------------------------------------------------
(* Onsets. *)

(* A tag other than a mention is active when the latest snapshot shows it. *)
LEMMA ActiveIsShown ==
  ASSUME NEW log, NEW tag \in activeTags(log), tag # "mentioned"
  PROVE  shows(tag, LatestFacts(log))
<1>1. CASE tag \in Markers
  <2>1. tag \notin States
    BY <1>1 DEF Markers, States
  <2> QED BY <2>1 DEF activeTags, statesFor
<1>2. CASE tag \notin Markers
  <2>1. tag \in States /\ matches(tag, LatestFacts(log), hasMention(log))
    BY <1>2 DEF activeTags, statesFor
  <2>2. tag # "draft"
    BY <1>2 DEF Markers
  <2>3. shows(tag, LatestFacts(log)) = matches(tag, LatestFacts(log), FALSE)
    BY <1>2, <2>2 DEF shows
  <2> QED BY <2>1, <2>3 DEF matches, States
<1> QED BY <1>1, <1>2

Run(tag, log) ==
  LET seen == IdsOf("observed", log)
  IN  {n \in seen : \A m \in seen : m >= n => shows(tag, log[m].fact)}

LEMMA RunExtends ==
  ASSUME NEW d \in Nat, NEW log \in Seq(Row(d)), NEW row \in Row(d), NEW tag,
         OnBoard(log), OnBoard(Append(log, row)), tag # "mentioned",
         tag \in activeTags(log), tag \in activeTags(Append(log, row))
  PROVE  onsetForCondition(tag, Append(log, row)) = onsetForCondition(tag, log)
<1> DEFINE new == Append(log, row)  seen == IdsOf("observed", log)  top == Max(seen)
<1>1. /\ Len(new) = Len(log) + 1 /\ new[Len(log) + 1] = row
      /\ Len(log) \in Nat
      /\ \A k \in 1 .. Len(log) : new[k] = log[k]
      /\ new \in Seq(Row(d))
  OBVIOUS
<1>2. /\ seen \subseteq 1 .. Len(log)
      /\ IdsOf("observed", new) = IF row.kind = "observed" THEN seen \cup {Len(log) + 1} ELSE seen
  BY <1>1 DEF IdsOf
<1>3. top \in seen /\ \A k \in seen : k <= top
  BY OnBoardIsOpen, LatestSnapshot
<1>4. shows(tag, log[top].fact)
  BY ActiveIsShown DEF LatestFacts
<1>5. top \in Run(tag, log) /\ Run(tag, log) \subseteq seen
  BY <1>2, <1>3, <1>4 DEF Run
<1>6. Min(Run(tag, log)) \in Run(tag, log) /\ \A y \in Run(tag, log) : Min(Run(tag, log)) <= y
  BY <1>2, <1>5, MinExists
<1>7. Min(Run(tag, new)) = Min(Run(tag, log))
  <2>1. CASE row.kind # "observed"
    <3>1. Run(tag, new) = Run(tag, log)
      BY <1>1, <1>2, <2>1 DEF Run
    <3> QED BY <3>1
  <2>2. CASE row.kind = "observed"
    <3>1. IdsOf("observed", new) = seen \cup {Len(log) + 1}
      BY <1>2, <2>2
    <3>2. Max(IdsOf("observed", new)) = Len(log) + 1
      <4>1. Max(IdsOf("observed", new)) \in IdsOf("observed", new)
            /\ \A k \in IdsOf("observed", new) : k <= Max(IdsOf("observed", new))
        BY <1>1, <3>1, LatestSnapshot
      <4>2. Len(log) + 1 \in IdsOf("observed", new)
        BY <3>1
      <4>3. \A k \in IdsOf("observed", new) : k \in Nat /\ k <= Len(log) + 1
        <5>1. \A k \in seen : k \in Nat /\ k <= Len(log) + 1
          BY <1>1, <1>2
        <5> HIDE DEF new, seen, top
        <5> QED BY <1>1, <3>1, <5>1
      <4> HIDE DEF new, seen, top
      <4> QED BY <4>1, <4>2, <4>3
    <3>3. shows(tag, row.fact)
      BY <1>1, <3>2, ActiveIsShown DEF LatestFacts
    <3>4. Run(tag, new) = Run(tag, log) \cup {Len(log) + 1}
      BY <1>1, <1>2, <3>1, <3>3 DEF Run
    <3>5. Min(Run(tag, new)) \in Run(tag, new) /\ \A y \in Run(tag, new) : Min(Run(tag, new)) <= y
      <4>1. Run(tag, new) \in SUBSET Nat /\ Run(tag, new) # {}
        BY <1>1, <1>2, <1>5, <3>4
      <4> QED BY <4>1, MinExists
    <3>6. \A k \in Run(tag, log) : k \in Nat /\ k < Len(log) + 1
      BY <1>1, <1>2, <1>5 DEF Run
    <3>7. Min(Run(tag, log)) \in Run(tag, new)
      BY <1>6, <3>4
    <3>8. Min(Run(tag, new)) <= Min(Run(tag, log))
      BY <3>5, <3>7
    <3>9. Min(Run(tag, new)) \in Run(tag, log)
      <4>1. Min(Run(tag, log)) < Len(log) + 1 /\ Min(Run(tag, log)) \in Nat
        BY <1>6, <3>6
      <4>2. Min(Run(tag, new)) # Len(log) + 1
        BY <1>1, <3>8, <4>1
      <4> QED BY <3>4, <3>5, <4>2
    <3>10. Min(Run(tag, log)) <= Min(Run(tag, new))
      BY <1>6, <3>9
    <3> QED BY <1>6, <3>6, <3>8, <3>9, <3>10
  <2> QED BY <2>1, <2>2
<1>8. new[Min(Run(tag, log))] = log[Min(Run(tag, log))]
  BY <1>1, <1>2, <1>5, <1>6
<1>9. onsetForCondition(tag, new) = snapshotTime(new[Min(Run(tag, new))])
      /\ onsetForCondition(tag, log) = snapshotTime(log[Min(Run(tag, log))])
  BY DEF onsetForCondition, Run
<1> QED BY <1>7, <1>8, <1>9

LEMMA MentionExtends ==
  ASSUME NEW d \in Nat, NEW log \in Seq(Row(d)), NEW row \in Row(d), hasMention(log)
  PROVE  Min({signalTime(Append(log, row)[k]) : k \in IdsOf("mentioned", Append(log, row))})
           <= Min({signalTime(log[k]) : k \in IdsOf("mentioned", log)})
<1> DEFINE new == Append(log, row)
           before == {signalTime(log[k]) : k \in IdsOf("mentioned", log)}
           after == {signalTime(new[k]) : k \in IdsOf("mentioned", new)}
<1>1. /\ new \in Seq(Row(d)) /\ \A k \in 1 .. Len(log) : new[k] = log[k]
      /\ Len(new) = Len(log) + 1 /\ Len(log) \in Nat
  OBVIOUS
<1>2. IdsOf("mentioned", log) \subseteq 1 .. Len(log)
      /\ IdsOf("mentioned", log) \subseteq IdsOf("mentioned", new)
  BY <1>1 DEF IdsOf
<1>3. ASSUME NEW k \in IdsOf("mentioned", new) PROVE signalTime(new[k]) \in Nat
  <2>1. new[k] \in Row(d) /\ new[k].kind \in SignalTypes
    BY <1>1, <1>3 DEF IdsOf, SignalTypes
  <2>2. signalTime(new[k]) \in 0 .. d
    BY <2>1, RowKinds DEF signalTime
  <2>3. \A t \in 0 .. d : t \in Nat
    OBVIOUS
  <2> QED BY <2>2, <2>3, Zenon
<1>4. before \subseteq after
  BY <1>1, <1>2
<1>5. before # {} /\ after \subseteq Nat
  BY <1>3 DEF hasMention
<1> HIDE DEF before, after, new
<1>6. Min(before) \in after /\ \A y \in after : Min(after) <= y
  BY <1>4, <1>5, MinExists
<1> QED BY <1>6 DEF before, after, new

LEMMA MentionType ==
  ASSUME NEW d \in Nat, NEW log \in Seq(Row(d)), hasMention(log)
  PROVE  Min({signalTime(log[k]) : k \in IdsOf("mentioned", log)}) \in Nat
<1> DEFINE times == {signalTime(log[k]) : k \in IdsOf("mentioned", log)}
<1>1. ASSUME NEW k \in IdsOf("mentioned", log) PROVE signalTime(log[k]) \in 0 .. d
  <2>1. log[k] \in Row(d) /\ log[k].kind \in SignalTypes
    BY DEF IdsOf, SignalTypes
  <2> QED BY <2>1, RowKinds DEF signalTime
<1>2. times \subseteq 0 .. d /\ times # {}
  BY <1>1 DEF hasMention
<1> HIDE DEF times
<1>3. times \in SUBSET Nat
  BY <1>2
<1>4. Min(times) \in times
  BY <1>2, <1>3, MinExists
<1>5. Min(times) \in Nat
  BY <1>3, <1>4
<1> QED BY <1>5 DEF times

(* A log changes only by a row at its end.                                 *)
LEMMA LogStep ==
  ASSUME TypeOK, [Next]_vars, NEW i \in Items, logs'[i] # logs[i]
  PROVE  \E row : row \in Row(now) /\ logs'[i] = Append(logs[i], row)
<1>1. PICK j \in Items : Observe(j) \/ Reap(j) \/ SignalArrives(j)
  <2>1. ASSUME NEW p \in Processes,
               \/ Start(p) \/ Going(p)
               \/ Stopping(p) /\ Spend /\ sweep' = Idle /\ UNCHANGED <<news, now>>
        PROVE  UNCHANGED logs
    BY <2>1, ProcessFrame DEF tables
  <2>2. CASE Sweep \/ Trouble
    BY <2>2 DEF Sweep, Trouble, CollectKeys, Fetched, FetchRefused, FetchBreaks, Prune, PruneBreaks, store, tables
  <2>3. CASE UNCHANGED vars \/ Tick
    BY <2>3 DEF vars, Tick, store, tables
  <2> QED BY <2>1, <2>2, <2>3 DEF Next, handleFlag
<1>2. PICK row : row \in Row(now) /\ EngineWrites(j, row)
  BY <1>1, EngineRow
<1>3. logs' = [logs EXCEPT ![j] = Append(logs[j], row)]
  BY <1>2 DEF EngineWrites, WriteEvent
<1>4. j = i
  BY <1>3 DEF TypeOK
<1> QED BY <1>2, <1>3, <1>4 DEF TypeOK

(* What is shown as "since" does not move while the tag is shown, however  *)
(* many snapshots and signals come in.                                     *)
THEOREM OnsetTheorem == Spec => OnsetSteady
<1>1. ASSUME TypeOK, [Next]_vars, NEW i \in Items, logs'[i] # logs[i],
             OnBoard(logs[i]), OnBoard(logs'[i]),
             NEW tag \in activeTags(logs[i]) \cap activeTags(logs'[i])
      PROVE  \/ computeSince(logs'[i])[tag] = computeSince(logs[i])[tag]
             \/ tag = "mentioned" /\ computeSince(logs'[i])[tag] < computeSince(logs[i])[tag]
  <2>1. now \in Nat /\ logs[i] \in Seq(Row(now))
    BY <1>1, DayIsNatural DEF TypeOK
  <2>2. PICK row : row \in Row(now) /\ logs'[i] = Append(logs[i], row)
    BY <1>1, LogStep
  <2>3. CASE tag # "mentioned"
    BY <1>1, <2>1, <2>2, <2>3, RunExtends DEF computeSince
  <2>4. CASE tag = "mentioned"
    <3>1. hasMention(logs[i]) /\ hasMention(logs'[i])
      BY <2>4 DEF activeTags, statesFor, matches, Markers, States
    <3> DEFINE before == Min({signalTime(logs[i][k]) : k \in IdsOf("mentioned", logs[i])})
               after == Min({signalTime(logs'[i][k]) : k \in IdsOf("mentioned", logs'[i])})
    <3>2. after <= before
      BY <2>1, <2>2, <3>1, MentionExtends
    <3>3. before \in Nat /\ after \in Nat
      <4>1. logs'[i] \in Seq(Row(now))
        BY <2>1, <2>2
      <4> QED BY <2>1, <3>1, <4>1, MentionType
    <3>4. computeSince(logs[i])[tag] = before /\ computeSince(logs'[i])[tag] = after
      BY <2>4 DEF computeSince
    <3> HIDE DEF before, after
    <3> QED BY <2>4, <3>2, <3>3, <3>4
  <2> QED BY <2>3, <2>4
<1>2. \A log : DOMAIN computeSince(log) = activeTags(log)
  BY DEF computeSince
<1>3. TypeOK /\ [Next]_vars =>
        [\A i \in Items : logs'[i] # logs[i] /\ OnBoard(logs[i]) /\ OnBoard(logs'[i]) =>
           LET before == computeSince(logs[i])  after == computeSince(logs'[i]) IN
           \A tag \in DOMAIN before \cap DOMAIN after :
             after[tag] = before[tag] \/ (tag = "mentioned" /\ after[tag] < before[tag])]_vars
  BY <1>1, <1>2
<1> QED BY <1>3, TypeCorrect, PTL DEF Spec, OnsetSteady
=============================================================================
