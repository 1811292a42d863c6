------------------------ MODULE ConnectionSyncProofs ------------------------
(***************************************************************************)
(* Proofs about ConnectionSync, for every set of items, number of scopes   *)
(* and bound.                                                              *)
(*                                                                         *)
(* The inductive invariant says how the volatile state of a cycle relates  *)
(* to what is durable and to the forge: what reap read is still the log,   *)
(* what the sweep has not found was not there, what the cursor would cover *)
(* is recorded or about to be.                                             *)
(***************************************************************************)
EXTENDS ConnectionSync, FiniteSetTheorems, TLAPS

BeforeReap == {"idle", "sweep", "poll", "join", "reap"}

(* Where the goroutine is determines what the cycle can hold. *)
PhaseShape ==
  /\ phase \in BeforeReap \/ ~complete =>
       facts = NoHistory /\ removals = {} /\ leftovers = {} /\ gone = {}
  /\ phase # "poll" => todo = {}
  /\ phase = "idle" => found = NoItem /\ heard = {} /\ scope = 1
  /\ phase = "sweep" => scope \in 1..NumScopes
  /\ phase \in {"idle", "poll"} => ~complete
  /\ phase \in {"reap", "confirm"} => complete

(* Until the events are written, what reap read is what the log holds. *)
ReapIsCurrent ==
  /\ phase # "save" /\ complete /\ phase \notin BeforeReap => facts = log
  /\ \A i \in removals \cup leftovers \cup gone :
       i \notin DOMAIN found /\ LatestIsOpen(facts[i])
  /\ \A i \in removals : LatestIsOpenRoled(facts[i])

(* The cursor to be saved covers only what is recorded, heard or still to fetch. *)
CursorCovered ==
  \A i \in Items :
    /\ cursor[i] <= next[i] /\ next[i] <= Len(feed[i])
    /\ i \in heard => next[i] # 0 /\ feed[i][next[i]]
    /\ i \in todo => next[i] # 0
    /\ next[i] # 0 /\ feed[i][next[i]] /\ i \notin todo =>
         \/ next[i] \in recorded[i] \/ (phase # "save" /\ i \in heard)
         \/ forge[i].archived

(* A role-less open snapshot has a signal behind it, in the result or recorded. *)
GhostsHeard ==
  \A i \in DOMAIN found : found[i].open /\ found[i].roles = {} => i \in heard

(* The part of the forge this cycle has looked at. *)
SweepCovers ==
  /\ phase = "sweep" /\ complete =>
       \A i \in Items \ touched :
         forge[i].open /\ (\E s \in forge[i].roles : s < scope) => i \in DOMAIN found
  /\ phase = "join" /\ complete =>
       \A i \in Items \ touched : forge[i].open /\ forge[i].roles # {} => i \in DOMAIN found
  /\ phase \in {"reap", "confirm", "write"} /\ complete =>
       \A i \in Items \ touched :
         forge[i].open /\ forge[i].roles # {} /\ ~forge[i].archived => i \in DOMAIN found
  /\ \A i \in gone : i \in touched \/ ~forge[i].open

(* Fact a is no newer than b, and says the same of the state when as old. *)
NoNewer(a, b) == a.rev <= b.rev /\ (a.rev = b.rev => a.open = b.open)

NoneNewer(history, fact) ==
  \A k \in DOMAIN history : history[k].kind = "observed" => NoNewer(history[k].fact, fact)

Ordered(history) ==
  \A k \in DOMAIN history : \A j \in 1..k :
    history[j].kind = "observed" /\ history[k].kind = "observed" =>
      NoNewer(history[j].fact, history[k].fact)

(* Facts are written in the order they are read: along a history, from the *)
(* history to the result of the cycle, and from both to the forge.         *)
FactsInOrder ==
  /\ \A i \in Items : Ordered(log[i]) /\ NoneNewer(log[i], forge[i])
  /\ \A i \in DOMAIN found : NoneNewer(log[i], found[i]) /\ NoNewer(found[i], forge[i])
  /\ complete => \A i \in DOMAIN found : found[i].open

(* What a cycle holds of an item the forge left alone is still so; a sweep *)
(* found it by a role.                                                     *)
FoundCurrent ==
  \A i \in DOMAIN found \ touched :
    /\ found[i].open = forge[i].open
    /\ found[i].roles \subseteq forge[i].roles
    /\ complete => found[i].roles # {}

(* Reap means to remove exactly the items shown as mine that a complete    *)
(* sweep has not found.                                                    *)
ReapRemovesAbsent ==
  phase \in {"confirm", "write"} /\ complete =>
    removals = {i \in Items \ DOMAIN found : LatestIsOpenRoled(facts[i])}

IInv ==
  /\ TypeOK
  /\ PhaseShape
  /\ ReapIsCurrent
  /\ EpisodesAlternate
  /\ CursorCovered
  /\ NoSignalLost
  /\ GhostsHeard
  /\ NoGhostRow
  /\ SweepCovers
  /\ FactsInOrder
  /\ FoundCurrent
  /\ ReapRemovesAbsent

-----------------------------------------------------------------------------
(* Operators of EventLog. *)

(* The fold and the engine agree on which items are on the board: the      *)
(* latest snapshot is shown exactly when the latest fact is an open one    *)
(* (foldItem in fold.go, LatestItemFacts in events.go).                    *)
THEOREM FoldAgreesWithReap ==
  ASSUME NEW R, NEW h \in Seq(R),
         \A k \in DOMAIN h : h[k].kind \in {"observed", "removed"}
  PROVE  OnBoard(h) <=> LatestIsOpen(h)
<1>1. ASSUME OnBoard(h) PROVE LatestIsOpen(h)
  <2>1. PICK k \in IdsOf("observed", h) :
          /\ \A j \in IdsOf("observed", h) : j <= k
          /\ \A j \in IdsOf("removed", h) : j < k
          /\ h[k].fact.open
    BY <1>1 DEF OnBoard
  <2>2. k \in 1..Len(h) /\ h[k].kind = "observed"
    BY <2>1 DEF IdsOf
  <2>3. Len(h) \in IdsOf("observed", h) \cup IdsOf("removed", h)
    BY <2>2 DEF IdsOf
  <2>4. k = Len(h)
    BY <2>1, <2>2, <2>3
  <2>5. QED
    BY <2>1, <2>2, <2>4 DEF LatestIsOpen
<1>2. ASSUME LatestIsOpen(h) PROVE OnBoard(h)
  <2>1. Len(h) \in DOMAIN h /\ h[Len(h)].kind = "observed" /\ h[Len(h)].fact.open
    BY <1>2 DEF LatestIsOpen
  <2>2. \A kind : \A j \in IdsOf(kind, h) : j \in 1..Len(h)
    BY DEF IdsOf
  <2>3. Len(h) \in IdsOf("observed", h) /\ Len(h) \notin IdsOf("removed", h)
    BY <2>1 DEF IdsOf
  <2>4. \A j \in IdsOf("removed", h) : j < Len(h)
    BY <2>2, <2>3
  <2>5. QED
    BY <2>1, <2>2, <2>3, <2>4 DEF OnBoard
<1>3. QED
  BY <1>1, <1>2

-----------------------------------------------------------------------------
(* Type correctness. *)

LEMMA RowTypes ==
  /\ \A f \in Fact, s \in Nat : Observed(f, s) \in Row
  /\ \A n \in Nat : Removed(n) \in Row
BY DEF Row, Observed, Removed

(* What persist does to one history: nothing, a snapshot, or a removal. *)
LEMMA ExtendedForm ==
  ASSUME NEW i \in Items
  PROVE  \/ Extended(i) = log[i]
         \/ /\ i \in DOMAIN found
            /\ Extended(i) = Append(log[i], Observed(found[i], ResurrectionSalt(facts[i])))
         \/ /\ i \notin DOMAIN found /\ i \in removals \cup gone
            /\ Extended(i) = Append(log[i], Removed(Len(facts[i])))
BY DEF Extended, InsertOrIgnore

LEMMA ExtendedType ==
  ASSUME TypeOK, NEW i \in Items
  PROVE  Extended(i) \in Seq(Row)
<1>1. log[i] \in Seq(Row) /\ Len(facts[i]) \in Nat
  BY DEF TypeOK
<1>2. ResurrectionSalt(facts[i]) \in Nat
  BY <1>1 DEF ResurrectionSalt
<1>3. i \in DOMAIN found => Observed(found[i], ResurrectionSalt(facts[i])) \in Row
  BY <1>2, RowTypes DEF TypeOK
<1>4. Removed(Len(facts[i])) \in Row
  BY <1>1, RowTypes
<1>5. \A row \in Row : Append(log[i], row) \in Seq(Row)
  BY <1>1
<1>6. CASE Extended(i) = log[i]
  BY <1>1, <1>6
<1>7. CASE /\ i \in DOMAIN found
           /\ Extended(i) = Append(log[i], Observed(found[i], ResurrectionSalt(facts[i])))
  BY <1>3, <1>5, <1>7
<1>8. CASE Extended(i) = Append(log[i], Removed(Len(facts[i])))
  BY <1>4, <1>5, <1>8
<1>9. QED
  BY <1>6, <1>7, <1>8, ExtendedForm

LEMMA SnapshotType ==
  ASSUME TypeOK, NEW i \in Items, NEW roles \in SUBSET Scopes, NEW detail \in Details
  PROVE  Snapshot(i, roles, detail) \in Fact
BY DEF TypeOK, Snapshot, ForgeItem, Fact

(* Adding a scope changes nothing else of a fact. *)
LEMMA WithScopeType ==
  ASSUME NEW f \in Fact, scope \in Scopes
  PROVE  /\ WithScope(f) \in Fact
         /\ WithScope(f).rev = f.rev
         /\ WithScope(f).open = f.open
         /\ WithScope(f).roles = f.roles \cup {scope}
BY DEF WithScope, Fact

LEMMA EmptyTypes ==
  /\ DOMAIN NoItem = {}
  /\ NoItem \in [DOMAIN NoItem -> Fact]
  /\ NoHistory \in [Items -> Seq(Row)]
  /\ NoHistory \in [Items -> Seq(BOOLEAN)]
<1>1. \A R : << >> \in Seq(R)
  OBVIOUS
<1>2. DOMAIN NoItem = {} /\ NoItem \in [{} -> Fact]
  BY DEF NoItem
<1>3. QED
  BY <1>1, <1>2 DEF NoHistory

LEMMA InitTypeOK == Init => TypeOK
<1> SUFFICES ASSUME Init PROVE TypeOK
  OBVIOUS
<1>1. forge \in [Items -> ForgeItem]
  BY DEF Init, ForgeItem
<1>2. recorded \in [Items -> SUBSET Nat] /\ cursor \in [Items -> Nat]
  BY DEF Init
<1>3. QED
  BY <1>1, <1>2, EmptyTypes DEF Init, TypeOK, Phases

LEMMA EndCycleType ==
  EndCycle /\ cursor' \in [Items -> Nat] =>
    /\ phase' \in Phases /\ scope' \in Nat /\ complete' \in BOOLEAN
    /\ todo' \subseteq Items /\ next' \in [Items -> Nat]
    /\ DOMAIN found' \subseteq Items /\ found' \in [DOMAIN found' -> Fact]
    /\ heard' \subseteq Items /\ facts' \in [Items -> Seq(Row)]
    /\ leftovers' \subseteq Items /\ removals' \subseteq Items /\ gone' \subseteq Items
    /\ touched' \subseteq Items
<1> SUFFICES ASSUME EndCycle, cursor' \in [Items -> Nat]
    PROVE  /\ phase' \in Phases /\ scope' \in Nat /\ complete' \in BOOLEAN
           /\ todo' \subseteq Items /\ next' \in [Items -> Nat]
           /\ DOMAIN found' \subseteq Items /\ found' \in [DOMAIN found' -> Fact]
           /\ heard' \subseteq Items /\ facts' \in [Items -> Seq(Row)]
           /\ leftovers' \subseteq Items /\ removals' \subseteq Items /\ gone' \subseteq Items
           /\ touched' \subseteq Items
  OBVIOUS
<1>1. phase' \in Phases /\ scope' \in Nat /\ complete' \in BOOLEAN /\ next' \in [Items -> Nat]
  BY DEF EndCycle, Phases
<1>2. DOMAIN found' \subseteq Items /\ found' \in [DOMAIN found' -> Fact]
  <2>1. found' = NoItem
    BY DEF EndCycle
  <2>2. QED
    BY <2>1, EmptyTypes
<1>3. facts' \in [Items -> Seq(Row)]
  BY EmptyTypes DEF EndCycle
<1>4. QED
  BY <1>1, <1>2, <1>3 DEF EndCycle

LEMMA NextTypeOK == TypeOK /\ [Next]_vars => TypeOK'
<1> SUFFICES ASSUME TypeOK, [Next]_vars PROVE TypeOK'
  OBVIOUS
<1> USE DEF vars, durable, result, reaping
<1>1. ASSUME NEW i \in Items, FlipState(i) PROVE TypeOK'
  <2>1. forge' \in [Items -> ForgeItem]
    BY <1>1 DEF TypeOK, FlipState, ForgeItem
  <2>2. QED
    BY <1>1, <2>1 DEF TypeOK, FlipState, ChangeItem
<1>2. ASSUME NEW i \in Items, ChangeRoles(i) PROVE TypeOK'
  <2>1. forge' \in [Items -> ForgeItem]
    BY <1>2 DEF TypeOK, ChangeRoles, ForgeItem
  <2>2. QED
    BY <1>2, <2>1 DEF TypeOK, ChangeRoles, ChangeItem
<1>3. ASSUME NEW i \in Items, Archive(i) PROVE TypeOK'
  <2>1. forge' \in [Items -> ForgeItem]
    BY <1>3 DEF TypeOK, Archive, ForgeItem
  <2>2. QED
    BY <1>3, <2>1 DEF TypeOK, Archive, ChangeItem
<1>4. ASSUME NEW i \in Items, Notify(i) PROVE TypeOK'
  BY <1>4 DEF TypeOK, Notify
<1>5. ASSUME StartReconcile PROVE TypeOK'
  BY <1>5 DEF TypeOK, StartReconcile, Phases
<1>6. ASSUME StartPoll PROVE TypeOK'
  <2>1. next' \in [Items -> Nat]
    BY <1>6 DEF StartPoll, TypeOK
  <2>2. todo' \subseteq Items
    BY <1>6 DEF StartPoll, Unread
  <2>3. QED
    BY <1>6, <2>1, <2>2 DEF TypeOK, StartPoll, Phases
<1>7. ASSUME SearchScope PROVE TypeOK'
  <2>1. PICK seen \in SUBSET Hits, detail \in Details :
          /\ \/ seen = Hits /\ UNCHANGED faults
             \/ seen # Hits /\ scope = NumScopes /\ SpendFault
          /\ found' = Swept(seen, detail)
          /\ complete' = (complete /\ seen = Hits)
    BY <1>7 DEF SearchScope
  <2>2. seen \subseteq Items /\ \A i \in seen : scope \in Scopes
    BY DEF Hits, TypeOK, ForgeItem
  <2>3. DOMAIN found' = DOMAIN found \cup seen
    BY <2>1 DEF Swept
  <2>4. \A i \in DOMAIN found' : found'[i] \in Fact
    <3> SUFFICES ASSUME NEW i \in DOMAIN found \cup seen PROVE Swept(seen, detail)[i] \in Fact
      BY <2>1, <2>3
    <3>1. CASE i \notin DOMAIN found
      BY <2>2, <3>1, SnapshotType DEF Swept
    <3>2. CASE i \in DOMAIN found /\ i \in seen
      <4>1. found[i] \in Fact
        BY <3>2 DEF TypeOK
      <4>2. QED
        BY <2>2, <3>2, <4>1, WithScopeType DEF Swept
    <3>3. CASE i \in DOMAIN found /\ i \notin seen
      BY <3>3 DEF Swept, TypeOK
    <3>4. QED
      BY <3>1, <3>2, <3>3
  <2>5. found' \in [DOMAIN found' -> Fact]
    BY <2>1, <2>4 DEF Swept
  <2>6. DOMAIN found' \subseteq Items
    BY <2>2, <2>3 DEF TypeOK
  <2>7. QED
    BY <1>7, <2>1, <2>5, <2>6 DEF TypeOK, SearchScope, SpendFault, Phases
<1>8. ASSUME NEW i \in Items, FetchPull(i) PROVE TypeOK'
  <2>1. PullRoles(i) \in SUBSET Scopes
    BY DEF TypeOK, ForgeItem, PullRoles
  <2>2. DOMAIN found' \subseteq Items /\ found' \in [DOMAIN found' -> Fact]
    <3>1. PICK detail \in Details :
            found' = IF feed[i][next[i]] \/ PullRoles(i) # {} \/ ~forge[i].open
                     THEN [j \in DOMAIN found \cup {i} |->
                             IF j = i THEN Snapshot(i, PullRoles(i), detail) ELSE found[j]]
                     ELSE found
      BY <1>8 DEF FetchPull, Fetched
    <3>2. Snapshot(i, PullRoles(i), detail) \in Fact
      BY <2>1, SnapshotType
    <3>3. QED
      BY <3>1, <3>2 DEF TypeOK
  <2>3. QED
    BY <1>8, <2>2 DEF TypeOK, FetchPull, Fetched, Phases
<1>9. ASSUME Join PROVE TypeOK'
  <2>1. PICK dropped \in SUBSET DOMAIN found :
          /\ found' = [i \in DOMAIN found \ dropped |-> found[i]]
          /\ heard' = heard \ dropped
          /\ faults' = faults \/ SpendFault
    BY <1>9 DEF Join, Joined
  <2>2. DOMAIN found' \subseteq Items /\ found' \in [DOMAIN found' -> Fact]
    BY <2>1 DEF TypeOK
  <2>3. faults' \in Nat
    BY <2>1 DEF SpendFault, TypeOK
  <2>4. QED
    BY <1>9, <2>1, <2>2, <2>3 DEF TypeOK, Join, Joined, Phases
<1>10. ASSUME Reap PROVE TypeOK'
  BY <1>10 DEF TypeOK, Reap, Phases
<1>11. ASSUME NEW i \in Items, ResolveOpen(i) PROVE TypeOK'
  BY <1>11 DEF TypeOK, ResolveOpen, Phases
<1>12. ASSUME WriteEvents PROVE TypeOK'
  <2>1. log' \in [Items -> Seq(Row)]
    BY <1>12, ExtendedType DEF WriteEvents
  <2>2. recorded' \in [Items -> SUBSET Nat]
    BY <1>12 DEF WriteEvents, TypeOK
  <2>3. QED
    BY <1>12, <2>1, <2>2 DEF TypeOK, WriteEvents, Phases
<1>13. ASSUME SaveCursors PROVE TypeOK'
  <2>1. cursor' \in [Items -> Nat]
    BY <1>13 DEF SaveCursors, TypeOK
  <2>2. QED
    BY <1>13, <2>1, EndCycleType DEF SaveCursors, TypeOK
<1>14. ASSUME Abandon PROVE TypeOK'
  <2>1. EndCycle /\ SpendFault /\ UNCHANGED <<forge, feed, log, recorded, cursor, changes>>
    BY <1>14 DEF Abandon
  <2>2. faults' \in Nat
    BY <2>1 DEF SpendFault, TypeOK
  <2>3. cursor' \in [Items -> Nat]
    BY <2>1 DEF TypeOK
  <2>4. QED
    BY <2>1, <2>2, <2>3, EndCycleType DEF TypeOK
<1>15. ASSUME ResolveOpenFails PROVE TypeOK'
  BY <1>15 DEF TypeOK, ResolveOpenFails, SpendFault, Phases
<1>16. CASE UNCHANGED vars
  BY <1>16 DEF TypeOK
<1>17. QED
  BY <1>1, <1>2, <1>3, <1>4, <1>5, <1>6, <1>7, <1>8, <1>9, <1>10, <1>11, <1>12, <1>13, <1>14, <1>15, <1>16
     DEF Next, Forge, Work, Failure, ProviderFails, StorageFails, SaveCursorsFails, Crash

(* Every reachable state is type-correct (the state of cycle.go and of the *)
(* tables it writes).                                                      *)
THEOREM TypeCorrect == Spec => []TypeOK
BY InitTypeOK, NextTypeOK, PTL DEF Spec

-----------------------------------------------------------------------------
(* What the cycle holds in each phase. *)

LEMMA NextPhaseShape == TypeOK /\ PhaseShape /\ [Next]_vars => PhaseShape'
<1> SUFFICES ASSUME TypeOK, PhaseShape, [Next]_vars PROVE PhaseShape'
  OBVIOUS
<1> USE DEF vars, durable, result, reaping, PhaseShape, BeforeReap
<1>1. ASSUME NEW i \in Items, FlipState(i) \/ ChangeRoles(i) \/ Archive(i) \/ Notify(i) PROVE PhaseShape'
  BY <1>1 DEF FlipState, ChangeRoles, Archive, ChangeItem, Notify
<1>2. ASSUME StartReconcile PROVE PhaseShape'
  BY <1>2, ConstantsAssumption DEF StartReconcile
<1>3. ASSUME StartPoll PROVE PhaseShape'
  BY <1>3 DEF StartPoll
<1>4. ASSUME SearchScope PROVE PhaseShape'
  <2>1. /\ phase = "sweep" /\ scope' = scope + 1 /\ complete' \in BOOLEAN
        /\ phase' = IF scope < NumScopes THEN "sweep" ELSE "join"
        /\ UNCHANGED <<todo, reaping>>
    BY <1>4 DEF SearchScope
  <2>2. scope \in 1..NumScopes
    BY <2>1
  <2>3. QED
    BY <2>1, <2>2, ConstantsAssumption
<1>5. ASSUME NEW i \in Items, FetchPull(i) PROVE PhaseShape'
  BY <1>5 DEF FetchPull, Fetched
<1>6. ASSUME Join PROVE PhaseShape'
  BY <1>6 DEF Join, Joined
<1>7. ASSUME Reap PROVE PhaseShape'
  BY <1>7 DEF Reap
<1>8. ASSUME NEW i \in Items, ResolveOpen(i) PROVE PhaseShape'
  BY <1>8 DEF ResolveOpen
<1>9. ASSUME WriteEvents PROVE PhaseShape'
  BY <1>9 DEF WriteEvents
<1>10. ASSUME EndCycle PROVE PhaseShape'
  BY <1>10, ConstantsAssumption DEF EndCycle
<1>11. ASSUME ResolveOpenFails PROVE PhaseShape'
  BY <1>11 DEF ResolveOpenFails
<1>12. CASE UNCHANGED vars
  BY <1>12
<1>13. QED
  BY <1>1, <1>2, <1>3, <1>4, <1>5, <1>6, <1>7, <1>8, <1>9, <1>10, <1>11, <1>12
     DEF Next, Forge, Work, Failure, Abandon, SaveCursors, ProviderFails, StorageFails,
         SaveCursorsFails, Crash

-----------------------------------------------------------------------------
(* Between reap and the write the log stands still. *)

LEMMA NextReapIsCurrent ==
  TypeOK /\ PhaseShape /\ ReapIsCurrent /\ [Next]_vars => ReapIsCurrent'
<1> SUFFICES ASSUME TypeOK, PhaseShape, ReapIsCurrent, [Next]_vars PROVE ReapIsCurrent'
  OBVIOUS
<1> USE DEF vars, durable, result, reaping, ReapIsCurrent, BeforeReap
<1>1. ASSUME NEW i \in Items, FlipState(i) \/ ChangeRoles(i) \/ Archive(i) \/ Notify(i) PROVE ReapIsCurrent'
  BY <1>1 DEF FlipState, ChangeRoles, Archive, ChangeItem, Notify
<1>2. ASSUME StartReconcile \/ StartPoll PROVE ReapIsCurrent'
  BY <1>2 DEF StartReconcile, StartPoll
<1>3. ASSUME SearchScope PROVE ReapIsCurrent'
  <2>1. removals = {} /\ leftovers = {} /\ gone = {}
    BY <1>3 DEF SearchScope, PhaseShape
  <2>2. phase' \in BeforeReap
    BY <1>3 DEF SearchScope
  <2>3. QED
    BY <1>3, <2>1, <2>2 DEF SearchScope
<1>4. ASSUME NEW i \in Items, FetchPull(i) PROVE ReapIsCurrent'
  <2>1. removals = {} /\ leftovers = {} /\ gone = {} /\ ~complete
    BY <1>4 DEF FetchPull, Fetched, PhaseShape
  <2>2. QED
    BY <1>4, <2>1 DEF FetchPull, Fetched
<1>5. ASSUME Join PROVE ReapIsCurrent'
  <2>1. removals = {} /\ leftovers = {} /\ gone = {}
    BY <1>5 DEF Join, Joined, PhaseShape
  <2>2. complete' => phase' \in BeforeReap
    BY <1>5 DEF Join, Joined
  <2>3. QED
    BY <1>5, <2>1, <2>2 DEF Join, Joined
<1>6. ASSUME Reap PROVE ReapIsCurrent'
  <2>1. facts' = log /\ log' = log /\ found' = found /\ gone' = {}
    BY <1>6 DEF Reap, PhaseShape
  <2>2. \A i \in removals' : i \notin DOMAIN found /\ LatestIsOpenRoled(log[i])
    BY <1>6 DEF Reap
  <2>3. \A i \in leftovers' : i \notin DOMAIN found /\ LatestIsOpen(log[i])
    BY <1>6 DEF Reap
  <2>4. QED
    BY <2>1, <2>2, <2>3 DEF LatestIsOpenRoled
<1>7. ASSUME NEW i \in Items, ResolveOpen(i) PROVE ReapIsCurrent'
  BY <1>7 DEF ResolveOpen
<1>8. ASSUME WriteEvents PROVE ReapIsCurrent'
  BY <1>8 DEF WriteEvents
<1>9. ASSUME EndCycle PROVE ReapIsCurrent'
  BY <1>9 DEF EndCycle
<1>10. ASSUME ResolveOpenFails PROVE ReapIsCurrent'
  BY <1>10 DEF ResolveOpenFails
<1>11. CASE UNCHANGED vars
  BY <1>11
<1>12. QED
  BY <1>1, <1>2, <1>3, <1>4, <1>5, <1>6, <1>7, <1>8, <1>9, <1>10, <1>11
     DEF Next, Forge, Work, Failure, Abandon, SaveCursors, ProviderFails, StorageFails,
         SaveCursorsFails, Crash

(* The events table changes in one step only. *)
LEMMA OnlyWriteEventsWrites == [Next]_vars => WriteEvents \/ UNCHANGED <<log, recorded>>
BY DEF Next, Forge, FlipState, ChangeRoles, Archive, ChangeItem, Notify, StartReconcile, StartPoll,
       Work, SearchScope, FetchPull, Fetched, Join, Joined, Reap, ResolveOpen, SaveCursors, Failure, ProviderFails,
       StorageFails, ResolveOpenFails, SaveCursorsFails, Crash, Abandon, vars, durable

-----------------------------------------------------------------------------
(* Episodes alternate. *)

(* A snapshot may always be appended, salted or not. *)
LEMMA ObservedAlternates ==
  ASSUME NEW h \in Seq(Row), Alternates(h), NEW f \in Fact,
         NEW salt \in {0, ResurrectionSalt(h)}
  PROVE  Alternates(InsertOrIgnore(h, Observed(f, salt)))
<1> DEFINE row == Observed(f, salt)
           h2  == Append(h, row)
<1>1. row \in Row /\ row.kind = "observed" /\ row.salt = salt /\ salt \in Nat
  BY DEF Observed, Row, ResurrectionSalt
<1>2. salt # 0 => Len(h) # 0 /\ salt = Len(h) /\ h[Len(h)].kind = "removed"
  BY DEF ResurrectionSalt, LatestIsRemoved
<1>3. ASSUME NEW k \in DOMAIN h2
      PROVE  /\ h2[k].kind = "removed" =>
                  /\ k > 1 /\ h2[k].supersedes = k - 1
                  /\ h2[k - 1].kind = "observed" /\ h2[k - 1].fact.open
             /\ h2[k].kind = "observed" /\ h2[k].salt # 0 =>
                  /\ k > 1 /\ h2[k].salt = k - 1
                  /\ h2[k - 1].kind = "removed"
  <2>1. CASE k = Len(h) + 1
    BY <1>1, <1>2, <2>1
  <2>2. CASE k # Len(h) + 1
    <3>1. k \in DOMAIN h /\ h2[k] = h[k] /\ (k > 1 => h2[k - 1] = h[k - 1])
      BY <1>1, <2>2
    <3>2. QED
      BY <3>1 DEF Alternates
  <2>3. QED
    BY <2>1, <2>2
<1>4. Alternates(h2)
  BY <1>3 DEF Alternates
<1>5. QED
  BY <1>4 DEF InsertOrIgnore

(* A removal may be appended when the latest fact is an open snapshot. *)
LEMMA RemovedAlternates ==
  ASSUME NEW h \in Seq(Row), Alternates(h), LatestIsOpen(h)
  PROVE  Alternates(InsertOrIgnore(h, Removed(Len(h))))
<1> DEFINE row == Removed(Len(h))
           h2  == Append(h, row)
<1>1. row \in Row /\ row.kind = "removed" /\ row.supersedes = Len(h)
  BY DEF Removed, Row
<1>2. Len(h) # 0 /\ h[Len(h)].kind = "observed" /\ h[Len(h)].fact.open
  BY DEF LatestIsOpen
<1>3. ASSUME NEW k \in DOMAIN h2
      PROVE  /\ h2[k].kind = "removed" =>
                  /\ k > 1 /\ h2[k].supersedes = k - 1
                  /\ h2[k - 1].kind = "observed" /\ h2[k - 1].fact.open
             /\ h2[k].kind = "observed" /\ h2[k].salt # 0 =>
                  /\ k > 1 /\ h2[k].salt = k - 1
                  /\ h2[k - 1].kind = "removed"
  <2>1. CASE k = Len(h) + 1
    BY <1>1, <1>2, <2>1
  <2>2. CASE k # Len(h) + 1
    <3>1. k \in DOMAIN h /\ h2[k] = h[k] /\ (k > 1 => h2[k - 1] = h[k - 1])
      BY <1>1, <2>2
    <3>2. QED
      BY <3>1 DEF Alternates
  <2>3. QED
    BY <2>1, <2>2
<1>4. Alternates(h2)
  BY <1>3 DEF Alternates
<1>5. QED
  BY <1>4 DEF InsertOrIgnore

(* What reap read of an item when its row is written. *)
LEMMA FactsAtWrite ==
  ASSUME TypeOK, PhaseShape, ReapIsCurrent, phase = "write", NEW i \in Items
  PROVE  /\ complete => facts[i] = log[i]
         /\ ~complete => facts[i] = << >> /\ i \notin removals \cup gone
BY DEF PhaseShape, ReapIsCurrent, BeforeReap, NoHistory

LEMMA NextEpisodesAlternate ==
  TypeOK /\ PhaseShape /\ ReapIsCurrent /\ EpisodesAlternate /\ [Next]_vars
    => EpisodesAlternate'
<1> SUFFICES ASSUME TypeOK, PhaseShape, ReapIsCurrent, EpisodesAlternate, [Next]_vars
             PROVE  EpisodesAlternate'
  OBVIOUS
<1>1. ASSUME WriteEvents, NEW i \in Items PROVE Alternates(log'[i])
  <2>1. log[i] \in Seq(Row) /\ Alternates(log[i]) /\ log'[i] = Extended(i) /\ phase = "write"
    BY <1>1 DEF TypeOK, EpisodesAlternate, WriteEvents
  <2>2. CASE i \in DOMAIN found
    <3>1. found[i] \in Fact
      BY <2>2 DEF TypeOK
    <3>2. ResurrectionSalt(facts[i]) \in {0, ResurrectionSalt(log[i])}
      BY <2>1, FactsAtWrite DEF ResurrectionSalt, LatestIsRemoved
    <3>3. QED
      BY <2>1, <2>2, <3>1, <3>2, ObservedAlternates DEF Extended
  <2>3. CASE i \notin DOMAIN found /\ i \in removals \cup gone
    <3>1. facts[i] = log[i]
      BY <2>1, <2>3, FactsAtWrite
    <3>2. LatestIsOpen(log[i])
      BY <2>3, <3>1 DEF ReapIsCurrent
    <3>3. QED
      BY <2>1, <2>3, <3>1, <3>2, RemovedAlternates DEF Extended
  <2>4. CASE i \notin DOMAIN found /\ i \notin removals \cup gone
    BY <2>1, <2>4 DEF Extended
  <2>5. QED
    BY <2>2, <2>3, <2>4
<1>2. QED
  BY <1>1, OnlyWriteEventsWrites DEF EpisodesAlternate

-----------------------------------------------------------------------------
(* No signal is lost. *)

LEMMA ArchivedIsFinal ==
  ASSUME TypeOK, NEW i \in Items, FlipState(i) \/ ChangeRoles(i) \/ Archive(i), NEW j \in Items
  PROVE  forge[j].archived => forge'[j].archived
<1>1. forge \in [Items -> ForgeItem]
  BY DEF TypeOK
<1>2. CASE j # i
  <2>1. \E item : forge' = [forge EXCEPT ![i] = item]
    BY DEF FlipState, ChangeRoles, Archive
  <2>2. QED
    BY <1>1, <1>2, <2>1
<1>3. CASE j = i
  BY <1>1, <1>3 DEF FlipState, ChangeRoles, Archive
<1>4. QED
  BY <1>2, <1>3

LEMMA NextCursorCovered ==
  TypeOK /\ PhaseShape /\ CursorCovered /\ NoSignalLost /\ [Next]_vars => CursorCovered'
<1> SUFFICES ASSUME TypeOK, PhaseShape, CursorCovered, NoSignalLost, [Next]_vars
             PROVE  CursorCovered'
  OBVIOUS
<1> USE DEF vars, durable, result, reaping, CursorCovered
<1>1. ASSUME NEW i \in Items, FlipState(i) \/ ChangeRoles(i) \/ Archive(i) PROVE CursorCovered'
  <2>1. UNCHANGED <<feed, recorded, cursor, next, heard, todo, phase>>
    BY <1>1 DEF FlipState, ChangeRoles, Archive, ChangeItem
  <2>2. \A j \in Items : forge[j].archived => forge'[j].archived
    BY <1>1, ArchivedIsFinal
  <2>3. QED
    BY <2>1, <2>2
<1>2. ASSUME NEW i \in Items, Notify(i) PROVE CursorCovered'
  <2>1. PICK signal \in BOOLEAN : feed' = [feed EXCEPT ![i] = Append(@, signal)]
    BY <1>2 DEF Notify
  <2>2. \A j \in Items : /\ Len(feed'[j]) >= Len(feed[j])
                         /\ \A n \in 1..Len(feed[j]) : feed'[j][n] = feed[j][n]
    BY <2>1 DEF TypeOK
  <2>3. \A j \in Items : /\ cursor[j] \in Nat /\ next[j] \in Nat
                         /\ Len(feed[j]) \in Nat /\ Len(feed'[j]) \in Nat
    BY <2>1 DEF TypeOK
  <2>4. QED
    BY <1>2, <2>2, <2>3 DEF Notify
<1>3. ASSUME StartReconcile PROVE CursorCovered'
  BY <1>3 DEF StartReconcile, PhaseShape
<1>4. ASSUME StartPoll PROVE CursorCovered'
  <2> SUFFICES ASSUME NEW i \in Items
               PROVE  /\ cursor[i] <= next'[i] /\ next'[i] <= Len(feed[i])
                      /\ i \in todo' => next'[i] # 0
                      /\ next'[i] # 0 /\ feed[i][next'[i]] /\ i \notin todo' =>
                           next'[i] \in recorded[i] \/ forge[i].archived
    BY <1>4 DEF StartPoll, PhaseShape
  <2>1. next'[i] = Len(feed[i])
    BY <1>4 DEF StartPoll
  <2>2. /\ i \in todo' => feed[i] # << >>
        /\ i \notin todo' => Len(feed[i]) <= cursor[i]
    BY <1>4 DEF StartPoll, Unread, News, TypeOK
  <2>3. feed[i] \in Seq(BOOLEAN) /\ cursor[i] \in Nat /\ next[i] \in Nat
    BY DEF TypeOK
  <2>4. i \notin heard /\ i \notin todo
    BY <1>4 DEF StartPoll, PhaseShape
  <2>5. cursor[i] <= Len(feed[i])
    BY <2>3
  <2>6. i \notin todo' => next[i] = next'[i]
    BY <2>1, <2>2, <2>3, <2>5
  <2>7. QED
    BY <2>1, <2>2, <2>3, <2>4, <2>5, <2>6
<1>5. ASSUME SearchScope PROVE CursorCovered'
  BY <1>5 DEF SearchScope
<1>6. ASSUME NEW i \in Items, FetchPull(i) PROVE CursorCovered'
  BY <1>6 DEF FetchPull, Fetched
<1>7. ASSUME Join PROVE CursorCovered'
  <2>1. PICK dropped \in SUBSET {i \in DOMAIN found : forge[i].archived} :
          heard' = heard \ dropped
    BY <1>7 DEF Join, Joined
  <2>2. /\ UNCHANGED <<forge, feed, recorded, cursor, next, todo>>
        /\ phase = "join" /\ phase' # "save"
    BY <1>7 DEF Join, Joined
  <2>3. QED
    BY <2>1, <2>2
<1>8. ASSUME Reap PROVE CursorCovered'
  BY <1>8 DEF Reap
<1>9. ASSUME NEW i \in Items, ResolveOpen(i) PROVE CursorCovered'
  BY <1>9 DEF ResolveOpen
<1>10. ASSUME WriteEvents PROVE CursorCovered'
  BY <1>10 DEF WriteEvents, TypeOK
<1>11. ASSUME SaveCursors PROVE CursorCovered'
  BY <1>11 DEF SaveCursors, EndCycle, TypeOK, PhaseShape
<1>12. ASSUME Abandon PROVE CursorCovered'
  BY <1>12 DEF Abandon, EndCycle, TypeOK, NoSignalLost
<1>13. ASSUME ResolveOpenFails PROVE CursorCovered'
  BY <1>13 DEF ResolveOpenFails
<1>14. CASE UNCHANGED vars
  BY <1>14
<1>15. QED
  BY <1>1, <1>2, <1>3, <1>4, <1>5, <1>6, <1>7, <1>8, <1>9, <1>10, <1>11, <1>12, <1>13, <1>14
     DEF Next, Forge, Work, Failure, ProviderFails, StorageFails, SaveCursorsFails, Crash

LEMMA NextNoSignalLost ==
  TypeOK /\ PhaseShape /\ CursorCovered /\ NoSignalLost /\ [Next]_vars => NoSignalLost'
<1> SUFFICES ASSUME TypeOK, PhaseShape, CursorCovered, NoSignalLost, [Next]_vars,
                    NEW i \in Items
             PROVE  cursor'[i] # 0 =>
                      /\ cursor'[i] <= Len(feed'[i])
                      /\ feed'[i][cursor'[i]] =>
                           cursor'[i] \in recorded'[i] \/ forge'[i].archived
  BY DEF NoSignalLost
<1>1. cursor[i] \in Nat /\ next[i] \in Nat /\ Len(feed[i]) \in Nat
  BY DEF TypeOK
<1>2. CASE SaveCursors
  BY <1>1, <1>2 DEF SaveCursors, CursorCovered, PhaseShape
<1>3. CASE WriteEvents
  BY <1>3 DEF WriteEvents, NoSignalLost, TypeOK
<1>4. ASSUME NEW j \in Items, Notify(j)
      PROVE  /\ UNCHANGED <<cursor, recorded, forge>>
             /\ Len(feed'[i]) \in Nat /\ Len(feed'[i]) >= Len(feed[i])
             /\ \A n \in 1..Len(feed[i]) : feed'[i][n] = feed[i][n]
  BY <1>4 DEF Notify, TypeOK, durable
<1>5. CASE \E j \in Items : Notify(j)
  BY <1>1, <1>4, <1>5 DEF NoSignalLost
<1>6. CASE UNCHANGED <<forge, feed, cursor, recorded>>
  BY <1>6 DEF NoSignalLost
<1>7. ASSUME NEW j \in Items, FlipState(j) \/ ChangeRoles(j) \/ Archive(j)
      PROVE  /\ UNCHANGED <<feed, cursor, recorded>>
             /\ forge[i].archived => forge'[i].archived
  BY <1>7, ArchivedIsFinal DEF FlipState, ChangeRoles, Archive, ChangeItem, durable
<1>8. CASE \E j \in Items : FlipState(j) \/ ChangeRoles(j) \/ Archive(j)
  BY <1>7, <1>8 DEF NoSignalLost
<1>9. \/ SaveCursors \/ WriteEvents \/ \E j \in Items : Notify(j)
      \/ \E j \in Items : FlipState(j) \/ ChangeRoles(j) \/ Archive(j)
      \/ UNCHANGED <<forge, feed, cursor, recorded>>
  BY DEF Next, Forge, StartReconcile, StartPoll, Work, SearchScope, FetchPull, Fetched, Join,
         Joined, Reap, ResolveOpen, Failure, ProviderFails, StorageFails, ResolveOpenFails,
         SaveCursorsFails, Crash, Abandon, vars, durable
<1>10. QED
  BY <1>2, <1>3, <1>5, <1>6, <1>8, <1>9

-----------------------------------------------------------------------------
(* No ghost rows. *)

LEMMA NextGhostsHeard ==
  TypeOK /\ PhaseShape /\ GhostsHeard /\ [Next]_vars => GhostsHeard'
<1> SUFFICES ASSUME TypeOK, PhaseShape, GhostsHeard, [Next]_vars PROVE GhostsHeard'
  OBVIOUS
<1>1. ASSUME SearchScope PROVE GhostsHeard'
  <2>1. PICK seen \in SUBSET Hits, detail \in Details : found' = Swept(seen, detail)
    BY <1>1 DEF SearchScope
  <2>2. scope \in Scopes /\ heard' = heard
    BY <1>1 DEF SearchScope, PhaseShape, Scopes, result
  <2>3. ASSUME NEW i \in DOMAIN found', found'[i].roles = {} PROVE i \in DOMAIN found /\ found'[i] = found[i]
    <3>1. i \in DOMAIN found \cup seen /\ found'[i] = Swept(seen, detail)[i]
      BY <2>1, <2>3 DEF Swept
    <3>2. i \in DOMAIN found
      BY <2>3, <3>1 DEF Swept, Snapshot
    <3>3. i \notin seen
      BY <2>2, <2>3, <3>1, <3>2, WithScopeType DEF Swept, TypeOK
    <3>4. QED
      BY <3>1, <3>2, <3>3 DEF Swept
  <2>4. QED
    BY <2>2, <2>3 DEF GhostsHeard
<1>2. ASSUME NEW i \in Items, FetchPull(i) PROVE GhostsHeard'
  <2>1. PICK detail \in Details :
          found' = IF feed[i][next[i]] \/ PullRoles(i) # {} \/ ~forge[i].open
                   THEN [j \in DOMAIN found \cup {i} |->
                           IF j = i THEN Snapshot(i, PullRoles(i), detail) ELSE found[j]]
                   ELSE found
    BY <1>2 DEF FetchPull, Fetched
  <2>2. heard' = IF feed[i][next[i]] THEN heard \cup {i} ELSE heard
    BY <1>2 DEF FetchPull, Fetched
  <2>3. CASE found' = found
    BY <2>2, <2>3 DEF GhostsHeard
  <2>4. CASE feed[i][next[i]] \/ PullRoles(i) # {} \/ ~forge[i].open
    <3>1. DOMAIN found' = DOMAIN found \cup {i} /\ found'[i] = Snapshot(i, PullRoles(i), detail)
      BY <2>1, <2>4
    <3>2. \A j \in DOMAIN found \ {i} : found'[j] = found[j]
      BY <2>1, <2>4
    <3>3. found'[i].open /\ found'[i].roles = {} => i \in heard'
      BY <2>2, <2>4, <3>1 DEF Snapshot
    <3>4. QED
      BY <2>2, <3>1, <3>2, <3>3 DEF GhostsHeard
  <2>5. QED
    BY <2>1, <2>3, <2>4
<1>3. ASSUME Join PROVE GhostsHeard'
  <2>1. PICK dropped \in SUBSET DOMAIN found :
          /\ found' = [i \in DOMAIN found \ dropped |-> found[i]]
          /\ heard' = heard \ dropped
    BY <1>3 DEF Join, Joined
  <2>2. QED
    BY <2>1 DEF GhostsHeard
<1>4. ASSUME EndCycle PROVE GhostsHeard'
  BY <1>4, EmptyTypes DEF EndCycle, GhostsHeard
<1>5. CASE UNCHANGED <<found, heard>>
  BY <1>5 DEF GhostsHeard
<1>6. \/ SearchScope \/ (\E i \in Items : FetchPull(i)) \/ Join \/ EndCycle
      \/ UNCHANGED <<found, heard>>
  BY DEF Next, Forge, FlipState, ChangeRoles, Archive, ChangeItem, Notify, StartReconcile, StartPoll,
         Work, Reap, ResolveOpen, WriteEvents, SaveCursors, Failure, ProviderFails,
         StorageFails, ResolveOpenFails, SaveCursorsFails, Crash, Abandon, vars, result
<1>7. QED
  BY <1>1, <1>2, <1>3, <1>4, <1>5, <1>6

LEMMA NextNoGhostRow ==
  TypeOK /\ GhostsHeard /\ NoGhostRow /\ [Next]_vars => NoGhostRow'
<1> SUFFICES ASSUME TypeOK, GhostsHeard, NoGhostRow, [Next]_vars, NEW i \in Items,
                    NEW k \in DOMAIN log'[i], log'[i][k].kind = "observed",
                    log'[i][k].fact.open, log'[i][k].fact.roles = {}
             PROVE  recorded'[i] # {}
  BY DEF NoGhostRow
<1>1. CASE WriteEvents
  <2>1. /\ log'[i] = Extended(i) /\ log[i] \in Seq(Row)
        /\ recorded'[i] = IF i \in heard THEN recorded[i] \cup {next[i]} ELSE recorded[i]
    BY <1>1 DEF WriteEvents, TypeOK
  <2>2. CASE k \in DOMAIN log[i] /\ log'[i][k] = log[i][k]
    BY <2>1, <2>2 DEF NoGhostRow
  <2>3. CASE ~(k \in DOMAIN log[i] /\ log'[i][k] = log[i][k])
    <3>1. log'[i] # log[i]
      BY <2>3
    <3>2. \A row : log'[i] = Append(log[i], row) => log'[i][k] = row
      BY <2>1, <2>3
    <3>3. CASE /\ i \in DOMAIN found
               /\ log'[i] = Append(log[i], Observed(found[i], ResurrectionSalt(facts[i])))
      <4>1. found[i].open /\ found[i].roles = {}
        BY <3>2, <3>3 DEF Observed
      <4>2. QED
        BY <2>1, <3>3, <4>1 DEF GhostsHeard
    <3>4. CASE log'[i] = Append(log[i], Removed(Len(facts[i])))
      BY <3>2, <3>4 DEF Removed
    <3>5. QED
      BY <2>1, <3>1, <3>3, <3>4, ExtendedForm
  <2>4. QED
    BY <2>2, <2>3
<1>2. CASE UNCHANGED <<log, recorded>>
  BY <1>2 DEF NoGhostRow
<1>3. QED
  BY <1>1, <1>2, OnlyWriteEventsWrites

-----------------------------------------------------------------------------
(* What a complete sweep has covered. *)

LEMMA NextSweepCovers ==
  TypeOK /\ PhaseShape /\ SweepCovers /\ [Next]_vars => SweepCovers'
<1> SUFFICES ASSUME TypeOK, PhaseShape, SweepCovers, [Next]_vars PROVE SweepCovers'
  OBVIOUS
<1> USE DEF vars, durable, result, reaping
<1>1. ASSUME NEW i \in Items, FlipState(i) \/ ChangeRoles(i) \/ Archive(i) PROVE SweepCovers'
  <2>1. \A j \in Items \ {i} : forge'[j] = forge[j]
    <3>1. \E item : forge' = [forge EXCEPT ![i] = item]
      BY <1>1 DEF FlipState, ChangeRoles, Archive
    <3>2. forge \in [Items -> ForgeItem]
      BY DEF TypeOK
    <3>3. QED
      BY <3>1, <3>2
  <2>2. UNCHANGED <<phase, complete, scope, found, gone>>
    BY <1>1 DEF FlipState, ChangeRoles, Archive, ChangeItem
  <2>3. CASE phase = "idle"
    BY <2>2, <2>3 DEF SweepCovers, PhaseShape, BeforeReap
  <2>4. CASE phase # "idle"
    <3>1. touched' = touched \cup {i}
      BY <1>1, <2>4 DEF FlipState, ChangeRoles, Archive, ChangeItem
    <3>2. gone \subseteq Items
      BY DEF TypeOK
    <3>3. QED
      BY <2>1, <2>2, <3>1, <3>2 DEF SweepCovers
  <2>5. QED
    BY <2>3, <2>4
<1>2. ASSUME NEW i \in Items, Notify(i) PROVE SweepCovers'
  BY <1>2 DEF Notify, SweepCovers
<1>3. ASSUME StartReconcile PROVE SweepCovers'
  <2>1. scope' = 1 /\ gone' = {} /\ phase' = "sweep" /\ forge' = forge
    BY <1>3 DEF StartReconcile, PhaseShape, BeforeReap
  <2>2. \A i \in Items : forge[i].roles \subseteq 1..NumScopes
    BY DEF TypeOK, ForgeItem, Scopes
  <2>3. QED
    BY <2>1, <2>2 DEF SweepCovers
<1>4. ASSUME StartPoll PROVE SweepCovers'
  BY <1>4 DEF StartPoll, SweepCovers
<1>5. ASSUME SearchScope PROVE SweepCovers'
  <2>1. PICK seen \in SUBSET Hits, detail \in Details :
          found' = Swept(seen, detail) /\ complete' = (complete /\ seen = Hits)
    BY <1>5 DEF SearchScope
  <2>2. DOMAIN found' = DOMAIN found \cup seen
    BY <2>1 DEF Swept
  <2>3. /\ phase = "sweep" /\ scope' = scope + 1 /\ UNCHANGED <<forge, touched, gone>>
        /\ phase' = IF scope < NumScopes THEN "sweep" ELSE "join"
    BY <1>5 DEF SearchScope
  <2>4. scope \in 1..NumScopes /\ gone = {}
    BY <2>3 DEF PhaseShape, BeforeReap
  <2>5. ASSUME complete', NEW i \in Items \ touched, forge[i].open,
               NEW s \in forge[i].roles, s < scope + 1
        PROVE  i \in DOMAIN found'
    <3>1. complete /\ seen = Hits
      BY <2>1, <2>5
    <3>2. s \in 1..NumScopes
      BY <2>5 DEF TypeOK, ForgeItem, Scopes
    <3>3. CASE s < scope
      BY <2>2, <2>3, <2>5, <3>1, <3>3 DEF SweepCovers
    <3>4. CASE s = scope
      BY <2>2, <2>5, <3>1, <3>4 DEF Hits
    <3>5. QED
      BY <2>4, <2>5, <3>2, <3>3, <3>4
  <2>6. ASSUME phase' = "join", complete', NEW i \in Items \ touched, forge[i].open,
               NEW s \in forge[i].roles
        PROVE  i \in DOMAIN found'
    <3>1. scope = NumScopes /\ s \in 1..NumScopes
      BY <2>3, <2>4, <2>6, ConstantsAssumption DEF TypeOK, ForgeItem, Scopes
    <3>2. QED
      BY <2>4, <2>5, <2>6, <3>1
  <2>7. QED
    BY <2>3, <2>4, <2>5, <2>6 DEF SweepCovers
<1>6. ASSUME NEW i \in Items, FetchPull(i) PROVE SweepCovers'
  BY <1>6 DEF FetchPull, Fetched, SweepCovers, PhaseShape
<1>7. ASSUME Join PROVE SweepCovers'
  <2>1. PICK dropped \in SUBSET {i \in DOMAIN found : forge[i].archived} :
          found' = [i \in DOMAIN found \ dropped |-> found[i]]
    BY <1>7 DEF Join, Joined
  <2>2. /\ UNCHANGED <<forge, touched, complete, gone>>
        /\ phase = "join" /\ phase' \in {"reap", "write"}
    BY <1>7 DEF Join, Joined
  <2>3. QED
    BY <2>1, <2>2 DEF SweepCovers
<1>8. ASSUME Reap PROVE SweepCovers'
  BY <1>8 DEF Reap, SweepCovers
<1>9. ASSUME NEW i \in Items, ResolveOpen(i) PROVE SweepCovers'
  BY <1>9 DEF ResolveOpen, SweepCovers
<1>10. ASSUME WriteEvents PROVE SweepCovers'
  BY <1>10 DEF WriteEvents, SweepCovers
<1>11. ASSUME EndCycle PROVE SweepCovers'
  BY <1>11 DEF EndCycle, SweepCovers
<1>12. ASSUME ResolveOpenFails PROVE SweepCovers'
  BY <1>12 DEF ResolveOpenFails, SweepCovers
<1>13. CASE UNCHANGED vars
  BY <1>13 DEF SweepCovers
<1>14. QED
  BY <1>1, <1>2, <1>3, <1>4, <1>5, <1>6, <1>7, <1>8, <1>9, <1>10, <1>11, <1>12, <1>13
     DEF Next, Forge, Work, Failure, Abandon, SaveCursors, ProviderFails, StorageFails,
         SaveCursorsFails, Crash

(* A step only removes what the forge closed, or touched during the cycle. *)
LEMMA WriteRemovalJustified ==
  ASSUME TypeOK, PhaseShape, ReapIsCurrent, SweepCovers, WriteEvents, NEW i \in Items,
         log'[i] # log[i], LatestIsRemoved(log'[i])
  PROVE  \/ i \in touched
         \/ ~forge[i].open \/ forge[i].archived
         \/ LatestIsOpenRoled(log[i]) /\ forge[i].roles = {}
<1>1. log'[i] = Extended(i) /\ log[i] \in Seq(Row) /\ phase = "write"
  BY DEF WriteEvents, TypeOK
<1>2. i \notin DOMAIN found /\ i \in removals \cup gone
  <2>1. ASSUME log'[i] = Append(log[i], Observed(found[i], ResurrectionSalt(facts[i])))
        PROVE  FALSE
    BY <1>1, <2>1 DEF LatestIsRemoved, Observed
  <2>2. QED
    BY <1>1, <2>1, ExtendedForm
<1>3. complete /\ facts[i] = log[i]
  BY <1>1, <1>2, FactsAtWrite
<1>4. CASE i \in gone
  BY <1>4 DEF SweepCovers
<1>5. CASE i \in removals
  <2>1. LatestIsOpenRoled(log[i])
    BY <1>3, <1>5 DEF ReapIsCurrent
  <2>2. i \notin touched /\ forge[i].open /\ ~forge[i].archived => forge[i].roles = {}
    BY <1>1, <1>2, <1>3 DEF SweepCovers
  <2>3. QED
    BY <2>1, <2>2
<1>6. QED
  BY <1>2, <1>4, <1>5

-----------------------------------------------------------------------------
(* Facts are written in the order they are read. *)

LEMMA NoNewerTransitive ==
  ASSUME NEW a, NEW b, NEW c, a.rev \in Nat, b.rev \in Nat, c.rev \in Nat,
         NoNewer(a, b), NoNewer(b, c)
  PROVE  NoNewer(a, c)
BY DEF NoNewer

LEMMA AppendObservedInOrder ==
  ASSUME NEW h \in Seq(Row), NEW f \in Fact, NEW salt \in Nat, NEW fact,
         NoneNewer(h, f)
  PROVE  /\ Ordered(h) => Ordered(Append(h, Observed(f, salt)))
         /\ NoneNewer(h, fact) /\ NoNewer(f, fact) =>
              NoneNewer(Append(h, Observed(f, salt)), fact)
<1> DEFINE row == Observed(f, salt)
           h2  == Append(h, row)
<1>1. row \in Row /\ row.fact = f
  BY RowTypes DEF Observed
<1>2. /\ DOMAIN h2 = 1..(Len(h) + 1) /\ Len(h) \in Nat /\ DOMAIN h = 1..Len(h)
      /\ h2[Len(h) + 1] = row
      /\ \A k \in 1..Len(h) : h2[k] = h[k]
  BY <1>1
<1>3. NoNewer(f, f)
  BY DEF NoNewer, Fact
<1> HIDE DEF row, h2
<1>4. Ordered(h) => Ordered(h2)
  <2> SUFFICES ASSUME Ordered(h), NEW k \in DOMAIN h2, NEW j \in 1..k,
                      h2[j].kind = "observed", h2[k].kind = "observed"
               PROVE  NoNewer(h2[j].fact, h2[k].fact)
    BY DEF Ordered
  <2>1. CASE k \in 1..Len(h)
    BY <1>2, <2>1 DEF Ordered
  <2>2. CASE k = Len(h) + 1 /\ j \in 1..Len(h)
    BY <1>1, <1>2, <2>2 DEF NoneNewer
  <2>3. CASE k = Len(h) + 1 /\ j = k
    BY <1>1, <1>2, <1>3, <2>3
  <2>4. QED
    BY <1>2, <2>1, <2>2, <2>3
<1>5. NoneNewer(h, fact) /\ NoNewer(f, fact) => NoneNewer(h2, fact)
  BY <1>1, <1>2 DEF NoneNewer
<1>6. QED
  BY <1>4, <1>5 DEF row, h2

LEMMA AppendRemovedInOrder ==
  ASSUME NEW h \in Seq(Row), NEW n \in Nat, NEW fact
  PROVE  /\ Ordered(h) => Ordered(Append(h, Removed(n)))
         /\ NoneNewer(h, fact) => NoneNewer(Append(h, Removed(n)), fact)
<1>1. Removed(n) \in Row /\ Removed(n).kind = "removed"
  BY RowTypes DEF Removed
<1>2. QED
  BY <1>1 DEF Ordered, NoneNewer

(* A read of the forge is not older than anything read before. *)
LEMMA SnapshotInOrder ==
  ASSUME NEW i \in Items, NEW roles, NEW detail, TypeOK
  PROVE  /\ \A h : NoneNewer(h, forge[i]) => NoneNewer(h, Snapshot(i, roles, detail))
         /\ NoNewer(Snapshot(i, roles, detail), forge[i])
         /\ Snapshot(i, roles, detail).open = forge[i].open
BY DEF NoneNewer, NoNewer, Snapshot, TypeOK, ForgeItem

LEMMA ForgeChangeInOrder ==
  ASSUME TypeOK, NEW i \in Items, FlipState(i) \/ ChangeRoles(i) \/ Archive(i), NEW j \in Items
  PROVE  \A a : a.rev \in Nat /\ NoNewer(a, forge[j]) => NoNewer(a, forge'[j])
<1>1. forge \in [Items -> ForgeItem]
  BY DEF TypeOK
<1>2. CASE j # i
  <2>1. \E item : forge' = [forge EXCEPT ![i] = item]
    BY DEF FlipState, ChangeRoles, Archive
  <2>2. QED
    BY <1>1, <1>2, <2>1
<1>3. CASE j = i /\ FlipState(i)
  <2>1. forge'[i].rev = forge[i].rev + 1
    BY <1>1, <1>3 DEF FlipState
  <2>2. forge[i].rev \in Nat
    BY <1>1 DEF ForgeItem
  <2>3. QED
    BY <1>3, <2>1, <2>2 DEF NoNewer
<1>4. CASE j = i /\ (ChangeRoles(i) \/ Archive(i))
  <2>1. forge'[i].rev = forge[i].rev /\ forge'[i].open = forge[i].open
    BY <1>1, <1>4 DEF ChangeRoles, Archive
  <2>2. QED
    BY <1>4, <2>1 DEF NoNewer
<1>5. QED
  BY <1>2, <1>3, <1>4

LEMMA NextFactsInOrder ==
  TypeOK /\ PhaseShape /\ FactsInOrder /\ [Next]_vars => FactsInOrder'
<1> SUFFICES ASSUME TypeOK, PhaseShape, FactsInOrder, [Next]_vars PROVE FactsInOrder'
  OBVIOUS
<1> USE DEF vars, durable, result, reaping
<1>1. ASSUME NEW i \in Items, FlipState(i) \/ ChangeRoles(i) \/ Archive(i) PROVE FactsInOrder'
  <2>1. UNCHANGED <<log, found, complete>>
    BY <1>1 DEF FlipState, ChangeRoles, Archive, ChangeItem
  <2>2. ASSUME NEW j \in Items PROVE NoneNewer(log[j], forge'[j])
    <3>1. \A k \in DOMAIN log[j] : log[j][k].kind = "observed" => log[j][k].fact.rev \in Nat
      BY DEF TypeOK, Row, Fact
    <3>2. QED
      BY <1>1, <3>1, ForgeChangeInOrder DEF FactsInOrder, NoneNewer
  <2>3. ASSUME NEW j \in DOMAIN found PROVE NoNewer(found[j], forge'[j])
    <3>1. found[j].rev \in Nat /\ j \in Items
      BY DEF TypeOK, Fact
    <3>2. QED
      BY <1>1, <3>1, ForgeChangeInOrder DEF FactsInOrder
  <2>4. QED
    BY <2>1, <2>2, <2>3 DEF FactsInOrder
<1>2. ASSUME SearchScope PROVE FactsInOrder'
  <2>1. PICK seen \in SUBSET Hits, detail \in Details :
          found' = Swept(seen, detail) /\ complete' = (complete /\ seen = Hits)
    BY <1>2 DEF SearchScope
  <2>2. UNCHANGED <<log, forge>> /\ scope \in Scopes
    BY <1>2 DEF SearchScope, PhaseShape, Scopes
  <2>3. seen \subseteq Items /\ \A i \in seen : forge[i].open
    BY DEF Hits
  <2>4. ASSUME NEW i \in DOMAIN found'
        PROVE  /\ NoneNewer(log[i], found'[i]) /\ NoNewer(found'[i], forge[i])
               /\ complete' => found'[i].open
    <3>1. i \in DOMAIN found \cup seen /\ found'[i] = Swept(seen, detail)[i]
      BY <2>1 DEF Swept
    <3>2. CASE i \notin DOMAIN found
      <4>1. found'[i] = Snapshot(i, {scope}, detail) /\ i \in Items /\ forge[i].open
        BY <2>3, <3>1, <3>2 DEF Swept
      <4>2. QED
        BY <4>1, SnapshotInOrder DEF FactsInOrder
    <3>3. CASE i \in DOMAIN found
      <4>1. found'[i] = found[i] \/ found'[i] = WithScope(found[i])
        BY <3>1, <3>3 DEF Swept
      <4>2. found[i] \in Fact
        BY <3>3 DEF TypeOK
      <4>3. found'[i].rev = found[i].rev /\ found'[i].open = found[i].open
        BY <2>2, <4>1, <4>2, WithScopeType
      <4>4. QED
        BY <2>1, <3>3, <4>3 DEF FactsInOrder, NoneNewer, NoNewer
    <3>4. QED
      BY <3>2, <3>3
  <2>5. QED
    BY <2>2, <2>4 DEF FactsInOrder
<1>3. ASSUME NEW i \in Items, FetchPull(i) PROVE FactsInOrder'
  <2>1. PICK detail \in Details :
          found' = IF feed[i][next[i]] \/ PullRoles(i) # {} \/ ~forge[i].open
                   THEN [j \in DOMAIN found \cup {i} |->
                           IF j = i THEN Snapshot(i, PullRoles(i), detail) ELSE found[j]]
                   ELSE found
    BY <1>3 DEF FetchPull, Fetched
  <2>2. UNCHANGED <<log, forge, complete>> /\ ~complete
    BY <1>3 DEF FetchPull, Fetched, PhaseShape
  <2>3. ASSUME NEW j \in DOMAIN found'
        PROVE  NoneNewer(log[j], found'[j]) /\ NoNewer(found'[j], forge[j])
    <3>1. \/ j \in DOMAIN found /\ found'[j] = found[j]
          \/ j = i /\ found'[j] = Snapshot(i, PullRoles(i), detail)
      BY <2>1, <2>3
    <3>2. QED
      BY <3>1, SnapshotInOrder DEF FactsInOrder
  <2>4. QED
    BY <2>2, <2>3 DEF FactsInOrder
<1>4. ASSUME Join PROVE FactsInOrder'
  <2>1. PICK dropped \in SUBSET DOMAIN found :
          found' = [i \in DOMAIN found \ dropped |-> found[i]]
    BY <1>4 DEF Join, Joined
  <2>2. UNCHANGED <<log, forge, complete>>
    BY <1>4 DEF Join, Joined
  <2>3. QED
    BY <2>1, <2>2 DEF FactsInOrder
<1>5. ASSUME WriteEvents PROVE FactsInOrder'
  <2>1. UNCHANGED <<found, forge, complete>>
    BY <1>5 DEF WriteEvents
  <2>2. ASSUME NEW i \in Items
        PROVE  /\ Ordered(log'[i]) /\ NoneNewer(log'[i], forge[i])
               /\ i \in DOMAIN found => NoneNewer(log'[i], found[i])
    <3>1. log'[i] = Extended(i) /\ log[i] \in Seq(Row) /\ facts[i] \in Seq(Row)
      BY <1>5 DEF WriteEvents, TypeOK
    <3>2. CASE log'[i] = log[i]
      BY <3>2 DEF FactsInOrder
    <3>3. CASE /\ i \in DOMAIN found
               /\ log'[i] = Append(log[i], Observed(found[i], ResurrectionSalt(facts[i])))
      <4>1. found[i] \in Fact /\ ResurrectionSalt(facts[i]) \in Nat
        BY <3>1, <3>3 DEF TypeOK, ResurrectionSalt
      <4>2. NoNewer(found[i], found[i])
        BY <4>1 DEF NoNewer, Fact
      <4>3. NoneNewer(log[i], found[i]) /\ NoNewer(found[i], forge[i])
        BY <3>3 DEF FactsInOrder
      <4>4. Ordered(log[i]) /\ NoneNewer(log[i], forge[i])
        BY DEF FactsInOrder
      <4>5. QED
        BY <3>1, <3>3, <4>1, <4>2, <4>3, <4>4, AppendObservedInOrder
    <3>4. CASE log'[i] = Append(log[i], Removed(Len(facts[i])))
      <4>1. Len(facts[i]) \in Nat
        BY <3>1
      <4>2. Ordered(log[i]) /\ NoneNewer(log[i], forge[i])
        BY DEF FactsInOrder
      <4>3. i \in DOMAIN found => NoneNewer(log[i], found[i])
        BY DEF FactsInOrder
      <4>4. QED
        BY <3>1, <3>4, <4>1, <4>2, <4>3, AppendRemovedInOrder
    <3>5. QED
      BY <3>1, <3>2, <3>3, <3>4, ExtendedForm
  <2>3. DOMAIN found \subseteq Items
    BY DEF TypeOK
  <2>4. QED
    BY <2>1, <2>2, <2>3 DEF FactsInOrder
<1>6. ASSUME EndCycle, UNCHANGED <<forge, log>> PROVE FactsInOrder'
  BY <1>6, EmptyTypes DEF EndCycle, FactsInOrder
<1>7. ASSUME StartReconcile PROVE FactsInOrder'
  BY <1>7, EmptyTypes DEF StartReconcile, PhaseShape, FactsInOrder
<1>8. CASE UNCHANGED <<forge, log, found, complete>>
  BY <1>8 DEF FactsInOrder
<1>9. \/ \E i \in Items : FlipState(i) \/ ChangeRoles(i) \/ Archive(i) \/ FetchPull(i)
      \/ SearchScope \/ Join \/ WriteEvents \/ StartReconcile
      \/ EndCycle /\ UNCHANGED <<forge, log>>
      \/ UNCHANGED <<forge, log, found, complete>>
  BY DEF Next, Forge, Notify, StartPoll, Work, Reap, ResolveOpen, SaveCursors, Failure,
         ProviderFails, StorageFails, ResolveOpenFails, SaveCursorsFails, Crash, Abandon
<1>10. QED
  BY <1>1, <1>2, <1>3, <1>4, <1>5, <1>6, <1>7, <1>8, <1>9

-----------------------------------------------------------------------------
(* What the cycle holds of the items the forge leaves alone. *)

LEMMA NextFoundCurrent ==
  TypeOK /\ PhaseShape /\ FoundCurrent /\ [Next]_vars => FoundCurrent'
<1> SUFFICES ASSUME TypeOK, PhaseShape, FoundCurrent, [Next]_vars PROVE FoundCurrent'
  OBVIOUS
<1> USE DEF vars, durable, result, reaping
<1>1. ASSUME NEW i \in Items, FlipState(i) \/ ChangeRoles(i) \/ Archive(i) PROVE FoundCurrent'
  <2>1. /\ UNCHANGED <<found, complete>>
        /\ touched' = IF phase = "idle" THEN {} ELSE touched \cup {i}
        /\ \A j \in Items : j # i => forge'[j] = forge[j]
    BY <1>1 DEF FlipState, ChangeRoles, Archive, ChangeItem, TypeOK
  <2>2. CASE phase = "idle"
    BY <2>1, <2>2, EmptyTypes DEF PhaseShape, FoundCurrent
  <2>3. CASE phase # "idle"
    <3>1. \A j \in DOMAIN found' \ touched' : j \in DOMAIN found \ touched /\ j \in Items /\ j # i
      BY <2>1, <2>3 DEF TypeOK
    <3>2. QED
      BY <2>1, <3>1 DEF FoundCurrent
  <2>4. QED
    BY <2>2, <2>3
<1>2. ASSUME SearchScope PROVE FoundCurrent'
  <2>1. PICK seen \in SUBSET Hits, detail \in Details :
          found' = Swept(seen, detail) /\ complete' = (complete /\ seen = Hits)
    BY <1>2 DEF SearchScope
  <2>2. UNCHANGED <<forge, touched>> /\ scope \in Scopes
    BY <1>2 DEF SearchScope, PhaseShape, Scopes
  <2>3. seen \subseteq Items /\ \A i \in seen : forge[i].open /\ scope \in forge[i].roles
    BY DEF Hits
  <2>4. ASSUME NEW i \in DOMAIN found' \ touched
        PROVE  /\ found'[i].open = forge[i].open
               /\ found'[i].roles \subseteq forge[i].roles
               /\ complete' => found'[i].roles # {}
    <3>1. i \in DOMAIN found \cup seen /\ found'[i] = Swept(seen, detail)[i]
      BY <2>1 DEF Swept
    <3>2. CASE i \notin DOMAIN found
      <4>1. found'[i] = Snapshot(i, {scope}, detail) /\ i \in seen
        BY <3>1, <3>2 DEF Swept
      <4>2. QED
        BY <2>3, <4>1 DEF Snapshot
    <3>3. CASE i \in DOMAIN found /\ i \in seen
      <4>1. found'[i] = WithScope(found[i]) /\ found[i] \in Fact
        BY <3>1, <3>3 DEF Swept, TypeOK
      <4>2. found'[i].open = found[i].open /\ found'[i].roles = found[i].roles \cup {scope}
        BY <2>2, <4>1, WithScopeType
      <4>3. QED
        BY <2>3, <3>3, <4>2 DEF FoundCurrent
    <3>4. CASE i \in DOMAIN found /\ i \notin seen
      <4>1. found'[i] = found[i]
        BY <3>1, <3>4 DEF Swept
      <4>2. QED
        BY <2>1, <3>4, <4>1 DEF FoundCurrent
    <3>5. QED
      BY <3>1, <3>2, <3>3, <3>4
  <2>5. QED
    BY <2>2, <2>4 DEF FoundCurrent
<1>3. ASSUME NEW i \in Items, FetchPull(i) PROVE FoundCurrent'
  <2>1. PICK detail \in Details :
          found' = IF feed[i][next[i]] \/ PullRoles(i) # {} \/ ~forge[i].open
                   THEN [j \in DOMAIN found \cup {i} |->
                           IF j = i THEN Snapshot(i, PullRoles(i), detail) ELSE found[j]]
                   ELSE found
    BY <1>3 DEF FetchPull, Fetched
  <2>2. UNCHANGED <<forge, touched, complete>> /\ ~complete
    BY <1>3 DEF FetchPull, Fetched, PhaseShape
  <2>3. ASSUME NEW j \in DOMAIN found' \ touched
        PROVE  found'[j].open = forge[j].open /\ found'[j].roles \subseteq forge[j].roles
    <3>1. \/ j \in DOMAIN found /\ found'[j] = found[j]
          \/ j = i /\ found'[j] = Snapshot(i, PullRoles(i), detail)
      BY <2>1, <2>3
    <3>2. QED
      BY <2>3, <3>1 DEF FoundCurrent, Snapshot, PullRoles
  <2>4. QED
    BY <2>2, <2>3 DEF FoundCurrent
<1>4. ASSUME Join PROVE FoundCurrent'
  <2>1. PICK dropped \in SUBSET DOMAIN found :
          found' = [i \in DOMAIN found \ dropped |-> found[i]]
    BY <1>4 DEF Join, Joined
  <2>2. UNCHANGED <<forge, touched, complete>>
    BY <1>4 DEF Join, Joined
  <2>3. QED
    BY <2>1, <2>2 DEF FoundCurrent
<1>5. ASSUME EndCycle PROVE FoundCurrent'
  BY <1>5, EmptyTypes DEF EndCycle, FoundCurrent
<1>6. ASSUME StartReconcile PROVE FoundCurrent'
  BY <1>6, EmptyTypes DEF StartReconcile, PhaseShape, FoundCurrent
<1>7. CASE UNCHANGED <<forge, found, complete, touched>>
  BY <1>7 DEF FoundCurrent
<1>8. \/ \E i \in Items : FlipState(i) \/ ChangeRoles(i) \/ Archive(i) \/ FetchPull(i)
      \/ SearchScope \/ Join \/ StartReconcile \/ EndCycle
      \/ UNCHANGED <<forge, found, complete, touched>>
  BY DEF Next, Forge, Notify, StartPoll, Work, Reap, ResolveOpen, WriteEvents, SaveCursors,
         Failure, ProviderFails, StorageFails, ResolveOpenFails, SaveCursorsFails, Crash, Abandon
<1>9. QED
  BY <1>1, <1>2, <1>3, <1>4, <1>5, <1>6, <1>7, <1>8

LEMMA NextReapRemovesAbsent ==
  PhaseShape /\ ReapRemovesAbsent /\ [Next]_vars => ReapRemovesAbsent'
<1> SUFFICES ASSUME PhaseShape, ReapRemovesAbsent, [Next]_vars PROVE ReapRemovesAbsent'
  OBVIOUS
<1> USE DEF vars, durable, result, reaping, ReapRemovesAbsent
<1>1. ASSUME Reap PROVE ReapRemovesAbsent'
  BY <1>1 DEF Reap
<1>2. ASSUME Join PROVE ReapRemovesAbsent'
  BY <1>2 DEF Join, Joined
<1>3. ASSUME NEW i \in Items, ResolveOpen(i) PROVE ReapRemovesAbsent'
  BY <1>3 DEF ResolveOpen
<1>4. ASSUME ResolveOpenFails PROVE ReapRemovesAbsent'
  BY <1>4 DEF ResolveOpenFails
<1>5. CASE phase' \notin {"confirm", "write"}
  BY <1>5
<1>6. CASE UNCHANGED <<phase, complete, removals, found, facts>>
  BY <1>6
<1>7. \/ Reap \/ Join \/ ResolveOpenFails
      \/ \E i \in Items : ResolveOpen(i)
      \/ phase' \notin {"confirm", "write"}
      \/ UNCHANGED <<phase, complete, removals, found, facts>>
  BY DEF Next, Forge, FlipState, ChangeRoles, Archive, ChangeItem, Notify, StartReconcile,
         StartPoll, Work, SearchScope, FetchPull, Fetched, WriteEvents, SaveCursors, EndCycle,
         Failure, ProviderFails, StorageFails, SaveCursorsFails, Crash, Abandon
<1>8. QED
  BY <1>1, <1>2, <1>3, <1>4, <1>5, <1>6, <1>7

-----------------------------------------------------------------------------
(* The inductive invariant. *)

LEMMA InitIInv == Init => IInv
<1> SUFFICES ASSUME Init PROVE IInv
  OBVIOUS
<1>1. /\ \A i \in Items : log[i] = << >> /\ feed[i] = << >> /\ cursor[i] = 0 /\ next[i] = 0
      /\ found = NoItem /\ DOMAIN found = {}
  BY EmptyTypes DEF Init, NoHistory
<1>2. TypeOK
  BY InitTypeOK
<1>3. PhaseShape
  BY ConstantsAssumption DEF Init, PhaseShape, BeforeReap
<1>4. ReapIsCurrent
  BY DEF Init, ReapIsCurrent, BeforeReap
<1>5. EpisodesAlternate /\ NoGhostRow
  BY <1>1 DEF EpisodesAlternate, Alternates, NoGhostRow
<1>6. CursorCovered /\ NoSignalLost
  BY <1>1 DEF Init, CursorCovered, NoSignalLost
<1>7. GhostsHeard
  BY <1>1 DEF GhostsHeard
<1>8. SweepCovers
  BY DEF Init, SweepCovers
<1>9. FactsInOrder
  BY <1>1 DEF FactsInOrder, Ordered, NoneNewer
<1>10. FoundCurrent /\ ReapRemovesAbsent
  BY <1>1 DEF Init, FoundCurrent, ReapRemovesAbsent
<1>11. QED
  BY <1>2, <1>3, <1>4, <1>5, <1>6, <1>7, <1>8, <1>9, <1>10 DEF IInv

LEMMA NextIInv == IInv /\ [Next]_vars => IInv'
BY NextTypeOK, NextPhaseShape, NextReapIsCurrent, NextEpisodesAlternate, NextCursorCovered,
   NextNoSignalLost, NextGhostsHeard, NextNoGhostRow, NextSweepCovers, NextFactsInOrder,
   NextFoundCurrent, NextReapRemovesAbsent
   DEF IInv

(* The strengthening behind every safety theorem below (cycle.go, reap and *)
(* persist).                                                               *)
THEOREM Invariance == Spec => []IInv
BY InitIInv, NextIInv, PTL DEF Spec

(* Removals and resurrections alternate with the snapshots they supersede, *)
(* through every crash and retry (reap; ADR-0024).                         *)
THEOREM EpisodesTheorem == Spec => []EpisodesAlternate
<1>1. IInv => EpisodesAlternate
  BY DEF IInv
<1>2. QED
  BY <1>1, Invariance, PTL

(* A notification behind the cursor has its signal in the database         *)
(* (persist: events before cursors).                                       *)
THEOREM SignalTheorem == Spec => []NoSignalLost
<1>1. IInv => NoSignalLost
  BY DEF IInv
<1>2. QED
  BY <1>1, Invariance, PTL

(* A merely watched pull request is not on record (fastpoll.go). *)
THEOREM GhostTheorem == Spec => []NoGhostRow
<1>1. IInv => NoGhostRow
  BY DEF IInv
<1>2. QED
  BY <1>1, Invariance, PTL

(* Nothing that was open and mine during the whole cycle is removed by it  *)
(* (reap, confirmGone).                                                    *)
THEOREM RemovalTheorem == Spec => RemovalsJustified
<1>1. IInv /\ [Next]_vars =>
        [\A i \in Items : log'[i] # log[i] /\ LatestIsRemoved(log'[i]) =>
            \/ i \in touched
            \/ ~forge[i].open \/ forge[i].archived
            \/ LatestIsOpenRoled(log[i]) /\ forge[i].roles = {}]_vars
  BY OnlyWriteEventsWrites, WriteRemovalJustified DEF IInv
<1>2. QED
  BY <1>1, Invariance, PTL DEF Spec, RemovalsJustified

(* What a complete sweep writes leaves every item it saw on the board. *)
LEMMA SweptIsShown ==
  ASSUME IInv, WriteEvents, complete, NEW i \in DOMAIN found
  PROVE  OnBoard(log'[i])
<1> DEFINE h   == log[i]
           row == Observed(found[i], ResurrectionSalt(h))
<1>1. /\ i \in Items /\ found[i] \in Fact /\ h \in Seq(Row) /\ facts[i] = h
      /\ log'[i] = Extended(i) /\ found[i].open
  BY FactsAtWrite DEF IInv, WriteEvents, TypeOK, FactsInOrder
<1>2. row \in Row /\ row.kind = "observed" /\ row.fact = found[i] /\ row.salt = ResurrectionSalt(h)
  BY <1>1, RowTypes DEF Observed, ResurrectionSalt
<1> HIDE DEF row
<1>3. log'[i] = InsertOrIgnore(h, row)
  BY <1>1 DEF Extended, row
<1>4. CASE row \notin Range(h)
  <2>1. log'[i] = Append(h, row)
    BY <1>3, <1>4 DEF InsertOrIgnore
  <2>2. LatestIsOpen(log'[i])
    BY <1>1, <1>2, <2>1 DEF LatestIsOpen
  <2>3. log'[i] \in Seq(Row) /\ \A k \in DOMAIN log'[i] : log'[i][k].kind \in {"observed", "removed"}
    BY <1>1, <1>2, <2>1 DEF Row
  <2>4. QED
    BY <2>2, <2>3, FoldAgreesWithReap
<1>5. CASE row \in Range(h)
  <2>1. log'[i] = h
    BY <1>3, <1>5 DEF InsertOrIgnore
  <2>2. PICK k \in 1..Len(h) : h[k] = row
    BY <1>1, <1>5 DEF Range
  <2>3. ASSUME LatestIsRemoved(h) PROVE FALSE
    <3>1. row.salt = Len(h) /\ Len(h) # 0
      BY <1>1, <1>2, <2>2, <2>3 DEF ResurrectionSalt
    <3>2. Alternates(h)
      BY <1>1 DEF IInv, EpisodesAlternate
    <3>3. row.salt = k - 1
      BY <1>1, <1>2, <2>2, <3>1, <3>2 DEF Alternates
    <3>4. QED
      BY <1>1, <2>2, <3>1, <3>3
  <2>4. Len(h) \in DOMAIN h /\ k \in 1..Len(h) /\ h # << >>
    BY <1>1, <2>2
  <2>5. h[Len(h)].kind = "observed"
    BY <1>1, <2>3, <2>4 DEF LatestIsRemoved, Row
  <2>6. h[Len(h)] \in Row /\ h[Len(h)].fact \in Fact
    BY <1>1, <2>4, <2>5 DEF Row
  <2>7. NoNewer(found[i], h[Len(h)].fact) /\ NoNewer(h[Len(h)].fact, found[i])
    <3>1. Ordered(h) /\ NoneNewer(h, found[i])
      BY <1>1 DEF IInv, FactsInOrder
    <3>2. QED
      BY <1>2, <2>2, <2>4, <2>5, <3>1 DEF Ordered, NoneNewer
  <2>8. h[Len(h)].fact.open
    <3>1. found[i].rev \in Nat /\ h[Len(h)].fact.rev \in Nat
      BY <1>1, <2>6 DEF Fact
    <3>2. found[i].rev = h[Len(h)].fact.rev
      BY <2>7, <3>1 DEF NoNewer
    <3>3. found[i].open = h[Len(h)].fact.open
      BY <2>7, <3>2 DEF NoNewer
    <3>4. QED
      BY <1>1, <3>3
  <2>9. LatestIsOpen(h)
    BY <2>4, <2>5, <2>8 DEF LatestIsOpen
  <2>10. \A j \in DOMAIN h : h[j].kind \in {"observed", "removed"}
    BY <1>1 DEF Row
  <2>11. QED
    BY <1>1, <2>1, <2>9, <2>10, FoldAgreesWithReap
<1>6. QED
  BY <1>4, <1>5

(* Every item a complete sweep saw is on the board once its events are in, *)
(* even after a removal or with facts that were seen before (salting in    *)
(* reap).                                                                  *)
THEOREM SweptTheorem == Spec => SweptItemsShown
<1>1. IInv /\ [Next]_vars =>
        [WriteEvents /\ complete => \A i \in DOMAIN found : OnBoard(log'[i])]_vars
  BY SweptIsShown
<1>2. QED
  BY <1>1, Invariance, PTL DEF Spec, SweptItemsShown

(* A removal of the latest row is never a duplicate. *)
LEMMA RemovalIsNew ==
  ASSUME NEW h \in Seq(Row), Alternates(h)
  PROVE  InsertOrIgnore(h, Removed(Len(h))) = Append(h, Removed(Len(h)))
<1>1. ASSUME Removed(Len(h)) \in Range(h) PROVE FALSE
  <2>1. PICK k \in 1..Len(h) : h[k] = Removed(Len(h))
    BY <1>1 DEF Range
  <2>2. h[k].kind = "removed" /\ h[k].supersedes = Len(h)
    BY <2>1 DEF Removed
  <2>3. h[k].supersedes = k - 1
    BY <2>2 DEF Alternates
  <2>4. QED
    BY <2>2, <2>3
<1>2. QED
  BY <1>1 DEF InsertOrIgnore

(* An appended snapshot is what the board and the next reap go by. *)
LEMMA AppendedDecides ==
  ASSUME NEW h \in Seq(Row), NEW fact \in Fact, NEW salt \in Nat
  PROVE  LET after == Append(h, Observed(fact, salt))
         IN  /\ fact.open => OnBoard(after)
             /\ LatestIsOpenRoled(after) => fact.open /\ fact.roles # {}
<1> DEFINE row   == Observed(fact, salt)
           after == Append(h, row)
<1>1. row \in Row /\ row.kind = "observed" /\ row.fact = fact
  BY RowTypes DEF Observed
<1> HIDE DEF row
<1>2. after \in Seq(Row) /\ after # << >> /\ after[Len(after)] = row
  BY <1>1
<1>3. \A k \in DOMAIN after : after[k].kind \in {"observed", "removed"}
  BY <1>2 DEF Row
<1>4. LatestIsOpen(after) <=> fact.open
  BY <1>1, <1>2 DEF LatestIsOpen
<1>5. LatestIsOpenRoled(after) => fact.open /\ fact.roles # {}
  BY <1>1, <1>2, <1>4 DEF LatestIsOpenRoled
<1>6. fact.open => OnBoard(after)
  BY <1>2, <1>3, <1>4, FoldAgreesWithReap
<1>7. QED
  BY <1>5, <1>6 DEF row

LEMMA WriteSettles ==
  ASSUME IInv, WriteEvents, NEW i \in Items, i \notin touched, complete \/ RightlyShown(i)
  PROVE  RightlyShown(i)'
<1> DEFINE h == log[i]
<1>1. /\ phase = "write" /\ h \in Seq(Row) /\ Alternates(h)
      /\ log'[i] = Extended(i) /\ forge' = forge
  BY DEF WriteEvents, IInv, TypeOK, EpisodesAlternate
<1>2. ~complete => facts = NoHistory /\ removals = {} /\ gone = {} /\ RightlyShown(i)
  BY DEF IInv, PhaseShape
<1>3. complete => facts[i] = h /\ removals = {j \in Items \ DOMAIN found : LatestIsOpenRoled(facts[j])}
  BY <1>1 DEF IInv, ReapIsCurrent, ReapRemovesAbsent, BeforeReap
<1>4. ASSUME i \in DOMAIN found
      PROVE  /\ found[i] \in Fact /\ ResurrectionSalt(facts[i]) \in Nat
             /\ found[i].open = forge[i].open /\ found[i].roles \subseteq forge[i].roles
             /\ complete => found[i].roles # {} /\ found[i].open
  <2>1. facts[i] \in Seq(Row) /\ found[i] \in Fact
    BY <1>4 DEF IInv, TypeOK
  <2>2. QED
    BY <1>4, <2>1 DEF IInv, FoundCurrent, FactsInOrder, ResurrectionSalt
<1>5. ASSUME forge[i].open, forge[i].roles # {}, ~forge[i].archived PROVE OnBoard(log'[i])
  <2>1. CASE complete
    <3>1. i \in DOMAIN found
      BY <1>1, <1>5, <2>1 DEF IInv, SweepCovers
    <3>2. QED
      BY <2>1, <3>1, SweptIsShown
  <2>2. CASE ~complete
    <3>1. OnBoard(h)
      BY <1>2, <1>5, <2>2 DEF RightlyShown
    <3>2. CASE log'[i] = h
      BY <3>1, <3>2
    <3>3. CASE /\ i \in DOMAIN found
               /\ log'[i] = Append(h, Observed(found[i], ResurrectionSalt(facts[i])))
      BY <1>1, <1>4, <1>5, <3>3, AppendedDecides
    <3>4. QED
      BY <1>1, <1>2, <2>2, <3>2, <3>3, ExtendedForm
  <2>3. QED
    BY <2>1, <2>2
<1>6. ASSUME LatestIsOpenRoled(log'[i]) PROVE forge[i].open /\ forge[i].roles # {}
  <2>1. CASE i \in DOMAIN found /\ complete
    BY <1>4, <2>1
  <2>2. CASE log'[i] = h /\ ~complete
    BY <1>2, <1>6, <2>2 DEF RightlyShown
  <2>3. CASE /\ i \in DOMAIN found
             /\ log'[i] = Append(h, Observed(found[i], ResurrectionSalt(facts[i])))
    <3>1. found[i].open /\ found[i].roles # {}
      BY <1>1, <1>4, <1>6, <2>3, AppendedDecides
    <3>2. QED
      BY <1>4, <2>3, <3>1
  <2>4. CASE i \notin DOMAIN found /\ complete
    <3>1. i \in removals => log'[i] = Append(h, Removed(Len(h)))
      BY <1>1, <1>3, <2>4, RemovalIsNew DEF Extended
    <3>2. log'[i] # h => log'[i] = Append(h, Removed(Len(h)))
      BY <1>1, <1>3, <2>4, ExtendedForm
    <3>3. log'[i] = h => FALSE
      <4>1. ASSUME log'[i] = h PROVE i \in removals
        BY <1>3, <1>6, <2>4, <4>1
      <4>2. Append(h, Removed(Len(h))) # h
        BY <1>1
      <4>3. QED
        BY <3>1, <4>1, <4>2
    <3>4. ~LatestIsOpenRoled(Append(h, Removed(Len(h))))
      BY <1>1 DEF LatestIsOpenRoled, LatestIsOpen, Removed
    <3>5. QED
      BY <1>6, <3>2, <3>3, <3>4
  <2>5. QED
    BY <1>1, <1>2, <2>1, <2>2, <2>3, <2>4, ExtendedForm
<1>7. QED
  BY <1>1, <1>5, <1>6 DEF RightlyShown

(* A complete sweep makes the board right about every item the forge left  *)
(* alone during it, and no other cycle makes it wrong about one (persist   *)
(* and reap).                                                              *)
THEOREM SettlesTheorem == Spec => SweepSettles
<1>1. IInv /\ [Next]_vars =>
        [WriteEvents => \A i \in Items \ touched :
           complete \/ RightlyShown(i) => RightlyShown(i)']_vars
  BY WriteSettles
<1>2. QED
  BY <1>1, Invariance, PTL DEF Spec, SweepSettles

-----------------------------------------------------------------------------
(* A cycle runs out of steps of its own. *)

(* How many steps the goroutine can still take before it is back at its    *)
(* select.                                                                 *)
StepsLeft ==
  CASE phase = "idle"    -> 0
    [] phase = "save"    -> 1
    [] phase = "write"   -> 2
    [] phase = "confirm" -> 2 + Cardinality(leftovers)
    [] phase = "reap"    -> 3 + Cardinality(Items)
    [] phase = "join"    -> 4 + Cardinality(Items)
    [] phase = "poll"    -> 4 + Cardinality(Items) + Cardinality(todo)
    [] phase = "sweep"   -> 4 + Cardinality(Items) + (NumScopes + 1 - scope)

(* The calls a cycle may make from its start on: scopes or threads, then   *)
(* lookups, and the join, reap and the two transactions.                   *)
CycleLength == 4 + 2 * Cardinality(Items) + NumScopes

(* Each step of a cycle brings its end nearer; nothing the forge does and  *)
(* no failure puts it off, and only the start of a cycle adds steps, never *)
(* more than CycleLength (the loops of cycle.go and of the providers are   *)
(* over what was listed when they began).                                  *)
CycleRunsOut ==
  /\ [](StepsLeft \in 0..CycleLength)
  /\ [][/\ Work => StepsLeft' < StepsLeft
        /\ StepsLeft' > StepsLeft => phase = "idle"]_vars

LEMMA SubsetCardinality ==
  ASSUME NEW S \in SUBSET Items
  PROVE  /\ IsFiniteSet(S) /\ Cardinality(S) \in Nat /\ Cardinality(Items) \in Nat
         /\ Cardinality(S) <= Cardinality(Items)
         /\ S # {} => Cardinality(S) > 0
         /\ \A i \in S : Cardinality(S \ {i}) = Cardinality(S) - 1
BY ConstantsAssumption, FS_Subset, FS_CardinalityType, FS_EmptySet, FS_RemoveElement

LEMMA StepsLeftBounded ==
  ASSUME TypeOK, PhaseShape
  PROVE  StepsLeft \in 0..CycleLength
<1>1. /\ NumScopes \in Nat \ {0} /\ phase \in Phases
      /\ phase = "sweep" => scope \in 1..NumScopes
  BY ConstantsAssumption DEF TypeOK, PhaseShape
<1>2. todo \in SUBSET Items /\ leftovers \in SUBSET Items
  BY DEF TypeOK
<1>3. /\ Cardinality(Items) \in Nat
      /\ Cardinality(todo) \in Nat /\ Cardinality(todo) <= Cardinality(Items)
      /\ Cardinality(leftovers) \in Nat /\ Cardinality(leftovers) <= Cardinality(Items)
  BY <1>2, SubsetCardinality
<1>4. QED
  BY <1>1, <1>3 DEF StepsLeft, CycleLength, Phases

LEMMA NextRunsOut ==
  ASSUME TypeOK, PhaseShape, [Next]_vars, TypeOK', PhaseShape'
  PROVE  /\ Work => StepsLeft' < StepsLeft
         /\ StepsLeft' > StepsLeft => phase = "idle"
<1> USE DEF vars, durable, result, reaping
<1> DEFINE c == Cardinality(Items)
           t == Cardinality(todo)
           l == Cardinality(leftovers)
           Down == StepsLeft' < StepsLeft
<1>1. /\ c \in Nat
      /\ t \in Nat /\ t <= c /\ l \in Nat /\ l <= c
      /\ leftovers # {} => l > 0
  BY SubsetCardinality DEF TypeOK
<1>2. Cardinality(leftovers') \in Nat /\ Cardinality(leftovers') <= c
      /\ Cardinality(todo') \in Nat
  BY SubsetCardinality DEF TypeOK
<1>3. NumScopes \in Nat \ {0} /\ (phase = "sweep" => scope \in 1..NumScopes)
  BY ConstantsAssumption DEF PhaseShape
<1>4. StepsLeft \in Nat /\ StepsLeft' \in Nat
  <2>1. StepsLeft \in 0..CycleLength
    BY StepsLeftBounded
  <2>2. StepsLeft' \in Nat
    <3>1. phase' \in Phases /\ (phase' = "sweep" => scope' \in 1..NumScopes)
      BY DEF TypeOK, PhaseShape
    <3>2. QED
      BY <1>1, <1>2, <1>3, <3>1 DEF StepsLeft, Phases
  <2>3. QED
    BY <2>1, <2>2
<1> HIDE DEF c, t, l
<1>5. ASSUME SearchScope PROVE Down
  <2>1. /\ phase = "sweep" /\ scope' = scope + 1
        /\ phase' = IF scope < NumScopes THEN "sweep" ELSE "join"
    BY <1>5 DEF SearchScope
  <2>2. StepsLeft = 4 + c + (NumScopes + 1 - scope)
    BY <2>1 DEF StepsLeft, c
  <2>3. StepsLeft' = IF scope < NumScopes THEN 4 + c + (NumScopes + 1 - (scope + 1)) ELSE 4 + c
    BY <2>1 DEF StepsLeft, c
  <2>4. QED
    BY <1>1, <1>3, <2>1, <2>2, <2>3
<1>6. ASSUME NEW i \in Items, FetchPull(i) PROVE Down
  <2>1. /\ phase = "poll" /\ i \in todo /\ todo' = todo \ {i}
        /\ phase' = IF todo' = {} THEN "join" ELSE "poll"
    BY <1>6 DEF FetchPull, Fetched
  <2>2. Cardinality(todo') = t - 1 /\ t > 0
    BY <2>1, SubsetCardinality DEF TypeOK, t
  <2>3. StepsLeft = 4 + c + t
    BY <2>1 DEF StepsLeft, c, t
  <2>4. StepsLeft' = 4 + c + (t - 1) \/ StepsLeft' = 4 + c
    BY <2>1, <2>2 DEF StepsLeft, c
  <2>5. QED
    BY <1>1, <2>2, <2>3, <2>4
<1>7. ASSUME Join PROVE Down
  <2>1. phase = "join" /\ phase' \in {"reap", "write"}
    BY <1>7 DEF Join, Joined
  <2>2. StepsLeft = 4 + c /\ (StepsLeft' = 3 + c \/ StepsLeft' = 2)
    BY <2>1 DEF StepsLeft, c
  <2>3. QED
    BY <1>1, <2>2
<1>8. ASSUME Reap PROVE Down
  <2>1. phase = "reap" /\ phase' \in {"confirm", "write"}
    BY <1>8 DEF Reap
  <2>2. StepsLeft = 3 + c /\ (StepsLeft' = 2 + Cardinality(leftovers') \/ StepsLeft' = 2)
    BY <2>1 DEF StepsLeft, c
  <2>3. QED
    BY <1>1, <1>2, <2>2
<1>9. ASSUME NEW i \in Items, ResolveOpen(i) PROVE Down
  <2>1. /\ phase = "confirm" /\ i \in leftovers /\ leftovers' = leftovers \ {i}
        /\ phase' = IF leftovers' = {} THEN "write" ELSE "confirm"
    BY <1>9 DEF ResolveOpen
  <2>2. Cardinality(leftovers') = l - 1 /\ l > 0
    BY <2>1, SubsetCardinality DEF TypeOK, l
  <2>3. StepsLeft = 2 + l
    BY <2>1 DEF StepsLeft, l
  <2>4. StepsLeft' = 2 + (l - 1) \/ StepsLeft' = 2
    BY <2>1, <2>2 DEF StepsLeft
  <2>5. QED
    BY <1>1, <2>2, <2>3, <2>4
<1>10. ASSUME WriteEvents PROVE Down
  BY <1>10 DEF WriteEvents, StepsLeft
<1>11. ASSUME EndCycle, phase # "idle" PROVE Down
  <2>1. StepsLeft' = 0
    BY <1>11 DEF EndCycle, StepsLeft
  <2>2. StepsLeft # 0
    <3>1. CASE phase \in {"save", "write", "confirm"}
      <4>1. StepsLeft \in {1, 2} \/ StepsLeft = 2 + l
        BY <3>1 DEF StepsLeft, l
      <4>2. QED
        BY <1>1, <4>1
    <3>2. CASE phase \in {"reap", "join"}
      <4>1. StepsLeft = 3 + c \/ StepsLeft = 4 + c
        BY <3>2 DEF StepsLeft, c
      <4>2. QED
        BY <1>1, <4>1
    <3>3. CASE phase = "poll"
      <4>1. StepsLeft = 4 + c + t
        BY <3>3 DEF StepsLeft, c, t
      <4>2. QED
        BY <1>1, <4>1
    <3>4. CASE phase = "sweep"
      <4>1. StepsLeft = 4 + c + (NumScopes + 1 - scope)
        BY <3>4 DEF StepsLeft, c
      <4>2. QED
        BY <1>1, <1>3, <3>4, <4>1
    <3>5. QED
      BY <1>11, <3>1, <3>2, <3>3, <3>4 DEF TypeOK, Phases
  <2>3. QED
    BY <1>4, <2>1, <2>2
<1>12. ASSUME SaveCursors PROVE Down
  BY <1>11, <1>12 DEF SaveCursors
<1>13. ASSUME ResolveOpenFails PROVE StepsLeft' <= StepsLeft
  <2>1. phase = "confirm" /\ phase' = "write"
    BY <1>13 DEF ResolveOpenFails
  <2>2. StepsLeft = 2 + l /\ StepsLeft' = 2
    BY <2>1 DEF StepsLeft, l
  <2>3. QED
    BY <1>1, <2>2
<1>14. ASSUME UNCHANGED <<phase, scope, todo, leftovers>> PROVE StepsLeft' <= StepsLeft
  <2>1. Cardinality(todo') = Cardinality(todo) /\ Cardinality(leftovers') = Cardinality(leftovers)
    BY <1>14
  <2>2. StepsLeft' = StepsLeft
    BY <1>14, <2>1 DEF StepsLeft
  <2>3. QED
    BY <1>4, <1>14, <2>2
<1>15. Work => Down
  BY <1>5, <1>6, <1>7, <1>8, <1>9, <1>10, <1>12 DEF Work
<1>16. \/ Work \/ ResolveOpenFails \/ phase = "idle"
       \/ EndCycle
       \/ UNCHANGED <<phase, scope, todo, leftovers>>
  BY DEF Next, Forge, FlipState, ChangeRoles, Archive, ChangeItem, Notify, StartReconcile, StartPoll,
         Failure, ProviderFails, StorageFails, SaveCursorsFails, Crash, Abandon
<1>17. QED
  BY <1>4, <1>11, <1>13, <1>14, <1>15, <1>16

(* A cycle ends within CycleLength steps of its own, whatever the forge    *)
(* does and fails in between: the part of BoardConverges that needs no     *)
(* fairness (syncOnce in cycle.go).                                        *)
THEOREM CycleBounded == Spec => CycleRunsOut
<1>1. IInv => StepsLeft \in 0..CycleLength
  BY StepsLeftBounded DEF IInv
<1>2. IInv /\ IInv' /\ [Next]_vars =>
        [/\ Work => StepsLeft' < StepsLeft
         /\ StepsLeft' > StepsLeft => phase = "idle"]_vars
  BY NextRunsOut DEF IInv
<1>3. QED
  BY <1>1, <1>2, Invariance, PTL DEF Spec, CycleRunsOut

-----------------------------------------------------------------------------
(* Refinement: the connection implements SignalDelivery. *)

LEMMA InitDelivers == Init => Delivery!Init
BY DEF Init, Delivery!Init, NoHistory

LEMMA NextDelivers == IInv /\ [Next]_vars => [Delivery!Next]_Delivery!vars
<1> SUFFICES ASSUME IInv, [Next]_vars PROVE [Delivery!Next]_Delivery!vars
  OBVIOUS
<1>1. ASSUME NEW i \in Items, Notify(i) PROVE Delivery!Arrive
  BY <1>1 DEF Notify, Delivery!Arrive, durable
<1>2. ASSUME WriteEvents PROVE Delivery!Record
  <2>1. /\ recorded' = [i \in Items |-> IF i \in heard THEN recorded[i] \cup {next[i]}
                                        ELSE recorded[i]]
        /\ UNCHANGED <<forge, feed, cursor>>
    BY <1>2 DEF WriteEvents
  <2>2. recorded \in [Items -> SUBSET Nat] /\ next \in [Items -> Nat]
    BY DEF IInv, TypeOK
  <2>3. \A i \in heard : next[i] \in DOMAIN feed[i] /\ feed[i][next[i]]
    BY DEF IInv, CursorCovered, TypeOK
  <2>4. recorded' \in [Items -> SUBSET Nat]
    BY <2>1, <2>2
  <2>5. \A i \in Items :
          /\ recorded[i] \subseteq recorded'[i]
          /\ \A n \in recorded'[i] \ recorded[i] : n \in DOMAIN feed[i] /\ feed[i][n]
    BY <2>1, <2>3
  <2>6. QED
    BY <2>1, <2>4, <2>5 DEF Delivery!Record
<1>3. ASSUME SaveCursors PROVE Delivery!Acknowledge
  BY <1>3 DEF SaveCursors, Delivery!Acknowledge, IInv, TypeOK, CursorCovered, PhaseShape
<1>4. ASSUME NEW i \in Items, FlipState(i) \/ ChangeRoles(i) \/ Archive(i)
      PROVE  [Delivery!Next]_Delivery!vars
  <2>1. UNCHANGED <<feed, recorded, cursor>>
    BY <1>4 DEF FlipState, ChangeRoles, Archive, ChangeItem, durable
  <2>2. forge \in [Items -> ForgeItem]
    BY DEF IInv, TypeOK
  <2>3. CASE FlipState(i) \/ ChangeRoles(i)
    <3>1. \A j \in Items : forge'[j].archived = forge[j].archived
      BY <2>2, <2>3 DEF FlipState, ChangeRoles
    <3>2. QED
      BY <2>1, <3>1 DEF Delivery!vars
  <2>4. CASE Archive(i)
    <3>1. /\ i \notin {j \in Items : forge[j].archived}
          /\ \A j \in Items : forge'[j].archived <=> forge[j].archived \/ j = i
      BY <2>2, <2>4 DEF Archive
    <3>2. {j \in Items : forge'[j].archived} = {j \in Items : forge[j].archived} \cup {i}
      BY <3>1
    <3>3. Delivery!Exempt
      BY <2>1, <3>1, <3>2 DEF Delivery!Exempt
    <3>4. QED
      BY <3>3 DEF Delivery!Next
  <2>5. QED
    BY <1>4, <2>3, <2>4
<1>5. CASE UNCHANGED <<forge, feed, recorded, cursor>>
  BY <1>5 DEF Delivery!vars
<1>6. \/ \E i \in Items : Notify(i)
      \/ \E i \in Items : FlipState(i) \/ ChangeRoles(i) \/ Archive(i)
      \/ WriteEvents \/ SaveCursors
      \/ UNCHANGED <<forge, feed, recorded, cursor>>
  BY DEF Next, Forge, FlipState, ChangeRoles, Archive, ChangeItem, StartReconcile, StartPoll, Work,
         SearchScope, FetchPull, Fetched, Join, Joined, Reap, ResolveOpen, Failure, ProviderFails, StorageFails,
         ResolveOpenFails, SaveCursorsFails, Crash, Abandon, vars, durable
<1>7. QED
  BY <1>1, <1>2, <1>3, <1>4, <1>5, <1>6 DEF Delivery!Next

(* Whatever fails, a notification is acknowledged only once its signal is  *)
(* recorded (persist in cycle.go, the contract of FastPoll in sdk).        *)
THEOREM DeliveryTheorem == Spec => DeliveryImplemented
BY InitDelivers, NextDelivers, Invariance, PTL DEF Spec, Delivery!Spec, DeliveryImplemented
=============================================================================
