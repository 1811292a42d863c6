------------------------- MODULE GitLabProviderProofs -------------------------
(***************************************************************************)
(* Theorems about GitLabProvider, for any merge requests, reviewers and    *)
(* bounds.                                                                 *)
(***************************************************************************)
EXTENDS GitLabProvider, WellFoundedInduction, TLAPS

-----------------------------------------------------------------------------
(* Notes, verdicts and functions. *)

(* The newest of some positions of a sequence is one of them, and the last. *)
LEMMA NewestExists ==
  ASSUME NEW n \in Nat, NEW S \in SUBSET (1..n), S # {}
  PROVE  Newest(S) \in S /\ Newest(S) # 0 /\ \A j \in S : j <= Newest(S)
<1> DEFINE T == {n - k : k \in S}
           Below == OpToRel(<, Nat)
<1>1. PICK d \in T : \A e \in T : ~(<<e, d>> \in Below)
  <2>1. T \subseteq Nat /\ T # {}
    OBVIOUS
  <2>2. IsWellFoundedOn(Below, Nat)
    BY NatLessThanWellFounded
  <2> HIDE DEF T, Below
  <2> QED BY <2>1, <2>2, WFMin
<1>2. PICK k \in S : d = n - k
  OBVIOUS
<1>3. ASSUME NEW j \in S PROVE j <= k
  <2>1. n - j \in T /\ n - j \in Nat /\ d \in Nat
    BY <1>2
  <2>2. ~(n - j < d)
    BY <1>1, <2>1 DEF OpToRel
  <2> QED BY <1>2, <2>2
<1>4. Newest(S) \in S /\ \A j \in S : j <= Newest(S)
  <2> HIDE DEF T, Below
  <2> QED BY <1>3, Zenon DEF Newest
<1> QED BY <1>4

LEMMA NewestType ==
  ASSUME NEW n \in Nat, NEW S \in SUBSET (1..n)
  PROVE  Newest(S) \in Nat
<1>1. CASE S = {} BY <1>1 DEF Newest
<1>2. CASE S # {}
  <2>1. Newest(S) \in S BY <1>2, NewestExists
  <2>2. Newest(S) \in 1..n BY <2>1
  <2> QED BY <2>2
<1> QED BY <1>1, <1>2

(* What a reviewer is said to think is what a note of theirs says. *)
LEMMA VerdictHasNote ==
  ASSUME TypeOK, NEW m \in MRs, NEW r \in Reviewers
  PROVE  /\ VerdictOf(m, r) \in Verdicts \cup {"none"}
         /\ VerdictOf(m, r) # "none" =>
              \E k \in NotesOf(m, r) : notes[m][k].body = VerdictOf(m, r)
<1> DEFINE last == Newest(NotesOf(m, r))
<1>1. notes[m] \in Seq(Note) BY DEF TypeOK
<1>2. Len(notes[m]) \in Nat /\ NotesOf(m, r) \in SUBSET (1..Len(notes[m]))
  BY <1>1 DEF NotesOf
<1>3. CASE NotesOf(m, r) = {}
  BY <1>3 DEF VerdictOf, Newest
<1>4. CASE NotesOf(m, r) # {}
  <2>1. last \in NotesOf(m, r) /\ last # 0
    BY <1>2, <1>4, NewestExists
  <2>2. notes[m][last].body \in Verdicts \cup {"withdrawn"}
    <3>1. last \in 1..Len(notes[m]) BY <1>2, <2>1
    <3>2. notes[m][last] \in Note BY <1>1, <3>1
    <3> QED BY <3>2 DEF Note
  <2>3. VerdictOf(m, r) = IF notes[m][last].body = "withdrawn" THEN "none" ELSE notes[m][last].body
    BY <2>1 DEF VerdictOf
  <2> QED BY <2>1, <2>2, <2>3 DEF Verdicts
<1> QED BY <1>3, <1>4

-----------------------------------------------------------------------------
(* Type correctness. *)

(* What is still to be joined is in the result; or in the cache and was no *)
(* to-do's.                                                                *)
Phased ==
  /\ phase \in {"idle", "fetch", "refresh"} => ~refreshing /\ toJoin = {}
  /\ phase = "refresh" => DOMAIN earlier \subseteq covered
  /\ toJoin \subseteq IF refreshing THEN DOMAIN openSnapshots \ DOMAIN earlier
                                   ELSE DOMAIN events

LEMMA ObservedType ==
  ASSUME TypeOK, NEW m \in MRs, NEW gated \in BOOLEAN
  PROVE  /\ observedFromMR(m, gated) \in Snapshot
         /\ observedFromMR(m, gated).rest = forge[m].rest
         /\ observedFromMR(m, gated).open = forge[m].open
BY DEF TypeOK, MergeRequest, Snapshot, Roles, observedFromMR

(* A sweep's snapshot: with the role the scope it was listed in tells. *)
LEMMA ListedType ==
  ASSUME TypeOK, NEW m \in MRs, NEW gated \in BOOLEAN, forge[m].role # "none"
  PROVE  /\ [observedFromMR(m, gated) EXCEPT !.roles = {forge[m].role}] \in Snapshot
         /\ [observedFromMR(m, gated) EXCEPT !.roles = {forge[m].role}].rest = forge[m].rest
         /\ [observedFromMR(m, gated) EXCEPT !.roles = {forge[m].role}].open = forge[m].open
<1>1. {forge[m].role} \in SUBSET Roles
  BY DEF TypeOK, MergeRequest
<1> QED BY <1>1, ObservedType DEF observedFromMR, Snapshot

(* h is f after m was joined: the same snapshots, but for the enrichment   *)
(* and the gate of m, which is known if the cache has it.                  *)
JoinedBy(f, h, m) ==
  /\ DOMAIN h = DOMAIN f /\ h \in [DOMAIN f -> Snapshot]
  /\ \A n \in DOMAIN f : h[n].rest = f[n].rest /\ h[n].open = f[n].open
  /\ \A n \in DOMAIN f \ {m} : h[n] = f[n]
  /\ m \in DOMAIN f /\ f[m].open /\ m \in DOMAIN openSnapshots /\ openSnapshots[m].gated
       => h[m].gated

LEMMA EnrichedType ==
  ASSUME NEW pl \in Snapshot, NEW graph \in Nat \cup {-1}
  PROVE  /\ [pl EXCEPT !.graph = graph] \in Snapshot
         /\ [pl EXCEPT !.graph = graph].rest = pl.rest
         /\ [pl EXCEPT !.graph = graph].open = pl.open
         /\ [pl EXCEPT !.graph = graph].gated = pl.gated
BY DEF Snapshot

LEMMA EnrichedFunctionType ==
  ASSUME NEW f, f \in [DOMAIN f -> Snapshot], NEW m, NEW graph \in Nat \cup {-1}
  PROVE  /\ DOMAIN WithGraph(f, m, graph) = DOMAIN f
         /\ WithGraph(f, m, graph) \in [DOMAIN f -> Snapshot]
         /\ \A n \in DOMAIN f :
              WithGraph(f, m, graph)[n] = IF n = m THEN [f[n] EXCEPT !.graph = graph] ELSE f[n]
<1>1. CASE m \notin DOMAIN f
  BY <1>1 DEF WithGraph
<1>2. CASE m \in DOMAIN f
  <2>1. WithGraph(f, m, graph) = [f EXCEPT ![m] = [f[m] EXCEPT !.graph = graph]]
    BY <1>2 DEF WithGraph
  <2>2. [f[m] EXCEPT !.graph = graph] \in Snapshot
    BY <1>2, EnrichedType
  <2> QED BY <1>2, <2>1, <2>2
<1> QED BY <1>1, <1>2

LEMMA CarriedType ==
  ASSUME TypeOK, NEW f, f \in [DOMAIN f -> Snapshot], NEW m \in MRs
  PROVE  /\ DOMAIN carryForwardGate(f, m) = DOMAIN f
         /\ carryForwardGate(f, m) \in [DOMAIN f -> Snapshot]
         /\ \A n \in DOMAIN f :
              /\ carryForwardGate(f, m)[n].rest = f[n].rest
              /\ carryForwardGate(f, m)[n].open = f[n].open
              /\ carryForwardGate(f, m)[n].graph = f[n].graph
              /\ n # m => carryForwardGate(f, m)[n] = f[n]
         /\ m \in DOMAIN f /\ f[m].open /\ m \in DOMAIN openSnapshots /\ openSnapshots[m].gated
              => carryForwardGate(f, m)[m].gated
<1>1. CASE m \notin DOMAIN f \cap DOMAIN openSnapshots
  BY <1>1 DEF carryForwardGate
<1>2. CASE m \in DOMAIN f \cap DOMAIN openSnapshots
  <2>1. PICK gate : gate = (f[m].gated \/ (f[m].open /\ openSnapshots[m].gated))
    OBVIOUS
  <2>2. carryForwardGate(f, m) = [f EXCEPT ![m] = [f[m] EXCEPT !.gated = gate]]
    BY <1>2, <2>1 DEF carryForwardGate
  <2>3. /\ f[m] \in Snapshot /\ gate \in BOOLEAN
        /\ f[m].open /\ openSnapshots[m].gated => gate
    BY <1>2, <2>1 DEF TypeOK, Snapshot
  <2>4. /\ [f[m] EXCEPT !.gated = gate] \in Snapshot
        /\ [f[m] EXCEPT !.gated = gate].rest = f[m].rest
        /\ [f[m] EXCEPT !.gated = gate].open = f[m].open
        /\ [f[m] EXCEPT !.gated = gate].graph = f[m].graph
        /\ [f[m] EXCEPT !.gated = gate].gated = gate
    BY <2>3 DEF Snapshot
  <2> QED BY <1>2, <2>2, <2>3, <2>4
<1> QED BY <1>1, <1>2

LEMMA JoinedType ==
  ASSUME TypeOK, NEW f, f \in [DOMAIN f -> Snapshot], NEW m \in MRs, NEW g \in Nat \cup {-1},
         NEW h, h = carryForwardGate(WithGraph(f, m, g), m)
  PROVE  JoinedBy(f, h, m) /\ (m \in DOMAIN f => h[m].graph = g)
<1> DEFINE w == WithGraph(f, m, g)
<1>1. /\ DOMAIN w = DOMAIN f /\ w \in [DOMAIN f -> Snapshot]
      /\ \A n \in DOMAIN f : w[n] = IF n = m THEN [f[n] EXCEPT !.graph = g] ELSE f[n]
  BY EnrichedFunctionType
<1>2. \A n \in DOMAIN f : f[n] \in Snapshot
  OBVIOUS
<1>3. \A n \in DOMAIN f : w[n].rest = f[n].rest /\ w[n].open = f[n].open
                         /\ (n = m => w[n].graph = g)
  BY <1>1, <1>2, EnrichedType DEF Snapshot
<1> HIDE DEF w
<1>4. h = carryForwardGate(w, m)
  BY DEF w
<1> QED BY <1>1, <1>3, <1>4, CarriedType DEF JoinedBy

LEMMA JoinedResult ==
  ASSUME TypeOK, NEW m \in MRs, Enrich(m) \/ Carry(m)
  PROVE  JoinedBy(events, events', m) /\ JoinedBy(earlier, earlier', m)
<1>1. events \in [DOMAIN events -> Snapshot] /\ earlier \in [DOMAIN earlier -> Snapshot]
  BY DEF TypeOK
<1>2. PICK e, h : e = events' /\ h = earlier'
  OBVIOUS
<1>3. ASSUME NEW g \in Nat \cup {-1},
             e = carryForwardGate(WithGraph(events, m, g), m),
             h = carryForwardGate(WithGraph(earlier, m, g), m)
      PROVE  JoinedBy(events, e, m) /\ JoinedBy(earlier, h, m)
  BY <1>1, <1>3, JoinedType
<1>4. CASE Enrich(m)
  <2>1. nodes[m].graph \in Nat
    BY <1>4 DEF Enrich, Answered, TypeOK, Answer
  <2> QED BY <1>2, <1>3, <1>4, <2>1 DEF Enrich
<1>5. CASE Carry(m) /\ m \in DOMAIN openSnapshots
  <2>1. openSnapshots[m].graph \in Nat \cup {-1}
    BY <1>5 DEF TypeOK, Snapshot
  <2> QED BY <1>2, <1>3, <1>5, <2>1 DEF Carry
<1>6. CASE Carry(m) /\ m \notin DOMAIN openSnapshots
  BY <1>1, <1>6 DEF Carry, JoinedBy
<1> QED BY <1>4, <1>5, <1>6

LEMMA AnswerType ==
  ASSUME TypeOK, NEW m \in MRs
  PROVE  AnswerOf(m) \in Answer
<1>1. [r \in Reviewers |-> VerdictOf(m, r)] \in Verdict
  BY VerdictHasNote DEF Verdict
<1>2. Len(notes[m]) \in Nat
  BY DEF TypeOK
<1> QED BY <1>1, <1>2 DEF AnswerOf, Answer, TypeOK, MergeRequest

LEMMA AnswersType ==
  ASSUME TypeOK, NEW asked \in SUBSET MRs, NEW answered \in SUBSET asked,
         runMRBatches(asked, answered)
  PROVE  /\ DOMAIN nodes' = answered
         /\ nodes' \in [DOMAIN nodes' -> Answer] /\ faults' \in Nat
BY AnswerType DEF runMRBatches, SpendFault, TypeOK

LEMMA KeptType ==
  ASSUME TypeOK, NEW m \in DOMAIN nodes, m \in DOMAIN verdictBaseline
  PROVE  Kept(m) \in Verdict
BY DEF TypeOK, Kept, Verdict

LEMMA OweType ==
  ASSUME TypeOK, NEW m \in DOMAIN nodes, NEW settled, Owe(m, settled)
  PROVE  owed' \subseteq [mr : MRs, by : Reviewers, body : Verdicts]
<1>1. m \in MRs /\ nodes[m].verdicts \in Verdict
  BY DEF TypeOK, Answer
<1>2. \A r \in changedVerdicts(m) : r \in Reviewers /\ nodes[m].verdicts[r] \in Verdicts
  BY <1>1 DEF changedVerdicts, Verdict
<1> QED BY <1>1, <1>2 DEF Owe, TypeOK

LEMMA MatchedType ==
  ASSUME TypeOK, NEW m \in MRs, NEW r
  PROVE  MatchedNote(m, r) \in Nat
<1> DEFINE S == {k \in NotesOf(m, r) : notes[m][k].body = nodes[m].verdicts[r]}
<1>1. Len(notes[m]) \in Nat /\ S \in SUBSET (1..Len(notes[m]))
  BY DEF TypeOK, NotesOf
<1>2. Newest(S) \in Nat
  <2> HIDE DEF S
  <2> QED BY <1>1, NewestType
<1> QED BY <1>2 DEF MatchedNote

LEMMA EmitType ==
  ASSUME TypeOK, NEW m \in DOMAIN nodes, emitNewVerdictSignals(m)
  PROVE  /\ DOMAIN verdictBaseline' \subseteq MRs
         /\ verdictBaseline' \in [DOMAIN verdictBaseline' -> Verdict]
         /\ firstSight' \in [DOMAIN verdictBaseline' -> Nat]
         /\ emitted' \subseteq Signal
         /\ owed' \subseteq [mr : MRs, by : Reviewers, body : Verdicts]
         /\ faults' \in Nat
<1>1. m \in MRs /\ nodes[m].verdicts \in Verdict /\ nodes[m].seen \in Nat
  BY DEF TypeOK, Answer
<1>2. CASE FirstSightOf(m)
  <2>1. DOMAIN firstSight = DOMAIN verdictBaseline
    BY DEF TypeOK
  <2>2. /\ DOMAIN verdictBaseline' = DOMAIN verdictBaseline \cup {m}
        /\ verdictBaseline' \in [DOMAIN verdictBaseline' -> Verdict]
    BY <1>1, <1>2 DEF FirstSightOf, TypeOK, Put
  <2>3. /\ DOMAIN firstSight' = DOMAIN firstSight \cup {m}
        /\ firstSight' \in [DOMAIN firstSight' -> Nat]
    BY <1>1, <1>2, <2>1 DEF FirstSightOf, TypeOK, Put
  <2> QED BY <1>1, <1>2, <2>1, <2>2, <2>3 DEF FirstSightOf, TypeOK
<1>3. ASSUME m \in DOMAIN verdictBaseline, UNCHANGED firstSight,
             NEW v \in Verdict, verdictBaseline' = Put(verdictBaseline, m, v)
      PROVE  /\ DOMAIN verdictBaseline' \subseteq MRs
             /\ verdictBaseline' \in [DOMAIN verdictBaseline' -> Verdict]
             /\ firstSight' \in [DOMAIN verdictBaseline' -> Nat]
  <2>1. /\ DOMAIN verdictBaseline' = DOMAIN verdictBaseline \cup {m}
        /\ verdictBaseline' \in [DOMAIN verdictBaseline' -> Verdict]
    BY <1>1, <1>3 DEF TypeOK, Put
  <2>2. DOMAIN verdictBaseline \subseteq MRs /\ firstSight \in [DOMAIN verdictBaseline -> Nat]
    BY DEF TypeOK
  <2> QED BY <1>1, <1>3, <2>1, <2>2
<1>4. CASE NoChange(m) \/ NotesFail(m)
  <2>1. /\ m \in DOMAIN verdictBaseline /\ UNCHANGED <<emitted, firstSight>>
        /\ verdictBaseline' = Put(verdictBaseline, m, Kept(m)) /\ Owe(m, {})
        /\ UNCHANGED faults \/ SpendFault
    BY <1>4 DEF NoChange, NotesFail
  <2>2. /\ DOMAIN verdictBaseline' \subseteq MRs
        /\ verdictBaseline' \in [DOMAIN verdictBaseline' -> Verdict]
        /\ firstSight' \in [DOMAIN verdictBaseline' -> Nat]
    BY <1>3, <2>1, KeptType
  <2>3. owed' \subseteq [mr : MRs, by : Reviewers, body : Verdicts]
    BY <2>1, OweType
  <2>4. emitted' \subseteq Signal /\ faults' \in Nat
    BY <2>1 DEF SpendFault, TypeOK
  <2> QED BY <2>2, <2>3, <2>4
<1>5. CASE NotesRead(m)
  <2>1. PICK buried \in SUBSET changedVerdicts(m) :
          /\ UNCHANGED faults \/ SpendFault
          /\ emitted' = emitted \cup
               {[mr |-> m, note |-> MatchedNote(m, r)] : r \in changedVerdicts(m) \ buried}
          /\ Owe(m, buried)
    BY <1>5 DEF NotesRead
  <2>2. emitted' \subseteq Signal
    <3>1. \A r : [mr |-> m, note |-> MatchedNote(m, r)] \in Signal
      BY <1>1, MatchedType DEF Signal
    <3> QED BY <2>1, <3>1 DEF TypeOK
  <2>3. faults' \in Nat
    BY <2>1 DEF SpendFault, TypeOK
  <2> QED BY <1>1, <1>3, <1>5, <2>1, <2>2, <2>3, OweType DEF NotesRead
<1> QED BY <1>2, <1>4, <1>5 DEF emitNewVerdictSignals

LEMMA EvictType ==
  ASSUME TypeOK, NEW S \in SUBSET MRs, evict(S)
  PROVE  /\ DOMAIN openSnapshots' = DOMAIN openSnapshots \ S
         /\ openSnapshots' \in [DOMAIN openSnapshots' -> Snapshot]
         /\ \A n \in DOMAIN openSnapshots \ S : openSnapshots'[n] = openSnapshots[n]
         /\ forgot' \subseteq MRs /\ forgot' = forgot \cup (S \cap DOMAIN openSnapshots)
         /\ overtaken' \subseteq MRs /\ overtaken' = overtaken \ S
<1>1. openSnapshots \in [DOMAIN openSnapshots -> Snapshot] /\ DOMAIN openSnapshots \subseteq MRs
  BY DEF TypeOK
<1>2. openSnapshots' = Without(openSnapshots, S)
  BY DEF evict
<1>3. /\ DOMAIN openSnapshots' = DOMAIN openSnapshots \ S
      /\ openSnapshots' \in [DOMAIN openSnapshots' -> Snapshot]
      /\ \A n \in DOMAIN openSnapshots \ S : openSnapshots'[n] = openSnapshots[n]
  BY <1>1, <1>2 DEF Without
<1> QED BY <1>3 DEF evict, TypeOK

LEMMA CacheType ==
  ASSUME TypeOK, cacheOpenSnapshots
  PROVE  /\ DOMAIN openSnapshots' = DOMAIN openSnapshots \cup OpenEvents
         /\ openSnapshots' \in [DOMAIN openSnapshots' -> Snapshot]
         /\ \A n \in OpenEvents : openSnapshots'[n] = LastOpen(n) /\ LastOpen(n).open
         /\ \A n \in DOMAIN openSnapshots \ OpenEvents : openSnapshots'[n] = openSnapshots[n]
         /\ OpenEvents \subseteq DOMAIN events /\ OpenEvents \subseteq MRs
         /\ forgot' \subseteq MRs /\ overtaken' \subseteq MRs
<1>1. /\ ClosedMeanwhile \subseteq DOMAIN earlier /\ GateInDoubt \subseteq DOMAIN earlier
      /\ DOMAIN earlier \subseteq DOMAIN events /\ DOMAIN events \subseteq MRs
  BY DEF ClosedMeanwhile, GateInDoubt, TypeOK
<1>2. OpenEvents \subseteq DOMAIN events /\ OpenEvents \subseteq MRs
  BY <1>1 DEF OpenEvents
<1>3. \A n \in OpenEvents : LastOpen(n) \in Snapshot /\ LastOpen(n).open
  BY <1>1 DEF OpenEvents, LastOpen, ClosedMeanwhile, TypeOK
<1>4. forgot' \subseteq MRs /\ overtaken' \subseteq MRs
  BY <1>1 DEF cacheOpenSnapshots, TypeOK
<1> QED BY <1>2, <1>3, <1>4 DEF cacheOpenSnapshots, TypeOK

LEMMA WritesType ==
  ASSUME TypeOK, NEW m \in MRs, NEW gone
  PROVE  Extended(m, gone) \in Seq([kind : {"observed"}, fact : Snapshot, salt : Nat]
                                     \cup [kind : {"removed"}, supersedes : Nat])
<1> DEFINE Row == [kind : {"observed"}, fact : Snapshot, salt : Nat]
                   \cup [kind : {"removed"}, supersedes : Nat]
<1>1. log[m] \in Seq(Row) /\ Len(log[m]) \in Nat
  BY DEF TypeOK
<1>2. ResurrectionSalt(log[m]) \in Nat /\ Removed(Len(log[m])) \in Row
  BY <1>1 DEF ResurrectionSalt, Removed
<1>3. ASSUME NEW fact \in Snapshot, NEW salt \in Nat
      PROVE  Observed(fact, salt) \in Row
  BY DEF Observed
<1>4. ASSUME NEW past \in Seq(Row), NEW row \in Row
      PROVE  InsertOrIgnore(past, row) \in Seq(Row)
  <2> HIDE DEF Row
  <2> QED BY DEF InsertOrIgnore
<1> HIDE DEF Row
<1>5. WithEarlier(m) \in Seq(Row)
  BY <1>1, <1>3, <1>4 DEF WithEarlier, TypeOK
<1>6. ASSUME m \in DOMAIN events PROVE Inserted(m) \in Seq(Row)
  <2>1. (IF sweep THEN ResurrectionSalt(log[m]) ELSE 0) \in Nat /\ events[m] \in Snapshot
    BY <1>2, <1>6 DEF TypeOK
  <2> QED BY <1>3, <1>4, <1>5, <2>1 DEF Inserted
<1>7. Extended(m, gone) \in Seq(Row)
  BY <1>1, <1>2, <1>4, <1>6 DEF Extended
<1> QED BY <1>7 DEF Row

LEMMA NothingType ==
  ASSUME NEW V
  PROVE  DOMAIN Nothing = {} /\ Nothing \in [DOMAIN Nothing -> V]
BY DEF Nothing

LEMMA IdleType ==
  ASSUME EndCycle
  PROVE  /\ DOMAIN events' \subseteq MRs /\ events' \in [DOMAIN events' -> Snapshot]
         /\ DOMAIN earlier' \subseteq DOMAIN events' /\ earlier' \in [DOMAIN earlier' -> Snapshot]
         /\ DOMAIN nodes' \subseteq MRs /\ nodes' \in [DOMAIN nodes' -> Answer]
         /\ phase' \in {"idle", "fetch", "join", "refresh", "store"}
         /\ sweep' \in BOOLEAN /\ refreshing' \in BOOLEAN
         /\ toRead' \subseteq MRs /\ covered' \subseteq MRs /\ toJoin' \subseteq MRs
         /\ emitted' \subseteq Signal
BY NothingType DEF EndCycle

LEMMA ForgeType ==
  ASSUME TypeOK, NEW m \in MRs
  PROVE  /\ forge[m] \in MergeRequest
         /\ forge[m].rest \in Nat /\ forge[m].rest + 1 \in Nat
         /\ forge[m].graph \in Nat /\ forge[m].graph + 1 \in Nat
<1>1. forge[m].rest \in Nat /\ forge[m].graph \in Nat
  BY DEF TypeOK, MergeRequest
<1> QED BY <1>1 DEF TypeOK

LEMMA InitTypeOK == Init => TypeOK
<1> SUFFICES ASSUME Init PROVE TypeOK
  OBVIOUS
<1>1. forge \in [MRs -> MergeRequest]
  BY DEF Init, MergeRequest, Roles
<1>2. /\ DOMAIN openSnapshots \subseteq MRs /\ openSnapshots \in [DOMAIN openSnapshots -> Snapshot]
      /\ DOMAIN verdictBaseline \subseteq MRs
      /\ verdictBaseline \in [DOMAIN verdictBaseline -> Verdict]
      /\ firstSight \in [DOMAIN verdictBaseline -> Nat]
      /\ DOMAIN events \subseteq MRs /\ events \in [DOMAIN events -> Snapshot]
      /\ DOMAIN earlier \subseteq DOMAIN events /\ earlier \in [DOMAIN earlier -> Snapshot]
      /\ DOMAIN nodes \subseteq MRs /\ nodes \in [DOMAIN nodes -> Answer]
  BY NothingType DEF Init
<1>3. notes \in [MRs -> Seq(Note)]
  BY DEF Init
<1>4. log \in [MRs -> Seq([kind : {"observed"}, fact : Snapshot, salt : Nat]
                           \cup [kind : {"removed"}, supersedes : Nat])]
  BY DEF Init
<1>5. /\ phase \in {"idle", "fetch", "join", "refresh", "store"}
      /\ sweep \in BOOLEAN /\ refreshing \in BOOLEAN
      /\ toRead \subseteq MRs /\ covered \subseteq MRs /\ toJoin \subseteq MRs
      /\ signals \subseteq Signal /\ emitted \subseteq Signal
      /\ owed \subseteq [mr : MRs, by : Reviewers, body : Verdicts] /\ forgot \subseteq MRs
      /\ overtaken \subseteq MRs /\ changes \in Nat /\ faults \in Nat
  BY DEF Init
<1> QED BY <1>1, <1>2, <1>3, <1>4, <1>5 DEF TypeOK

LEMMA NextTypeOK == TypeOK /\ Phased /\ [Next]_vars => TypeOK'
<1> SUFFICES ASSUME TypeOK, Phased, [Next]_vars PROVE TypeOK'
  OBVIOUS
<1> USE DEF durable, memory, cycle, history
<1>1. CASE UNCHANGED vars
  BY <1>1 DEF vars, TypeOK
<1>2. ASSUME NEW m \in MRs, Edit(m) PROVE TypeOK'
  <2>1. forge' \in [MRs -> MergeRequest]
    <3>1. PICK open \in BOOLEAN, role \in Roles \cup {"none"} :
            forge' = [forge EXCEPT ![m] = [forge[m] EXCEPT !.rest = forge[m].rest + 1,
                                                           !.open = open, !.role = role]]
      BY <1>2 DEF Edit, Roles
    <3>2. [forge[m] EXCEPT !.rest = forge[m].rest + 1, !.open = open, !.role = role]
            \in MergeRequest
      BY <1>2, ForgeType DEF MergeRequest
    <3> QED BY <3>1, <3>2 DEF TypeOK
  <2> QED BY <1>2, <2>1 DEF Edit, Change, TypeOK
<1>21. ASSUME NEW m \in MRs, MembersChange(m) PROVE TypeOK'
  <2>1. forge' \in [MRs -> MergeRequest]
    <3>1. PICK role \in Roles \cup {"none"} :
            forge' = [forge EXCEPT ![m] = [forge[m] EXCEPT !.role = role]]
      BY <1>21 DEF MembersChange, Roles, TypeOK
    <3>2. [forge[m] EXCEPT !.role = role] \in MergeRequest
      BY <1>21, ForgeType DEF MergeRequest
    <3> QED BY <3>1, <3>2 DEF TypeOK
  <2> QED BY <1>21, <2>1 DEF MembersChange, Change, TypeOK
<1>3. ASSUME NEW m \in MRs, PipelineMoves(m) PROVE TypeOK'
  <2>1. forge' \in [MRs -> MergeRequest]
    BY <1>3, ForgeType DEF PipelineMoves, MergeRequest, TypeOK
  <2> QED BY <1>3, <2>1 DEF PipelineMoves, Change, TypeOK
<1>4. ASSUME NEW m \in MRs, Archive(m) PROVE TypeOK'
  <2>1. forge' \in [MRs -> MergeRequest]
    BY <1>4 DEF Archive, MergeRequest, TypeOK
  <2> QED BY <1>4, <2>1 DEF Archive, Change, TypeOK
<1>5. ASSUME NEW m \in MRs, Review(m) PROVE TypeOK'
  <2>1. forge' \in [MRs -> MergeRequest]
    <3>1. forge' = [forge EXCEPT ![m] = [forge[m] EXCEPT !.rest = forge[m].rest + 1,
                                                         !.graph = forge[m].graph + 1]]
      BY <1>5 DEF Review
    <3>2. [forge[m] EXCEPT !.rest = forge[m].rest + 1, !.graph = forge[m].graph + 1]
            \in MergeRequest
      BY <1>5, ForgeType DEF MergeRequest
    <3> QED BY <3>1, <3>2 DEF TypeOK
  <2>2. PICK note \in Note : notes' = [notes EXCEPT ![m] = Append(@, note)]
    BY <1>5 DEF Review
  <2>3. notes' \in [MRs -> Seq(Note)]
    BY <2>2 DEF TypeOK
  <2> QED BY <1>5, <2>1, <2>3 DEF Review, Change, TypeOK
<1>6. CASE Reconcile \/ FastPoll
  <2>1. PICK isSweep \in BOOLEAN, listed \in SUBSET MRs : Start(isSweep, listed)
    BY <1>6 DEF Reconcile, FastPoll
  <2> QED BY <2>1 DEF Start, TypeOK
<1>7. CASE ProviderFails \/ StorageFails
  <2>1. Abandon /\ EndCycle
    BY <1>7 DEF ProviderFails, StorageFails, Abandon
  <2>2. owed' \subseteq owed /\ faults' \in Nat
    BY <2>1 DEF Abandon, SpendFault, TypeOK
  <2> QED BY <1>7, <2>1, <2>2, IdleType DEF ProviderFails, StorageFails, TypeOK
<1>8. CASE Crash
  <2>1. EndCycle BY <1>8 DEF Crash
  <2>2. /\ DOMAIN openSnapshots' \subseteq MRs
        /\ openSnapshots' \in [DOMAIN openSnapshots' -> Snapshot]
        /\ DOMAIN verdictBaseline' \subseteq MRs
        /\ verdictBaseline' \in [DOMAIN verdictBaseline' -> Verdict]
        /\ firstSight' \in [DOMAIN verdictBaseline' -> Nat]
    BY <1>8, NothingType DEF Crash
  <2>3. owed' = {} /\ forgot' = MRs /\ faults' \in Nat
    BY <1>8 DEF Crash, SpendFault, TypeOK
  <2> QED BY <1>8, <2>1, <2>2, <2>3, IdleType DEF Crash, TypeOK
<1>9. ASSUME NEW m \in MRs, fetchScopeMRs(m) PROVE TypeOK'
  <2>1. events' = events \/ \E v \in Snapshot : events' = Put(events, m, v)
    BY <1>9, ListedType DEF fetchScopeMRs
  <2>2. /\ DOMAIN events \subseteq DOMAIN events'
        /\ DOMAIN events' \subseteq MRs /\ events' \in [DOMAIN events' -> Snapshot]
    BY <2>1 DEF TypeOK, Put
  <2>3. UNCHANGED faults \/ SpendFault
    BY <1>9 DEF fetchScopeMRs, Gate
  <2>4. faults' \in Nat
    BY <2>3 DEF SpendFault, TypeOK
  <2> QED BY <1>9, <2>2, <2>4 DEF fetchScopeMRs, Read, Fetching, TypeOK
<1>10. ASSUME NEW m \in MRs, fetchMR(m) \/ fetchMRAgain(m) PROVE TypeOK'
  <2>1. PICK gated \in BOOLEAN : Gate(gated) /\ events' = Put(events, m, observedFromMR(m, gated))
    BY <1>10 DEF fetchMR, fetchMRAgain, Todo
  <2>2. /\ DOMAIN events' = DOMAIN events \cup {m}
        /\ DOMAIN events' \subseteq MRs /\ events' \in [DOMAIN events' -> Snapshot]
    BY <2>1, ObservedType DEF TypeOK, Put
  <2>3. faults' \in Nat
    BY <2>1 DEF Gate, SpendFault, TypeOK
  <2>4. PICK S \in SUBSET MRs : evict(S)
    BY <1>10 DEF fetchMR, fetchMRAgain, Todo
  <2>5. toRead' \subseteq MRs /\ Fetching
    BY <1>10 DEF fetchMR, fetchMRAgain, Read, TypeOK
  <2>6. DOMAIN earlier' \subseteq DOMAIN events' /\ earlier' \in [DOMAIN earlier' -> Snapshot]
    BY <1>10, <2>2 DEF fetchMR, fetchMRAgain, Read, Put, TypeOK
  <2> QED BY <2>2, <2>3, <2>4, <2>5, <2>6, EvictType DEF Fetching, TypeOK
<1>11. CASE AskForJoin
  <2>1. PICK answered \in SUBSET DOMAIN events : runMRBatches(DOMAIN events, answered)
    BY <1>11 DEF AskForJoin
  <2>2. DOMAIN events \in SUBSET MRs
    BY DEF TypeOK
  <2>3. DOMAIN nodes' = answered /\ nodes' \in [DOMAIN nodes' -> Answer] /\ faults' \in Nat
    BY <2>1, <2>2, AnswersType
  <2>4. toJoin' \subseteq MRs /\ forgot' \subseteq MRs
    BY <1>11, <2>2 DEF AskForJoin, Joining, TypeOK
  <2> QED BY <1>11, <2>2, <2>3, <2>4 DEF AskForJoin, Joining, TypeOK
<1>12. CASE AskForRefresh
  <2>1. PICK answered \in SUBSET (DOMAIN openSnapshots \ covered) :
          runMRBatches(DOMAIN openSnapshots \ covered, answered) /\ Joining(answered)
    BY <1>12 DEF AskForRefresh
  <2>2. DOMAIN openSnapshots \ covered \in SUBSET MRs
    BY DEF TypeOK
  <2>3. DOMAIN nodes' = answered /\ nodes' \in [DOMAIN nodes' -> Answer] /\ faults' \in Nat
    BY <2>1, <2>2, AnswersType
  <2> QED BY <1>12, <2>1, <2>2, <2>3 DEF AskForRefresh, Joining, TypeOK
<1>13. ASSUME NEW m \in MRs, DropArchived(m) PROVE TypeOK'
  <2>1. /\ DOMAIN events' \subseteq MRs /\ events' \in [DOMAIN events' -> Snapshot]
        /\ DOMAIN earlier' \subseteq DOMAIN events' /\ earlier' \in [DOMAIN earlier' -> Snapshot]
    BY <1>13 DEF DropArchived, TypeOK, Without
  <2>2. evict({m}) /\ {m} \in SUBSET MRs
    BY <1>13 DEF DropArchived
  <2>3. /\ DOMAIN openSnapshots' \subseteq MRs
        /\ openSnapshots' \in [DOMAIN openSnapshots' -> Snapshot]
        /\ forgot' \subseteq MRs /\ overtaken' \subseteq MRs
    <3>1. DOMAIN openSnapshots \subseteq MRs
      BY DEF TypeOK
    <3> QED BY <2>2, <3>1, EvictType
  <2>4. JoinStep(m) /\ NoVerdicts
    BY <1>13 DEF DropArchived
  <2> QED BY <2>1, <2>3, <2>4 DEF JoinStep, NoVerdicts, TypeOK
<1>14. ASSUME NEW m \in MRs, JoinStep(m), UNCHANGED <<openSnapshots, forgot, overtaken>>,
              DOMAIN events' \subseteq MRs, events' \in [DOMAIN events' -> Snapshot],
              DOMAIN earlier' \subseteq DOMAIN events',
              earlier' \in [DOMAIN earlier' -> Snapshot],
              NoVerdicts \/ (m \in DOMAIN nodes /\ emitNewVerdictSignals(m))
       PROVE  TypeOK'
  <2>1. CASE NoVerdicts
    BY <1>14, <2>1 DEF NoVerdicts, JoinStep, TypeOK
  <2>2. CASE m \in DOMAIN nodes /\ emitNewVerdictSignals(m)
    BY <1>14, <2>2, EmitType DEF JoinStep, TypeOK
  <2> QED BY <1>14, <2>1, <2>2
<1>15. ASSUME NEW m \in MRs, Enrich(m) \/ Carry(m) PROVE TypeOK'
  <2>1. JoinedBy(events, events', m) /\ JoinedBy(earlier, earlier', m)
    BY <1>15, JoinedResult
  <2>2. /\ DOMAIN events' \subseteq MRs /\ events' \in [DOMAIN events' -> Snapshot]
        /\ DOMAIN earlier' \subseteq DOMAIN events' /\ earlier' \in [DOMAIN earlier' -> Snapshot]
    BY <2>1 DEF JoinedBy, TypeOK
  <2>3. /\ JoinStep(m) /\ UNCHANGED <<openSnapshots, forgot, overtaken>>
        /\ NoVerdicts \/ (m \in DOMAIN nodes /\ emitNewVerdictSignals(m))
    BY <1>15 DEF Enrich, Carry, Answered
  <2> QED BY <1>14, <2>2, <2>3
<1>17. ASSUME NEW m \in MRs, Refresh(m) PROVE TypeOK'
  <2>1. m \in DOMAIN openSnapshots /\ openSnapshots[m] \in Snapshot /\ nodes[m].graph \in Nat
    BY <1>17 DEF Refresh, JoinStep, Answered, Phased, TypeOK, Answer
  <2>2. [openSnapshots[m] EXCEPT !.graph = nodes[m].graph] \in Snapshot
    BY <2>1, EnrichedType
  <2>3. /\ JoinStep(m) /\ m \in DOMAIN nodes
        /\ UNCHANGED <<earlier, openSnapshots, forgot, overtaken>>
        /\ emitNewVerdictSignals(m)
        /\ events' = Put(events, m, [openSnapshots[m] EXCEPT !.graph = nodes[m].graph])
    BY <1>17 DEF Refresh, Answered
  <2>4. /\ DOMAIN events' \subseteq MRs /\ events' \in [DOMAIN events' -> Snapshot]
        /\ DOMAIN earlier' \subseteq DOMAIN events' /\ earlier' \in [DOMAIN earlier' -> Snapshot]
    BY <1>17, <2>2, <2>3 DEF TypeOK, Put
  <2> QED BY <1>14, <1>17, <2>3, <2>4
<1>18. CASE Joined
  <2>1. cacheOpenSnapshots BY <1>18 DEF Joined
  <2>2. phase' \in {"store", "refresh"} /\ covered' \subseteq MRs
    BY <1>18 DEF Joined, TypeOK
  <2> QED BY <1>18, <2>1, <2>2, CacheType DEF Joined, TypeOK
<1>19. CASE Refreshed
  BY <1>19 DEF Refreshed, TypeOK
<1>20. CASE WriteEvents
  <2>1. PICK gone : log' = [m \in MRs |-> Extended(m, gone)]
    BY <1>20 DEF WriteEvents
  <2>2. log' \in [MRs -> Seq([kind : {"observed"}, fact : Snapshot, salt : Nat]
                             \cup [kind : {"removed"}, supersedes : Nat])]
    BY <2>1, WritesType
  <2>3. EndCycle /\ signals' \subseteq Signal /\ owed' \subseteq owed
    BY <1>20 DEF WriteEvents, TypeOK
  <2>4. faults' \in Nat
    BY <1>20 DEF WriteEvents, SpendFault, TypeOK
  <2> QED BY <1>20, <2>2, <2>3, <2>4, IdleType DEF WriteEvents, TypeOK
<1> QED
  BY <1>1, <1>2, <1>3, <1>4, <1>5, <1>6, <1>7, <1>8, <1>9, <1>10, <1>11, <1>12, <1>13, <1>15,
     <1>17, <1>18, <1>19, <1>20, <1>21, Zenon
  DEF Next, Forge, Work

LEMMA NextPhased == TypeOK /\ Phased /\ [Next]_vars => Phased'
<1> SUFFICES ASSUME TypeOK, Phased, [Next]_vars PROVE Phased'
  OBVIOUS
<1> USE DEF durable, memory, cycle, history
<1>1. CASE UNCHANGED vars \/ Forge
  <2>1. UNCHANGED <<phase, refreshing, toJoin, events, earlier, covered, openSnapshots>>
    BY <1>1 DEF vars, Forge, Edit, MembersChange, PipelineMoves, Archive, Review, Change
  <2> QED BY <2>1 DEF Phased
<1>2. CASE EndCycle
  BY <1>2 DEF EndCycle, Phased
<1>3. CASE Reconcile \/ FastPoll
  BY <1>3 DEF Reconcile, FastPoll, Start, Phased
<1>4. CASE Fetching
  BY <1>4 DEF Fetching, Phased
<1>5. CASE AskForJoin
  BY <1>5 DEF AskForJoin, Joining, Phased
<1>6. CASE AskForRefresh
  BY <1>6 DEF AskForRefresh, Joining, Phased
<1>7. ASSUME NEW m \in MRs, DropArchived(m) PROVE Phased'
  BY <1>7 DEF DropArchived, JoinStep, evict, Without, Phased, TypeOK
<1>8. ASSUME NEW m \in MRs, JoinStep(m), UNCHANGED openSnapshots,
             DOMAIN events \subseteq DOMAIN events', DOMAIN earlier' = DOMAIN earlier
      PROVE  Phased'
  BY <1>8 DEF JoinStep, Phased
<1>9. ASSUME NEW m \in MRs, Enrich(m) \/ Carry(m) \/ Refresh(m) PROVE Phased'
  <2>1. DOMAIN events \subseteq DOMAIN events' /\ DOMAIN earlier' = DOMAIN earlier
    BY <1>9, JoinedResult DEF JoinedBy, Refresh, Put
  <2>2. JoinStep(m) /\ UNCHANGED openSnapshots
    BY <1>9 DEF Enrich, Carry, Refresh
  <2> QED BY <1>8, <2>1, <2>2
<1>10. CASE Joined \/ Refreshed
  BY <1>10 DEF Joined, Refreshed, Phased, TypeOK
<1> QED
  BY <1>1, <1>2, <1>3, <1>4, <1>5, <1>6, <1>7, <1>9, <1>10, Zenon
  DEF Next, Work, fetchScopeMRs, fetchMR, fetchMRAgain, Read, ProviderFails, StorageFails, Abandon,
      Crash, WriteEvents

(* The types of TypeOK (sdk types, provider.go) hold in every reachable    *)
(* state, for any merge requests, reviewers and bounds.                    *)
THEOREM TypeCorrect == Spec => []TypeOK
<1>1. Init => TypeOK /\ Phased
  BY InitTypeOK DEF Init, Phased
<1>2. TypeOK /\ Phased /\ [Next]_vars => (TypeOK /\ Phased)'
  BY NextTypeOK, NextPhased
<1> QED BY <1>1, <1>2, PTL DEF Spec

-----------------------------------------------------------------------------
(* The inductive invariant: what the log, the cache, the result and the    *)
(* forge know of a merge request.                                          *)

CacheOpen == \A m \in DOMAIN openSnapshots : openSnapshots[m].open

ClosedNotCached ==
  \A m \in DOMAIN events :
    ~events[m].open => m \notin DOMAIN openSnapshots \/ m \in overtaken

Observations(m) == IdsOf("observed", log[m])

(* Nothing is newer than the forge, nor the first read of a poll newer     *)
(* than the second.                                                        *)
BehindForge ==
  \A m \in MRs :
    /\ \A k \in Observations(m) : log[m][k].fact.rest <= forge[m].rest
    /\ m \in DOMAIN openSnapshots => openSnapshots[m].rest <= forge[m].rest
    /\ m \in DOMAIN events => events[m].rest <= forge[m].rest
    /\ m \in DOMAIN earlier => earlier[m].rest <= events[m].rest

(* No row is newer than what is cached, unless it is known to be           *)
(* overtaken, or than what is about to be stored, unless it was cached so. *)
LogBehind ==
  \A m \in MRs : \A k \in Observations(m) :
    /\ m \in DOMAIN openSnapshots \ overtaken => log[m][k].fact.rest <= openSnapshots[m].rest
    /\ m \in DOMAIN events /\ (refreshing /\ events[m].open => m \notin overtaken)
         => log[m][k].fact.rest <= events[m].rest
    /\ m \in DOMAIN earlier => log[m][k].fact.rest <= earlier[m].rest

(* After the join the open part of the result is what the cache holds. *)
ResultCached ==
  phase \in {"refresh", "store"} \/ refreshing =>
    \A m \in DOMAIN events : events[m].open =>
      /\ m \in DOMAIN openSnapshots
      /\ events[m].rest = openSnapshots[m].rest
      /\ events[m].gated = openSnapshots[m].gated

(* So is the first of two reads, unless they disagree about the gate. *)
EarlierCached ==
  phase \in {"refresh", "store"} \/ refreshing =>
    \A m \in DOMAIN earlier \ forgot : earlier[m].open =>
      m \in DOMAIN openSnapshots /\ earlier[m].gated = openSnapshots[m].gated

(* The joined snapshots of f have the known gates of the cache. *)
Carried(f) ==
  \A m \in DOMAIN f \ (toJoin \cup forgot) :
    f[m].open /\ m \in DOMAIN openSnapshots /\ openSnapshots[m].gated => f[m].gated

GateCarried == phase = "join" /\ ~refreshing => Carried(events) /\ Carried(earlier)

(* A known gate on the board is in the cache unless the provider forgot it. *)
MemoryOfGate ==
  \A m \in MRs \ forgot :
    KnownGate(log[m]) => m \in DOMAIN openSnapshots /\ openSnapshots[m].gated

-----------------------------------------------------------------------------
(* What the forge, the reads and the store do to the parts. *)

LEMMA RestType ==
  ASSUME TypeOK, NEW m \in MRs
  PROVE  /\ forge[m].rest \in Nat
         /\ m \in DOMAIN openSnapshots => openSnapshots[m] \in Snapshot /\ openSnapshots[m].rest \in Nat
         /\ m \in DOMAIN events => events[m] \in Snapshot /\ events[m].rest \in Nat
         /\ m \in DOMAIN earlier => /\ m \in DOMAIN events
                                    /\ earlier[m] \in Snapshot /\ earlier[m].rest \in Nat
         /\ \A k \in Observations(m) : k \in DOMAIN log[m] /\ log[m][k].fact.rest \in Nat
<1>1. \A k \in Observations(m) : k \in DOMAIN log[m] /\ log[m][k].fact \in Snapshot
  BY DEF TypeOK, Observations, IdsOf
<1> QED BY <1>1 DEF TypeOK, Snapshot, MergeRequest

LEMMA ForgeGrows ==
  ASSUME TypeOK, Forge
  PROVE  /\ \A m \in MRs : forge[m].rest <= forge'[m].rest
         /\ UNCHANGED <<durable, memory, cycle, history>>
<1>1. PICK m \in MRs :
        Edit(m) \/ MembersChange(m) \/ PipelineMoves(m) \/ Archive(m) \/ Review(m)
  BY DEF Forge
<1>2. UNCHANGED <<durable, memory, cycle, history>>
  BY <1>1 DEF Edit, MembersChange, PipelineMoves, Archive, Review, Change
<1>3. PICK f : /\ forge' = [forge EXCEPT ![m] = f]
               /\ f.rest \in {forge[m].rest, forge[m].rest + 1}
  <2>1. forge[m] \in MergeRequest
    BY ForgeType
  <2>2. CASE Edit(m)
    <3>1. PICK open \in BOOLEAN, role \in Roles \cup {"none"} :
            forge' = [forge EXCEPT ![m] = [forge[m] EXCEPT !.rest = forge[m].rest + 1,
                                                           !.open = open, !.role = role]]
      BY <2>2 DEF Edit, Roles
    <3>2. [forge[m] EXCEPT !.rest = forge[m].rest + 1, !.open = open, !.role = role].rest
            = forge[m].rest + 1
      BY <2>1 DEF MergeRequest
    <3> QED BY <3>1, <3>2
  <2>6. CASE MembersChange(m)
    <3>1. PICK role : forge' = [forge EXCEPT ![m] = [forge[m] EXCEPT !.role = role]]
      BY <2>6 DEF MembersChange, TypeOK
    <3>2. [forge[m] EXCEPT !.role = role].rest = forge[m].rest
      BY <2>1 DEF MergeRequest
    <3> QED BY <3>1, <3>2
  <2>3. CASE PipelineMoves(m)
    <3>1. forge' = [forge EXCEPT ![m] = [forge[m] EXCEPT !.graph = forge[m].graph + 1]]
      BY <2>3 DEF PipelineMoves, TypeOK
    <3>2. [forge[m] EXCEPT !.graph = forge[m].graph + 1].rest = forge[m].rest
      BY <2>1 DEF MergeRequest
    <3> QED BY <3>1, <3>2
  <2>4. CASE Archive(m)
    <3>1. forge' = [forge EXCEPT ![m] = [forge[m] EXCEPT !.archived = TRUE]]
      BY <2>4 DEF Archive, TypeOK
    <3>2. [forge[m] EXCEPT !.archived = TRUE].rest = forge[m].rest
      BY <2>1 DEF MergeRequest
    <3> QED BY <3>1, <3>2
  <2>5. CASE Review(m)
    <3>1. forge' = [forge EXCEPT ![m] = [forge[m] EXCEPT !.rest = forge[m].rest + 1,
                                                         !.graph = forge[m].graph + 1]]
      BY <2>5 DEF Review
    <3>2. [forge[m] EXCEPT !.rest = forge[m].rest + 1, !.graph = forge[m].graph + 1].rest
            = forge[m].rest + 1
      BY <2>1 DEF MergeRequest
    <3> QED BY <3>1, <3>2
  <2> QED BY <1>1, <2>2, <2>3, <2>4, <2>5, <2>6
<1>4. \A n \in MRs : forge[n].rest \in Nat
  BY ForgeType
<1>5. \A n \in MRs : forge'[n] = IF n = m THEN f ELSE forge[n]
  BY <1>3 DEF TypeOK
<1> QED BY <1>2, <1>3, <1>4, <1>5

(* A write leaves a history alone, or appends a removal or the snapshots,  *)
(* the one of the first read before that of the second.                    *)
LEMMA ExtendedBy ==
  ASSUME TypeOK, NEW m \in MRs, NEW gone
  PROVE  /\ \/ WithEarlier(m) = log[m]
            \/ /\ m \in DOMAIN earlier
               /\ WithEarlier(m) = Append(log[m], Observed(earlier[m], 0))
         /\ \/ Extended(m, gone) = log[m]
            \/ Extended(m, gone) = Append(log[m], Removed(Len(log[m])))
            \/ /\ m \in DOMAIN events
               /\ \/ Extended(m, gone) = WithEarlier(m)
                  \/ \E salt \in Nat :
                       Extended(m, gone) = Append(WithEarlier(m), Observed(events[m], salt))
<1>1. (IF sweep THEN ResurrectionSalt(log[m]) ELSE 0) \in Nat
  BY DEF ResurrectionSalt, TypeOK
<1>2. \/ WithEarlier(m) = log[m]
      \/ m \in DOMAIN earlier /\ WithEarlier(m) = Append(log[m], Observed(earlier[m], 0))
  BY DEF WithEarlier, InsertOrIgnore
<1>3. \/ Inserted(m) = WithEarlier(m)
      \/ \E salt \in Nat : Inserted(m) = Append(WithEarlier(m), Observed(events[m], salt))
  BY <1>1 DEF Inserted, InsertOrIgnore
<1> QED BY <1>2, <1>3 DEF Extended, InsertOrIgnore

(* What the last row is, if one was written. *)
LEMMA LastWritten ==
  ASSUME TypeOK, NEW m \in MRs, NEW gone
  PROVE  LET written == Extended(m, gone)
         IN  \/ written = log[m]
             \/ /\ written # <<>>
                /\ \/ written[Len(written)] = Removed(Len(log[m]))
                   \/ m \in DOMAIN earlier /\ written[Len(written)] = Observed(earlier[m], 0)
                   \/ /\ m \in DOMAIN events
                      /\ \E salt \in Nat : written[Len(written)] = Observed(events[m], salt)
<1> DEFINE Row == [kind : {"observed"}, fact : Snapshot, salt : Nat]
                   \cup [kind : {"removed"}, supersedes : Nat]
<1>1. log[m] \in Seq(Row)
  BY DEF TypeOK
<1>2. WithEarlier(m) \in Seq(Row)
  <2>1. m \in DOMAIN earlier => Observed(earlier[m], 0) \in Row
    BY DEF Observed, TypeOK
  <2>2. WithEarlier(m) = log[m] \/ \E row \in Row : WithEarlier(m) = Append(log[m], row)
    BY <2>1, ExtendedBy
  <2> HIDE DEF Row
  <2> QED BY <1>1, <2>2
<1> HIDE DEF Row
<1>3. ASSUME NEW past \in Seq(Row), NEW row, NEW written, written = Append(past, row)
      PROVE  written # <<>> /\ written[Len(written)] = row
  BY <1>3
<1> QED BY <1>1, <1>2, <1>3, ExtendedBy

LEMMA RowsWritten ==
  ASSUME TypeOK, NEW m \in MRs, NEW gone, NEW k \in IdsOf("observed", Extended(m, gone))
  PROVE  \/ k \in Observations(m) /\ Extended(m, gone)[k] = log[m][k]
         \/ /\ m \in DOMAIN earlier /\ k = Len(log[m]) + 1
            /\ Extended(m, gone)[k].fact = earlier[m]
         \/ /\ m \in DOMAIN events /\ k > Len(log[m]) /\ k = Len(Extended(m, gone))
            /\ Extended(m, gone)[k].fact = events[m]
<1> DEFINE Row == [kind : {"observed"}, fact : Snapshot, salt : Nat]
                   \cup [kind : {"removed"}, supersedes : Nat]
<1>1. log[m] \in Seq(Row)
  BY DEF TypeOK
<1>2. WithEarlier(m) \in Seq(Row)
  <2>1. m \in DOMAIN earlier => Observed(earlier[m], 0) \in Row
    BY DEF Observed, TypeOK
  <2>2. WithEarlier(m) = log[m] \/ \E row \in Row : WithEarlier(m) = Append(log[m], row)
    BY <2>1, ExtendedBy
  <2> HIDE DEF Row
  <2> QED BY <1>1, <2>2
<1> HIDE DEF Row
<1>3. ASSUME NEW past \in Seq(Row), NEW row, NEW written, written = Append(past, row),
             NEW i \in DOMAIN written
      PROVE  \/ i \in DOMAIN past /\ written[i] = past[i]
             \/ i = Len(past) + 1 /\ i = Len(written) /\ written[i] = row
  BY <1>3
<1>4. k \in DOMAIN Extended(m, gone) /\ Extended(m, gone)[k].kind = "observed"
  BY DEF IdsOf
<1>5. ASSUME NEW i \in DOMAIN WithEarlier(m)
      PROVE  \/ i \in DOMAIN log[m] /\ WithEarlier(m)[i] = log[m][i]
             \/ /\ m \in DOMAIN earlier /\ i = Len(log[m]) + 1
                /\ WithEarlier(m)[i] = Observed(earlier[m], 0)
  BY <1>1, <1>3, ExtendedBy
<1>6. CASE Extended(m, gone) = log[m]
  BY <1>4, <1>6 DEF Observations, IdsOf
<1>7. CASE Extended(m, gone) = Append(log[m], Removed(Len(log[m])))
  BY <1>1, <1>3, <1>4, <1>7 DEF Observations, IdsOf, Removed
<1>8. CASE Extended(m, gone) = WithEarlier(m)
  BY <1>4, <1>5, <1>8 DEF Observations, IdsOf, Observed
<1>9. ASSUME NEW salt \in Nat, m \in DOMAIN events,
             Extended(m, gone) = Append(WithEarlier(m), Observed(events[m], salt))
      PROVE  \/ k \in Observations(m) /\ Extended(m, gone)[k] = log[m][k]
             \/ /\ m \in DOMAIN earlier /\ k = Len(log[m]) + 1
                /\ Extended(m, gone)[k].fact = earlier[m]
             \/ /\ m \in DOMAIN events /\ k > Len(log[m]) /\ k = Len(Extended(m, gone))
                /\ Extended(m, gone)[k].fact = events[m]
  <2>1. CASE k \in DOMAIN WithEarlier(m) /\ Extended(m, gone)[k] = WithEarlier(m)[k]
    BY <1>4, <1>5, <2>1 DEF Observations, IdsOf, Observed
  <2>2. CASE /\ k = Len(WithEarlier(m)) + 1 /\ k = Len(Extended(m, gone))
             /\ Extended(m, gone)[k] = Observed(events[m], salt)
    <3>1. Len(log[m]) \in Nat /\ Len(WithEarlier(m)) \in Nat
      BY <1>1, <1>2
    <3>2. Len(WithEarlier(m)) >= Len(log[m])
      <4>1. CASE WithEarlier(m) = log[m]
        BY <3>1, <4>1
      <4>2. ASSUME NEW row, WithEarlier(m) = Append(log[m], row)
            PROVE  Len(WithEarlier(m)) >= Len(log[m])
        BY <1>1, <4>2
      <4> QED BY <4>1, <4>2, ExtendedBy
    <3> QED BY <1>9, <2>2, <3>1, <3>2 DEF Observed
  <2> QED BY <1>2, <1>3, <1>4, <1>9, <2>1, <2>2
<1> QED BY <1>6, <1>7, <1>8, <1>9, ExtendedBy

LEMMA GateWritten ==
  ASSUME TypeOK, NEW m \in MRs, NEW gone, LatestIsOpen(Extended(m, gone))
  PROVE  \/ Extended(m, gone) = log[m]
         \/ /\ m \in DOMAIN earlier /\ earlier[m].open
            /\ KnownGate(Extended(m, gone)) = earlier[m].gated
         \/ /\ m \in DOMAIN events /\ events[m].open
            /\ KnownGate(Extended(m, gone)) = events[m].gated
<1>1. /\ m \in DOMAIN earlier => earlier[m].gated \in BOOLEAN
      /\ m \in DOMAIN events => events[m].gated \in BOOLEAN
  BY DEF TypeOK, Snapshot
<1> DEFINE last == Extended(m, gone)[Len(Extended(m, gone))]
<1>2. /\ last.kind = "observed" /\ last.fact.open
      /\ KnownGate(Extended(m, gone)) <=> last.fact.gated
  BY DEF LatestIsOpen, KnownGate
<1>3. \/ Extended(m, gone) = log[m]
      \/ last = Removed(Len(log[m]))
      \/ m \in DOMAIN earlier /\ last = Observed(earlier[m], 0)
      \/ m \in DOMAIN events /\ \E salt \in Nat : last = Observed(events[m], salt)
  BY LastWritten, Zenon
<1>4. KnownGate(Extended(m, gone)) \in BOOLEAN
  BY DEF LatestIsOpen, KnownGate
<1> HIDE DEF last
<1>5. ASSUME NEW fact, NEW salt, last = Observed(fact, salt)
      PROVE  fact.open /\ (KnownGate(Extended(m, gone)) <=> fact.gated)
  BY <1>2, <1>5 DEF Observed
<1>6. last # Removed(Len(log[m]))
  BY <1>2 DEF Removed
<1>7. CASE m \in DOMAIN earlier /\ last = Observed(earlier[m], 0)
  BY <1>1, <1>4, <1>5, <1>7
<1>8. CASE m \in DOMAIN events /\ \E salt \in Nat : last = Observed(events[m], salt)
  BY <1>1, <1>4, <1>5, <1>8
<1> QED BY <1>3, <1>6, <1>7, <1>8

(* The part of the invariant about the versions REST returned. *)
RestInv == CacheOpen /\ ClosedNotCached /\ BehindForge /\ LogBehind /\ ResultCached

LEMMA NextRestInv == TypeOK /\ Phased /\ RestInv /\ [Next]_vars => RestInv'
<1> SUFFICES ASSUME TypeOK, Phased, RestInv, [Next]_vars PROVE RestInv'
  OBVIOUS
<1> USE DEF durable, memory, cycle, history
<1>1. CASE UNCHANGED vars
  BY <1>1 DEF vars, RestInv, CacheOpen, ClosedNotCached, BehindForge, LogBehind, ResultCached,
              Observations
<1>2. CASE Forge
  <2>1. /\ UNCHANGED <<log, openSnapshots, events, earlier, overtaken, phase, refreshing>>
        /\ \A m \in MRs : forge[m].rest <= forge'[m].rest
    BY <1>2, ForgeGrows
  <2>2. \A m \in MRs : forge'[m].rest \in Nat
    BY NextTypeOK DEF TypeOK, MergeRequest
  <2>3. BehindForge'
    BY <2>1, <2>2, RestType DEF RestInv, BehindForge, Observations
  <2> QED BY <2>1, <2>3 DEF RestInv, CacheOpen, ClosedNotCached, LogBehind, ResultCached,
                            Observations
<1>3. ASSUME UNCHANGED <<forge, log, openSnapshots, events, earlier, overtaken>>,
             refreshing => refreshing',
             ~(phase' \in {"refresh", "store"} \/ refreshing')
               \/ phase \in {"refresh", "store"} \/ refreshing
      PROVE  RestInv'
  BY <1>3 DEF RestInv, CacheOpen, ClosedNotCached, BehindForge, LogBehind, ResultCached,
              Observations
<1>4. CASE Reconcile \/ FastPoll
  BY <1>3, <1>4 DEF Reconcile, FastPoll, Start
<1>5. CASE AskForJoin \/ AskForRefresh \/ Refreshed
  BY <1>3, <1>5 DEF AskForJoin, AskForRefresh, Refreshed, Joining, Phased
<1>6. CASE ProviderFails \/ StorageFails
  BY <1>6 DEF ProviderFails, StorageFails, Abandon, EndCycle, Nothing, RestInv, CacheOpen,
              ClosedNotCached, BehindForge, LogBehind, ResultCached, Observations
<1>7. CASE Crash
  BY <1>7 DEF Crash, EndCycle, Nothing, RestInv, CacheOpen, ClosedNotCached, BehindForge,
              LogBehind, ResultCached, Observations
<1>8. ASSUME NEW m \in MRs, fetchScopeMRs(m) PROVE RestInv'
  <2>1. /\ UNCHANGED <<forge, log, openSnapshots, earlier, overtaken, refreshing>>
        /\ phase' = "fetch" /\ ~refreshing'
    BY <1>8 DEF fetchScopeMRs, Read, Fetching, Phased
  <2>2. CASE UNCHANGED events
    BY <1>3, <2>1, <2>2
  <2>3. CASE ~UNCHANGED events
    <3>1. PICK v \in Snapshot : /\ events' = Put(events, m, v)
                                /\ v.open /\ v.rest = forge[m].rest
      BY <1>8, <2>3, ListedType DEF fetchScopeMRs
    <3> QED BY <1>8, <2>1, <3>1, RestType
        DEF Put, RestInv, CacheOpen, ClosedNotCached, BehindForge, LogBehind, ResultCached,
            Observations
  <2> QED BY <2>2, <2>3
<1>9. ASSUME NEW m \in MRs, Todo(m), Fetching,
             UNCHANGED earlier \/ (m \in DOMAIN events /\ earlier' = Put(earlier, m, events[m]))
      PROVE  RestInv'
  <2>1. UNCHANGED <<forge, log>> /\ phase' = "fetch" /\ ~refreshing /\ ~refreshing'
    BY <1>9 DEF Fetching, Phased
  <2>2. PICK v \in Snapshot : /\ events' = Put(events, m, v)
                              /\ v.open = forge[m].open /\ v.rest = forge[m].rest
    <3>1. PICK gated \in BOOLEAN : events' = Put(events, m, observedFromMR(m, gated))
      BY <1>9 DEF Todo
    <3> QED BY <1>9, <3>1, ObservedType
  <2>3. PICK S \in {{}, {m}} :
          /\ openSnapshots' = Without(openSnapshots, S) /\ overtaken' = overtaken \ S
          /\ ~v.open => S = {m}
    BY <1>9, <2>2 DEF Todo, evict
  <2>4. /\ events'[m] = v /\ DOMAIN events' = DOMAIN events \cup {m}
        /\ \A n \in DOMAIN events \ {m} : events'[n] = events[n]
    BY <2>2 DEF Put
  <2>5. /\ DOMAIN openSnapshots' = DOMAIN openSnapshots \ S
        /\ \A n \in DOMAIN openSnapshots \ S : openSnapshots'[n] = openSnapshots[n]
    BY <2>3 DEF Without
  <2>6. /\ DOMAIN earlier' \subseteq DOMAIN earlier \cup {m}
        /\ \A n \in DOMAIN earlier' \ {m} : earlier'[n] = earlier[n]
        /\ m \in DOMAIN earlier' =>
             \/ m \in DOMAIN earlier /\ earlier'[m] = earlier[m]
             \/ m \in DOMAIN events /\ earlier'[m] = events[m]
    BY <1>9 DEF Put
  <2>7. BehindForge'
    <3>1. ASSUME NEW n \in DOMAIN earlier' PROVE earlier'[n].rest <= events'[n].rest
      <4>1. CASE n = m
        BY <1>9, <2>2, <2>4, <2>6, <4>1, RestType DEF RestInv, BehindForge
      <4>2. CASE n # m
        BY <2>4, <2>6, <3>1, <4>2 DEF RestInv, BehindForge, TypeOK
      <4> QED BY <4>1, <4>2
    <3> QED BY <1>9, <2>1, <2>2, <2>4, <2>5, <3>1, RestType
        DEF RestInv, BehindForge, Observations
  <2>8. LogBehind'
    BY <1>9, <2>1, <2>2, <2>3, <2>4, <2>5, <2>6, RestType
    DEF RestInv, BehindForge, LogBehind, Observations
  <2>9. CacheOpen' /\ ClosedNotCached' /\ ResultCached'
    BY <2>1, <2>3, <2>4, <2>5 DEF RestInv, CacheOpen, ClosedNotCached, ResultCached
  <2> QED BY <2>7, <2>8, <2>9 DEF RestInv
<1>15. ASSUME NEW m \in MRs, fetchMR(m) \/ fetchMRAgain(m) PROVE RestInv'
  BY <1>9, <1>15 DEF fetchMR, fetchMRAgain, Read
<1>10. ASSUME NEW m \in MRs, DropArchived(m) PROVE RestInv'
  <2>1. /\ DOMAIN events' = DOMAIN events \ {m} /\ DOMAIN earlier' = DOMAIN earlier \ {m}
        /\ DOMAIN openSnapshots' = DOMAIN openSnapshots \ {m} /\ overtaken' = overtaken \ {m}
        /\ \A n \in DOMAIN events' : events'[n] = events[n]
        /\ \A n \in DOMAIN earlier' : earlier'[n] = earlier[n]
        /\ \A n \in DOMAIN openSnapshots' : openSnapshots'[n] = openSnapshots[n]
        /\ UNCHANGED <<forge, log, phase, refreshing>>
    BY <1>10 DEF DropArchived, JoinStep, evict, Without
  <2> QED BY <2>1 DEF RestInv, CacheOpen, ClosedNotCached, BehindForge, LogBehind, ResultCached,
                      Observations, TypeOK
<1>11. ASSUME NEW m \in MRs, Enrich(m) \/ Carry(m) PROVE RestInv'
  <2>1. /\ UNCHANGED <<forge, log, openSnapshots, overtaken>>
        /\ phase' = "join" /\ ~refreshing /\ ~refreshing'
    BY <1>11 DEF Enrich, Carry, JoinStep
  <2>2. /\ DOMAIN events' = DOMAIN events /\ DOMAIN earlier' = DOMAIN earlier
        /\ \A n \in DOMAIN events :
             events'[n].rest = events[n].rest /\ events'[n].open = events[n].open
        /\ \A n \in DOMAIN earlier : earlier'[n].rest = earlier[n].rest
    BY <1>11, JoinedResult DEF JoinedBy
  <2> QED BY <2>1, <2>2
      DEF RestInv, CacheOpen, ClosedNotCached, BehindForge, LogBehind, ResultCached, Observations,
          TypeOK
<1>12. ASSUME NEW m \in MRs, Refresh(m) PROVE RestInv'
  <2>1. UNCHANGED <<forge, log, openSnapshots, earlier, overtaken, phase, refreshing>>
    BY <1>12 DEF Refresh, JoinStep
  <2>2. /\ m \in DOMAIN openSnapshots /\ openSnapshots[m] \in Snapshot /\ refreshing
        /\ m \notin DOMAIN earlier
    BY <1>12 DEF Refresh, JoinStep, Phased, TypeOK
  <2>3. PICK v : /\ events' = Put(events, m, v)
                 /\ v.rest = openSnapshots[m].rest /\ v.open = openSnapshots[m].open
                 /\ v.gated = openSnapshots[m].gated
    BY <1>12, <2>2 DEF Refresh, Snapshot
  <2> QED BY <2>1, <2>2, <2>3
      DEF Put, RestInv, CacheOpen, ClosedNotCached, BehindForge, LogBehind, ResultCached,
          Observations, TypeOK
<1>13. CASE Joined
  <2>1. /\ UNCHANGED <<forge, log, events, earlier>> /\ cacheOpenSnapshots
        /\ ~refreshing /\ ~refreshing'
    BY <1>13 DEF Joined
  <2>2. /\ DOMAIN openSnapshots' = DOMAIN openSnapshots \cup OpenEvents
        /\ \A n \in OpenEvents : openSnapshots'[n] = LastOpen(n) /\ LastOpen(n).open
        /\ \A n \in DOMAIN openSnapshots \ OpenEvents : openSnapshots'[n] = openSnapshots[n]
        /\ OpenEvents \subseteq DOMAIN events /\ OpenEvents \subseteq MRs
    BY <2>1, CacheType
  <2>3. overtaken' = (overtaken \ OpenEvents) \cup ClosedMeanwhile
    BY <2>1 DEF cacheOpenSnapshots
  <2>4. ASSUME NEW m \in OpenEvents
        PROVE  \/ m \in ClosedMeanwhile /\ m \in DOMAIN earlier /\ LastOpen(m) = earlier[m]
               \/ m \notin ClosedMeanwhile /\ LastOpen(m) = events[m]
    BY DEF LastOpen, ClosedMeanwhile
  <2>5. ASSUME NEW m \in DOMAIN events
        PROVE  /\ events[m].open => m \in OpenEvents /\ m \notin ClosedMeanwhile
               /\ ~events[m].open /\ m \in OpenEvents => m \in ClosedMeanwhile
    BY DEF OpenEvents, ClosedMeanwhile
  <2>6. CacheOpen'
    BY <2>2 DEF RestInv, CacheOpen
  <2>7. ClosedNotCached' /\ ResultCached'
    BY <2>1, <2>2, <2>3, <2>4, <2>5 DEF RestInv, ClosedNotCached, ResultCached
  <2>8. BehindForge'
    <3>1. ASSUME NEW m \in OpenEvents PROVE LastOpen(m).rest <= forge[m].rest
      BY <2>2, <2>4, RestType DEF RestInv, BehindForge
    <3> QED BY <2>1, <2>2, <3>1 DEF RestInv, BehindForge, Observations
  <2>9. LogBehind'
    BY <2>1, <2>2, <2>3, <2>4 DEF RestInv, LogBehind, Observations
  <2> QED BY <2>6, <2>7, <2>8, <2>9 DEF RestInv
<1>14. CASE WriteEvents
  <2>1. /\ UNCHANGED <<forge, openSnapshots, overtaken>>
        /\ DOMAIN events' = {} /\ DOMAIN earlier' = {} /\ phase' = "idle" /\ ~refreshing'
    BY <1>14 DEF WriteEvents, EndCycle, Nothing
  <2>2. PICK gone : log' = [m \in MRs |-> Extended(m, gone)]
    BY <1>14 DEF WriteEvents
  <2>3. \A m \in MRs : m \in DOMAIN events /\ m \in DOMAIN openSnapshots \ overtaken
                         => events[m].rest = openSnapshots[m].rest
    BY <1>14 DEF WriteEvents, RestInv, ResultCached, ClosedNotCached
  <2>4. ASSUME NEW m \in MRs, NEW k \in Observations(m)'
        PROVE  /\ log'[m][k].fact.rest <= forge[m].rest
               /\ m \in DOMAIN openSnapshots \ overtaken
                    => log'[m][k].fact.rest <= openSnapshots[m].rest
    <3>1. \/ k \in Observations(m) /\ log'[m][k] = log[m][k]
          \/ m \in DOMAIN earlier /\ log'[m][k].fact = earlier[m]
          \/ m \in DOMAIN events /\ log'[m][k].fact = events[m]
      BY <2>2, <2>4, RowsWritten DEF Observations
    <3>2. CASE k \in Observations(m) /\ log'[m][k] = log[m][k]
      BY <2>4, <3>2 DEF RestInv, BehindForge, LogBehind
    <3>3. CASE m \in DOMAIN events /\ log'[m][k].fact = events[m]
      BY <2>3, <2>4, <3>3, RestType DEF RestInv, BehindForge
    <3>4. CASE m \in DOMAIN earlier /\ log'[m][k].fact = earlier[m]
      BY <2>3, <2>4, <3>4, RestType DEF RestInv, BehindForge
    <3> QED BY <3>1, <3>2, <3>3, <3>4
  <2> QED BY <2>1, <2>4
      DEF RestInv, CacheOpen, ClosedNotCached, BehindForge, LogBehind, ResultCached
<1> QED
  BY <1>1, <1>2, <1>4, <1>5, <1>6, <1>7, <1>8, <1>10, <1>11, <1>12, <1>13, <1>14, <1>15
  DEF Next, Work

(* The part of the invariant about merge gates. *)
GateInv == GateCarried /\ EarlierCached /\ MemoryOfGate

LEMMA NextGateInv ==
  TypeOK /\ Phased /\ RestInv /\ GateInv /\ [Next]_vars => GateInv'
<1> SUFFICES ASSUME TypeOK, Phased, RestInv, GateInv, [Next]_vars PROVE GateInv'
  OBVIOUS
<1> USE DEF durable, memory, cycle, history
<1>1. ASSUME UNCHANGED <<log, openSnapshots, forgot>>, ~(phase' = "join" /\ ~refreshing'),
             \/ ~(phase' \in {"refresh", "store"} \/ refreshing')
             \/ UNCHANGED earlier /\ (phase \in {"refresh", "store"} \/ refreshing)
      PROVE  GateInv'
  BY <1>1 DEF GateInv, GateCarried, EarlierCached, MemoryOfGate
<1>2. CASE UNCHANGED vars \/ Forge
  <2>1. UNCHANGED <<log, openSnapshots, forgot, events, earlier, toJoin, phase, refreshing>>
    BY <1>2, ForgeGrows DEF vars
  <2> QED BY <2>1 DEF GateInv, GateCarried, Carried, EarlierCached, MemoryOfGate
<1>3. CASE Reconcile \/ FastPoll \/ ProviderFails \/ StorageFails
  BY <1>1, <1>3
  DEF Reconcile, FastPoll, Start, ProviderFails, StorageFails, Abandon, EndCycle, Phased
<1>4. CASE Crash
  BY <1>4 DEF Crash, EndCycle, GateInv, GateCarried, EarlierCached, MemoryOfGate
<1>5. ASSUME NEW m \in MRs, fetchScopeMRs(m) PROVE GateInv'
  BY <1>1, <1>5 DEF fetchScopeMRs, Read, Fetching, Phased
<1>6. ASSUME NEW S, evict(S), UNCHANGED log PROVE MemoryOfGate'
  BY <1>6 DEF evict, Without, GateInv, MemoryOfGate
<1>7. ASSUME NEW m \in MRs, fetchMR(m) \/ fetchMRAgain(m) PROVE GateInv'
  <2>1. phase' = "fetch" /\ UNCHANGED log /\ ~refreshing'
    BY <1>7 DEF fetchMR, fetchMRAgain, Read, Fetching, Phased
  <2>2. MemoryOfGate'
    BY <1>6, <1>7, <2>1 DEF fetchMR, fetchMRAgain, Todo
  <2> QED BY <2>1, <2>2 DEF GateInv, GateCarried, EarlierCached
<1>8. CASE AskForJoin
  <2>1. /\ UNCHANGED <<log, openSnapshots, events, earlier>> /\ forgot \subseteq forgot'
        /\ toJoin' = DOMAIN events \/ DOMAIN events \subseteq forgot'
        /\ phase' = "join" /\ ~refreshing'
    BY <1>8 DEF AskForJoin, Joining, Phased
  <2> QED BY <2>1 DEF GateInv, GateCarried, Carried, EarlierCached, MemoryOfGate, TypeOK
<1>9. CASE AskForRefresh \/ Refreshed
  BY <1>1, <1>9 DEF AskForRefresh, Refreshed, Joining
<1>10. ASSUME NEW m \in MRs, DropArchived(m) PROVE GateInv'
  <2>1. MemoryOfGate'
    BY <1>6, <1>10 DEF DropArchived, JoinStep
  <2>2. /\ UNCHANGED <<phase, refreshing>> /\ toJoin' = toJoin \ {m} /\ forgot \subseteq forgot'
        /\ events' = Without(events, {m}) /\ earlier' = Without(earlier, {m})
        /\ openSnapshots' = Without(openSnapshots, {m})
    BY <1>10 DEF DropArchived, JoinStep, evict
  <2>3. ASSUME NEW f, Carried(f), NEW h, h = Without(f, {m})
        PROVE  \A n \in DOMAIN h \ (toJoin' \cup forgot') :
                 h[n].open /\ n \in DOMAIN openSnapshots' /\ openSnapshots'[n].gated => h[n].gated
    BY <2>2, <2>3 DEF Carried, Without
  <2>4. GateCarried'
    BY <2>2, <2>3 DEF GateInv, GateCarried, Carried
  <2>5. EarlierCached'
    BY <2>2 DEF GateInv, EarlierCached, Without
  <2> QED BY <2>1, <2>4, <2>5 DEF GateInv
<1>11. ASSUME NEW m \in MRs, Enrich(m) \/ Carry(m) PROVE GateInv'
  <2>1. UNCHANGED <<log, openSnapshots, forgot>> /\ toJoin' = toJoin \ {m}
    BY <1>11 DEF Enrich, Carry, JoinStep
  <2>2. phase = "join" /\ ~refreshing /\ phase' = "join" /\ ~refreshing'
    BY <1>11 DEF Enrich, Carry, JoinStep
  <2>3. MemoryOfGate' /\ EarlierCached'
    BY <2>1, <2>2 DEF GateInv, MemoryOfGate, EarlierCached
  <2>4. ASSUME NEW f, Carried(f), NEW h, JoinedBy(f, h, m)
        PROVE  \A n \in DOMAIN h \ (toJoin' \cup forgot') :
                 h[n].open /\ n \in DOMAIN openSnapshots' /\ openSnapshots'[n].gated => h[n].gated
    BY <2>1, <2>4 DEF Carried, JoinedBy
  <2>5. JoinedBy(events, events', m) /\ JoinedBy(earlier, earlier', m)
    BY <1>11, JoinedResult
  <2>6. GateCarried'
    <3>1. PICK e, h : e = events' /\ h = earlier'
      OBVIOUS
    <3>2. Carried(events) /\ Carried(earlier)
      BY <2>2 DEF GateInv, GateCarried
    <3>3. JoinedBy(events, e, m) /\ JoinedBy(earlier, h, m)
      BY <2>5, <3>1
    <3> QED BY <2>4, <3>1, <3>2, <3>3 DEF GateCarried, Carried
  <2> QED BY <2>3, <2>6 DEF GateInv
<1>12. ASSUME NEW m \in MRs, Refresh(m) PROVE GateInv'
  BY <1>1, <1>12 DEF Refresh, JoinStep
<1>13. CASE Joined
  <2>1. /\ UNCHANGED <<log, events, earlier>> /\ phase' # "join"
        /\ phase = "join" /\ ~refreshing /\ toJoin = {} /\ cacheOpenSnapshots
    BY <1>13 DEF Joined
  <2>2. forgot' = (forgot \ {m \in OpenEvents : LastOpen(m).gated}) \cup GateInDoubt
    BY <2>1 DEF cacheOpenSnapshots
  <2>3. ASSUME NEW m \in OpenEvents \ forgot, m \in DOMAIN openSnapshots, openSnapshots[m].gated
        PROVE  LastOpen(m).gated
    BY <2>1, <2>3
    DEF OpenEvents, LastOpen, ClosedMeanwhile, GateInv, GateCarried, Carried
  <2>4. ASSUME NEW m \in MRs \ forgot', KnownGate(log[m])
        PROVE  m \in DOMAIN openSnapshots' /\ openSnapshots'[m].gated
    <3>1. CASE m \in OpenEvents
      BY <2>1, <2>2, <2>3, <2>4, <3>1, CacheType DEF GateInv, MemoryOfGate
    <3>2. CASE m \notin OpenEvents
      BY <2>1, <2>2, <2>4, <3>2, CacheType DEF GateInv, MemoryOfGate
    <3> QED BY <3>1, <3>2
  <2>5. ASSUME NEW m \in DOMAIN earlier \ forgot', earlier[m].open
        PROVE  m \in DOMAIN openSnapshots' /\ earlier[m].gated = openSnapshots'[m].gated
    <3>1. m \in OpenEvents /\ LastOpen(m).gated = earlier[m].gated
      BY <2>2, <2>5 DEF OpenEvents, LastOpen, ClosedMeanwhile, GateInDoubt, TypeOK
    <3> QED BY <2>1, <3>1, CacheType
  <2> QED BY <2>1, <2>4, <2>5 DEF GateInv, GateCarried, EarlierCached, MemoryOfGate
<1>14. CASE WriteEvents
  <2>1. UNCHANGED <<openSnapshots, forgot>> /\ phase' = "idle" /\ ~refreshing'
    BY <1>14 DEF WriteEvents, EndCycle
  <2>2. PICK gone : log' = [m \in MRs |-> Extended(m, gone)]
    BY <1>14 DEF WriteEvents
  <2>3. ASSUME NEW m \in MRs \ forgot, KnownGate(Extended(m, gone))
        PROVE  m \in DOMAIN openSnapshots /\ openSnapshots[m].gated
    <3>1. CASE Extended(m, gone) = log[m]
      BY <2>3, <3>1 DEF GateInv, MemoryOfGate
    <3>2. CASE m \in DOMAIN events /\ events[m].open /\ KnownGate(Extended(m, gone)) = events[m].gated
      BY <1>14, <2>3, <3>2 DEF WriteEvents, RestInv, ResultCached
    <3>3. CASE /\ m \in DOMAIN earlier /\ earlier[m].open
               /\ KnownGate(Extended(m, gone)) = earlier[m].gated
      BY <1>14, <2>3, <3>3 DEF WriteEvents, GateInv, EarlierCached
    <3> QED BY <2>3, <3>1, <3>2, <3>3, GateWritten DEF KnownGate
  <2> QED BY <2>1, <2>2, <2>3 DEF GateInv, GateCarried, EarlierCached, MemoryOfGate
<1> QED
  BY <1>2, <1>3, <1>4, <1>5, <1>7, <1>8, <1>9, <1>10, <1>11, <1>12, <1>13, <1>14
  DEF Next, Work

LEMMA LogWritten == TypeOK /\ [Next]_vars => UNCHANGED log \/ WriteEvents
<1> SUFFICES ASSUME TypeOK, [Next]_vars, ~WriteEvents PROVE UNCHANGED log
  OBVIOUS
<1> QED
  BY ForgeGrows
  DEF vars, durable, Next, Work, Reconcile, FastPoll, Start, ProviderFails, StorageFails, Crash,
      fetchScopeMRs, fetchMR, fetchMRAgain, Read, Fetching, AskForJoin, AskForRefresh, Joining,
      DropArchived, Enrich, Carry, Refresh, JoinStep, Joined, Refreshed

(* No step takes a known gate from the board while the provider remembers. *)
LEMMA GateStep ==
  ASSUME TypeOK, RestInv, GateInv, [Next]_vars, NEW m \in MRs \ forgot,
         KnownGate(log[m]), LatestIsOpen(log'[m])
  PROVE  KnownGate(log'[m])
<1>1. CASE WriteEvents
  <2>1. PICK gone : log' = [n \in MRs |-> Extended(n, gone)]
    BY <1>1 DEF WriteEvents
  <2>2. log'[m] = Extended(m, gone) /\ m \in DOMAIN openSnapshots /\ openSnapshots[m].gated
    BY <2>1 DEF GateInv, MemoryOfGate
  <2>3. m \in DOMAIN events /\ events[m].open => events[m].gated
    BY <1>1, <2>2 DEF WriteEvents, RestInv, ResultCached
  <2>4. m \in DOMAIN earlier /\ earlier[m].open => earlier[m].gated
    BY <1>1, <2>2 DEF WriteEvents, GateInv, EarlierCached
  <2> QED BY <2>2, <2>3, <2>4, GateWritten
<1>2. CASE UNCHANGED log
  BY <1>2
<1> QED BY <1>1, <1>2, LogWritten

-----------------------------------------------------------------------------
(* Verdicts. *)

(* A verdict of an answer has a note with its text. *)
AnswersFounded ==
  \A m \in DOMAIN nodes, r \in Reviewers :
    nodes[m].verdicts[r] # "none" =>
      \E k \in NotesOf(m, r) : notes[m][k].body = nodes[m].verdicts[r]

EmittedFounded == \A e \in emitted : e.note \in DOMAIN notes[e.mr]

OwedKnown == \A o \in owed : o.mr \in DOMAIN verdictBaseline

VerdictInv == AnswersFounded /\ EmittedFounded /\ OwedKnown /\ VerdictHeard

LEMMA NotesGrow ==
  ASSUME TypeOK, Forge, NEW m \in MRs, NEW k \in DOMAIN notes[m]
  PROVE  k \in DOMAIN notes'[m] /\ notes'[m][k] = notes[m][k]
<1>1. CASE UNCHANGED notes
  BY <1>1
<1>2. CASE \E n \in MRs : Review(n)
  <2>1. PICK n \in MRs, note \in Note : notes' = [notes EXCEPT ![n] = Append(notes[n], note)]
    BY <1>2 DEF Review
  <2>2. notes[m] \in Seq(Note)
    BY DEF TypeOK
  <2> QED BY <2>1, <2>2 DEF TypeOK
<1> QED BY <1>1, <1>2 DEF Forge, Edit, MembersChange, PipelineMoves, Archive

(* The note that is matched with a changed verdict is the reviewer's, with *)
(* the text of the verdict.                                                *)
LEMMA MatchedFounded ==
  ASSUME TypeOK, AnswersFounded, NEW m \in DOMAIN nodes, NEW r \in changedVerdicts(m)
  PROVE  /\ MatchedNote(m, r) \in DOMAIN notes[m]
         /\ notes[m][MatchedNote(m, r)] = [by |-> r, body |-> nodes[m].verdicts[r]]
<1> DEFINE S == {k \in NotesOf(m, r) : notes[m][k].body = nodes[m].verdicts[r]}
<1>1. m \in MRs /\ r \in Reviewers /\ notes[m] \in Seq(Note) /\ Len(notes[m]) \in Nat
  BY DEF TypeOK, changedVerdicts
<1>2. S # {} /\ S \in SUBSET (1..Len(notes[m]))
  BY <1>1 DEF AnswersFounded, changedVerdicts, NotesOf
<1>3. Newest(S) \in S
  <2> HIDE DEF S
  <2> QED BY <1>1, <1>2, NewestExists
<1>4. MatchedNote(m, r) \in S
  BY <1>3 DEF MatchedNote
<1>5. MatchedNote(m, r) \in 1..Len(notes[m]) /\ notes[m][MatchedNote(m, r)] \in Note
  BY <1>1, <1>2, <1>4
<1> QED BY <1>1, <1>4, <1>5 DEF NotesOf, Note

LEMMA EmitHeard ==
  ASSUME TypeOK, VerdictInv, NEW m \in DOMAIN nodes, emitNewVerdictSignals(m),
         UNCHANGED <<notes, nodes>>
  PROVE  VerdictInv'
<1>1. m \in MRs /\ nodes[m].verdicts \in Verdict
  BY DEF TypeOK, Answer
<1>2. AnswersFounded'
  BY DEF VerdictInv, AnswersFounded, NotesOf
<1>3. ASSUME NEW e, NEW o PROVE About(e, o)' <=> About(e, o)
  BY DEF About
<1>4. CASE FirstSightOf(m)
  BY <1>2, <1>3, <1>4 DEF FirstSightOf, Put, VerdictInv, EmittedFounded, OwedKnown, VerdictHeard
<1>5. ASSUME m \in DOMAIN verdictBaseline, UNCHANGED emitted, Owe(m, {}),
             verdictBaseline' = Put(verdictBaseline, m, Kept(m))
      PROVE  VerdictInv'
  <2>1. DOMAIN verdictBaseline' = DOMAIN verdictBaseline /\ EmittedFounded'
    BY <1>5 DEF Put, VerdictInv, EmittedFounded
  <2>2. OwedKnown'
    BY <1>5, <2>1 DEF Owe, VerdictInv, OwedKnown
  <2>3. ASSUME NEW o \in owed' PROVE (\E e \in emitted : About(e, o))
                                    \/ verdictBaseline'[o.mr][o.by] # o.body
    <3>1. CASE o \in owed /\ o.mr # m
      BY <1>5, <3>1 DEF Put, VerdictInv, VerdictHeard, OwedKnown
    <3>2. CASE o \in owed /\ o.mr = m /\ nodes[m].verdicts[o.by] = o.body
      <4>1. o.by \in Reviewers /\ o.body # "none"
        BY <3>2 DEF TypeOK, Verdicts
      <4>2. verdictBaseline'[m][o.by] = verdictBaseline[m][o.by]
        BY <1>5, <3>2, <4>1 DEF Put, Kept
      <4> QED BY <3>2, <4>2 DEF VerdictInv, VerdictHeard
    <3>3. CASE \E r \in changedVerdicts(m) : o = [mr |-> m, by |-> r, body |-> nodes[m].verdicts[r]]
      BY <1>5, <3>3 DEF Put, changedVerdicts
    <3> QED BY <1>5, <2>3, <3>1, <3>2, <3>3 DEF Owe
  <2> QED BY <1>2, <1>3, <1>5, <2>1, <2>2, <2>3 DEF VerdictInv, VerdictHeard
<1>6. CASE NoChange(m)
  BY <1>5, <1>6 DEF NoChange
<1>7. CASE NotesFail(m)
  BY <1>5, <1>7 DEF NotesFail
<1>8. CASE NotesRead(m)
  <2>1. PICK buried \in SUBSET changedVerdicts(m) :
          /\ emitted' = emitted \cup
               {[mr |-> m, note |-> MatchedNote(m, r)] : r \in changedVerdicts(m) \ buried}
          /\ Owe(m, buried)
    BY <1>8 DEF NotesRead
  <2>2. /\ DOMAIN verdictBaseline' = DOMAIN verdictBaseline /\ m \in DOMAIN verdictBaseline
        /\ \A n \in DOMAIN verdictBaseline \ {m} : verdictBaseline'[n] = verdictBaseline[n]
    BY <1>8 DEF NotesRead, Put
  <2>3. ASSUME NEW r \in changedVerdicts(m)
        PROVE  /\ MatchedNote(m, r) \in DOMAIN notes[m]
               /\ notes[m][MatchedNote(m, r)] = [by |-> r, body |-> nodes[m].verdicts[r]]
    BY MatchedFounded DEF VerdictInv
  <2>4. EmittedFounded'
    <3>1. ASSUME NEW e \in emitted' PROVE e.note \in DOMAIN notes[e.mr]
      <4>1. CASE e \in emitted
        BY <4>1 DEF VerdictInv, EmittedFounded
      <4>2. CASE \E r \in changedVerdicts(m) : e = [mr |-> m, note |-> MatchedNote(m, r)]
        <5>1. PICK r \in changedVerdicts(m) : e = [mr |-> m, note |-> MatchedNote(m, r)]
          BY <4>2
        <5>2. e.mr = m /\ e.note = MatchedNote(m, r)
          BY <5>1
        <5> QED BY <2>3, <5>2
      <4> QED BY <2>1, <3>1, <4>1, <4>2
    <3> QED BY <3>1 DEF EmittedFounded
  <2>5. OwedKnown'
    BY <2>1, <2>2 DEF Owe, VerdictInv, OwedKnown
  <2>6. ASSUME NEW r \in changedVerdicts(m) \ buried, NEW o,
               o.mr = m, o.by = r, o.body = nodes[m].verdicts[r]
        PROVE  \E e \in emitted' : About(e, o)
    <3>1. [mr |-> m, note |-> MatchedNote(m, r)] \in emitted'
      BY <2>1
    <3>2. About([mr |-> m, note |-> MatchedNote(m, r)], o)
      BY <2>3, <2>6 DEF About
    <3> QED BY <3>1, <3>2
  <2>7. ASSUME NEW o \in owed' PROVE (\E e \in emitted' : About(e, o))
                                    \/ verdictBaseline'[o.mr][o.by] # o.body
    <3>1. CASE o \in owed /\ o.mr # m
      BY <2>1, <2>2, <3>1 DEF VerdictInv, VerdictHeard, OwedKnown
    <3>2. CASE /\ o \in owed /\ o.mr = m
               /\ nodes[m].verdicts[o.by] = o.body /\ o.by \notin buried
      <4>1. o.by \in Reviewers /\ o.body # "none"
        BY <3>2 DEF TypeOK, Verdicts
      <4>2. CASE verdictBaseline[m][o.by] = o.body
        BY <2>1, <3>2, <4>2 DEF VerdictInv, VerdictHeard
      <4>3. CASE verdictBaseline[m][o.by] # o.body
        <5>1. o.by \in changedVerdicts(m)
          BY <3>2, <4>1, <4>3 DEF changedVerdicts, Kept
        <5> QED BY <2>6, <3>2, <5>1
      <4> QED BY <4>2, <4>3
    <3>3. CASE \E r \in changedVerdicts(m) \ buried :
                 o = [mr |-> m, by |-> r, body |-> nodes[m].verdicts[r]]
      BY <2>6, <3>3
    <3> QED BY <2>1, <2>7, <3>1, <3>2, <3>3 DEF Owe
  <2> QED BY <1>2, <1>3, <2>4, <2>5, <2>7 DEF VerdictInv, VerdictHeard
<1> QED BY <1>4, <1>6, <1>7, <1>8 DEF emitNewVerdictSignals

LEMMA NextVerdictInv == TypeOK /\ VerdictInv /\ [Next]_vars => VerdictInv'
<1> SUFFICES ASSUME TypeOK, VerdictInv, [Next]_vars PROVE VerdictInv'
  OBVIOUS
<1> USE DEF durable, memory, cycle, history
<1>1. ASSUME UNCHANGED <<notes, verdictBaseline, emitted, owed>>, AnswersFounded' PROVE VerdictInv'
  BY <1>1 DEF VerdictInv, EmittedFounded, OwedKnown, VerdictHeard, About
<1>2. ASSUME UNCHANGED <<notes, verdictBaseline, emitted, owed, nodes>> PROVE VerdictInv'
  BY <1>1, <1>2 DEF VerdictInv, AnswersFounded, NotesOf
<1>3. CASE UNCHANGED vars
  BY <1>2, <1>3 DEF vars
<1>4. CASE Forge
  <2>1. UNCHANGED <<verdictBaseline, emitted, owed, nodes>>
    BY <1>4, ForgeGrows
  <2>2. AnswersFounded'
    <3>1. ASSUME NEW m \in DOMAIN nodes, NEW r \in Reviewers, nodes[m].verdicts[r] # "none"
          PROVE  \E k \in NotesOf(m, r)' : notes'[m][k].body = nodes[m].verdicts[r]
      <4>1. PICK k \in NotesOf(m, r) : notes[m][k].body = nodes[m].verdicts[r]
        BY <3>1 DEF VerdictInv, AnswersFounded
      <4>2. m \in MRs /\ k \in DOMAIN notes[m]
        BY DEF TypeOK, NotesOf
      <4>3. k \in DOMAIN notes'[m] /\ notes'[m][k] = notes[m][k]
        BY <1>4, <4>2, NotesGrow
      <4> QED BY <4>1, <4>3 DEF NotesOf
    <3> QED BY <2>1, <3>1 DEF AnswersFounded
  <2>3. ASSUME NEW e \in emitted
        PROVE  e.note \in DOMAIN notes'[e.mr] /\ notes'[e.mr][e.note] = notes[e.mr][e.note]
    <3>1. e.mr \in MRs /\ e.note \in DOMAIN notes[e.mr]
      BY DEF TypeOK, Signal, VerdictInv, EmittedFounded
    <3> QED BY <1>4, <3>1, NotesGrow
  <2> QED BY <2>1, <2>2, <2>3 DEF VerdictInv, EmittedFounded, OwedKnown, VerdictHeard, About
<1>5. CASE Reconcile \/ FastPoll
  BY <1>2, <1>5 DEF Reconcile, FastPoll, Start
<1>6. ASSUME NEW m \in MRs, fetchScopeMRs(m) \/ fetchMR(m) \/ fetchMRAgain(m) PROVE VerdictInv'
  BY <1>2, <1>6 DEF fetchScopeMRs, fetchMR, fetchMRAgain, Read, Fetching
<1>7. CASE AskForJoin \/ AskForRefresh
  <2>1. \A m \in DOMAIN nodes' : m \in MRs /\ nodes'[m] = AnswerOf(m)
    <3>1. DOMAIN events \subseteq MRs /\ DOMAIN openSnapshots \ covered \subseteq MRs
      BY DEF TypeOK
    <3>2. CASE AskForJoin
      <4>1. PICK answered \in SUBSET DOMAIN events : runMRBatches(DOMAIN events, answered)
        BY <3>2 DEF AskForJoin
      <4> QED BY <3>1, <4>1 DEF runMRBatches
    <3>3. CASE AskForRefresh
      <4>1. PICK answered \in SUBSET (DOMAIN openSnapshots \ covered) :
              runMRBatches(DOMAIN openSnapshots \ covered, answered)
        BY <3>3 DEF AskForRefresh
      <4> QED BY <3>1, <4>1 DEF runMRBatches
    <3> QED BY <1>7, <3>2, <3>3
  <2>2. UNCHANGED <<notes, verdictBaseline, emitted, owed>>
    BY <1>7 DEF AskForJoin, AskForRefresh, Joining
  <2>3. ASSUME NEW m \in DOMAIN nodes', NEW r \in Reviewers, nodes'[m].verdicts[r] # "none"
        PROVE  \E k \in NotesOf(m, r) : notes[m][k].body = nodes'[m].verdicts[r]
    <3>1. nodes'[m].verdicts[r] = VerdictOf(m, r)
      BY <2>1, <2>3 DEF AnswerOf
    <3> QED BY <2>1, <2>3, <3>1, VerdictHasNote
  <2>4. AnswersFounded'
    BY <2>2, <2>3 DEF AnswersFounded, NotesOf
  <2> QED BY <1>1, <2>2, <2>4
<1>8. ASSUME NEW m \in MRs, DropArchived(m) \/ Carry(m) PROVE VerdictInv'
  BY <1>2, <1>8 DEF DropArchived, Carry, JoinStep, NoVerdicts
<1>9. ASSUME NEW m \in MRs, Enrich(m) \/ Refresh(m) PROVE VerdictInv'
  <2>1. m \in DOMAIN nodes /\ UNCHANGED <<notes, nodes>>
    BY <1>9 DEF Enrich, Refresh, JoinStep, Answered
  <2>2. emitNewVerdictSignals(m) \/ NoVerdicts
    BY <1>9 DEF Enrich, Refresh
  <2> QED BY <1>2, <2>1, <2>2, EmitHeard DEF NoVerdicts
<1>10. CASE Joined \/ Refreshed
  BY <1>2, <1>10 DEF Joined, Refreshed
<1>11. ASSUME EndCycle, UNCHANGED <<notes, verdictBaseline>>,
              owed' = {o \in owed : \A e \in emitted : ~About(e, o)}
       PROVE  VerdictInv'
  BY <1>11 DEF EndCycle, Nothing, VerdictInv, AnswersFounded, EmittedFounded, OwedKnown,
               VerdictHeard
<1>12. CASE ProviderFails \/ StorageFails \/ WriteEvents
  BY <1>11, <1>12 DEF ProviderFails, StorageFails, Abandon, WriteEvents
<1>13. CASE Crash
  BY <1>13 DEF Crash, EndCycle, Nothing, VerdictInv, AnswersFounded, EmittedFounded, OwedKnown,
               VerdictHeard
<1> QED
  BY <1>3, <1>4, <1>5, <1>6, <1>7, <1>8, <1>9, <1>10, <1>12, <1>13 DEF Next, Work

-----------------------------------------------------------------------------
(* Verdicts are dated by the number of notes they were read with. *)

NotesUpTo(m, r, p) == {k \in NotesOf(m, r) : k <= p}

(* What r said of m when m had p notes. *)
VerdictAt(m, r, p) ==
  LET last == Newest(NotesUpTo(m, r, p))
  IN  IF last = 0 \/ notes[m][last].body = "withdrawn" THEN "none" ELSE notes[m][last].body

AnswersDated ==
  \A m \in DOMAIN nodes :
    /\ nodes[m].seen <= Len(notes[m])
    /\ \A r \in Reviewers : nodes[m].verdicts[r] = VerdictAt(m, r, nodes[m].seen)

(* The baseline has r's verdict of some time since first sight, and no     *)
(* later than the answer under way.                                        *)
DatedBy(m, r, p) ==
  /\ firstSight[m] <= p /\ p <= Len(notes[m])
  /\ m \in DOMAIN nodes => p <= nodes[m].seen
  /\ verdictBaseline[m][r] = VerdictAt(m, r, p)

BaselineDated ==
  \A m \in DOMAIN verdictBaseline, r \in Reviewers : \E p \in Nat : DatedBy(m, r, p)

EmittedKnown == \A e \in emitted : e.mr \in DOMAIN verdictBaseline

NewsInv == AnswersDated /\ BaselineDated /\ EmittedKnown /\ OnlyNewVerdicts

LEMMA NotesType ==
  ASSUME TypeOK, NEW m \in MRs, NEW r, NEW p
  PROVE  /\ notes[m] \in Seq(Note) /\ Len(notes[m]) \in Nat
         /\ NotesOf(m, r) \in SUBSET (1..Len(notes[m]))
         /\ NotesUpTo(m, r, p) \in SUBSET (1..Len(notes[m]))
BY DEF TypeOK, NotesOf, NotesUpTo

(* Later notes do not change what was said. *)
LEMMA SaidIsSaid ==
  ASSUME TypeOK, Forge, NEW m \in MRs, NEW r, NEW p \in Nat, p <= Len(notes[m])
  PROVE  Len(notes[m]) <= Len(notes'[m]) /\ VerdictAt(m, r, p)' = VerdictAt(m, r, p)
<1>1. notes[m] \in Seq(Note) /\ Len(notes[m]) \in Nat
  BY NotesType
<1>2. UNCHANGED notes \/ \E n \in MRs, note \in Note : notes' = [notes EXCEPT ![n] = Append(notes[n], note)]
  BY DEF Forge, Edit, MembersChange, PipelineMoves, Archive, Review
<1>3. notes'[m] = notes[m] \/ \E note \in Note : notes'[m] = Append(notes[m], note)
  BY <1>2 DEF TypeOK
<1>4. /\ Len(notes[m]) <= Len(notes'[m])
      /\ DOMAIN notes[m] = {k \in DOMAIN notes'[m] : k <= Len(notes[m])}
      /\ \A k \in DOMAIN notes[m] : notes'[m][k] = notes[m][k]
  <2>1. CASE notes'[m] = notes[m]
    BY <1>1, <2>1
  <2>2. ASSUME NEW note \in Note, notes'[m] = Append(notes[m], note)
        PROVE  /\ Len(notes[m]) <= Len(notes'[m])
               /\ DOMAIN notes[m] = {k \in DOMAIN notes'[m] : k <= Len(notes[m])}
               /\ \A k \in DOMAIN notes[m] : notes'[m][k] = notes[m][k]
    BY <1>1, <2>2
  <2> QED BY <1>3, <2>1, <2>2
<1>5. NotesUpTo(m, r, p)' = NotesUpTo(m, r, p)
  <2>1. ASSUME NEW k \in DOMAIN notes'[m], k <= p PROVE k \in DOMAIN notes[m]
    <3>1. CASE notes'[m] = notes[m]
      BY <2>1, <3>1
    <3>2. ASSUME NEW note \in Note, notes'[m] = Append(notes[m], note) PROVE k \in DOMAIN notes[m]
      <4>1. k \in 1..(Len(notes[m]) + 1)
        BY <1>1, <2>1, <3>2
      <4>2. k <= Len(notes[m])
        BY <1>1, <2>1, <4>1
      <4> QED BY <1>4, <2>1, <4>2
    <3> QED BY <1>3, <3>1, <3>2
  <2>2. DOMAIN notes[m] \subseteq DOMAIN notes'[m]
    BY <1>4
  <2> QED BY <1>4, <2>1, <2>2 DEF NotesUpTo, NotesOf
<1>6. CASE NotesUpTo(m, r, p) = {}
  BY <1>4, <1>5, <1>6 DEF VerdictAt, Newest
<1>7. CASE NotesUpTo(m, r, p) # {}
  <2>1. Newest(NotesUpTo(m, r, p)) \in NotesUpTo(m, r, p)
    BY <1>1, <1>7, NotesType, NewestExists
  <2>2. Newest(NotesUpTo(m, r, p)) \in DOMAIN notes[m]
    BY <2>1 DEF NotesUpTo, NotesOf
  <2>3. Newest(NotesUpTo(m, r, p))' = Newest(NotesUpTo(m, r, p))
    BY <1>5
  <2> QED BY <1>4, <2>2, <2>3 DEF VerdictAt
<1> QED BY <1>4, <1>6, <1>7

(* What is said now is what was said with all of the notes. *)
LEMMA SaidNow ==
  ASSUME TypeOK, NEW m \in MRs, NEW r
  PROVE  VerdictOf(m, r) = VerdictAt(m, r, Len(notes[m]))
<1>1. NotesUpTo(m, r, Len(notes[m])) = NotesOf(m, r)
  BY NotesType DEF NotesUpTo
<1> QED BY <1>1 DEF VerdictOf, VerdictAt

(* The note that is matched with a changed verdict is younger than the     *)
(* baseline: otherwise the baseline had it already.                        *)
LEMMA MatchedIsNew ==
  ASSUME TypeOK, AnswersDated, AnswersFounded, NEW m \in DOMAIN nodes,
         m \in DOMAIN verdictBaseline,
         NEW r \in changedVerdicts(m), NEW p \in Nat, DatedBy(m, r, p)
  PROVE  MatchedNote(m, r) > firstSight[m]
<1> DEFINE q == nodes[m].seen
           last == Newest(NotesUpTo(m, r, q))
           S == {k \in NotesOf(m, r) : notes[m][k].body = nodes[m].verdicts[r]}
<1>1. /\ m \in MRs /\ r \in Reviewers /\ q \in Nat /\ p <= q /\ firstSight[m] \in Nat
      /\ firstSight[m] <= p /\ Len(notes[m]) \in Nat
  BY NotesType DEF TypeOK, Answer, changedVerdicts, DatedBy
<1>2. /\ nodes[m].verdicts[r] = VerdictAt(m, r, q) /\ nodes[m].verdicts[r] # "none"
      /\ nodes[m].verdicts[r] # VerdictAt(m, r, p)
  BY <1>1 DEF AnswersDated, DatedBy, changedVerdicts, Kept
<1>3. last # 0 /\ notes[m][last].body = nodes[m].verdicts[r]
  BY <1>2 DEF VerdictAt
<1>4. NotesUpTo(m, r, q) # {}
  BY <1>3 DEF Newest
<1>5. last \in NotesUpTo(m, r, q) /\ \A j \in NotesUpTo(m, r, q) : j <= last
  BY <1>1, <1>4, NotesType, NewestExists
<1>6. last \in NotesOf(m, r) /\ last \in Nat
  BY <1>1, <1>5, NotesType DEF NotesUpTo
<1>7. last > p
  <2> SUFFICES ASSUME last <= p PROVE FALSE
    BY <1>1, <1>6
  <2>1. last \in NotesUpTo(m, r, p) /\ NotesUpTo(m, r, p) \subseteq NotesUpTo(m, r, q)
    <3>1. \A k \in NotesOf(m, r) : k \in Nat
      BY <1>1, NotesType
    <3>2. last \in NotesUpTo(m, r, p)
      BY <1>6 DEF NotesUpTo
    <3>3. ASSUME NEW k \in NotesOf(m, r), k <= p PROVE k <= q
      <4>1. k \in Nat
        BY <3>1
      <4> HIDE DEF q
      <4> QED BY <1>1, <3>3, <4>1
    <3> QED BY <3>2, <3>3 DEF NotesUpTo
  <2>2. /\ Newest(NotesUpTo(m, r, p)) \in NotesUpTo(m, r, p)
        /\ \A j \in NotesUpTo(m, r, p) : j <= Newest(NotesUpTo(m, r, p))
    BY <1>1, <2>1, NotesType, NewestExists
  <2>3. Newest(NotesUpTo(m, r, p)) \in Nat
    BY <1>1, <2>2, NotesType
  <2>4. Newest(NotesUpTo(m, r, p)) = last
    <3>1. Newest(NotesUpTo(m, r, p)) <= last /\ last <= Newest(NotesUpTo(m, r, p))
      BY <1>5, <2>1, <2>2
    <3> HIDE DEF last
    <3> QED BY <1>6, <2>3, <3>1
  <2>5. VerdictAt(m, r, p) = VerdictAt(m, r, q)
    BY <2>4 DEF VerdictAt
  <2> QED BY <1>2, <2>5
<1>8. last \in S /\ S \in SUBSET (1..Len(notes[m]))
  BY <1>1, <1>3, <1>6, NotesType
<1>9. Newest(S) \in S /\ last <= Newest(S)
  <2> HIDE DEF S, last
  <2> QED BY <1>1, <1>8, NewestExists
<1>10. MatchedNote(m, r) \in Nat /\ last <= MatchedNote(m, r)
  <2>1. Newest(S) \in 1..Len(notes[m])
    BY <1>8, <1>9
  <2> QED BY <1>1, <1>9, <2>1 DEF MatchedNote
<1> HIDE DEF last, q
<1> QED BY <1>1, <1>6, <1>7, <1>10

LEMMA EmitNews ==
  ASSUME TypeOK, NewsInv, AnswersFounded, NEW m \in DOMAIN nodes, emitNewVerdictSignals(m),
         UNCHANGED <<notes, nodes>>
  PROVE  NewsInv'
<1>1. m \in MRs /\ nodes[m].seen \in Nat /\ nodes[m].verdicts \in Verdict
  BY DEF TypeOK, Answer
<1>2. ASSUME NEW n, NEW r, NEW p PROVE VerdictAt(n, r, p)' = VerdictAt(n, r, p)
  BY DEF VerdictAt, NotesUpTo, NotesOf
<1>3. AnswersDated'
  BY <1>2 DEF NewsInv, AnswersDated
<1>4. ASSUME NEW r \in Reviewers, NEW base, base = nodes[m].verdicts[r],
             NEW sight, sight <= nodes[m].seen
      PROVE  /\ sight <= nodes[m].seen /\ nodes[m].seen <= Len(notes[m])
             /\ base = VerdictAt(m, r, nodes[m].seen)
  BY <1>4 DEF NewsInv, AnswersDated
<1>5. CASE FirstSightOf(m)
  <2>1. /\ m \notin DOMAIN verdictBaseline /\ emitted' = emitted
        /\ DOMAIN verdictBaseline' = DOMAIN verdictBaseline \cup {m}
        /\ verdictBaseline'[m] = nodes[m].verdicts /\ firstSight'[m] = nodes[m].seen
        /\ \A n \in DOMAIN verdictBaseline :
             verdictBaseline'[n] = verdictBaseline[n] /\ firstSight'[n] = firstSight[n]
    BY <1>5 DEF FirstSightOf, Put, TypeOK
  <2>2. BaselineDated'
    <3>1. ASSUME NEW n \in DOMAIN verdictBaseline', NEW r \in Reviewers
          PROVE  \E p \in Nat : DatedBy(n, r, p)'
      <4>1. CASE n = m
        <5>1. DatedBy(m, r, nodes[m].seen)'
          BY <1>1, <1>2, <2>1 DEF DatedBy, NewsInv, AnswersDated
        <5> QED BY <1>1, <4>1, <5>1
      <4>2. CASE n # m
        <5>1. n \in DOMAIN verdictBaseline
          BY <2>1, <4>2
        <5>2. PICK p \in Nat : DatedBy(n, r, p)
          BY <5>1 DEF NewsInv, BaselineDated
        <5>3. DatedBy(n, r, p)'
          BY <1>2, <2>1, <5>1, <5>2 DEF DatedBy
        <5> QED BY <5>3
      <4> QED BY <4>1, <4>2
    <3> QED BY <3>1 DEF BaselineDated
  <2>3. EmittedKnown' /\ OnlyNewVerdicts'
    BY <2>1 DEF NewsInv, EmittedKnown, OnlyNewVerdicts
  <2> QED BY <1>3, <2>2, <2>3 DEF NewsInv
<1>6. ASSUME m \in DOMAIN verdictBaseline, UNCHANGED firstSight,
             NEW base, verdictBaseline' = Put(verdictBaseline, m, base),
             \A r \in Reviewers : base[r] \in {verdictBaseline[m][r], nodes[m].verdicts[r]}
      PROVE  BaselineDated' /\ DOMAIN verdictBaseline' = DOMAIN verdictBaseline
  <2>1. /\ DOMAIN verdictBaseline' = DOMAIN verdictBaseline /\ verdictBaseline'[m] = base
        /\ \A n \in DOMAIN verdictBaseline \ {m} : verdictBaseline'[n] = verdictBaseline[n]
    BY <1>6 DEF Put
  <2>2. ASSUME NEW n \in DOMAIN verdictBaseline, NEW r \in Reviewers
        PROVE  \E p \in Nat : DatedBy(n, r, p)'
    <3>1. PICK p \in Nat : DatedBy(n, r, p)
      BY DEF NewsInv, BaselineDated
    <3>2. CASE verdictBaseline'[n][r] = verdictBaseline[n][r]
      <4>1. DatedBy(n, r, p)'
        BY <1>2, <1>6, <3>1, <3>2 DEF DatedBy
      <4> QED BY <4>1
    <3>3. CASE n = m /\ verdictBaseline'[m][r] = nodes[m].verdicts[r]
      <4>1. firstSight[m] \in Nat /\ firstSight[m] <= nodes[m].seen
        BY <1>1, <1>6, <3>1, <3>3 DEF DatedBy, TypeOK
      <4>2. DatedBy(m, r, nodes[m].seen)'
        BY <1>1, <1>2, <1>6, <3>3, <4>1 DEF DatedBy, NewsInv, AnswersDated
      <4> QED BY <1>1, <3>3, <4>2
    <3> QED BY <1>6, <2>1, <3>2, <3>3
  <2> QED BY <2>1, <2>2 DEF BaselineDated
<1>7. CASE NoChange(m) \/ NotesFail(m)
  <2>1. /\ m \in DOMAIN verdictBaseline /\ UNCHANGED <<emitted, firstSight>>
        /\ verdictBaseline' = Put(verdictBaseline, m, Kept(m))
    BY <1>7 DEF NoChange, NotesFail
  <2>2. \A r \in Reviewers : Kept(m)[r] \in {verdictBaseline[m][r], nodes[m].verdicts[r]}
    BY DEF Kept
  <2>3. BaselineDated' /\ DOMAIN verdictBaseline' = DOMAIN verdictBaseline
    BY <1>6, <2>1, <2>2
  <2> QED BY <1>3, <2>1, <2>3 DEF NewsInv, EmittedKnown, OnlyNewVerdicts
<1>8. CASE NotesRead(m)
  <2>1. /\ m \in DOMAIN verdictBaseline /\ UNCHANGED firstSight
        /\ verdictBaseline' = Put(verdictBaseline, m, nodes[m].verdicts)
    BY <1>8 DEF NotesRead
  <2>2. BaselineDated' /\ DOMAIN verdictBaseline' = DOMAIN verdictBaseline
    BY <1>6, <2>1
  <2>3. ASSUME NEW e \in emitted'
        PROVE  e.mr \in DOMAIN verdictBaseline /\ e.note > firstSight[e.mr]
    <3>1. CASE e \in emitted
      BY <3>1 DEF NewsInv, EmittedKnown, OnlyNewVerdicts
    <3>2. CASE \E r \in changedVerdicts(m) : e = [mr |-> m, note |-> MatchedNote(m, r)]
      <4>1. PICK r \in changedVerdicts(m) : e = [mr |-> m, note |-> MatchedNote(m, r)]
        BY <3>2
      <4>2. PICK p \in Nat : DatedBy(m, r, p)
        BY <2>1 DEF NewsInv, BaselineDated, changedVerdicts
      <4>3. MatchedNote(m, r) > firstSight[m]
        BY <2>1, <4>2, MatchedIsNew DEF NewsInv
      <4> QED BY <2>1, <4>1, <4>3
    <3> QED BY <1>8, <2>3, <3>1, <3>2 DEF NotesRead
  <2> QED BY <1>3, <2>1, <2>2, <2>3 DEF NewsInv, EmittedKnown, OnlyNewVerdicts
<1> QED BY <1>5, <1>7, <1>8 DEF emitNewVerdictSignals

LEMMA NextNewsInv == TypeOK /\ VerdictInv /\ NewsInv /\ [Next]_vars => NewsInv'
<1> SUFFICES ASSUME TypeOK, VerdictInv, NewsInv, [Next]_vars PROVE NewsInv'
  OBVIOUS
<1> USE DEF durable, memory, cycle, history
<1>1. ASSUME UNCHANGED <<notes, nodes, verdictBaseline, firstSight, emitted>> PROVE NewsInv'
  <2>1. \A m, r, p : VerdictAt(m, r, p)' = VerdictAt(m, r, p)
    BY <1>1 DEF VerdictAt, NotesUpTo, NotesOf
  <2>2. \A m, r, p : DatedBy(m, r, p)' <=> DatedBy(m, r, p)
    BY <1>1, <2>1 DEF DatedBy
  <2>3. AnswersDated'
    BY <1>1, <2>1 DEF NewsInv, AnswersDated
  <2> QED BY <1>1, <2>2, <2>3 DEF NewsInv, BaselineDated, EmittedKnown, OnlyNewVerdicts
<1>2. CASE UNCHANGED vars
  BY <1>1, <1>2 DEF vars
<1>3. CASE Forge
  <2>1. UNCHANGED <<verdictBaseline, firstSight, emitted, nodes>>
    BY <1>3 DEF Forge, Edit, MembersChange, PipelineMoves, Archive, Review, Change
  <2>2. ASSUME NEW m \in MRs, NEW r, NEW p \in Nat, p <= Len(notes[m])
        PROVE  p <= Len(notes'[m]) /\ VerdictAt(m, r, p)' = VerdictAt(m, r, p)
    <3>1. Len(notes[m]) <= Len(notes'[m]) /\ VerdictAt(m, r, p)' = VerdictAt(m, r, p)
      BY <1>3, <2>2, SaidIsSaid
    <3>2. notes'[m] = notes[m] \/ \E note \in Note : notes'[m] = Append(notes[m], note)
      BY <1>3 DEF Forge, Edit, MembersChange, PipelineMoves, Archive, Review, TypeOK
    <3>3. Len(notes[m]) \in Nat /\ Len(notes'[m]) \in Nat
      BY <3>2, NotesType
    <3> QED BY <2>2, <3>1, <3>3
  <2>3. AnswersDated'
    <3>1. ASSUME NEW m \in DOMAIN nodes
          PROVE  /\ nodes[m].seen <= Len(notes'[m])
                 /\ \A r \in Reviewers : nodes[m].verdicts[r] = VerdictAt(m, r, nodes[m].seen)'
      <4>1. m \in MRs /\ nodes[m].seen \in Nat /\ nodes[m].seen <= Len(notes[m])
        BY DEF TypeOK, Answer, NewsInv, AnswersDated
      <4>2. PICK q \in Nat : q = nodes[m].seen
        BY <4>1
      <4>3. q <= Len(notes'[m]) /\ \A r : VerdictAt(m, r, q)' = VerdictAt(m, r, q)
        BY <2>2, <4>1, <4>2
      <4>4. \A r : VerdictAt(m, r, nodes[m].seen)' = VerdictAt(m, r, q)'
        BY <2>1, <4>2 DEF VerdictAt, NotesUpTo
      <4> QED BY <4>2, <4>3, <4>4 DEF NewsInv, AnswersDated
    <3> QED BY <2>1, <3>1 DEF AnswersDated
  <2>4. BaselineDated'
    <3>1. ASSUME NEW m \in DOMAIN verdictBaseline, NEW r \in Reviewers
          PROVE  \E p \in Nat : DatedBy(m, r, p)'
      <4>1. PICK p \in Nat : DatedBy(m, r, p)
        BY DEF NewsInv, BaselineDated
      <4>2. m \in MRs /\ p <= Len(notes[m])
        BY <4>1 DEF DatedBy, TypeOK
      <4>3. p <= Len(notes'[m]) /\ VerdictAt(m, r, p)' = VerdictAt(m, r, p)
        BY <2>2, <4>2
      <4>4. DatedBy(m, r, p)'
        BY <2>1, <4>1, <4>3 DEF DatedBy
      <4> QED BY <4>4
    <3> QED BY <2>1, <3>1 DEF BaselineDated
  <2> QED BY <2>1, <2>3, <2>4 DEF NewsInv, EmittedKnown, OnlyNewVerdicts
<1>4. CASE Reconcile \/ FastPoll
  BY <1>1, <1>4 DEF Reconcile, FastPoll, Start
<1>5. ASSUME NEW m \in MRs, fetchScopeMRs(m) \/ fetchMR(m) \/ fetchMRAgain(m) PROVE NewsInv'
  BY <1>1, <1>5 DEF fetchScopeMRs, fetchMR, fetchMRAgain, Read, Fetching
<1>6. CASE AskForJoin \/ AskForRefresh
  <2>1. \A m \in DOMAIN nodes' : m \in MRs /\ nodes'[m] = AnswerOf(m)
    <3>1. DOMAIN events \subseteq MRs /\ DOMAIN openSnapshots \ covered \subseteq MRs
      BY DEF TypeOK
    <3>2. CASE AskForJoin
      <4>1. PICK answered \in SUBSET DOMAIN events : runMRBatches(DOMAIN events, answered)
        BY <3>2 DEF AskForJoin
      <4> QED BY <3>1, <4>1 DEF runMRBatches
    <3>3. CASE AskForRefresh
      <4>1. PICK answered \in SUBSET (DOMAIN openSnapshots \ covered) :
              runMRBatches(DOMAIN openSnapshots \ covered, answered)
        BY <3>3 DEF AskForRefresh
      <4> QED BY <3>1, <4>1 DEF runMRBatches
    <3> QED BY <1>6, <3>2, <3>3
  <2>2. UNCHANGED <<notes, verdictBaseline, firstSight, emitted>>
    BY <1>6 DEF AskForJoin, AskForRefresh, Joining
  <2>3. ASSUME NEW m, NEW r, NEW p PROVE VerdictAt(m, r, p)' = VerdictAt(m, r, p)
    BY <2>2 DEF VerdictAt, NotesUpTo, NotesOf
  <2>4. ASSUME NEW m \in DOMAIN nodes'
        PROVE  /\ nodes'[m].seen = Len(notes[m]) /\ Len(notes[m]) \in Nat
               /\ \A r \in Reviewers : nodes'[m].verdicts[r] = VerdictAt(m, r, Len(notes[m]))
    BY <2>1, SaidNow, NotesType DEF AnswerOf
  <2>5. AnswersDated'
    <3>1. ASSUME NEW m \in DOMAIN nodes', NEW r \in Reviewers
          PROVE  VerdictAt(m, r, nodes[m].seen)' = VerdictAt(m, r, Len(notes[m]))
      BY <2>2, <2>4 DEF VerdictAt, NotesUpTo, NotesOf
    <3> QED BY <2>2, <2>4, <3>1 DEF AnswersDated
  <2>6. BaselineDated'
    BY <2>2, <2>3, <2>4 DEF NewsInv, BaselineDated, DatedBy
  <2> QED BY <2>2, <2>5, <2>6 DEF NewsInv, EmittedKnown, OnlyNewVerdicts
<1>7. ASSUME NEW m \in MRs, DropArchived(m) \/ Carry(m) PROVE NewsInv'
  BY <1>1, <1>7 DEF DropArchived, Carry, JoinStep, NoVerdicts
<1>8. ASSUME NEW m \in MRs, Enrich(m) \/ Refresh(m) PROVE NewsInv'
  <2>1. m \in DOMAIN nodes /\ UNCHANGED <<notes, nodes>>
    BY <1>8 DEF Enrich, Refresh, JoinStep, Answered
  <2>2. emitNewVerdictSignals(m) \/ NoVerdicts
    BY <1>8 DEF Enrich, Refresh
  <2> QED BY <1>1, <2>1, <2>2, EmitNews DEF NoVerdicts, VerdictInv
<1>9. CASE Joined \/ Refreshed
  BY <1>1, <1>9 DEF Joined, Refreshed
<1>10. ASSUME EndCycle, UNCHANGED <<notes, verdictBaseline, firstSight>> PROVE NewsInv'
  <2>1. DOMAIN nodes' = {} /\ emitted' = {}
    BY <1>10 DEF EndCycle, Nothing
  <2>2. ASSUME NEW m, NEW r, NEW p PROVE VerdictAt(m, r, p)' = VerdictAt(m, r, p)
    BY <1>10 DEF VerdictAt, NotesUpTo, NotesOf
  <2> QED BY <1>10, <2>1, <2>2 DEF NewsInv, AnswersDated, BaselineDated, DatedBy, EmittedKnown,
                                   OnlyNewVerdicts
<1>11. CASE ProviderFails \/ StorageFails \/ WriteEvents
  BY <1>10, <1>11 DEF ProviderFails, StorageFails, Abandon, WriteEvents
<1>12. CASE Crash
  BY <1>12 DEF Crash, EndCycle, Nothing, NewsInv, AnswersDated, BaselineDated, EmittedKnown,
               OnlyNewVerdicts
<1> QED
  BY <1>2, <1>3, <1>4, <1>5, <1>6, <1>7, <1>8, <1>9, <1>11, <1>12 DEF Next, Work

-----------------------------------------------------------------------------
(* The invariant and the theorems. *)

IInv == TypeOK /\ Phased /\ RestInv /\ GateInv /\ VerdictInv /\ NewsInv

(* The provider's memory, its result and the log agree with each other and *)
(* with the forge in every reachable state (gitlab.go, graphql.go).        *)
THEOREM Invariance == Spec => []IInv
<1>1. Init => IInv
  <2> SUFFICES ASSUME Init PROVE IInv
    OBVIOUS
  <2>1. TypeOK /\ Phased
    BY InitTypeOK DEF Init, Phased
  <2>2. \A m \in MRs : Observations(m) = {} /\ ~KnownGate(log[m])
    BY DEF Init, Observations, IdsOf, KnownGate, LatestIsOpen
  <2>3. /\ DOMAIN openSnapshots = {} /\ DOMAIN events = {} /\ DOMAIN earlier = {}
        /\ DOMAIN nodes = {}
    BY DEF Init, Nothing
  <2>4. RestInv
    BY <2>2, <2>3 DEF RestInv, CacheOpen, ClosedNotCached, BehindForge, LogBehind, ResultCached
  <2>5. GateInv /\ VerdictInv
    BY <2>2, <2>3 DEF Init, GateInv, GateCarried, EarlierCached, MemoryOfGate, VerdictInv, AnswersFounded,
                      EmittedFounded, OwedKnown, VerdictHeard
  <2>6. NewsInv
    BY <2>3 DEF Init, Nothing, NewsInv, AnswersDated, BaselineDated, EmittedKnown, OnlyNewVerdicts
  <2> QED BY <2>1, <2>4, <2>5, <2>6 DEF IInv
<1>2. IInv /\ [Next]_vars => IInv'
  BY NextTypeOK, NextPhased, NextRestInv, NextGateInv, NextVerdictInv, NextNewsInv DEF IInv
<1> QED BY <1>1, <1>2, PTL DEF Spec

LEMMA RevertStep ==
  ASSUME IInv, [Next]_vars, NEW m \in MRs \ overtaken,
         NEW k \in IdsOf("observed", log'[m]) \ DOMAIN log[m],
         NEW j \in IdsOf("observed", log'[m]), j < k
  PROVE  log'[m][j].fact.rest <= log'[m][k].fact.rest
<1> USE DEF IInv
<1>1. CASE WriteEvents
  <2>1. PICK gone : log' = [n \in MRs |-> Extended(n, gone)]
    BY <1>1 DEF WriteEvents
  <2>2. log'[m] = Extended(m, gone) /\ Len(log[m]) \in Nat
    BY <2>1 DEF TypeOK
  <2>3. \/ /\ m \in DOMAIN earlier /\ k = Len(log[m]) + 1 /\ log'[m][k].fact = earlier[m]
        \/ /\ m \in DOMAIN events /\ k > Len(log[m]) /\ k = Len(log'[m])
           /\ log'[m][k].fact = events[m]
    BY <2>2, RowsWritten DEF Observations, IdsOf
  <2>4. \/ j \in Observations(m) /\ log'[m][j] = log[m][j]
        \/ m \in DOMAIN earlier /\ j = Len(log[m]) + 1 /\ log'[m][j].fact = earlier[m]
        \/ m \in DOMAIN events /\ j > Len(log[m]) /\ j = Len(log'[m])
    BY <2>2, RowsWritten
  <2>5. j \in Nat /\ k \in Nat /\ k <= Len(log'[m]) /\ Len(log'[m]) \in Nat
    <3>1. log'[m] \in Seq([kind : {"observed"}, fact : Snapshot, salt : Nat]
                          \cup [kind : {"removed"}, supersedes : Nat])
      BY <2>2, WritesType
    <3> QED BY <3>1 DEF IdsOf
  <2>6. CASE j \in Observations(m) /\ log'[m][j] = log[m][j]
    BY <2>3, <2>6 DEF RestInv, LogBehind
  <2>7. CASE m \in DOMAIN earlier /\ j = Len(log[m]) + 1 /\ log'[m][j].fact = earlier[m]
    BY <2>2, <2>3, <2>5, <2>7 DEF RestInv, BehindForge
  <2>8. CASE m \in DOMAIN events /\ j > Len(log[m]) /\ j = Len(log'[m])
    BY <2>5, <2>8
  <2> QED BY <2>4, <2>6, <2>7, <2>8
<1>2. CASE UNCHANGED log
  BY <1>2 DEF IdsOf
<1> QED BY <1>1, <1>2, LogWritten

(* Nothing older than the stored REST facts is appended, whatever the      *)
(* order of sweeps, polls, refreshes, failures and restarts, unless a poll *)
(* read the merge request twice and found it closed the second time        *)
(* (openSnapshots, gitlab.go).                                             *)
THEOREM RevertTheorem == Spec => NeverReverted
<1>1. IInv /\ [Next]_vars
        => [\A m \in MRs \ overtaken :
              \A k \in IdsOf("observed", log'[m]) \ DOMAIN log[m],
                 j \in IdsOf("observed", log'[m]) :
                j < k => log'[m][j].fact.rest <= log'[m][k].fact.rest]_vars
  BY RevertStep
<1> QED BY <1>1, Invariance, PTL DEF Spec, NeverReverted

(* A known gate is kept while the provider remembers (carryForwardGate).   *)
THEOREM GateTheorem == Spec => GateKept
<1>1. IInv /\ [Next]_vars
        => [\A m \in MRs \ forgot :
              KnownGate(log[m]) /\ LatestIsOpen(log'[m]) => KnownGate(log'[m])]_vars
  BY GateStep DEF IInv
<1> QED BY <1>1, Invariance, PTL DEF Spec, GateKept

(* A change of verdict that was seen is announced by the result, or still  *)
(* differs from the baseline (emitNewVerdictSignals).                      *)
THEOREM VerdictTheorem == Spec => []VerdictHeard
<1>1. IInv => VerdictHeard
  BY DEF IInv, VerdictInv
<1> QED BY <1>1, Invariance, PTL

(* No signal is of a verdict that was there when the provider first saw    *)
(* the merge request, however its baseline got where it is                 *)
(* (emitNewVerdictSignals, ADR-0016).                                      *)
THEOREM NewsTheorem == Spec => []OnlyNewVerdicts
<1>1. IInv => OnlyNewVerdicts
  BY DEF IInv, NewsInv
<1> QED BY <1>1, Invariance, PTL
=============================================================================
