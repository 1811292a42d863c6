-------------------------- MODULE GitLabSweepProofs --------------------------
(***************************************************************************)
(* Theorems about GitLabProvider, continued: what a sweep settles, and     *)
(* what an answered query can do to the facts it returns.                  *)
(***************************************************************************)
EXTENDS GitLabProviderProofs

(* Once a sweep is stored, every item it returned is on the board, and no  *)
(* other one as mine: an item that was reaped is back in spite of rows     *)
(* that look the same, one that was not returned is off in spite of the    *)
(* cache (persist and reap in the engine, resurrection salts).  The item   *)
(* may be there without a role: a row that says so may be in its history.  *)
SweepDecides ==
  [][sweep /\ WriteEvents =>
       \A m \in MRs : /\ m \in DOMAIN events => OnBoard(log'[m])
                      /\ LatestIsOpenRoled(log'[m]) => m \in DOMAIN events]_vars

(* What is stored of an item the query has answered is never older than    *)
(* what was stored before: downgrades are those of carried enrichment      *)
(* (graphqlJoin, openSetRefresh; NeverDowngraded shows them).              *)
AnsweredNotDowngraded ==
  [][\A m \in DOMAIN nodes : \A j \in Observations(m) :
       log'[m] # log[m] /\ ~LatestIsRemoved(log'[m])
         => log[m][j].fact.graph <= log'[m][Len(log'[m])].fact.graph]_vars

-----------------------------------------------------------------------------
(* The inductive invariants. *)

(* Outside a cycle there is no result, and before the query no answer.     *)
CycleStages ==
  /\ phase = "idle" => DOMAIN events = {}
  /\ phase \in {"idle", "fetch"} => DOMAIN nodes = {}
  /\ phase = "store" => toJoin = {}

(* A sweep returns open items, reads them once and does not refresh the    *)
(* cache.                                                                  *)
SweepResult ==
  sweep => /\ phase # "refresh" /\ ~refreshing /\ DOMAIN earlier = {}
           /\ \A m \in DOMAIN events : events[m].open

(* A row refers to an earlier one. *)
RowsLookBack ==
  \A m \in MRs : \A k \in DOMAIN log[m] :
    /\ log[m][k].kind = "observed" => log[m][k].salt < k
    /\ log[m][k].kind = "removed" => log[m][k].supersedes < k

(* Whether it is open is a function of the version that REST returned, the *)
(* same one for the rows, the cache, the result and the forge; the role is *)
(* not, which only a sweep tells in full.                                  *)
Agree(told) ==
  \A m \in MRs :
    /\ told[m][forge[m].rest] = forge[m].open
    /\ \A k \in Observations(m) : told[m][log[m][k].fact.rest] = log[m][k].fact.open
    /\ m \in DOMAIN openSnapshots => told[m][openSnapshots[m].rest] = openSnapshots[m].open
    /\ m \in DOMAIN events => told[m][events[m].rest] = events[m].open
    /\ m \in DOMAIN earlier => told[m][earlier[m].rest] = earlier[m].open

RestDecides == \E told \in [MRs -> [Nat -> BOOLEAN]] : Agree(told)

(* A row that says it is closed has the newest version: only open ones can *)
(* be brought back by the cache.                                           *)
ClosedIsNewest ==
  \A m \in MRs : \A j \in Observations(m), k \in Observations(m) :
    j < k /\ ~log[m][k].fact.open => log[m][j].fact.rest <= log[m][k].fact.rest

(* No enrichment is newer than the forge. *)
GraphBehind ==
  \A m \in MRs :
    /\ \A k \in Observations(m) : log[m][k].fact.graph <= forge[m].graph
    /\ m \in DOMAIN openSnapshots => openSnapshots[m].graph <= forge[m].graph
    /\ m \in DOMAIN events => events[m].graph <= forge[m].graph
    /\ m \in DOMAIN earlier => earlier[m].graph <= forge[m].graph
    /\ m \in DOMAIN nodes => nodes[m].graph <= forge[m].graph

(* An answer is not older than a row, and the result has it once joined.   *)
AnswersNewer ==
  \A m \in DOMAIN nodes :
    /\ \A k \in Observations(m) : log[m][k].fact.graph <= nodes[m].graph
    /\ m \in DOMAIN events \ toJoin => events[m].graph = nodes[m].graph
    /\ m \in DOMAIN earlier \ toJoin => earlier[m].graph = nodes[m].graph

SweepInv ==
  /\ CycleStages /\ SweepResult /\ RowsLookBack /\ RestDecides /\ ClosedIsNewest
  /\ GraphBehind /\ AnswersNewer
-----------------------------------------------------------------------------
(* Where a value comes from: the steps of the provider and the engine only *)
(* move what is there, or read it from the forge.                          *)

SameVersion(x, y) == x.rest = y.rest /\ x.open = y.open

ReadFrom(m, x) == m \in MRs /\ SameVersion(x, forge[m]) /\ x.graph = -1

GraphFrom(m, graph) ==
  \/ m \in DOMAIN nodes /\ graph = nodes[m].graph
  \/ m \in DOMAIN openSnapshots /\ graph = openSnapshots[m].graph

EventsFrom ==
  \A m \in DOMAIN events' :
    \/ m \in DOMAIN events /\ events'[m] = events[m]
    \/ ReadFrom(m, events'[m])
    \/ /\ m \in DOMAIN events
       /\ SameVersion(events'[m], events[m]) /\ GraphFrom(m, events'[m].graph)
    \/ /\ m \in DOMAIN openSnapshots
       /\ SameVersion(events'[m], openSnapshots[m]) /\ GraphFrom(m, events'[m].graph)

EarlierFrom ==
  \A m \in DOMAIN earlier' :
    \/ m \in DOMAIN earlier /\ earlier'[m] = earlier[m]
    \/ m \in DOMAIN events /\ earlier'[m] = events[m]
    \/ /\ m \in DOMAIN earlier
       /\ SameVersion(earlier'[m], earlier[m]) /\ GraphFrom(m, earlier'[m].graph)

CacheFrom ==
  \A m \in DOMAIN openSnapshots' :
    \/ m \in DOMAIN openSnapshots /\ openSnapshots'[m] = openSnapshots[m]
    \/ m \in DOMAIN events /\ openSnapshots'[m] = events[m]
    \/ m \in DOMAIN earlier /\ openSnapshots'[m] = earlier[m]

AnswersFrom ==
  \A m \in DOMAIN nodes' :
    \/ m \in DOMAIN nodes /\ nodes'[m] = nodes[m]
    \/ m \in MRs /\ nodes'[m].graph = forge[m].graph

RowsFrom ==
  \A m \in MRs : \A k \in Observations(m)' :
    \/ k \in Observations(m) /\ log'[m][k] = log[m][k]
    \/ m \in DOMAIN events /\ log'[m][k].fact = events[m]
    \/ m \in DOMAIN earlier /\ log'[m][k].fact = earlier[m]

(* A joined snapshot has the answer's enrichment, or what the cache holds. *)
LEMMA JoinedFacts ==
  ASSUME TypeOK, NEW m \in MRs, Enrich(m) \/ Carry(m)
  PROVE  /\ JoinedBy(events, events', m) /\ JoinedBy(earlier, earlier', m)
         /\ \/ UNCHANGED <<events, earlier>> /\ ~Answered(m)
            \/ \E g : /\ Answered(m) => g = nodes[m].graph
                      /\ GraphFrom(m, g)
                      /\ m \in DOMAIN events => events'[m].graph = g
                      /\ m \in DOMAIN earlier => earlier'[m].graph = g
<1>1. events \in [DOMAIN events -> Snapshot] /\ earlier \in [DOMAIN earlier -> Snapshot]
  BY DEF TypeOK
<1>2. PICK e, h : e = events' /\ h = earlier'
  OBVIOUS
<1>3. ASSUME NEW g \in Nat \cup {-1},
             e = carryForwardGate(WithGraph(events, m, g), m),
             h = carryForwardGate(WithGraph(earlier, m, g), m)
      PROVE  /\ m \in DOMAIN events => e[m].graph = g
             /\ m \in DOMAIN earlier => h[m].graph = g
  BY <1>1, <1>3, JoinedType
<1>4. CASE Enrich(m)
  <2>1. nodes[m].graph \in Nat /\ Answered(m)
    BY <1>4 DEF Enrich, Answered, TypeOK, Answer
  <2>2. /\ m \in DOMAIN events => events'[m].graph = nodes[m].graph
        /\ m \in DOMAIN earlier => earlier'[m].graph = nodes[m].graph
    BY <1>2, <1>3, <1>4, <2>1 DEF Enrich
  <2> QED BY <1>4, <2>1, <2>2, JoinedResult DEF GraphFrom, Answered
<1>5. CASE Carry(m) /\ m \in DOMAIN openSnapshots
  <2>1. openSnapshots[m].graph \in Nat \cup {-1} /\ ~Answered(m)
    BY <1>5 DEF Carry, TypeOK, Snapshot
  <2>2. /\ m \in DOMAIN events => events'[m].graph = openSnapshots[m].graph
        /\ m \in DOMAIN earlier => earlier'[m].graph = openSnapshots[m].graph
    BY <1>2, <1>3, <1>5, <2>1 DEF Carry
  <2> QED BY <1>5, <2>1, <2>2, JoinedResult DEF GraphFrom
<1>6. CASE Carry(m) /\ m \notin DOMAIN openSnapshots
  BY <1>6, JoinedResult DEF Carry
<1> QED BY <1>4, <1>5, <1>6

(* A refreshed snapshot: the cached one with the answer, of a merge        *)
(* request that was read only once.                                        *)
LEMMA RefreshedFacts ==
  ASSUME TypeOK, Phased, NEW m \in MRs, Refresh(m)
  PROVE  /\ m \in DOMAIN openSnapshots /\ m \in DOMAIN nodes /\ m \notin DOMAIN earlier
         /\ DOMAIN events' = DOMAIN events \cup {m}
         /\ \A n \in DOMAIN events : n # m => events'[n] = events[n]
         /\ SameVersion(events'[m], openSnapshots[m])
         /\ events'[m].graph = nodes[m].graph
         /\ UNCHANGED earlier
<1> DEFINE v == [openSnapshots[m] EXCEPT !.graph = nodes[m].graph]
<1>1. /\ m \in DOMAIN openSnapshots /\ openSnapshots[m] \in Snapshot /\ m \in DOMAIN nodes
      /\ m \notin DOMAIN earlier
  BY DEF Refresh, JoinStep, Phased, Answered, TypeOK
<1>2. SameVersion(v, openSnapshots[m]) /\ v.graph = nodes[m].graph
  BY <1>1 DEF Snapshot, SameVersion
<1>3. events' = Put(events, m, v) /\ UNCHANGED earlier
  BY DEF Refresh
<1> HIDE DEF v
<1>4. /\ DOMAIN events' = DOMAIN events \cup {m} /\ events'[m] = v
      /\ \A n \in DOMAIN events : n # m => events'[n] = events[n]
  BY <1>3 DEF Put
<1> QED BY <1>1, <1>2, <1>3, <1>4

(* A read adds what the forge returned, or nothing; a second read keeps    *)
(* the first.                                                              *)
LEMMA ReadFacts ==
  ASSUME TypeOK, NEW m \in MRs, fetchScopeMRs(m) \/ fetchMR(m) \/ fetchMRAgain(m)
  PROVE  /\ phase = "fetch" /\ phase' = "fetch"
         /\ UNCHANGED <<sweep, refreshing, nodes, toJoin, log>>
         /\ \/ UNCHANGED events
            \/ /\ DOMAIN events' = DOMAIN events \cup {m}
               /\ \A n \in DOMAIN events : n # m => events'[n] = events[n]
               /\ ReadFrom(m, events'[m]) /\ (sweep => forge[m].open)
         /\ \/ UNCHANGED earlier
            \/ /\ ~sweep /\ m \in DOMAIN events
               /\ DOMAIN earlier' = DOMAIN earlier \cup {m} /\ earlier'[m] = events[m]
               /\ \A n \in DOMAIN earlier : n # m => earlier'[n] = earlier[n]
<1>1. \/ UNCHANGED events
      \/ \E v : events' = Put(events, m, v) /\ ReadFrom(m, v) /\ (sweep => forge[m].open)
  <2>1. ASSUME NEW gated \in BOOLEAN
        PROVE  /\ ReadFrom(m, observedFromMR(m, gated))
               /\ ReadFrom(m, [observedFromMR(m, gated) EXCEPT !.roles = {forge[m].role}])
    BY DEF ReadFrom, SameVersion, observedFromMR
  <2>2. CASE fetchScopeMRs(m)
    BY <2>1, <2>2 DEF fetchScopeMRs
  <2>3. CASE fetchMR(m) \/ fetchMRAgain(m)
    BY <2>1, <2>3 DEF fetchMR, fetchMRAgain, Todo
  <2> QED BY <2>2, <2>3
<1>2. ASSUME NEW f, NEW v, NEW h, h = Put(f, m, v)
      PROVE  /\ DOMAIN h = DOMAIN f \cup {m} /\ h[m] = v
             /\ \A n \in DOMAIN f : n # m => h[n] = f[n]
  BY <1>2 DEF Put
<1>3. /\ phase = "fetch" /\ phase' = "fetch"
      /\ UNCHANGED <<sweep, refreshing, nodes, toJoin, log>>
  BY DEF fetchScopeMRs, fetchMR, fetchMRAgain, Read, Fetching, durable
<1>4. \/ UNCHANGED earlier
      \/ ~sweep /\ m \in DOMAIN events /\ earlier' = Put(earlier, m, events[m])
  BY DEF fetchScopeMRs, fetchMR, fetchMRAgain, Read, Todo
<1>5. PICK e, h : e = events' /\ h = earlier'
  OBVIOUS
<1>6. \/ UNCHANGED events
      \/ /\ DOMAIN events' = DOMAIN events \cup {m}
         /\ \A n \in DOMAIN events : n # m => events'[n] = events[n]
         /\ ReadFrom(m, events'[m]) /\ (sweep => forge[m].open)
  BY <1>1, <1>2, <1>5
<1>7. \/ UNCHANGED earlier
      \/ /\ ~sweep /\ m \in DOMAIN events
         /\ DOMAIN earlier' = DOMAIN earlier \cup {m} /\ earlier'[m] = events[m]
         /\ \A n \in DOMAIN earlier : n # m => earlier'[n] = earlier[n]
  <2>1. CASE UNCHANGED earlier
    BY <2>1
  <2>2. CASE ~sweep /\ m \in DOMAIN events /\ earlier' = Put(earlier, m, events[m])
    <3>1. h = Put(earlier, m, events[m])
      BY <1>5, <2>2
    <3>2. /\ DOMAIN h = DOMAIN earlier \cup {m} /\ h[m] = events[m]
          /\ \A n \in DOMAIN earlier : n # m => h[n] = earlier[n]
      BY <1>2, <3>1
    <3> QED BY <1>5, <2>2, <3>2
  <2> QED BY <1>4, <2>1, <2>2
<1> QED BY <1>3, <1>6, <1>7

LEMMA MovedEvents ==
  ASSUME TypeOK, Phased, [Next]_vars
  PROVE  EventsFrom /\ EarlierFrom
<1> USE DEF memory, cycle
<1>1. CASE UNCHANGED <<events, earlier>>
  BY <1>1 DEF EventsFrom, EarlierFrom
<1>2. CASE UNCHANGED vars \/ Forge \/ Reconcile \/ FastPoll
  <2>1. UNCHANGED <<events, earlier>>
    BY <1>2, ForgeGrows DEF vars, Reconcile, FastPoll, Start
  <2> QED BY <1>1, <2>1
<1>3. CASE AskForJoin \/ AskForRefresh \/ Joined \/ Refreshed
  <2>1. UNCHANGED <<events, earlier>>
    BY <1>3 DEF AskForJoin, AskForRefresh, Joining, Joined, Refreshed
  <2> QED BY <1>1, <2>1
<1>4. CASE ProviderFails \/ StorageFails \/ Crash \/ WriteEvents
  <2>1. DOMAIN events' = {} /\ DOMAIN earlier' = {}
    BY <1>4, NothingType DEF ProviderFails, StorageFails, Abandon, Crash, WriteEvents, EndCycle
  <2> QED BY <2>1 DEF EventsFrom, EarlierFrom
<1>5. ASSUME NEW m \in MRs, fetchScopeMRs(m) \/ fetchMR(m) \/ fetchMRAgain(m)
      PROVE  EventsFrom /\ EarlierFrom
  BY <1>5, ReadFacts DEF EventsFrom, EarlierFrom
<1>6. ASSUME NEW m \in MRs, DropArchived(m) PROVE EventsFrom /\ EarlierFrom
  BY <1>6 DEF DropArchived, Without, EventsFrom, EarlierFrom
<1>7. ASSUME NEW m \in MRs, Enrich(m) \/ Carry(m) PROVE EventsFrom /\ EarlierFrom
  <2>1. CASE UNCHANGED <<events, earlier>>
    BY <1>1, <2>1
  <2>2. CASE \E g : /\ GraphFrom(m, g)
                    /\ m \in DOMAIN events => events'[m].graph = g
                    /\ m \in DOMAIN earlier => earlier'[m].graph = g
    BY <1>7, <2>2, JoinedResult DEF JoinedBy, EventsFrom, EarlierFrom, SameVersion
  <2> QED BY <1>7, <2>1, <2>2, JoinedFacts
<1>8. ASSUME NEW m \in MRs, Refresh(m) PROVE EventsFrom /\ EarlierFrom
  BY <1>8, RefreshedFacts DEF EventsFrom, EarlierFrom, GraphFrom
<1> QED BY <1>2, <1>3, <1>4, <1>5, <1>6, <1>7, <1>8 DEF Next, Work

LEMMA MovedCache ==
  ASSUME TypeOK, [Next]_vars
  PROVE  CacheFrom
<1> USE DEF memory
<1>1. CASE UNCHANGED openSnapshots
  BY <1>1 DEF CacheFrom
<1>2. ASSUME NEW S, evict(S) PROVE CacheFrom
  BY <1>2 DEF evict, Without, CacheFrom
<1>3. CASE UNCHANGED vars \/ Forge \/ Reconcile \/ FastPoll \/ ProviderFails \/ StorageFails
             \/ AskForJoin \/ AskForRefresh \/ Refreshed \/ WriteEvents
  <2>1. UNCHANGED openSnapshots
    BY <1>3, ForgeGrows DEF vars, Reconcile, FastPoll, Start, ProviderFails, StorageFails,
       AskForJoin, AskForRefresh, Joining, Refreshed, WriteEvents
  <2> QED BY <1>1, <2>1
<1>4. CASE Crash
  <2>1. DOMAIN openSnapshots' = {}
    BY <1>4, NothingType DEF Crash
  <2> QED BY <2>1 DEF CacheFrom
<1>5. ASSUME NEW m \in MRs, fetchScopeMRs(m) \/ Enrich(m) \/ Carry(m) \/ Refresh(m)
      PROVE  CacheFrom
  BY <1>1, <1>5 DEF fetchScopeMRs, Enrich, Carry, Refresh
<1>6. ASSUME NEW m \in MRs, fetchMR(m) \/ fetchMRAgain(m) \/ DropArchived(m) PROVE CacheFrom
  BY <1>2, <1>6 DEF fetchMR, fetchMRAgain, Todo, DropArchived
<1>7. CASE Joined
  <2>1. cacheOpenSnapshots BY <1>7 DEF Joined
  <2> QED BY <2>1, CacheType DEF CacheFrom, LastOpen, ClosedMeanwhile
<1> QED BY <1>3, <1>4, <1>5, <1>6, <1>7 DEF Next, Work

LEMMA MovedAnswers ==
  ASSUME TypeOK, [Next]_vars
  PROVE  AnswersFrom
<1> USE DEF cycle
<1>1. CASE UNCHANGED nodes
  BY <1>1 DEF AnswersFrom
<1>2. CASE UNCHANGED vars \/ Forge \/ Reconcile \/ FastPoll \/ Joined \/ Refreshed
  <2>1. UNCHANGED nodes
    BY <1>2, ForgeGrows DEF vars, Reconcile, FastPoll, Start, Joined, Refreshed
  <2> QED BY <1>1, <2>1
<1>3. CASE ProviderFails \/ StorageFails \/ Crash \/ WriteEvents
  <2>1. DOMAIN nodes' = {}
    BY <1>3, NothingType DEF ProviderFails, StorageFails, Abandon, Crash, WriteEvents, EndCycle
  <2> QED BY <2>1 DEF AnswersFrom
<1>4. ASSUME NEW asked \in SUBSET MRs, NEW answered \in SUBSET asked, runMRBatches(asked, answered)
      PROVE  AnswersFrom
  BY <1>4 DEF runMRBatches, AnswerOf, AnswersFrom
<1>5. CASE AskForJoin \/ AskForRefresh
  <2>1. DOMAIN events \subseteq MRs /\ DOMAIN openSnapshots \ covered \subseteq MRs
    BY DEF TypeOK
  <2> QED BY <1>4, <1>5, <2>1 DEF AskForJoin, AskForRefresh
<1>6. ASSUME NEW m \in MRs, \/ fetchScopeMRs(m) \/ fetchMR(m) \/ fetchMRAgain(m)
                            \/ DropArchived(m) \/ Enrich(m) \/ Carry(m) \/ Refresh(m)
      PROVE  AnswersFrom
  BY <1>1, <1>6 DEF fetchScopeMRs, fetchMR, fetchMRAgain, Read, Fetching, DropArchived, Enrich,
                    Carry, Refresh, JoinStep
<1> QED BY <1>2, <1>3, <1>5, <1>6 DEF Next, Work

LEMMA MovedRows ==
  ASSUME TypeOK, [Next]_vars
  PROVE  RowsFrom
<1>1. CASE UNCHANGED log
  BY <1>1 DEF RowsFrom, Observations
<1>2. CASE WriteEvents
  <2>1. PICK gone : log' = [m \in MRs |-> Extended(m, gone)]
    BY <1>2 DEF WriteEvents
  <2> QED BY <2>1, RowsWritten DEF RowsFrom, Observations
<1> QED BY <1>1, <1>2, LogWritten

-----------------------------------------------------------------------------
(* The stages of a cycle and the result of a sweep. *)

LEMMA NextCycleStages == TypeOK /\ Phased /\ CycleStages /\ [Next]_vars => CycleStages'
<1> SUFFICES ASSUME TypeOK, Phased, CycleStages, [Next]_vars PROVE CycleStages'
  OBVIOUS
<1> USE DEF cycle
<1>1. CASE UNCHANGED vars \/ Forge
  <2>1. UNCHANGED cycle
    BY <1>1, ForgeGrows DEF vars
  <2> QED BY <2>1 DEF CycleStages
<1>2. CASE Reconcile \/ FastPoll
  BY <1>2 DEF Reconcile, FastPoll, Start, CycleStages
<1>3. CASE ProviderFails \/ StorageFails \/ Crash \/ WriteEvents
  BY <1>3, NothingType
  DEF ProviderFails, StorageFails, Abandon, Crash, WriteEvents, EndCycle, CycleStages
<1>4. CASE AskForJoin \/ AskForRefresh
  BY <1>4 DEF AskForJoin, AskForRefresh, Joining, CycleStages
<1>5. ASSUME NEW m \in MRs, fetchScopeMRs(m) \/ fetchMR(m) \/ fetchMRAgain(m) PROVE CycleStages'
  BY <1>5, ReadFacts DEF CycleStages
<1>6. ASSUME NEW m \in MRs, DropArchived(m) \/ Enrich(m) \/ Carry(m) \/ Refresh(m)
      PROVE  CycleStages'
  BY <1>6 DEF DropArchived, Enrich, Carry, Refresh, JoinStep, CycleStages
<1>7. CASE Joined \/ Refreshed
  BY <1>7 DEF Joined, Refreshed, CycleStages
<1> QED BY <1>1, <1>2, <1>3, <1>4, <1>5, <1>6, <1>7 DEF Next, Work

LEMMA NextSweepResult ==
  TypeOK /\ Phased /\ CycleStages /\ SweepResult /\ [Next]_vars => SweepResult'
<1> SUFFICES ASSUME TypeOK, Phased, CycleStages, SweepResult, [Next]_vars PROVE SweepResult'
  OBVIOUS
<1> USE DEF cycle
<1>1. CASE UNCHANGED vars \/ Forge
  <2>1. UNCHANGED cycle
    BY <1>1, ForgeGrows DEF vars
  <2> QED BY <2>1 DEF SweepResult
<1>2. CASE Reconcile \/ FastPoll
  BY <1>2 DEF Reconcile, FastPoll, Start, Phased, CycleStages, SweepResult, TypeOK
<1>3. CASE ProviderFails \/ StorageFails \/ Crash \/ WriteEvents
  <2>1. sweep' = FALSE
    BY <1>3 DEF ProviderFails, StorageFails, Abandon, Crash, WriteEvents, EndCycle
  <2> QED BY <2>1 DEF SweepResult
<1>4. CASE AskForJoin \/ AskForRefresh
  BY <1>4 DEF AskForJoin, AskForRefresh, Joining, SweepResult
<1>5. ASSUME NEW m \in MRs, fetchScopeMRs(m) \/ fetchMR(m) \/ fetchMRAgain(m) PROVE SweepResult'
  BY <1>5, ReadFacts DEF SweepResult, ReadFrom, SameVersion
<1>6. ASSUME NEW m \in MRs, DropArchived(m) PROVE SweepResult'
  BY <1>6 DEF DropArchived, JoinStep, Without, SweepResult
<1>7. ASSUME NEW m \in MRs, Enrich(m) \/ Carry(m) PROVE SweepResult'
  <2>1. UNCHANGED <<sweep, phase, refreshing>>
    BY <1>7 DEF Enrich, Carry, JoinStep
  <2> QED BY <1>7, <2>1, JoinedResult DEF JoinedBy, SweepResult
<1>8. ASSUME NEW m \in MRs, Refresh(m) PROVE SweepResult'
  BY <1>8 DEF Refresh, JoinStep, SweepResult
<1>9. CASE Joined \/ Refreshed
  BY <1>9 DEF Joined, Refreshed, SweepResult
<1> QED BY <1>1, <1>2, <1>3, <1>4, <1>5, <1>6, <1>7, <1>8, <1>9 DEF Next, Work

-----------------------------------------------------------------------------
(* What the forge does. *)

LEMMA ForgeSteps ==
  ASSUME [Next]_vars
  PROVE  Forge \/ UNCHANGED forge
BY DEF vars, Next, Work, Reconcile, FastPoll, Start, ProviderFails, StorageFails, Crash,
       fetchScopeMRs, fetchMR, fetchMRAgain, Read, Fetching, AskForJoin, AskForRefresh, Joining,
       DropArchived, Enrich, Carry, Refresh, JoinStep, Joined, Refreshed, WriteEvents

(* A merge request opens or closes only with a new version, and its        *)
(* enrichment only moves on.                                               *)
LEMMA ForgeEdit ==
  ASSUME TypeOK, Forge
  PROVE  \E m \in MRs, f \in MergeRequest :
           /\ forge' = [forge EXCEPT ![m] = f]
           /\ forge[m].graph <= f.graph
           /\ \/ f.rest = forge[m].rest + 1
              \/ f.rest = forge[m].rest /\ f.open = forge[m].open
<1>1. PICK m \in MRs :
        Edit(m) \/ MembersChange(m) \/ PipelineMoves(m) \/ Archive(m) \/ Review(m)
  BY DEF Forge
<1>2. /\ forge[m] \in MergeRequest /\ forge[m].rest \in Nat /\ forge[m].rest + 1 \in Nat
      /\ forge[m].graph \in Nat /\ forge[m].graph + 1 \in Nat
      /\ forge[m].graph <= forge[m].graph /\ forge[m].graph <= forge[m].graph + 1
  BY ForgeType
<1> DEFINE Edited(f) ==
      /\ forge' = [forge EXCEPT ![m] = f]
      /\ forge[m].graph <= f.graph
      /\ \/ f.rest = forge[m].rest + 1
         \/ f.rest = forge[m].rest /\ f.open = forge[m].open
<1> SUFFICES \E g \in MergeRequest : Edited(g)
  BY <1>1
<1> HIDE DEF Edited
<1>3. CASE Edit(m)
  <2>1. PICK open \in BOOLEAN, role \in Roles \cup {"none"} :
          forge' = [forge EXCEPT ![m] = [forge[m] EXCEPT !.rest = forge[m].rest + 1,
                                                         !.open = open, !.role = role]]
    BY <1>3 DEF Edit, Roles
  <2> DEFINE f == [forge[m] EXCEPT !.rest = forge[m].rest + 1, !.open = open, !.role = role]
  <2>2. f \in MergeRequest
    BY <1>2 DEF MergeRequest
  <2>3. f.rest = forge[m].rest + 1 /\ f.graph = forge[m].graph
    BY <1>2 DEF MergeRequest
  <2>4. forge' = [forge EXCEPT ![m] = f]
    BY <2>1
  <2> HIDE DEF f
  <2>5. Edited(f) BY <1>2, <2>3, <2>4 DEF Edited
  <2> QED BY <2>2, <2>5
<1>4. CASE PipelineMoves(m)
  <2> DEFINE f == [forge[m] EXCEPT !.graph = forge[m].graph + 1]
  <2>1. f \in MergeRequest
    BY <1>2 DEF MergeRequest
  <2>2. /\ f.rest = forge[m].rest /\ f.graph = forge[m].graph + 1
        /\ f.open = forge[m].open
    BY <1>2 DEF MergeRequest
  <2>3. forge' = [forge EXCEPT ![m] = f]
    BY <1>4 DEF PipelineMoves, TypeOK
  <2> HIDE DEF f
  <2>4. Edited(f) BY <1>2, <2>2, <2>3 DEF Edited
  <2> QED BY <2>1, <2>4
<1>5. CASE Archive(m)
  <2> DEFINE f == [forge[m] EXCEPT !.archived = TRUE]
  <2>1. f \in MergeRequest
    BY <1>2 DEF MergeRequest
  <2>2. /\ f.rest = forge[m].rest /\ f.graph = forge[m].graph
        /\ f.open = forge[m].open
    BY <1>2 DEF MergeRequest
  <2>3. forge' = [forge EXCEPT ![m] = f]
    BY <1>5 DEF Archive, TypeOK
  <2> HIDE DEF f
  <2>4. Edited(f) BY <1>2, <2>2, <2>3 DEF Edited
  <2> QED BY <2>1, <2>4
<1>6. CASE Review(m)
  <2> DEFINE f == [forge[m] EXCEPT !.rest = forge[m].rest + 1, !.graph = forge[m].graph + 1]
  <2>1. f \in MergeRequest
    BY <1>2 DEF MergeRequest
  <2>2. f.rest = forge[m].rest + 1 /\ f.graph = forge[m].graph + 1
    BY <1>2 DEF MergeRequest
  <2>3. forge' = [forge EXCEPT ![m] = f]
    BY <1>6 DEF Review
  <2> HIDE DEF f
  <2>4. Edited(f) BY <1>2, <2>2, <2>3 DEF Edited
  <2> QED BY <2>1, <2>4
<1>7. CASE MembersChange(m)
  <2>1. PICK role \in Roles \cup {"none"} :
          forge' = [forge EXCEPT ![m] = [forge[m] EXCEPT !.role = role]]
    BY <1>7 DEF MembersChange, Roles, TypeOK
  <2> DEFINE f == [forge[m] EXCEPT !.role = role]
  <2>2. f \in MergeRequest
    BY <1>2 DEF MergeRequest
  <2>3. f.rest = forge[m].rest /\ f.graph = forge[m].graph /\ f.open = forge[m].open
    BY <1>2 DEF MergeRequest
  <2>4. forge' = [forge EXCEPT ![m] = f]
    BY <2>1
  <2> HIDE DEF f
  <2>5. Edited(f) BY <1>2, <2>3, <2>4 DEF Edited
  <2> QED BY <2>2, <2>5
<1> QED BY <1>1, <1>3, <1>4, <1>5, <1>6, <1>7

-----------------------------------------------------------------------------
(* The same version is open or closed. *)

(* An edit opens or closes the version it makes; nothing has it yet. *)
LEMMA ForgeRestDecides ==
  ASSUME TypeOK, BehindForge, Forge, NEW told \in [MRs -> [Nat -> BOOLEAN]], Agree(told)
  PROVE  RestDecides'
<1>1. UNCHANGED <<log, openSnapshots, events, earlier>>
  BY ForgeGrows DEF durable, memory, cycle
<1>2. PICK m \in MRs, f \in MergeRequest :
        /\ forge' = [forge EXCEPT ![m] = f]
        /\ \/ f.rest = forge[m].rest + 1
           \/ f.rest = forge[m].rest /\ f.open = forge[m].open
  BY ForgeEdit
<1>3. \A n \in MRs : forge'[n] = IF n = m THEN f ELSE forge[n]
  BY <1>2 DEF TypeOK
<1>4. CASE f.rest = forge[m].rest /\ f.open = forge[m].open
  <2>1. \A n \in MRs : forge'[n].rest = forge[n].rest /\ forge'[n].open = forge[n].open
    BY <1>3, <1>4
  <2>2. Agree(told)'
    BY <1>1, <2>1 DEF Agree, Observations
  <2> QED BY <2>2 DEF RestDecides
<1>5. CASE f.rest = forge[m].rest + 1
  <2> DEFINE told2 == [told EXCEPT ![m] = [told[m] EXCEPT ![f.rest] = f.open]]
  <2>1. f.open \in BOOLEAN /\ f.rest \in Nat /\ forge[m].rest \in Nat
    BY <1>2, ForgeType DEF MergeRequest
  <2>2. told2 \in [MRs -> [Nat -> BOOLEAN]]
    BY <2>1
  <2>3. \A n \in MRs, v \in Nat :
          told2[n][v] = IF n = m /\ v = f.rest THEN f.open ELSE told[n][v]
    BY <2>1
  <2> HIDE DEF told2
  <2>4. \A n \in MRs : \A v \in Nat : v <= forge[n].rest => told2[n][v] = told[n][v]
    BY <1>5, <2>1, <2>3
  <2>5. \A n \in MRs : told2[n][forge'[n].rest] = forge'[n].open
    <3> SUFFICES ASSUME NEW n \in MRs PROVE told2[n][forge'[n].rest] = forge'[n].open
      OBVIOUS
    <3>1. CASE n = m
      BY <1>3, <2>1, <2>3, <3>1
    <3>2. CASE n # m
      <4>1. forge'[n] = forge[n] /\ told[n][forge[n].rest] = forge[n].open
        BY <1>3, <3>2 DEF Agree
      <4>2. told2[n][forge[n].rest] = told[n][forge[n].rest]
        BY <2>4, ForgeType
      <4> QED BY <4>1, <4>2
    <3> QED BY <3>1, <3>2
  <2>6. ASSUME NEW n \in MRs
        PROVE  /\ \A k \in Observations(n) :
                    told2[n][log[n][k].fact.rest] = log[n][k].fact.open
               /\ n \in DOMAIN openSnapshots
                    => told2[n][openSnapshots[n].rest] = openSnapshots[n].open
               /\ n \in DOMAIN events => told2[n][events[n].rest] = events[n].open
               /\ n \in DOMAIN earlier => told2[n][earlier[n].rest] = earlier[n].open
    <3>1. ASSUME NEW k \in Observations(n)
          PROVE  told2[n][log[n][k].fact.rest] = log[n][k].fact.open
      <4>1. log[n][k].fact.rest \in Nat /\ log[n][k].fact.rest <= forge[n].rest
        BY RestType DEF BehindForge
      <4>2. told[n][log[n][k].fact.rest] = log[n][k].fact.open
        BY DEF Agree
      <4> QED BY <2>4, <4>1, <4>2
    <3>2. n \in DOMAIN openSnapshots => told2[n][openSnapshots[n].rest] = openSnapshots[n].open
      BY <2>4, RestType DEF Agree, BehindForge
    <3>3. n \in DOMAIN events => told2[n][events[n].rest] = events[n].open
      BY <2>4, RestType DEF Agree, BehindForge
    <3>4. ASSUME n \in DOMAIN earlier PROVE told2[n][earlier[n].rest] = earlier[n].open
      <4>1. earlier[n].rest \in Nat /\ events[n].rest \in Nat /\ forge[n].rest \in Nat
        BY <3>4, RestType
      <4>2. earlier[n].rest <= events[n].rest /\ events[n].rest <= forge[n].rest
        BY <3>4, RestType DEF BehindForge
      <4>3. told[n][earlier[n].rest] = earlier[n].open
        BY <3>4 DEF Agree
      <4> QED BY <2>4, <4>1, <4>2, <4>3
    <3> QED BY <3>1, <3>2, <3>3, <3>4
  <2>7. Agree(told2)'
    BY <1>1, <2>5, <2>6 DEF Agree, Observations
  <2> QED BY <2>2, <2>7 DEF RestDecides
<1> QED BY <1>2, <1>4, <1>5

LEMMA NextRestDecides ==
  TypeOK /\ Phased /\ RestInv /\ RestDecides /\ [Next]_vars => RestDecides'
<1> SUFFICES ASSUME TypeOK, Phased, RestInv, RestDecides, [Next]_vars PROVE RestDecides'
  OBVIOUS
<1>1. PICK told \in [MRs -> [Nat -> BOOLEAN]] : Agree(told)
  BY DEF RestDecides
<1>2. CASE Forge
  BY <1>1, <1>2, ForgeRestDecides DEF RestInv
<1>3. CASE UNCHANGED forge
  <2>1. ASSUME NEW m \in MRs, NEW k \in Observations(m)'
        PROVE  told[m][log'[m][k].fact.rest] = log'[m][k].fact.open
    <3>1. CASE k \in Observations(m) /\ log'[m][k] = log[m][k]
      BY <1>1, <3>1 DEF Agree
    <3>2. CASE m \in DOMAIN events /\ log'[m][k].fact = events[m]
      BY <1>1, <3>2 DEF Agree
    <3>3. CASE m \in DOMAIN earlier /\ log'[m][k].fact = earlier[m]
      BY <1>1, <3>3 DEF Agree
    <3> QED BY <2>1, <3>1, <3>2, <3>3, MovedRows DEF RowsFrom
  <2>2. ASSUME NEW m \in MRs, m \in DOMAIN openSnapshots'
        PROVE  told[m][openSnapshots'[m].rest] = openSnapshots'[m].open
    BY <1>1, <2>2, MovedCache DEF CacheFrom, Agree
  <2>3. ASSUME NEW m \in MRs, m \in DOMAIN events'
        PROVE  told[m][events'[m].rest] = events'[m].open
    BY <1>1, <2>3, MovedEvents DEF EventsFrom, ReadFrom, SameVersion, Agree
  <2>4. ASSUME NEW m \in MRs, m \in DOMAIN earlier'
        PROVE  told[m][earlier'[m].rest] = earlier'[m].open
    BY <1>1, <2>4, MovedEvents DEF EarlierFrom, SameVersion, Agree
  <2>5. Agree(told)'
    BY <1>1, <1>3, <2>1, <2>2, <2>3, <2>4 DEF Agree
  <2> QED BY <2>5 DEF RestDecides
<1> QED BY <1>2, <1>3, ForgeSteps

LEMMA NextClosedIsNewest ==
  TypeOK /\ RestInv /\ ClosedIsNewest /\ [Next]_vars => ClosedIsNewest'
<1> SUFFICES ASSUME TypeOK, RestInv, ClosedIsNewest, [Next]_vars PROVE ClosedIsNewest'
  OBVIOUS
<1>1. CASE UNCHANGED log
  BY <1>1 DEF ClosedIsNewest, Observations
<1>2. CASE WriteEvents
  <2>1. PICK gone : log' = [m \in MRs |-> Extended(m, gone)]
    BY <1>2 DEF WriteEvents
  <2>2. ASSUME NEW m \in MRs, NEW j \in Observations(m)', NEW k \in Observations(m)',
               j < k, ~log'[m][k].fact.open
        PROVE  log'[m][j].fact.rest <= log'[m][k].fact.rest
    <3>1. log'[m] = Extended(m, gone) /\ Len(log[m]) \in Nat /\ DOMAIN log[m] = 1..Len(log[m])
      BY <2>1 DEF TypeOK
    <3>2. \/ k \in Observations(m) /\ log'[m][k] = log[m][k]
          \/ m \in DOMAIN earlier /\ k = Len(log[m]) + 1 /\ log'[m][k].fact = earlier[m]
          \/ /\ m \in DOMAIN events /\ k > Len(log[m]) /\ k = Len(log'[m])
             /\ log'[m][k].fact = events[m]
      BY <2>2, <3>1, RowsWritten DEF Observations
    <3>3. \/ j \in Observations(m) /\ log'[m][j] = log[m][j]
          \/ m \in DOMAIN earlier /\ j = Len(log[m]) + 1 /\ log'[m][j].fact = earlier[m]
          \/ m \in DOMAIN events /\ j > Len(log[m]) /\ j = Len(log'[m])
      BY <2>2, <3>1, RowsWritten DEF Observations
    <3>4. j \in Nat /\ k \in Nat /\ k <= Len(log'[m]) /\ Len(log'[m]) \in Nat
      <4>1. log'[m] \in Seq([kind : {"observed"}, fact : Snapshot, salt : Nat]
                            \cup [kind : {"removed"}, supersedes : Nat])
        BY <3>1, WritesType
      <4> QED BY <2>2, <4>1 DEF Observations, IdsOf
    <3>5. CASE k \in Observations(m) /\ log'[m][k] = log[m][k]
      <4>1. k <= Len(log[m])
        BY <3>1, <3>5 DEF Observations, IdsOf
      <4>2. j \in Observations(m) /\ log'[m][j] = log[m][j]
        BY <2>2, <3>1, <3>3, <3>4, <4>1
      <4> QED BY <2>2, <3>5, <4>2 DEF ClosedIsNewest
    <3>6. CASE m \in DOMAIN earlier /\ k = Len(log[m]) + 1 /\ log'[m][k].fact = earlier[m]
      <4>1. j \in Observations(m) /\ log'[m][j] = log[m][j]
        BY <2>2, <3>1, <3>3, <3>4, <3>6
      <4> QED BY <3>6, <4>1 DEF RestInv, LogBehind
    <3>7. CASE /\ m \in DOMAIN events /\ k > Len(log[m]) /\ k = Len(log'[m])
               /\ log'[m][k].fact = events[m]
      <4>1. ~events[m].open
        BY <2>2, <3>7
      <4>2. CASE j \in Observations(m) /\ log'[m][j] = log[m][j]
        BY <3>7, <4>1, <4>2 DEF RestInv, LogBehind
      <4>3. CASE m \in DOMAIN earlier /\ j = Len(log[m]) + 1 /\ log'[m][j].fact = earlier[m]
        BY <3>7, <4>3 DEF RestInv, BehindForge
      <4>4. CASE j = Len(log'[m])
        BY <2>2, <3>4, <3>7, <4>4
      <4> QED BY <3>3, <4>2, <4>3, <4>4
    <3> QED BY <3>2, <3>5, <3>6, <3>7
  <2> QED BY <2>2 DEF ClosedIsNewest
<1> QED BY <1>1, <1>2, LogWritten

-----------------------------------------------------------------------------
(* Rows refer to earlier rows. *)

(* What a write appends, and to what its rows refer. *)
LEMMA ExtendedRow ==
  ASSUME TypeOK, NEW m \in MRs, NEW gone, NEW k \in DOMAIN Extended(m, gone)
  PROVE  \/ k \in DOMAIN log[m] /\ Extended(m, gone)[k] = log[m][k]
         \/ /\ k \in Nat /\ Len(log[m]) \in Nat /\ Len(log[m]) < k
            /\ \/ \E pl : \E salt \in 0..Len(log[m]) :
                    Extended(m, gone)[k] = Observed(pl, salt)
               \/ Extended(m, gone)[k] = Removed(Len(log[m]))
<1> DEFINE salt == IF sweep THEN ResurrectionSalt(log[m]) ELSE 0
<1>1. PICK Row : log[m] \in Seq(Row)
  BY DEF TypeOK
<1>2. Len(log[m]) \in Nat /\ salt \in 0..Len(log[m])
  BY <1>1 DEF ResurrectionSalt
<1>3. CASE m \in DOMAIN events
  <2>1. PICK w : w = WithEarlier(m)
    OBVIOUS
  <2>2. /\ \E Wide : w \in Seq(Wide)
        /\ Len(log[m]) <= Len(w) /\ Len(w) \in Nat
        /\ \A i \in DOMAIN w : \/ i \in DOMAIN log[m] /\ w[i] = log[m][i]
                               \/ i \in Nat /\ Len(log[m]) < i /\ w[i] = Observed(earlier[m], 0)
    <3>1. CASE w = log[m]
      BY <1>1, <1>2, <3>1
    <3>2. CASE w = InsertOrIgnore(log[m], Observed(earlier[m], 0))
      <4>1. PICK row : row = Observed(earlier[m], 0)
        OBVIOUS
      <4>2. w = log[m] \/ w = Append(log[m], row)
        BY <3>2, <4>1 DEF InsertOrIgnore
      <4>3. log[m] \in Seq(Row \cup {row})
        BY <1>1
      <4>4. /\ w \in Seq(Row \cup {row})
            /\ Len(log[m]) <= Len(w) /\ Len(w) \in Nat
            /\ \A i \in DOMAIN w : \/ i \in DOMAIN log[m] /\ w[i] = log[m][i]
                                   \/ i \in Nat /\ Len(log[m]) < i /\ w[i] = row
        BY <4>2, <4>3
      <4> QED BY <4>1, <4>4
    <3> QED BY <2>1, <3>1, <3>2 DEF WithEarlier
  <2>3. Extended(m, gone) = InsertOrIgnore(w, Observed(events[m], salt))
    BY <1>3, <2>1 DEF Extended, Inserted
  <2> HIDE DEF salt
  <2>4. \/ k \in DOMAIN w /\ Extended(m, gone)[k] = w[k]
        \/ k \in Nat /\ Len(w) < k /\ Extended(m, gone)[k] = Observed(events[m], salt)
    <3>1. PICK Wide : w \in Seq(Wide)
      BY <2>2
    <3>2. PICK past : past = Extended(m, gone)
      OBVIOUS
    <3>3. PICK row : row = Observed(events[m], salt)
      OBVIOUS
    <3>4. past = w \/ past = Append(w, row)
      BY <2>3, <3>2, <3>3 DEF InsertOrIgnore
    <3>5. w \in Seq(Wide \cup {row})
      BY <3>1
    <3>6. \A i \in DOMAIN past : \/ i \in DOMAIN w /\ past[i] = w[i]
                                 \/ i \in Nat /\ Len(w) < i /\ past[i] = row
      BY <3>4, <3>5
    <3> QED BY <3>2, <3>3, <3>6
  <2>5. 0 \in 0..Len(log[m])
    BY <1>2
  <2>6. CASE k \in DOMAIN w /\ Extended(m, gone)[k] = w[k]
    BY <1>2, <2>2, <2>5, <2>6
  <2>7. CASE k \in Nat /\ Len(w) < k /\ Extended(m, gone)[k] = Observed(events[m], salt)
    <3>1. Len(log[m]) < k
      BY <1>2, <2>2, <2>7
    <3> QED BY <1>2, <2>7, <3>1
  <2> QED BY <2>4, <2>6, <2>7
<1>4. CASE m \notin DOMAIN events
  <2>1. \/ Extended(m, gone) = log[m]
        \/ Extended(m, gone) = InsertOrIgnore(log[m], Removed(Len(log[m])))
    BY <1>4 DEF Extended
  <2>2. PICK past : past = Extended(m, gone)
    OBVIOUS
  <2>3. CASE past = log[m]
    BY <2>2, <2>3
  <2>4. CASE past = InsertOrIgnore(log[m], Removed(Len(log[m])))
    <3>1. PICK row : row = Removed(Len(log[m]))
      OBVIOUS
    <3>2. past = log[m] \/ past = Append(log[m], row)
      BY <2>4, <3>1 DEF InsertOrIgnore
    <3>3. log[m] \in Seq(Row \cup {row})
      BY <1>1
    <3>4. \A i \in DOMAIN past : \/ i \in DOMAIN log[m] /\ past[i] = log[m][i]
                                 \/ i \in Nat /\ Len(log[m]) < i /\ past[i] = row
      BY <3>2, <3>3
    <3> QED BY <1>2, <2>2, <3>1, <3>4
  <2> QED BY <2>1, <2>2, <2>3, <2>4
<1> QED BY <1>3, <1>4

(* The rows of a history that one row is appended to. *)
LEMMA Appended ==
  ASSUME TypeOK, NEW m \in MRs, NEW row
  PROVE  /\ Len(Append(log[m], row)) = Len(log[m]) + 1
         /\ Append(log[m], row)[Len(log[m]) + 1] = row
         /\ Len(log[m]) \in Nat /\ DOMAIN log[m] = 1..Len(log[m])
         /\ Append(log[m], row) # <<>>
<1>1. PICK Row : log[m] \in Seq(Row)
  BY DEF TypeOK
<1>2. log[m] \in Seq(Row \cup {row})
  BY <1>1
<1>3. /\ Len(log[m]) \in Nat /\ DOMAIN log[m] = 1..Len(log[m])
      /\ Append(log[m], row) \in Seq(Row \cup {row})
      /\ Len(Append(log[m], row)) = Len(log[m]) + 1
      /\ Append(log[m], row)[Len(log[m]) + 1] = row
  BY <1>2
<1> QED BY <1>3

LEMMA NextRowsLookBack == TypeOK /\ RowsLookBack /\ [Next]_vars => RowsLookBack'
<1> SUFFICES ASSUME TypeOK, RowsLookBack, [Next]_vars PROVE RowsLookBack'
  OBVIOUS
<1>1. CASE UNCHANGED log
  BY <1>1 DEF RowsLookBack
<1>2. CASE WriteEvents
  <2>1. PICK gone : log' = [m \in MRs |-> Extended(m, gone)]
    BY <1>2 DEF WriteEvents
  <2>2. ASSUME NEW m \in MRs, NEW k \in DOMAIN log'[m]
        PROVE  /\ log'[m][k].kind = "observed" => log'[m][k].salt < k
               /\ log'[m][k].kind = "removed" => log'[m][k].supersedes < k
    <3>1. log'[m] = Extended(m, gone)
      BY <2>1
    <3>2. CASE k \in DOMAIN log[m] /\ log'[m][k] = log[m][k]
      BY <3>2 DEF RowsLookBack
    <3>3. CASE /\ k \in Nat /\ Len(log[m]) \in Nat /\ Len(log[m]) < k
               /\ \/ \E pl : \E salt \in 0..Len(log[m]) : log'[m][k] = Observed(pl, salt)
                  \/ log'[m][k] = Removed(Len(log[m]))
      <4>1. CASE log'[m][k] = Removed(Len(log[m]))
        BY <3>3, <4>1 DEF Removed
      <4>2. ASSUME NEW pl, NEW salt \in 0..Len(log[m]), log'[m][k] = Observed(pl, salt)
            PROVE  log'[m][k].kind = "observed" /\ log'[m][k].salt < k
        BY <3>3, <4>2 DEF Observed
      <4> QED BY <3>3, <4>1, <4>2
    <3> QED BY <2>2, <3>1, <3>2, <3>3, ExtendedRow
  <2> QED BY <2>2 DEF RowsLookBack
<1> QED BY <1>1, <1>2, LogWritten

-----------------------------------------------------------------------------
(* Enrichment. *)

LEMMA GraphType ==
  ASSUME TypeOK, NEW m \in MRs
  PROVE  /\ forge[m].graph \in Nat
         /\ m \in DOMAIN openSnapshots => openSnapshots[m].graph \in Int
         /\ m \in DOMAIN events => events[m].graph \in Int
         /\ m \in DOMAIN earlier => earlier[m].graph \in Int
         /\ m \in DOMAIN nodes => nodes[m].graph \in Nat
         /\ \A k \in Observations(m) : log[m][k].fact.graph \in Int
<1>1. \A k \in Observations(m) : log[m][k].fact \in Snapshot
  BY DEF TypeOK, Observations, IdsOf
<1> QED BY <1>1 DEF TypeOK, Snapshot, MergeRequest, Answer

LEMMA ForgeGraphBehind ==
  ASSUME TypeOK, GraphBehind, Forge
  PROVE  GraphBehind'
<1>1. UNCHANGED <<log, openSnapshots, events, earlier, nodes>>
  BY ForgeGrows DEF durable, memory, cycle
<1>2. PICK m \in MRs, f \in MergeRequest :
        forge' = [forge EXCEPT ![m] = f] /\ forge[m].graph <= f.graph
  BY ForgeEdit
<1>3. \A n \in MRs : /\ forge[n].graph \in Nat /\ forge'[n].graph \in Nat
                     /\ forge[n].graph <= forge'[n].graph
  <2>1. f.graph \in Nat
    BY DEF MergeRequest
  <2>2. \A n \in MRs : forge'[n] = IF n = m THEN f ELSE forge[n]
    BY <1>2 DEF TypeOK
  <2> QED BY <1>2, <2>1, <2>2, GraphType
<1>4. ASSUME NEW n \in MRs, NEW g \in Int, g <= forge[n].graph PROVE g <= forge'[n].graph
  BY <1>3, <1>4
<1>5. ASSUME NEW n \in MRs
      PROVE  /\ \A k \in Observations(n) : log[n][k].fact.graph <= forge'[n].graph
             /\ n \in DOMAIN openSnapshots => openSnapshots[n].graph <= forge'[n].graph
             /\ n \in DOMAIN events => events[n].graph <= forge'[n].graph
             /\ n \in DOMAIN earlier => earlier[n].graph <= forge'[n].graph
             /\ n \in DOMAIN nodes => nodes[n].graph <= forge'[n].graph
  <2>1. \A k \in Observations(n) : log[n][k].fact.graph <= forge'[n].graph
    BY <1>4, GraphType DEF GraphBehind
  <2>2. n \in DOMAIN openSnapshots => openSnapshots[n].graph <= forge'[n].graph
    BY <1>4, GraphType DEF GraphBehind
  <2>3. n \in DOMAIN events => events[n].graph <= forge'[n].graph
    BY <1>4, GraphType DEF GraphBehind
  <2>4. n \in DOMAIN earlier => earlier[n].graph <= forge'[n].graph
    BY <1>4, GraphType DEF GraphBehind
  <2>5. n \in DOMAIN nodes => nodes[n].graph <= forge'[n].graph
    BY <1>4, GraphType DEF GraphBehind
  <2> QED BY <2>1, <2>2, <2>3, <2>4, <2>5
<1> QED BY <1>1, <1>5 DEF GraphBehind, Observations

LEMMA NextGraphBehind == TypeOK /\ Phased /\ GraphBehind /\ [Next]_vars => GraphBehind'
<1> SUFFICES ASSUME TypeOK, Phased, GraphBehind, [Next]_vars PROVE GraphBehind'
  OBVIOUS
<1>1. CASE Forge
  BY <1>1, ForgeGraphBehind
<1>2. CASE UNCHANGED forge
  <2>1. ASSUME NEW m \in MRs, NEW k \in Observations(m)'
        PROVE  log'[m][k].fact.graph <= forge[m].graph
    BY <2>1, MovedRows DEF RowsFrom, GraphBehind
  <2>2. ASSUME NEW m \in MRs, m \in DOMAIN openSnapshots'
        PROVE  openSnapshots'[m].graph <= forge[m].graph
    BY <2>2, MovedCache DEF CacheFrom, GraphBehind
  <2>3. ASSUME NEW m \in MRs, NEW g, GraphFrom(m, g) PROVE g <= forge[m].graph
    BY <2>3 DEF GraphFrom, GraphBehind
  <2>4. ASSUME NEW m \in MRs, m \in DOMAIN events'
        PROVE  events'[m].graph <= forge[m].graph
    <3>1. CASE ReadFrom(m, events'[m])
      <4>1. events'[m].graph = -1 BY <3>1 DEF ReadFrom
      <4> QED BY <4>1, GraphType
    <3> QED BY <2>3, <2>4, <3>1, MovedEvents DEF EventsFrom, GraphBehind
  <2>5. ASSUME NEW m \in MRs, m \in DOMAIN earlier'
        PROVE  earlier'[m].graph <= forge[m].graph
    BY <2>3, <2>5, MovedEvents DEF EarlierFrom, GraphBehind
  <2>6. ASSUME NEW m \in MRs, m \in DOMAIN nodes'
        PROVE  nodes'[m].graph <= forge[m].graph
    BY <2>6, MovedAnswers, GraphType DEF AnswersFrom, GraphBehind
  <2> QED BY <1>2, <2>1, <2>2, <2>4, <2>5, <2>6 DEF GraphBehind
<1> QED BY <1>1, <1>2, ForgeSteps

LEMMA NextAnswersNewer ==
  TypeOK /\ Phased /\ CycleStages /\ GraphBehind /\ AnswersNewer /\ [Next]_vars => AnswersNewer'
<1> SUFFICES ASSUME TypeOK, Phased, CycleStages, GraphBehind, AnswersNewer, [Next]_vars
             PROVE  AnswersNewer'
  OBVIOUS
<1> USE DEF cycle, durable
<1>1. ASSUME UNCHANGED <<log, events, earlier, nodes, toJoin>> PROVE AnswersNewer'
  BY <1>1 DEF AnswersNewer, Observations
<1>2. CASE UNCHANGED vars \/ Forge \/ Joined \/ Refreshed
  <2>1. UNCHANGED <<log, events, earlier, nodes, toJoin>>
    BY <1>2, ForgeGrows DEF vars, Joined, Refreshed
  <2> QED BY <1>1, <2>1
<1>3. CASE Reconcile \/ FastPoll
  <2>1. DOMAIN nodes' = {}
    BY <1>3 DEF Reconcile, FastPoll, Start, CycleStages
  <2> QED BY <2>1 DEF AnswersNewer
<1>4. CASE ProviderFails \/ StorageFails \/ Crash \/ WriteEvents
  <2>1. DOMAIN nodes' = {}
    BY <1>4, NothingType DEF ProviderFails, StorageFails, Abandon, Crash, WriteEvents, EndCycle
  <2> QED BY <2>1 DEF AnswersNewer
<1>5. ASSUME NEW m \in MRs, fetchScopeMRs(m) \/ fetchMR(m) \/ fetchMRAgain(m) PROVE AnswersNewer'
  <2>1. DOMAIN nodes' = {}
    BY <1>5, ReadFacts DEF CycleStages
  <2> QED BY <2>1 DEF AnswersNewer
<1>6. ASSUME NEW asked \in SUBSET MRs, NEW answered \in SUBSET asked,
             runMRBatches(asked, answered), UNCHANGED log, answered \subseteq toJoin'
      PROVE  AnswersNewer'
  <2>1. DOMAIN nodes' = answered /\ \A m \in answered : nodes'[m].graph = forge[m].graph
    BY <1>6 DEF runMRBatches, AnswerOf
  <2> QED BY <1>6, <2>1 DEF AnswersNewer, GraphBehind, Observations
<1>7. CASE AskForJoin \/ AskForRefresh
  <2>1. DOMAIN events \subseteq MRs /\ DOMAIN openSnapshots \ covered \subseteq MRs
    BY DEF TypeOK
  <2>2. CASE AskForJoin
    BY <1>6, <2>1, <2>2 DEF AskForJoin, Joining
  <2>3. CASE AskForRefresh
    BY <1>6, <2>1, <2>3 DEF AskForRefresh, Joining
  <2> QED BY <1>7, <2>2, <2>3
<1>8. ASSUME NEW m \in MRs, DropArchived(m) PROVE AnswersNewer'
  BY <1>8 DEF DropArchived, JoinStep, Without, AnswersNewer, Observations
<1>9. ASSUME NEW m \in MRs, Enrich(m) \/ Carry(m) PROVE AnswersNewer'
  <2>1. UNCHANGED <<log, nodes>> /\ toJoin' = toJoin \ {m}
    BY <1>9 DEF Enrich, Carry, JoinStep
  <2>2. /\ DOMAIN events' = DOMAIN events /\ \A n \in DOMAIN events \ {m} : events'[n] = events[n]
        /\ DOMAIN earlier' = DOMAIN earlier
        /\ \A n \in DOMAIN earlier \ {m} : earlier'[n] = earlier[n]
    BY <1>9, JoinedResult DEF JoinedBy
  <2>3. m \in DOMAIN nodes => /\ m \in DOMAIN events => events'[m].graph = nodes[m].graph
                              /\ m \in DOMAIN earlier => earlier'[m].graph = nodes[m].graph
    BY <1>9, JoinedFacts DEF Answered
  <2> QED BY <2>1, <2>2, <2>3 DEF AnswersNewer, Observations
<1>10. ASSUME NEW m \in MRs, Refresh(m) PROVE AnswersNewer'
  <2>1. UNCHANGED <<log, nodes>> /\ toJoin' = toJoin \ {m}
    BY <1>10 DEF Refresh, JoinStep
  <2> QED BY <1>10, <2>1, RefreshedFacts DEF AnswersNewer, Observations
<1> QED BY <1>2, <1>3, <1>4, <1>5, <1>7, <1>8, <1>9, <1>10 DEF Next, Work

-----------------------------------------------------------------------------
(* The theorems. *)

(* The result, the rows and the answers are what the forge once said, and  *)
(* only rows of open items are ever outdated, in every reachable state     *)
(* (gitlab.go, graphql.go, events.go).                                     *)
THEOREM SweepInvariance == Spec => []SweepInv
<1>1. Init => SweepInv
  <2> SUFFICES ASSUME Init PROVE SweepInv
    OBVIOUS
  <2>1. \A m \in MRs : log[m] = <<>> /\ Observations(m) = {}
    BY DEF Init, Observations, IdsOf
  <2>2. /\ DOMAIN openSnapshots = {} /\ DOMAIN events = {} /\ DOMAIN earlier = {}
        /\ DOMAIN nodes = {}
    BY DEF Init, Nothing
  <2>3. /\ CycleStages /\ SweepResult /\ RowsLookBack /\ ClosedIsNewest /\ GraphBehind
        /\ AnswersNewer
    BY <2>1, <2>2 DEF Init, CycleStages, SweepResult, RowsLookBack, ClosedIsNewest, GraphBehind,
                      AnswersNewer
  <2>4. RestDecides
    <3> DEFINE told == [m \in MRs |-> [v \in Nat |-> forge[m].open]]
    <3>1. \A m \in MRs : forge[m].open \in BOOLEAN /\ forge[m].rest \in Nat
      BY InitTypeOK, ForgeType DEF MergeRequest
    <3>2. told \in [MRs -> [Nat -> BOOLEAN]]
      BY <3>1
    <3>3. \A m \in MRs : told[m][forge[m].rest] = forge[m].open
      BY <3>1
    <3> HIDE DEF told
    <3>4. Agree(told)
      BY <2>1, <2>2, <3>3 DEF Agree
    <3> QED BY <3>2, <3>4 DEF RestDecides
  <2> QED BY <2>3, <2>4 DEF SweepInv
<1>2. IInv /\ SweepInv /\ [Next]_vars => SweepInv'
  BY NextCycleStages, NextSweepResult, NextRowsLookBack, NextRestDecides, NextClosedIsNewest,
     NextGraphBehind, NextAnswersNewer DEF IInv, SweepInv
<1> QED BY <1>1, <1>2, Invariance, PTL DEF Spec

(* A history whose latest row is open shows its item. *)
LEMMA LatestShown ==
  ASSUME NEW Row, NEW past \in Seq(Row), LatestIsOpen(past)
  PROVE  OnBoard(past)
<1>1. /\ Len(past) \in Nat /\ DOMAIN past = 1..Len(past) /\ Len(past) \in DOMAIN past
      /\ past[Len(past)].kind = "observed" /\ past[Len(past)].fact.open
  BY DEF LatestIsOpen
<1>2. \A j \in IdsOf("removed", past) : j < Len(past)
  BY <1>1 DEF IdsOf
<1> QED BY <1>1, <1>2 DEF OnBoard, IdsOf

(* A swept item is shown: its row is new, or the latest row is open too.   *)
LEMMA SweptShown ==
  ASSUME IInv, SweepInv, sweep, ~refreshing, NEW gone, NEW m \in MRs, m \in DOMAIN events
  PROVE  OnBoard(Extended(m, gone))
<1> DEFINE row == Observed(events[m], ResurrectionSalt(log[m]))
<1>1. TypeOK /\ RestInv /\ RowsLookBack /\ ClosedIsNewest /\ RestDecides /\ events[m].open
  BY DEF IInv, SweepInv, SweepResult
<1>2. Extended(m, gone) = InsertOrIgnore(log[m], row)
  BY DEF Extended, Inserted, WithEarlier, SweepInv, SweepResult
<1>3. Len(log[m]) \in Nat /\ DOMAIN log[m] = 1..Len(log[m])
  BY <1>1, Appended
<1>4. row.kind = "observed" /\ row.fact = events[m] /\ row.salt = ResurrectionSalt(log[m])
  BY DEF Observed
<1> HIDE DEF row
<1> SUFFICES LatestIsOpen(Extended(m, gone))
  BY <1>1, WritesType, LatestShown
<1>5. CASE row \notin Range(log[m])
  <2>1. Extended(m, gone) = Append(log[m], row)
    BY <1>2, <1>5 DEF InsertOrIgnore
  <2>2. /\ Append(log[m], row)[Len(Append(log[m], row))] = row
        /\ Append(log[m], row) # <<>>
    BY <1>1, Appended
  <2> QED BY <1>1, <1>4, <2>1, <2>2 DEF LatestIsOpen
<1>6. CASE row \in Range(log[m])
  <2>1. PICK j \in DOMAIN log[m] : log[m][j] = row
    BY <1>6 DEF Range
  <2>2. Extended(m, gone) = log[m]
    BY <1>2, <1>6 DEF InsertOrIgnore
  <2>3. log[m] # <<>> /\ Len(log[m]) \in DOMAIN log[m] /\ j <= Len(log[m])
    BY <1>3, <2>1
  <2>4. j \in Observations(m)
    BY <1>4, <2>1 DEF Observations, IdsOf
  <2>5. log[m][Len(log[m])].kind # "removed"
    <3> SUFFICES ASSUME log[m][Len(log[m])].kind = "removed" PROVE FALSE
      OBVIOUS
    <3>1. row.salt = Len(log[m])
      BY <1>4, <2>3 DEF ResurrectionSalt, LatestIsRemoved
    <3>2. row.salt < j
      BY <1>1, <1>4, <2>1 DEF RowsLookBack
    <3> QED BY <1>3, <2>1, <2>3, <3>1, <3>2
  <2>6. Len(log[m]) \in Observations(m)
    <3>1. log[m][Len(log[m])].kind \in {"observed", "removed"}
      BY <1>1, <2>3 DEF TypeOK
    <3> QED BY <2>3, <2>5, <3>1 DEF Observations, IdsOf
  <2> DEFINE latest == log[m][Len(log[m])].fact
  <2>7. latest.open
    <3> SUFFICES ASSUME ~latest.open PROVE FALSE
      OBVIOUS
    <3>1. events[m].rest \in Nat /\ latest.rest \in Nat
      BY <1>1, <2>6, RestType
    <3>2. latest.rest <= events[m].rest
      BY <1>1, <2>6 DEF RestInv, LogBehind
    <3>3. events[m].rest <= latest.rest
      <4>1. j # Len(log[m])
        BY <1>1, <1>4, <2>1
      <4>2. j < Len(log[m])
        BY <1>3, <2>1, <2>3, <4>1
      <4> QED BY <1>1, <1>4, <2>1, <2>4, <2>6, <4>2 DEF ClosedIsNewest
    <3>4. latest.rest = events[m].rest
      BY <3>1, <3>2, <3>3
    <3>5. PICK told \in [MRs -> [Nat -> BOOLEAN]] : Agree(told)
      BY <1>1 DEF RestDecides
    <3>6. told[m][latest.rest] = latest.open /\ told[m][events[m].rest] = events[m].open
      BY <2>6, <3>5 DEF Agree
    <3> QED BY <1>1, <3>4, <3>6
  <2> QED BY <2>2, <2>3, <2>6, <2>7 DEF LatestIsOpen, Observations, IdsOf
<1> QED BY <1>5, <1>6

(* An item the sweep did not return is off the board as mine: its removal  *)
(* is new.                                                                 *)
LEMMA UnsweptHidden ==
  ASSUME TypeOK, RowsLookBack, sweep, NEW gone, NEW m \in MRs, m \notin DOMAIN events
  PROVE  ~LatestIsOpenRoled(Extended(m, gone))
<1>1. CASE Extended(m, gone) = log[m] /\ ~LatestIsOpenRoled(log[m])
  BY <1>1
<1>2. CASE Extended(m, gone) = Append(log[m], Removed(Len(log[m])))
  <2>1. LET after == Extended(m, gone) IN after[Len(after)] = Removed(Len(log[m]))
    BY <1>2, Appended
  <2> QED BY <2>1 DEF LatestIsOpenRoled, LatestIsOpen, Removed
<1>3. CASE m \in gone \/ LatestIsOpenRoled(log[m])
  <2>1. Extended(m, gone) = InsertOrIgnore(log[m], Removed(Len(log[m])))
    BY <1>3 DEF Extended
  <2>2. Removed(Len(log[m])) \notin Range(log[m])
    <3> SUFFICES ASSUME NEW j \in DOMAIN log[m], log[m][j] = Removed(Len(log[m])) PROVE FALSE
      BY DEF Range
    <3>1. Len(log[m]) < j
      BY DEF Removed, RowsLookBack
    <3> QED BY <3>1, Appended
  <2> QED BY <1>2, <2>1, <2>2 DEF InsertOrIgnore
<1>4. CASE ~(m \in gone \/ LatestIsOpenRoled(log[m]))
  BY <1>1, <1>4 DEF Extended
<1> QED BY <1>3, <1>4

(* Once a sweep is stored, everything it returned is on the board, and     *)
(* nothing else as mine (persist, reap).                                   *)
THEOREM SweepTheorem == Spec => SweepDecides
<1>1. IInv /\ SweepInv /\ [Next]_vars
        => [sweep /\ WriteEvents =>
              \A m \in MRs : /\ m \in DOMAIN events => OnBoard(log'[m])
                             /\ LatestIsOpenRoled(log'[m]) => m \in DOMAIN events]_vars
  <2> SUFFICES ASSUME IInv, SweepInv, sweep, WriteEvents, NEW m \in MRs
               PROVE  /\ m \in DOMAIN events => OnBoard(log'[m])
                      /\ LatestIsOpenRoled(log'[m]) => m \in DOMAIN events
    OBVIOUS
  <2>1. PICK gone : log' = [n \in MRs |-> Extended(n, gone)]
    BY DEF WriteEvents
  <2>2. PICK past : past = log'[m] /\ past = Extended(m, gone)
    BY <2>1
  <2>3. TypeOK /\ RowsLookBack /\ ~refreshing
    BY DEF IInv, SweepInv, SweepResult
  <2>4. m \in DOMAIN events => OnBoard(past)
    BY <2>2, <2>3, SweptShown
  <2>5. m \notin DOMAIN events => ~LatestIsOpenRoled(past)
    BY <2>2, <2>3, UnsweptHidden
  <2> QED BY <2>2, <2>4, <2>5
<1> QED BY <1>1, Invariance, SweepInvariance, PTL DEF Spec, SweepDecides

(* Facts that were answered are never a downgrade.                         *)
THEOREM AnswerTheorem == Spec => AnsweredNotDowngraded
<1>1. ASSUME IInv, SweepInv, [Next]_vars, NEW m \in DOMAIN nodes, NEW j \in Observations(m),
             log'[m] # log[m], ~LatestIsRemoved(log'[m])
      PROVE  log[m][j].fact.graph <= log'[m][Len(log'[m])].fact.graph
  <2>1. TypeOK /\ m \in MRs
    BY <1>1 DEF IInv, TypeOK
  <2>2. WriteEvents
    BY <1>1, <2>1, LogWritten
  <2>3. PICK gone : log' = [n \in MRs |-> Extended(n, gone)]
    BY <2>2 DEF WriteEvents
  <2>4. PICK past : past = log'[m] /\ past = Extended(m, gone)
    BY <2>1, <2>3
  <2>5. /\ past # <<>>
        /\ \/ past[Len(past)] = Removed(Len(log[m]))
           \/ m \in DOMAIN earlier /\ past[Len(past)] = Observed(earlier[m], 0)
           \/ /\ m \in DOMAIN events
              /\ \E salt \in Nat : past[Len(past)] = Observed(events[m], salt)
    BY <1>1, <2>1, <2>4, LastWritten
  <2>6. past[Len(past)].kind # "removed"
    BY <1>1, <2>4, <2>5 DEF LatestIsRemoved
  <2>7. \/ m \in DOMAIN earlier /\ past[Len(past)].fact = earlier[m]
        \/ m \in DOMAIN events /\ past[Len(past)].fact = events[m]
    <3>1. past[Len(past)] # Removed(Len(log[m]))
      BY <2>6 DEF Removed
    <3>2. \A pl, salt : Observed(pl, salt).fact = pl
      BY DEF Observed
    <3> QED BY <2>5, <3>1, <3>2
  <2>8. toJoin = {}
    BY <1>1, <2>2 DEF WriteEvents, SweepInv, CycleStages
  <2>9. /\ log[m][j].fact.graph <= nodes[m].graph
        /\ m \in DOMAIN events => events[m].graph = nodes[m].graph
        /\ m \in DOMAIN earlier => earlier[m].graph = nodes[m].graph
    BY <1>1, <2>8 DEF SweepInv, AnswersNewer
  <2> QED BY <2>4, <2>7, <2>9
<1>2. IInv /\ SweepInv /\ [Next]_vars
        => [\A m \in DOMAIN nodes : \A j \in Observations(m) :
              log'[m] # log[m] /\ ~LatestIsRemoved(log'[m])
                => log[m][j].fact.graph <= log'[m][Len(log'[m])].fact.graph]_vars
  BY <1>1
<1> QED BY <1>2, Invariance, SweepInvariance, PTL DEF Spec, AnsweredNotDowngraded
=============================================================================
