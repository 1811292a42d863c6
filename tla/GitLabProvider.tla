---------------------------- MODULE GitLabProvider ----------------------------
(***************************************************************************)
(* What the GitLab provider remembers between polls - the open-set cache   *)
(* and the verdict baseline - beside the event log it feeds and a forge    *)
(* that changes between any two calls (provider/gitlab).                   *)
(*                                                                         *)
(* A snapshot holds the versions of the facts REST and GraphQL returned,   *)
(* and whether its merge gate is known.  Every edit makes a new version;   *)
(* the sole-approver role, which no REST fact of the merge request tells,  *)
(* comes and goes without one (facts that return to an earlier value are   *)
(* in ConnectionSync).  Merge requests are no drafts.  Every sweep is      *)
(* complete and the fast tier's to-dos are arbitrary: completeness,        *)
(* mentions and cursors are in ConnectionSync, which also shows that reap  *)
(* and its write may be one step.  Bound: at most two to-dos of a poll     *)
(* name the same merge request, and the query answers both or neither.     *)
(***************************************************************************)
EXTENDS EventLog, Integers, FiniteSets

CONSTANTS
  MRs,          \* merge requests of this connection
  Reviewers,    \* users other than me who give verdicts
  MaxChanges,   \* bound: changes of the forge
  MaxFaults     \* bound: failed calls and transactions, missing answers, gates that
                \* are not computed yet, crashes

ASSUME GitLabAssumption == MaxChanges \in Nat /\ MaxFaults \in Nat

VARIABLES
  forge,            \* what each merge request is
  notes,            \* its system notes on verdicts, oldest first
  log,              \* events table: fact streams                  (durable)
  signals,          \* events table: notes with a stored signal    (durable)
  openSnapshots, verdictBaseline,  \* the provider's memory
  phase,            \* where the cycle is
  sweep,            \* it is a Reconcile, not a FastPoll
  refreshing,       \* its open-set refresh has begun
  toRead,           \* merge requests still to be read over REST
  events,           \* snapshots of the result, a function of the ones seen
  earlier,          \* the snapshots before them, of those two to-dos name
  covered,          \* the ones a to-do or the sweep returned
  nodes,            \* answers of the GraphQL query
  toJoin,           \* merge requests still to be joined with them
  emitted,          \* verdict signals of the result
  firstSight,       \* history: notes at first sight
  owed,             \* history: changes of verdict seen and not signalled
  forgot,           \* history: known gates the provider cannot remember
  overtaken,        \* history: cached as open although a later read was closed
  changes, faults   \* how much of the budgets is used

durable == <<log, signals>>
memory == <<openSnapshots, verdictBaseline>>
cycle == <<phase, sweep, refreshing, toRead, events, earlier, covered, nodes, toJoin, emitted>>
history == <<firstSight, owed, forgot, overtaken>>
vars == <<forge, notes, durable, memory, cycle, history, changes, faults>>

Verdicts == {"approved", "requested"}
Note == [by : Reviewers, body : Verdicts \cup {"withdrawn"}]
Signal == [mr : MRs, note : Nat]

(* Author, reviewer or assignee; or none of them, but the only one who may *)
(* merge, as the probe and its cache have it.                              *)
Roles == {"mine", "sole"}

MergeRequest ==
  [rest : Nat, graph : Nat, open : BOOLEAN, role : Roles \cup {"none"}, archived : BOOLEAN]

(* graph is -1 while GraphQL has not answered (approvals_count). *)
Snapshot == [open : BOOLEAN, roles : SUBSET Roles, rest : Nat,
             graph : Nat \cup {-1}, gated : BOOLEAN]

Verdict == [Reviewers -> Verdicts \cup {"none"}]
Answer == [graph : Nat, archived : BOOLEAN, verdicts : Verdict, seen : Nat]

Nothing == [m \in {} |-> 0]

(* Entry m of f becomes value, new or not; the entries of S are dropped. *)
Put(f, m, value) == [n \in DOMAIN f \cup {m} |-> IF n = m THEN value ELSE f[n]]
Without(f, S) == [n \in DOMAIN f \ S |-> f[n]]

Init ==
  /\ \E role \in [MRs -> {"mine", "none"}] :
       forge = [m \in MRs |-> [rest |-> 0, graph |-> 0, open |-> TRUE, role |-> role[m],
                               archived |-> FALSE]]
  /\ notes = [m \in MRs |-> <<>>]
  /\ log = [m \in MRs |-> <<>>] /\ signals = {}
  /\ openSnapshots = Nothing /\ verdictBaseline = Nothing
  /\ phase = "idle" /\ sweep = FALSE /\ refreshing = FALSE
  /\ toRead = {} /\ events = Nothing /\ earlier = Nothing /\ covered = {}
  /\ nodes = Nothing /\ toJoin = {} /\ emitted = {}
  /\ firstSight = Nothing /\ owed = {} /\ forgot = {} /\ overtaken = {}
  /\ changes = 0 /\ faults = 0

SpendFault ==
  /\ faults < MaxFaults
  /\ faults' = faults + 1

-----------------------------------------------------------------------------
(* The forge. *)

Change ==
  /\ changes < MaxChanges
  /\ changes' = changes + 1
  /\ UNCHANGED <<durable, memory, cycle, history, faults>>

(* Merged, closed or opened again; on or off my lists; title or branches. *)
Edit(m) ==
  /\ Change
  /\ \E open \in BOOLEAN, role \in {"mine", IF forge[m].role = "sole" THEN "sole" ELSE "none"} :
       forge' = [forge EXCEPT ![m] = [forge[m] EXCEPT !.rest = @ + 1, !.open = open, !.role = role]]
  /\ UNCHANGED notes

(* Others join or leave its project: nothing that its REST facts show. *)
MembersChange(m) ==
  /\ forge[m].role # "mine"
  /\ Change
  /\ forge' = [forge EXCEPT ![m].role = IF @ = "sole" THEN "none" ELSE "sole"]
  /\ UNCHANGED notes

(* A pipeline moves: nothing that REST shows, also after a merge. *)
PipelineMoves(m) ==
  /\ Change
  /\ forge' = [forge EXCEPT ![m].graph = @ + 1]
  /\ UNCHANGED notes

Archive(m) ==
  /\ ~forge[m].archived
  /\ Change
  /\ forge' = [forge EXCEPT ![m].archived = TRUE]
  /\ UNCHANGED notes

(* The newest of some notes, 0 if there is none. *)
Newest(S) == IF S = {} THEN 0 ELSE CHOOSE k \in S : \A j \in S : j <= k

NotesOf(m, r) == {k \in DOMAIN notes[m] : notes[m][k].by = r}

(* Mutant: a withdrawn verdict is still one. *)
VerdictOfLast(m, r) ==
  LET last == Newest(NotesOf(m, r))
  IN  IF last = 0 THEN "none" ELSE notes[m][last].body

(* What r says of m now: approvedBy and the reviewer's state. *)
VerdictOf(m, r) ==
  LET last == Newest(NotesOf(m, r))
  IN  IF last = 0 \/ notes[m][last].body = "withdrawn" THEN "none" ELSE notes[m][last].body

(* A reviewer approves, asks for changes, or withdraws either. *)
Review(m) ==
  /\ Change
  /\ \E note \in Note :
       /\ note.body # VerdictOf(m, note.by)
       /\ note.body = "withdrawn" => VerdictOf(m, note.by) # "none"
       /\ notes' = [notes EXCEPT ![m] = Append(@, note)]
  /\ forge' = [forge EXCEPT ![m] = [forge[m] EXCEPT !.rest = @ + 1, !.graph = @ + 1]]

-----------------------------------------------------------------------------
(* Starting and ending a cycle. *)

Start(isSweep, listed) ==
  /\ phase = "idle"
  /\ phase' = "fetch" /\ sweep' = isSweep /\ toRead' = listed
  /\ UNCHANGED <<forge, notes, durable, memory, refreshing, events, earlier, covered, nodes,
                 toJoin, emitted, history, changes, faults>>

Reconcile == Start(TRUE, MRs)

(* The to-dos may concern any merge requests. *)
FastPoll == \E listed \in SUBSET MRs : Start(FALSE, listed)

EndCycle ==
  /\ phase' = "idle" /\ sweep' = FALSE /\ refreshing' = FALSE
  /\ toRead' = {} /\ events' = Nothing /\ earlier' = Nothing /\ covered' = {}
  /\ nodes' = Nothing /\ toJoin' = {} /\ emitted' = {}

(* Signal e announces what is owed as o. *)
About(e, o) == e.mr = o.mr /\ notes[e.mr][e.note] = [by |-> o.by, body |-> o.body]

(* The result is lost: so is the news of the verdicts in it. *)
Abandon ==
  /\ SpendFault
  /\ owed' = {o \in owed : \A e \in emitted : ~About(e, o)}
  /\ EndCycle

(* A REST call fails.  What the provider has forgotten so far stays so. *)
ProviderFails ==
  /\ phase = "fetch"
  /\ Abandon
  /\ UNCHANGED <<forge, notes, durable, memory, firstSight, forgot, overtaken, changes>>

StorageFails ==
  /\ phase = "store"
  /\ Abandon
  /\ UNCHANGED <<forge, notes, durable, memory, firstSight, forgot, overtaken, changes>>

(* The process stops and starts again: the provider knows nothing. *)
Crash ==
  /\ SpendFault
  /\ EndCycle
  /\ openSnapshots' = Nothing /\ verdictBaseline' = Nothing
  /\ firstSight' = Nothing /\ owed' = {} /\ forgot' = MRs /\ overtaken' = {}
  /\ UNCHANGED <<forge, notes, durable, changes>>

-----------------------------------------------------------------------------
(* REST: the pages of the scopes, or one fetchMR for each to-do. *)

evict(S) ==
  /\ openSnapshots' = Without(openSnapshots, S)
  /\ forgot' = forgot \cup (S \cap DOMAIN openSnapshots)
  /\ overtaken' = overtaken \ S

(* The merge gate of a read may be one GitLab has not computed yet; one    *)
(* that the join's own status fills in (gateFromJoin) counts as known.     *)
Gate(gated) == IF gated THEN UNCHANGED faults ELSE SpendFault

(* The roles REST tells: nobody is the sole approver in what it returns. *)
observedFromMR(m, gated) ==
  [open |-> forge[m].open, roles |-> IF forge[m].role = "mine" THEN {"mine"} ELSE {},
   rest |-> forge[m].rest, graph |-> -1, gated |-> gated]

Fetching ==
  /\ phase = "fetch"
  /\ UNCHANGED <<forge, notes, durable, verdictBaseline, phase, sweep, refreshing, covered, nodes,
                 toJoin, emitted, firstSight, owed, changes>>

Read(m) ==
  /\ Fetching
  /\ m \in toRead
  /\ toRead' = toRead \ {m}
  /\ UNCHANGED earlier

(* A sweep lists what is open and mine, or open where I am the sole        *)
(* approver, and only then the role is told.                               *)
fetchScopeMRs(m) ==
  /\ sweep
  /\ Read(m)
  /\ IF forge[m].open /\ forge[m].role # "none"
     THEN \E gated \in BOOLEAN :
            /\ Gate(gated)
            /\ events' = Put(events, m, [observedFromMR(m, gated) EXCEPT !.roles = {forge[m].role}])
     ELSE UNCHANGED <<events, faults>>
  /\ UNCHANGED <<openSnapshots, forgot, overtaken>>

(* The merge request of a to-do as it is now; found closed, it leaves the  *)
(* cache.                                                                  *)
Todo(m) ==
  /\ ~sweep
  /\ \E gated \in BOOLEAN :
       Gate(gated) /\ events' = Put(events, m, observedFromMR(m, gated))
  /\ evict(IF forge[m].open THEN {} ELSE {m})

fetchMR(m) == Read(m) /\ Todo(m)

(* Another to-do names a merge request that was read already; one that has *)
(* not changed adds nothing to the result.                                 *)
fetchMRAgain(m) ==
  /\ Fetching
  /\ m \in DOMAIN events \ DOMAIN earlier
  /\ earlier' = Put(earlier, m, events[m])
  /\ Todo(m) /\ events' # events
  /\ UNCHANGED toRead

-----------------------------------------------------------------------------
(* GraphQL: the same query for the join and for the open-set refresh. *)

AnswerOf(m) ==
  [graph |-> forge[m].graph, archived |-> forge[m].archived,
   verdicts |-> [r \in Reviewers |-> VerdictOf(m, r)], seen |-> Len(notes[m])]

(* Batches that fail and nodes that are null leave merge requests without  *)
(* an answer.                                                              *)
runMRBatches(asked, answered) ==
  /\ IF answered = asked THEN UNCHANGED faults ELSE SpendFault
  /\ nodes' = [m \in answered |-> AnswerOf(m)]

Joining(S) ==
  /\ toJoin' = S /\ phase' = "join"
  /\ UNCHANGED <<forge, notes, durable, memory, sweep, toRead, events, earlier, covered, emitted,
                 firstSight, owed, overtaken, changes>>

(* graphqlJoin: a query without any answer is a failure, or all nodes were *)
(* null, and then the events are returned as they are.                     *)
AskForJoin ==
  /\ phase = "fetch" /\ toRead = {}
  /\ \E answered \in SUBSET DOMAIN events, degraded \in BOOLEAN :
       /\ runMRBatches(DOMAIN events, answered)
       /\ degraded => answered # DOMAIN events
       /\ Joining(IF answered = {} /\ ~degraded THEN {} ELSE DOMAIN events)
       /\ forgot' = IF answered = {} /\ ~degraded THEN forgot \cup DOMAIN events ELSE forgot
  /\ UNCHANGED refreshing

(* openSetRefresh: what is cached and not covered. *)
AskForRefresh ==
  /\ phase = "refresh"
  /\ \E answered \in SUBSET (DOMAIN openSnapshots \ covered) :
       /\ runMRBatches(DOMAIN openSnapshots \ covered, answered)
       /\ Joining(answered)
  /\ refreshing' = TRUE /\ UNCHANGED forgot

-----------------------------------------------------------------------------
(* emitNewVerdictSignals: the verdicts of an answer against the baseline. *)

(* The baseline without the reviewers that have left the verdict set. *)
Kept(m) ==
  [r \in Reviewers |-> IF nodes[m].verdicts[r] = "none" THEN "none" ELSE verdictBaseline[m][r]]

changedVerdicts(m) ==
  {r \in Reviewers : nodes[m].verdicts[r] \notin {"none", Kept(m)[r]}}

(* The newest note of r with the text of its verdict. *)
MatchedNote(m, r) ==
  Newest({k \in NotesOf(m, r) : notes[m][k].body = nodes[m].verdicts[r]})

(* A changed verdict is owed a signal as long as it lasts, unless settled. *)
Owe(m, settled) ==
  owed' = {o \in owed : o.mr = m => nodes[m].verdicts[o.by] = o.body /\ o.by \notin settled}
          \cup {[mr |-> m, by |-> r, body |-> nodes[m].verdicts[r]] :
                   r \in changedVerdicts(m) \ settled}

(* Mutant: the verdicts found at first sight are news. *)
FirstSightIsEmpty(m) ==
  /\ m \notin DOMAIN verdictBaseline
  /\ verdictBaseline' = Put(verdictBaseline, m, [r \in Reviewers |-> "none"])
  /\ firstSight' = Put(firstSight, m, nodes[m].seen)
  /\ UNCHANGED <<emitted, owed, faults>>

FirstSightOf(m) ==
  /\ m \notin DOMAIN verdictBaseline
  /\ verdictBaseline' = Put(verdictBaseline, m, nodes[m].verdicts)
  /\ firstSight' = Put(firstSight, m, nodes[m].seen)
  /\ UNCHANGED <<emitted, owed, faults>>

NoChange(m) ==
  /\ m \in DOMAIN verdictBaseline /\ changedVerdicts(m) = {}
  /\ verdictBaseline' = Put(verdictBaseline, m, Kept(m))
  /\ Owe(m, {})
  /\ UNCHANGED <<emitted, firstSight, faults>>

(* Mutant: the baseline moves on although the notes were not read. *)
NotesFailForgets(m) ==
  /\ m \in DOMAIN verdictBaseline /\ changedVerdicts(m) # {}
  /\ SpendFault
  /\ verdictBaseline' = Put(verdictBaseline, m, nodes[m].verdicts)
  /\ Owe(m, {})
  /\ UNCHANGED <<emitted, firstSight>>

(* The notes cannot be read: the change will be seen again. *)
NotesFail(m) ==
  /\ m \in DOMAIN verdictBaseline /\ changedVerdicts(m) # {}
  /\ SpendFault
  /\ verdictBaseline' = Put(verdictBaseline, m, Kept(m))
  /\ Owe(m, {})
  /\ UNCHANGED <<emitted, firstSight>>

(* A note that is buried, not on the first page, is given up. *)
NotesRead(m) ==
  /\ m \in DOMAIN verdictBaseline /\ changedVerdicts(m) # {}
  /\ \E buried \in SUBSET changedVerdicts(m) :
       /\ \/ buried = {} /\ UNCHANGED faults
          \/ buried # {} /\ SpendFault
       /\ emitted' = emitted \cup
            {[mr |-> m, note |-> MatchedNote(m, r)] : r \in changedVerdicts(m) \ buried}
       /\ Owe(m, buried)
  /\ verdictBaseline' = Put(verdictBaseline, m, nodes[m].verdicts)
  /\ UNCHANGED firstSight

emitNewVerdictSignals(m) == FirstSightOf(m) \/ NoChange(m) \/ NotesFail(m) \/ NotesRead(m)

NoVerdicts == UNCHANGED <<verdictBaseline, emitted, firstSight, owed, faults>>

-----------------------------------------------------------------------------
(* graphqlJoin and openSetRefresh, one merge request after the other. *)

JoinStep(m) ==
  /\ phase = "join" /\ m \in toJoin
  /\ toJoin' = toJoin \ {m}
  /\ UNCHANGED <<forge, notes, durable, phase, sweep, refreshing, toRead, covered, nodes, changes>>

Answered(m) == m \in DOMAIN nodes

(* An archived project: out of the result and out of the cache. *)
DropArchived(m) ==
  /\ JoinStep(m)
  /\ Answered(m) /\ nodes[m].archived
  /\ events' = Without(events, {m}) /\ earlier' = Without(earlier, {m})
  /\ evict({m})
  /\ NoVerdicts

(* The snapshots of m in f with other facts of GraphQL. *)
WithGraph(f, m, graph) == IF m \in DOMAIN f THEN [f EXCEPT ![m].graph = graph] ELSE f

FoundOpen(m) == events[m].open \/ (m \in DOMAIN earlier /\ earlier[m].open)

(* Mutant: the gate is kept only where the query failed. *)
EnrichOnly(m) ==
  /\ ~refreshing
  /\ JoinStep(m)
  /\ Answered(m) /\ ~nodes[m].archived
  /\ events' = WithGraph(events, m, nodes[m].graph)
  /\ earlier' = WithGraph(earlier, m, nodes[m].graph)
  /\ IF FoundOpen(m) THEN emitNewVerdictSignals(m) ELSE NoVerdicts
  /\ UNCHANGED <<openSnapshots, forgot, overtaken>>

(* The last known gate of m goes into its open snapshots. *)
carryForwardGate(f, m) ==
  IF m \in DOMAIN f \cap DOMAIN openSnapshots
  THEN [f EXCEPT ![m].gated = @ \/ (f[m].open /\ openSnapshots[m].gated)]
  ELSE f

(* The answer and, for a gate in transition, the last known one. *)
Enrich(m) ==
  /\ ~refreshing
  /\ JoinStep(m)
  /\ Answered(m) /\ ~nodes[m].archived
  /\ events' = carryForwardGate(WithGraph(events, m, nodes[m].graph), m)
  /\ earlier' = carryForwardGate(WithGraph(earlier, m, nodes[m].graph), m)
  /\ IF FoundOpen(m) THEN emitNewVerdictSignals(m) ELSE NoVerdicts
  /\ UNCHANGED <<openSnapshots, forgot, overtaken>>

(* No answer: what the cache holds, if it holds something. *)
Carry(m) ==
  /\ ~refreshing
  /\ JoinStep(m)
  /\ ~Answered(m)
  /\ IF m \in DOMAIN openSnapshots
     THEN /\ events' = carryForwardGate(WithGraph(events, m, openSnapshots[m].graph), m)
          /\ earlier' = carryForwardGate(WithGraph(earlier, m, openSnapshots[m].graph), m)
     ELSE UNCHANGED <<events, earlier>>
  /\ NoVerdicts
  /\ UNCHANGED <<openSnapshots, forgot, overtaken>>

(* The cached snapshot with the answer merged into it; the cache stays.    *)
Refresh(m) ==
  /\ refreshing
  /\ JoinStep(m)
  /\ Answered(m) /\ ~nodes[m].archived
  /\ events' = Put(events, m, [openSnapshots[m] EXCEPT !.graph = nodes[m].graph])
  /\ emitNewVerdictSignals(m)
  /\ UNCHANGED <<earlier, openSnapshots, forgot, overtaken>>

(* Read as open at first and as closed later in the same poll. *)
ClosedMeanwhile == {m \in DOMAIN earlier : earlier[m].open /\ ~events[m].open}

OpenEvents == {m \in DOMAIN events : events[m].open} \cup ClosedMeanwhile

LastOpen(m) == IF m \in ClosedMeanwhile THEN earlier[m] ELSE events[m]

(* Two reads of one poll found it open, one of them without its gate. *)
GateInDoubt ==
  {m \in DOMAIN earlier : earlier[m].open /\ events[m].open /\ earlier[m].gated # events[m].gated}

(* The last open snapshot of each, be it older than the closed one. *)
cacheOpenSnapshots ==
  /\ openSnapshots' = [m \in DOMAIN openSnapshots \cup OpenEvents |->
                         IF m \in OpenEvents THEN LastOpen(m) ELSE openSnapshots[m]]
  /\ forgot' = (forgot \ {m \in OpenEvents : LastOpen(m).gated}) \cup GateInDoubt
  /\ overtaken' = (overtaken \ OpenEvents) \cup ClosedMeanwhile

(* Mutant: only a sweep fills the cache. *)
JoinedBySweep ==
  /\ phase = "join" /\ toJoin = {} /\ ~refreshing
  /\ IF sweep THEN cacheOpenSnapshots ELSE UNCHANGED <<openSnapshots, forgot, overtaken>>
  /\ covered' = DOMAIN events
  /\ phase' = IF sweep \/ DOMAIN openSnapshots' \subseteq covered' THEN "store" ELSE "refresh"
  /\ UNCHANGED <<forge, notes, durable, verdictBaseline, sweep, refreshing, toRead, events,
                 earlier, nodes, toJoin, emitted, firstSight, owed, changes, faults>>

(* The joined snapshots are cached; a fast poll goes on to the rest. *)
Joined ==
  /\ phase = "join" /\ toJoin = {} /\ ~refreshing
  /\ cacheOpenSnapshots
  /\ covered' = DOMAIN events
  /\ phase' = IF sweep \/ DOMAIN openSnapshots' \subseteq covered' THEN "store" ELSE "refresh"
  /\ UNCHANGED <<forge, notes, durable, verdictBaseline, sweep, refreshing, toRead, events,
                 earlier, nodes, toJoin, emitted, firstSight, owed, changes, faults>>

Refreshed ==
  /\ phase = "join" /\ toJoin = {} /\ refreshing
  /\ phase' = "store"
  /\ UNCHANGED <<forge, notes, durable, memory, sweep, refreshing, toRead, events, earlier,
                 covered, nodes, toJoin, emitted, history, changes, faults>>

-----------------------------------------------------------------------------
(* The engine stores the result; a sweep also reaps (persist, reap). *)

(* Open rows without a role of mine that the sweep did not return. *)
Leftovers ==
  IF sweep
  THEN {m \in MRs \ DOMAIN events : LatestIsOpen(log[m]) /\ ~LatestIsOpenRoled(log[m])}
  ELSE {}

(* What the result says of m on top of its history; a poll never salts. *)
WithEarlier(m) ==
  IF m \in DOMAIN earlier THEN InsertOrIgnore(log[m], Observed(earlier[m], 0)) ELSE log[m]

Inserted(m) ==
  InsertOrIgnore(WithEarlier(m),
                 Observed(events[m], IF sweep THEN ResurrectionSalt(log[m]) ELSE 0))

(* Mutant: what is cached is not reaped. *)
ExtendedKeepsCached(m, gone) ==
  IF m \in DOMAIN events THEN Inserted(m)
  ELSE IF m \notin DOMAIN openSnapshots /\ (m \in gone \/ (sweep /\ LatestIsOpenRoled(log[m])))
    THEN InsertOrIgnore(log[m], Removed(Len(log[m])))
  ELSE log[m]

(* The history of m with the result in it; gone are confirmed leftovers. *)
Extended(m, gone) ==
  IF m \in DOMAIN events THEN Inserted(m)
  ELSE IF m \in gone \/ (sweep /\ LatestIsOpenRoled(log[m]))
    THEN InsertOrIgnore(log[m], Removed(Len(log[m])))
  ELSE log[m]

(* confirmGone: a lookup that fails keeps every leftover. *)
WriteEvents ==
  /\ phase = "store"
  /\ \E confirmed \in BOOLEAN :
       /\ IF confirmed THEN UNCHANGED faults ELSE Leftovers # {} /\ SpendFault
       /\ LET gone == IF confirmed THEN {m \in Leftovers : ~forge[m].open} ELSE {}
          IN  log' = [m \in MRs |-> Extended(m, gone)]
  /\ signals' = signals \cup emitted
  /\ owed' = {o \in owed : \A e \in emitted : ~About(e, o)}
  /\ EndCycle
  /\ UNCHANGED <<forge, notes, memory, firstSight, forgot, overtaken, changes>>

-----------------------------------------------------------------------------

Forge ==
  \E m \in MRs : Edit(m) \/ MembersChange(m) \/ PipelineMoves(m) \/ Archive(m) \/ Review(m)

Work ==
  \/ \E m \in MRs : fetchScopeMRs(m) \/ fetchMR(m)
  \/ AskForJoin \/ AskForRefresh
  \/ \E m \in MRs : DropArchived(m) \/ Enrich(m) \/ Carry(m) \/ Refresh(m)
  \/ Joined \/ Refreshed
  \/ WriteEvents

Next ==
  \/ Forge \/ Reconcile \/ FastPoll
  \/ Work \/ (\E m \in MRs : fetchMRAgain(m))
  \/ ProviderFails \/ StorageFails \/ Crash

Spec == Init /\ [][Next]_vars

(* A begun cycle ends, and sweeps are never starved (see ConnectionSync). *)
FairSpec == Spec /\ WF_vars(Work) /\ SF_vars(Reconcile)

-----------------------------------------------------------------------------
(* Properties. *)

(* Every variable has its type (a check of the model, cf. sdk types). *)
TypeOK ==
  /\ forge \in [MRs -> MergeRequest]
  /\ notes \in [MRs -> Seq(Note)]
  /\ log \in [MRs -> Seq([kind : {"observed"}, fact : Snapshot, salt : Nat]
                           \cup [kind : {"removed"}, supersedes : Nat])]
  /\ DOMAIN openSnapshots \subseteq MRs /\ openSnapshots \in [DOMAIN openSnapshots -> Snapshot]
  /\ DOMAIN verdictBaseline \subseteq MRs
  /\ verdictBaseline \in [DOMAIN verdictBaseline -> Verdict]
  /\ phase \in {"idle", "fetch", "join", "refresh", "store"}
  /\ sweep \in BOOLEAN /\ refreshing \in BOOLEAN
  /\ toRead \subseteq MRs /\ covered \subseteq MRs /\ toJoin \subseteq MRs
  /\ DOMAIN events \subseteq MRs /\ events \in [DOMAIN events -> Snapshot]
  /\ DOMAIN earlier \subseteq DOMAIN events /\ earlier \in [DOMAIN earlier -> Snapshot]
  /\ DOMAIN nodes \subseteq MRs /\ nodes \in [DOMAIN nodes -> Answer]
  /\ signals \subseteq Signal /\ emitted \subseteq Signal
  /\ firstSight \in [DOMAIN verdictBaseline -> Nat]
  /\ owed \subseteq [mr : MRs, by : Reviewers, body : Verdicts] /\ forgot \subseteq MRs
  /\ overtaken \subseteq MRs
  /\ changes \in Nat /\ faults \in Nat

(* The facts REST returned are not replaced by older ones: what a poll or  *)
(* a sweep appends is never behind what is stored, neither the refreshed   *)
(* nor the carried-over snapshots (openSnapshots, gitlab.go;               *)
(* docs/Provider_API_Analysis.md, Open-set).  The exception is a merge     *)
(* request that two to-dos of one poll found open and then closed: its     *)
(* open snapshot is back in the cache until the next read of it.           *)
NeverReverted ==
  [][\A m \in MRs \ overtaken :
       \A k \in IdsOf("observed", log'[m]) \ DOMAIN log[m], j \in IdsOf("observed", log'[m]) :
         j < k => log'[m][j].fact.rest <= log'[m][k].fact.rest]_vars

(* A signal is of a verdict given after the provider first saw the merge   *)
(* request: history never moves an item (emitNewVerdictSignals, ADR-0016). *)
OnlyNewVerdicts == \A e \in emitted : e.note > firstSight[e.mr]

(* A change of verdict the provider has seen is in the result under way,   *)
(* or still differs from the baseline and will be signalled by a retry;    *)
(* the exceptions are a result that is lost and a note that is buried, and *)
(* a verdict that is given up before its notes could be read.              *)
VerdictHeard ==
  \A o \in owed : \/ \E e \in emitted : About(e, o)
                  \/ verdictBaseline[o.mr][o.by] # o.body

KnownGate(history_) ==
  LatestIsOpen(history_) /\ history_[Len(history_)].fact.gated

(* An open item with a known gate keeps one, unless the provider has lost  *)
(* its memory of it: by a restart, with an item that was closed or         *)
(* archived, by an answer without any node, or by two reads of one poll    *)
(* only one of which has the gate (carryForwardGate).                      *)
GateKept ==
  [][\A m \in MRs \ forgot :
       KnownGate(log[m]) /\ LatestIsOpen(log'[m]) => KnownGate(log'[m])]_vars

(* Once the forge is quiet the board holds the open items of mine, nothing *)
(* that is closed and no archived or former item of mine: what the cache   *)
(* brings back is reaped for good in the end (openSetRefresh, reap).       *)
MembershipOf(m) ==
  IF forge[m].open /\ forge[m].role # "none" /\ ~forge[m].archived
  THEN OnBoard(log[m])
  ELSE ~LatestIsOpenRoled(log[m]) /\ (OnBoard(log[m]) => forge[m].open)

BoardConverges == <>[](\A m \in MRs : MembershipOf(m))

(* What the cache is said to hold, open items only: an item that was       *)
(* reaped comes back only when a sweep or a to-do returns it.              *)
ReapedStaysOff ==
  [][\A m \in MRs : LatestIsRemoved(log[m]) /\ OnBoard(log'[m]) => m \in covered]_vars

(* What graphqlJoin says of carried enrichment: it is the last known, so a *)
(* failed query never downgrades what is stored.                           *)
NeverDowngraded ==
  [][\A m \in MRs : \A j \in IdsOf("observed", log[m]) :
       log'[m] # log[m] /\ ~LatestIsRemoved(log'[m])
         => LET latest == log'[m][Len(log'[m])].fact.graph
            IN  latest # -1 => log[m][j].fact.graph <= latest]_vars
=============================================================================
