--------------------------- MODULE ConnectionSync ---------------------------
(***************************************************************************)
(* One connection of the sync engine: its goroutine, the event log and     *)
(* the cursor it writes, and the forge it reads while the forge changes.   *)
(*                                                                         *)
(* A cycle is a reconcile sweep or a fast poll (cycle.go, persist, reap).  *)
(* Every call that leaves the goroutine - one search scope, one fetched    *)
(* pull request, one ResolveOpen lookup, one database transaction - is a   *)
(* step of its own, so the forge may move between any two of them and the  *)
(* process may die between any two of them.  When a cycle starts is the    *)
(* business of module Scheduler: here an idle connection may start either  *)
(* kind at any time.                                                       *)
(*                                                                         *)
(* Details are the facts of a snapshot that neither the engine nor the     *)
(* membership of the board looks at (CI, gate, review state and the other  *)
(* enrichment).  What a read of the forge finds there is arbitrary: the    *)
(* GraphQL join may be fresh, degraded or carried forward.                 *)
(***************************************************************************)
EXTENDS EventLog, FiniteSets

CONSTANTS
  Items,        \* pull requests of this connection, and their notification threads
  NumScopes,    \* searches of a sweep, the sole-approver discovery being the last
  Details,      \* values of the facts membership does not depend on
  MaxChanges,   \* bound: changes the forge makes to items
  MaxNotes,     \* bound: notifications per thread
  MaxFaults     \* bound: failed calls, failed transactions and crashes together

ASSUME ConstantsAssumption ==
  /\ IsFiniteSet(Items)
  /\ NumScopes \in Nat \ {0}
  /\ MaxChanges \in Nat /\ MaxNotes \in Nat /\ MaxFaults \in Nat
  /\ Details # {}

VARIABLES
  forge,      \* what each item really is
  feed,       \* notification threads: TRUE for an entry whose reason is a signal
  log,        \* events table: the fact stream of each item            (durable)
  recorded,   \* events table: thread entries whose signal is stored   (durable)
  cursor,     \* sync_cursors: the feed version the fast poll is done with (durable)
  phase,      \* where the goroutine is
  scope,      \* sweep: the next scope to search
  complete,   \* PollResult.Complete so far
  todo,       \* fast poll: threads listed and not fetched yet
  next,       \* PollResult.State: the cursor to save
  found,      \* PollResult.Events: the snapshots, a function of the items seen
  heard,      \* PollResult.Events: items whose notification yields a signal
  facts,      \* reap: LatestItemFacts as read
  leftovers,  \* reap: role-less items still to confirm with ResolveOpen
  removals,   \* reap: items to remove, by absence from the sweep
  gone,       \* reap: leftovers the forge says are gone
  touched,    \* history: items the forge changed during this cycle
  changes, faults  \* bounds: how much of the budgets is used

durable == <<log, recorded, cursor>>
result  == <<scope, complete, todo, next, found, heard>>
reaping == <<facts, leftovers, removals, gone>>
vars == <<forge, feed, durable, phase, result, reaping, touched, changes, faults>>

Scopes == 1..NumScopes

(* A role is named after the search that finds it.  archived is a fact of  *)
(* the repository and, once true, stays so.                                *)
ForgeItem == [rev : Nat, open : BOOLEAN, roles : SUBSET Scopes, archived : BOOLEAN]

Fact == [rev : Nat, open : BOOLEAN, roles : SUBSET Scopes, detail : Details]

Row ==
  [kind : {"observed"}, fact : Fact, salt : Nat]
    \cup [kind : {"removed"}, supersedes : Nat]

Phases == {"idle", "sweep", "poll", "join", "reap", "confirm", "write", "save"}

NoHistory == [i \in Items |-> << >>]
NoItem == [i \in {} |-> 0]

Init ==
  /\ forge \in [Items -> [rev : {0}, open : BOOLEAN, roles : SUBSET Scopes,
                       archived : BOOLEAN]]
  /\ feed = NoHistory
  /\ log = NoHistory
  /\ recorded = [i \in Items |-> {}]
  /\ cursor = [i \in Items |-> 0]
  /\ phase = "idle"
  /\ scope = 1 /\ complete = FALSE /\ todo = {} /\ next = cursor
  /\ found = NoItem /\ heard = {}
  /\ facts = NoHistory /\ leftovers = {} /\ removals = {} /\ gone = {}
  /\ touched = {} /\ changes = 0 /\ faults = 0

-----------------------------------------------------------------------------
(* The forge. *)

ChangeItem(i) ==
  /\ changes < MaxChanges
  /\ changes' = changes + 1
  /\ touched' = IF phase = "idle" THEN {} ELSE touched \cup {i}
  /\ UNCHANGED <<feed, durable, phase, result, reaping, faults>>

(* Merged, closed, made inaccessible, or opened again: always a new revision. *)
FlipState(i) ==
  /\ ChangeItem(i)
  /\ forge' = [forge EXCEPT ![i] =
                [rev |-> @.rev + 1, open |-> ~@.open, roles |-> @.roles,
                 archived |-> @.archived]]

(* My roles on the item change; the revision need not (sole approver). *)
ChangeRoles(i) ==
  /\ ChangeItem(i)
  /\ \E roles \in (SUBSET Scopes) \ {forge[i].roles} :
       forge' = [forge EXCEPT ![i] =
                   [rev |-> @.rev, open |-> @.open, roles |-> roles,
                    archived |-> @.archived]]

(* The repository of the item is archived; the item itself stays as it is. *)
Archive(i) ==
  /\ ~forge[i].archived
  /\ ChangeItem(i)
  /\ forge' = [forge EXCEPT ![i] =
                [rev |-> @.rev, open |-> @.open, roles |-> @.roles, archived |-> TRUE]]

(* A notification thread gets a new entry. *)
Notify(i) ==
  /\ Len(feed[i]) < MaxNotes
  /\ \E signal \in BOOLEAN : feed' = [feed EXCEPT ![i] = Append(@, signal)]
  /\ UNCHANGED <<forge, durable, phase, result, reaping, touched, changes, faults>>

-----------------------------------------------------------------------------
(* Starting and abandoning a cycle. *)

(* The goroutine is back at its select; whatever the cycle held is dropped. *)
EndCycle ==
  /\ phase' = "idle"
  /\ scope' = 1 /\ complete' = FALSE /\ todo' = {} /\ next' = cursor'
  /\ found' = NoItem /\ heard' = {}
  /\ facts' = NoHistory /\ leftovers' = {} /\ removals' = {} /\ gone' = {}
  /\ touched' = {}

SpendFault ==
  /\ faults < MaxFaults
  /\ faults' = faults + 1

(* The cycle ends early and what is durable stays as it is. *)
Abandon ==
  /\ SpendFault
  /\ UNCHANGED <<forge, feed, durable, changes>>
  /\ EndCycle

(* A provider call fails: the result is discarded, nothing is persisted. *)
ProviderFails ==
  /\ phase \in {"sweep", "poll", "join"}
  /\ Abandon

(* Mutant: after a failed WriteEvents the cycle carries on. *)
StorageFailsCarriesOn ==
  /\ phase = "write"
  /\ SpendFault
  /\ phase' = "save"
  /\ UNCHANGED <<forge, feed, durable, result, reaping, touched, changes>>

(* LatestItemFacts or WriteEvents fails: the transaction is rolled back. *)
StorageFails ==
  /\ phase \in {"reap", "write"}
  /\ Abandon

(* The process stops anywhere; a restart finds what is durable. *)
Crash ==
  /\ phase # "idle"
  /\ Abandon

(* The facts of an item as a read of the forge returns them. *)
Snapshot(i, roles, detail) ==
  [rev |-> forge[i].rev, open |-> forge[i].open, roles |-> roles, detail |-> detail]

-----------------------------------------------------------------------------
(* Reconcile: the scopes one after the other, roles accumulated per item. *)

StartReconcile ==
  /\ phase = "idle"
  /\ phase' = "sweep"
  /\ complete' = TRUE
  /\ UNCHANGED <<forge, feed, durable, scope, todo, next, found, heard, reaping,
                 touched, changes, faults>>

Hits == {i \in Items : forge[i].open /\ scope \in forge[i].roles}

(* Mutant: the role is that of the next scope. *)
WithNextScope(fact) ==
  [rev |-> fact.rev, open |-> fact.open, roles |-> fact.roles \cup {scope + 1},
   detail |-> fact.detail]

WithScope(fact) ==
  [rev |-> fact.rev, open |-> fact.open, roles |-> fact.roles \cup {scope},
   detail |-> fact.detail]

(* The facts are those of the first scope that returned the item; detail   *)
(* is what normalisation and the join make of the rest.                    *)
Swept(seen, detail) ==
  [i \in DOMAIN found \cup seen |->
     IF i \notin DOMAIN found THEN Snapshot(i, {scope}, detail)
     ELSE IF i \in seen THEN WithScope(found[i])
     ELSE found[i]]

(* Only the sole-approver discovery may lose a hit and carry on: a failed  *)
(* probe leaves the item out and the sweep incomplete.                     *)
SearchScope ==
  /\ phase = "sweep"
  /\ \E seen \in SUBSET Hits, detail \in Details :
       /\ \/ seen = Hits /\ UNCHANGED faults
          \/ seen # Hits /\ scope = NumScopes /\ SpendFault
       /\ found' = Swept(seen, detail)
       /\ complete' = (complete /\ seen = Hits)
  /\ scope' = scope + 1
  /\ phase' = IF scope < NumScopes THEN "sweep" ELSE "join"
  /\ UNCHANGED <<forge, feed, durable, todo, next, heard, reaping, touched, changes>>

-----------------------------------------------------------------------------
(* FastPoll: list the threads, fetch their pull requests, keep the cursor  *)
(* of the listing for the end.                                             *)

Unread == {i \in Items : feed[i] # << >>}
News   == {i \in Items : Len(feed[i]) > cursor[i]}

(* Without news the forge answers 304 and the poll has no effect.  Older   *)
(* threads are listed again as long as they are unread.                    *)
StartPoll ==
  /\ phase = "idle"
  /\ News # {}
  /\ phase' = "poll"
  /\ \E listed \in SUBSET Unread : News \subseteq listed /\ todo' = listed
  /\ next' = [i \in Items |-> Len(feed[i])]
  /\ UNCHANGED <<forge, feed, durable, scope, complete, found, heard, reaping,
                 touched, changes, faults>>

(* The roles a pull request itself tells: all but that of sole approver. *)
PullRoles(i) == forge[i].roles \ {NumScopes}

(* A fetched item is kept or dropped, its thread heard or not. *)
Fetched(i, kept, signal) ==
  /\ phase = "poll"
  /\ i \in todo
  /\ todo' = todo \ {i}
  /\ \E detail \in Details :
       found' = IF kept
                THEN [j \in DOMAIN found \cup {i} |->
                        IF j = i THEN Snapshot(i, PullRoles(i), detail) ELSE found[j]]
                ELSE found
  /\ heard' = IF signal THEN heard \cup {i} ELSE heard
  /\ phase' = IF todo' = {} THEN "join" ELSE "poll"
  /\ UNCHANGED <<forge, feed, durable, scope, complete, next, reaping, touched,
                 changes, faults>>

(* Mutant: nothing is dropped. *)
FetchPullKeepsAll(i) == Fetched(i, TRUE, feed[i][next[i]])

(* Mutant: a signal on a closed item is not heard. *)
FetchPullOpenOnly(i) == Fetched(i, TRUE, feed[i][next[i]] /\ forge[i].open)

(* An open item that shows no role of mine, behind a reason that is no     *)
(* signal, is dropped; a closed one is kept, to clear a mention-only row.  *)
FetchPull(i) ==
  LET signal == feed[i][next[i]]
  IN  Fetched(i, signal \/ PullRoles(i) # {} \/ ~forge[i].open, signal)

-----------------------------------------------------------------------------
(* Both kinds of cycle end with the GraphQL join. *)

(* Items of archived repositories leave the result with their signals; a   *)
(* degraded batch keeps its items as they are.                             *)
Joined(nextPhase) ==
  LET archived == {i \in DOMAIN found : forge[i].archived}
  IN
  /\ phase = "join"
  /\ \E dropped \in SUBSET archived :
       /\ \/ dropped = archived /\ UNCHANGED faults
          \/ dropped # archived /\ SpendFault
       /\ found' = [i \in DOMAIN found \ dropped |-> found[i]]
       /\ heard' = heard \ dropped
  /\ phase' = nextPhase
  /\ UNCHANGED <<forge, feed, durable, scope, complete, todo, next, reaping, touched, changes>>

(* Mutant: the completeness of the sweep is not looked at. *)
JoinAlwaysReaps == Joined("reap")

(* Only a complete sweep goes on to reap. *)
Join == Joined(IF complete THEN "reap" ELSE "write")

-----------------------------------------------------------------------------
(* reap and confirmGone. *)

(* Mutant: role-less leftovers are left alone. *)
ReapRoledOnly ==
  /\ phase = "reap"
  /\ facts' = log
  /\ removals' = {i \in Items \ DOMAIN found : LatestIsOpenRoled(log[i])}
  /\ phase' = "write"
  /\ UNCHANGED <<forge, feed, durable, result, leftovers, gone, touched, changes, faults>>

(* Mutant: no absence is believed, every missing item is looked up. *)
ReapConfirmsAll ==
  /\ phase = "reap"
  /\ facts' = log
  /\ leftovers' = {i \in Items \ DOMAIN found : LatestIsOpen(log[i])}
  /\ phase' = IF leftovers' = {} THEN "write" ELSE "confirm"
  /\ UNCHANGED <<forge, feed, durable, result, removals, gone, touched, changes, faults>>

Reap ==
  /\ phase = "reap"
  /\ facts' = log
  /\ removals' = {i \in Items \ DOMAIN found : LatestIsOpenRoled(log[i])}
  /\ leftovers' = {i \in Items \ DOMAIN found : LatestIsOpen(log[i])} \ removals'
  /\ phase' = IF leftovers' = {} THEN "write" ELSE "confirm"
  /\ UNCHANGED <<forge, feed, durable, result, gone, touched, changes, faults>>

(* ResolveOpen looks the leftovers up one by one. *)
ResolveOpen(i) ==
  /\ phase = "confirm"
  /\ i \in leftovers
  /\ leftovers' = leftovers \ {i}
  /\ gone' = IF forge[i].open THEN gone ELSE gone \cup {i}
  /\ phase' = IF leftovers' = {} THEN "write" ELSE "confirm"
  /\ UNCHANGED <<forge, feed, durable, result, facts, removals, touched, changes, faults>>

(* A failed lookup forgets every answer: no leftover is removed this cycle. *)
ResolveOpenFails ==
  /\ phase = "confirm"
  /\ SpendFault
  /\ leftovers' = {} /\ gone' = {}
  /\ phase' = "write"
  /\ UNCHANGED <<forge, feed, durable, result, facts, removals, touched, changes>>

-----------------------------------------------------------------------------
(* persist: one transaction for the events, then one for the cursor. *)

(* The history of i once the batch is in. *)
Extended(i) ==
  IF i \in DOMAIN found
    THEN InsertOrIgnore(log[i], Observed(found[i], ResurrectionSalt(facts[i])))
  ELSE IF i \in removals \cup gone
    THEN InsertOrIgnore(log[i], Removed(Len(facts[i])))
  ELSE log[i]

WriteEvents ==
  /\ phase = "write"
  /\ log' = [i \in Items |-> Extended(i)]
  /\ recorded' = [i \in Items |-> IF i \in heard THEN recorded[i] \cup {next[i]}
                                  ELSE recorded[i]]
  /\ phase' = "save"
  /\ UNCHANGED <<forge, feed, cursor, result, reaping, touched, changes, faults>>

(* A sweep returns no State, so there its save is a no-op. *)
SaveCursors ==
  /\ phase = "save"
  /\ cursor' = next
  /\ UNCHANGED <<forge, feed, log, recorded, changes, faults>>
  /\ EndCycle

SaveCursorsFails ==
  /\ phase = "save"
  /\ next # cursor
  /\ Abandon

-----------------------------------------------------------------------------

Forge == \E i \in Items : FlipState(i) \/ ChangeRoles(i) \/ Archive(i) \/ Notify(i)

Work ==
  \/ SearchScope
  \/ \E i \in Items : FetchPull(i)
  \/ Join
  \/ Reap
  \/ \E i \in Items : ResolveOpen(i)
  \/ WriteEvents
  \/ SaveCursors

Failure ==
  \/ ProviderFails \/ StorageFails \/ ResolveOpenFails \/ SaveCursorsFails \/ Crash

Next == Forge \/ StartReconcile \/ StartPoll \/ Work \/ Failure

Spec == Init /\ [][Next]_vars

(* A started cycle runs on, and the reconcile ticker is never starved: its *)
(* channel keeps a missed tick, and select chooses among the ready ones at *)
(* random.  Nothing is assumed of the forge or of fast polls.              *)
FairSpec == Spec /\ WF_vars(Work) /\ SF_vars(StartReconcile)

-----------------------------------------------------------------------------
(* Properties. *)

(* Every variable has its type (a check of the model, cf. storage and sdk types). *)
TypeOK ==
  /\ forge \in [Items -> ForgeItem]
  /\ feed \in [Items -> Seq(BOOLEAN)]
  /\ log \in [Items -> Seq(Row)]
  /\ recorded \in [Items -> SUBSET Nat]
  /\ cursor \in [Items -> Nat]
  /\ phase \in Phases
  /\ scope \in Nat
  /\ complete \in BOOLEAN
  /\ todo \subseteq Items
  /\ next \in [Items -> Nat]
  /\ DOMAIN found \subseteq Items
  /\ found \in [DOMAIN found -> Fact]
  /\ heard \subseteq Items
  /\ facts \in [Items -> Seq(Row)]
  /\ leftovers \subseteq Items
  /\ removals \subseteq Items
  /\ gone \subseteq Items
  /\ touched \subseteq Items
  /\ changes \in Nat /\ faults \in Nat

Alternates(history) ==
  \A k \in DOMAIN history :
    /\ history[k].kind = "removed" =>
         /\ k > 1 /\ history[k].supersedes = k - 1
         /\ history[k - 1].kind = "observed" /\ history[k - 1].fact.open
    /\ history[k].kind = "observed" /\ history[k].salt # 0 =>
         /\ k > 1 /\ history[k].salt = k - 1
         /\ history[k - 1].kind = "removed"

(* In every history a removal directly follows, and names, an open         *)
(* snapshot, and a salted snapshot directly follows, and names, a removal: *)
(* one removal per episode, one resurrection per removal (reap in          *)
(* cycle.go, ADR-0024), whatever crashes and retries come in between.      *)
EpisodesAlternate == \A i \in Items : Alternates(log[i])

(* A notification the cursor is past has its signal in the database, or    *)
(* its repository is archived (persist: events first, then cursors).       *)
NoSignalLost ==
  \A i \in Items : cursor[i] # 0 =>
    /\ cursor[i] <= Len(feed[i])
    /\ feed[i][cursor[i]] => cursor[i] \in recorded[i] \/ forge[i].archived

(* An open item without a role of mine is on record only when a signal for *)
(* it is: merely watched pull requests never become rows (fastpoll.go).    *)
NoGhostRow ==
  \A i \in Items : \A k \in DOMAIN log[i] :
    log[i][k].kind = "observed" /\ log[i][k].fact.open /\ log[i][k].fact.roles = {}
      => recorded[i] # {}

(* An item that was open and mine during a whole cycle is not removed by   *)
(* it, nor is a mention-only item that stayed open, whatever the searches, *)
(* the lookups and the other items did (reap, confirmGone; cycle.go).  The *)
(* one exception is an archived repository (graphqlJoin).                  *)
RemovalsJustified ==
  [][\A i \in Items : log'[i] # log[i] /\ LatestIsRemoved(log'[i]) =>
       \/ i \in touched
       \/ ~forge[i].open \/ forge[i].archived
       \/ LatestIsOpenRoled(log[i]) /\ forge[i].roles = {}]_vars

(* When the events of a complete sweep are written, every item it saw is   *)
(* on the board, whatever was removed or closed before (salting in reap).  *)
SweptItemsShown ==
  [][WriteEvents /\ complete => \A i \in DOMAIN found : OnBoard(log'[i])]_vars

(* The board is right about an item that is open and mine: it is shown,    *)
(* and an item shown as open and mine is that.                             *)
RightlyShown(i) ==
  /\ forge[i].open /\ forge[i].roles # {} /\ ~forge[i].archived => OnBoard(log[i])
  /\ LatestIsOpenRoled(log[i]) => forge[i].open /\ forge[i].roles # {}

(* The events of a complete sweep make the board right about every item    *)
(* the forge left alone meanwhile, and those of any other cycle make it    *)
(* wrong about none (persist and reap in cycle.go; the sweep heals what    *)
(* the fast tier missed, sdk/provider.go).                                 *)
SweepSettles ==
  [][WriteEvents => \A i \in Items \ touched :
       complete \/ RightlyShown(i) => RightlyShown(i)']_vars

(* What normalize.go says of the dedupe key: a changed fact makes a new    *)
(* snapshot, so that after the events of a cycle are written the latest    *)
(* snapshot of every item it observed holds the facts it observed.         *)
ChangedFactMakesNewSnapshot ==
  [][WriteEvents =>
       \A i \in DOMAIN found : log'[i][Len(log'[i])] \in
         {Observed(found[i], salt) : salt \in 0..Len(log'[i])}]_vars

(* Once the forge is quiet the board shows every open item of mine, no     *)
(* item that is closed, and one of an archived repository only as a        *)
(* mention (Reconcile self-heals the fast tier; sdk/provider.go).          *)
MembershipOf(i) ==
  /\ forge[i].open /\ forge[i].roles # {} /\ ~forge[i].archived => OnBoard(log[i])
  /\ ~forge[i].open => ~OnBoard(log[i])
  /\ forge[i].archived => ~LatestIsOpenRoled(log[i])

BoardConverges == <>[](\A i \in Items : MembershipOf(i))

(* The connection implements the delivery promise of its fast tier. *)
Delivery == INSTANCE SignalDelivery WITH
  Threads <- Items, acked <- cursor, exempt <- {i \in Items : forge[i].archived}

DeliveryImplemented == Delivery!Spec
=============================================================================
