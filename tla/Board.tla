-------------------------------- MODULE Board --------------------------------
(***************************************************************************)
(* The attention list as the database has it, and everyone who changes it: *)
(* the engine adds facts and signals, a reader pins items, the refresher   *)
(* caches tickets, time passes, and processes come and go                  *)
(* (fold.go List, attention.go, flag.go, main.go).                         *)
(***************************************************************************)
EXTENDS JiraRefresher

CONSTANTS
  Facts,      \* what a snapshot may say
  Signals,    \* the signals the forge sends
  Delays,     \* how late the forge's news is observed, in days
  Days,       \* bound: the days on which something happens
  MaxSteps    \* bound: rows written, pins, failures, stops

ASSUME BoardAssumption ==
  /\ Signals \subseteq SignalTypes
  /\ Delays \subseteq Nat /\ Days \subseteq Nat /\ 0 \in Days /\ MaxSteps \in Nat
  /\ \A f \in Facts : f.open \in BOOLEAN /\ f.ticketKeys \in Seq(Keys)

VARIABLES
  now,     \* the day
  spent    \* how much of the budget is used

vars == <<store, refresher, now, spent>>

(* No database; or one of an earlier build, where each item was seen once  *)
(* and possibly pinned.                                                    *)
Init ==
  /\ lock = NoOwner
  /\ process = [p \in Processes |-> "out"]
  /\ current = [p \in Processes |-> 0]
  /\ tickets = [k \in Keys |-> NoRow]
  /\ sweep = Idle /\ news = FALSE
  /\ now = 0 /\ spent = 0
  /\ \/ /\ versions = <<>> /\ applied = {}
        /\ logs = [i \in Items |-> <<>>] /\ pins = [i \in Items |-> NotPinned]
     \/ /\ versions = <<1>> /\ applied = {1}
        /\ \E f \in Facts : logs = [i \in Items |-> <<Snapshot(f, 0, 0, 0)>>]
        /\ \E at \in {NotPinned, 0} : pins = [i \in Items |-> at]

Spend ==
  /\ spent < MaxSteps
  /\ spent' = spent + 1

Tick ==
  /\ now' \in {d \in Days : d > now}
  /\ UNCHANGED <<store, refresher, spent>>

-----------------------------------------------------------------------------
(* The engine's writes. *)

EngineWrites(i, row) ==
  /\ Synced(i) /\ Spend
  /\ WriteEvent(i, row)
  /\ UNCHANGED <<owner, schema, pins, tickets, refresher, now>>

(* The times the forge may report now. *)
Reported == {now - d : d \in {e \in Delays : e <= now}}

(* A reconcile that finds a removed item again salts its snapshot. *)
Observe(i) ==
  LET salts == {0} \cup {k \in IdsOf("removed", logs[i]) : k = Max(FactIds(logs[i]))}
  IN  \E f \in Facts, t \in Reported, salt \in salts : EngineWrites(i, Snapshot(f, t, salt, now))

Reap(i) ==
  /\ LatestIsOpenFact(logs[i])
  /\ EngineWrites(i, Removal(Max(IdsOf("observed", logs[i])), now))

(* A signal without a time counts as one of today.                         *)
SignalArrives(i) ==
  \E type \in Signals, t \in {Untimed} \cup (Reported \ {now}) : EngineWrites(i, Signal(type, t, now))

(* PUT and DELETE /items/{id}/flag. *)
handleFlag(i, flagged) ==
  /\ serving /\ Spend
  /\ SetHandleNext(i, flagged, now)
  /\ UNCHANGED <<owner, schema, logs, tickets, refresher, now>>

-----------------------------------------------------------------------------
(* The list: of the connections in the config of the process that serves   *)
(* it.                                                                     *)

List(p) == pin(Fold([i \in configured[p] |-> logs[i]], now), ListHandleNext)

ListedKeys(p) ==
  UNION {Range(LatestFacts(logs[i]).ticketKeys) : i \in {j \in configured[p] : OnBoard(logs[j])}}

(* One read for all items of the list. *)
fetchJiraTickets(p) == GetJiraTickets(ListedKeys(p))

(* The badge of an item: the first of its keys whose ticket has a status. *)
badge(p, i) ==
  LET keys == LatestFacts(logs[i]).ticketKeys
      fetched == fetchJiraTickets(p)
      known == {n \in DOMAIN keys : tickets[keys[n]] \in Statuses /\ keys[n] \in fetched}
  IN  IF known = {} THEN Blank ELSE tickets[keys[Min(known)]]

-----------------------------------------------------------------------------

(* A process that was started goes on. *)
Going(p) ==
  /\ ReadVersion(p) \/ Migrate(p) \/ Serve(p) \/ ClosePools(p) \/ release(p)
  /\ UNCHANGED <<refresher, now, spent>>

Start(p) == acquireLock(p) /\ UNCHANGED <<refresher, now, spent>>

Stopping(p) == OpenFails(p) \/ Cancel(p) \/ Crash(p)

Next ==
  \/ \E i \in Items : Observe(i) \/ Reap(i) \/ SignalArrives(i)
  \/ \E i \in Items, flagged \in BOOLEAN : handleFlag(i, flagged)
  \/ Tick
  \/ \E p \in Processes : Start(p) \/ Going(p)
  \/ \E p \in Processes : Stopping(p) /\ Spend /\ sweep' = Idle /\ UNCHANGED <<news, now>>
  \/ Sweep /\ UNCHANGED <<now, spent>>
  \/ Trouble /\ Spend /\ UNCHANGED now

Spec == Init /\ [][Next]_vars

(* A process that opens or closes goes on, and the refresher sweeps.       *)
FairSpec ==
  /\ Spec
  /\ \A p \in Processes : WF_vars(Going(p))
  /\ WF_vars(Sweep /\ UNCHANGED <<now, spent>>)

-----------------------------------------------------------------------------
(* Properties. *)

(* What a row may say on a day: nothing of the days to come. *)
Row(day) ==
  [kind : {"observed"}, fact : Facts, updated : {Untimed} \cup 0 .. day, salt : Nat, at : 0 .. day]
  \cup [kind : {"removed"}, supersedes : Nat, at : 0 .. day]
  \cup [kind : SignalTypes, occurred : {Untimed} \cup 0 .. day, at : 0 .. day]

(* Every variable has its type (a check of the model). *)
TypeOK ==
  /\ lock \in Processes \cup {NoOwner}
  /\ process \in [Processes -> Phases]
  /\ current \in [Processes -> {0} \cup Known]
  /\ versions \in Seq({0} \cup Known) /\ applied \subseteq Known
  /\ logs \in [Items -> Seq(Row(now))]
  /\ pins \in [Items -> {NotPinned} \cup 0 .. now]
  /\ tickets \in [Keys -> Statuses \cup {Blank, NoRow}]
  /\ sweep \in [pc : {"idle", "fetching", "pruning"}, keys : SUBSET Keys,
                left : SUBSET Keys, changed : BOOLEAN]
  /\ news \in BOOLEAN
  /\ now \in Days /\ spent \in 0 .. MaxSteps

(* Whoever can write to the database holds its lock, through crashes,      *)
(* failed starts and slow stops (acquireLock, Open, Close).                *)
WriterHoldsLock == \A p \in Processes : WritePoolOpen(p) => lock = p

(* After a crash anywhere, and whichever builds took turns, the recorded   *)
(* version is the steps that ran, so no start ever finds tables it has to  *)
(* create; and who serves finds every table it knows (migrate).            *)
SchemaWhole ==
  /\ \/ versions = <<>> /\ applied = {}
     \/ Len(versions) = 1 /\ applied = 1 .. versions[1]
  /\ \A p \in Processes : process[p] = "serving" => 1 .. migrations[p] \subseteq applied

(* The refresher's query and the fold agree on what is open, although one  *)
(* looks at the latest fact and the other at the latest snapshot and the   *)
(* latest removal: the refresher has every key of the list, and besides    *)
(* only those of connections that left the config with items still open    *)
(* (AllOpenTicketKeys, foldItem).                                          *)
ReadersAgree ==
  \A p \in Servers :
    LET orphans == {i \in Items \ configured[p] : LatestIsOpenFact(logs[i])} IN
    AllOpenTicketKeys =
      ListedKeys(p) \cup UNION {Range(LatestFacts(logs[i]).ticketKeys) : i \in orphans}

(* Every item on the board is in the list once, if its connection is in    *)
(* the config; the pinned ones lead, in the order of their pins; the rest  *)
(* goes by band (List, pin).                                               *)
ListedOnce ==
  \A p \in Servers :
  LET list == List(p)  band(i) == ageBand(logs[i], now) IN
  /\ Range(list) = {i \in configured[p] : OnBoard(logs[i])}
  /\ \A m, n \in DOMAIN list : m < n =>
       LET a == list[m]  b == list[n] IN
       /\ a # b
       /\ pins[b] # NotPinned => pins[a] # NotPinned /\ PinnedBefore(a, b)
       /\ pins[a] = NotPinned => band(a) <= band(b)

(* A broken build never keeps an item from being old: one that is not old  *)
(* has seen real activity within the threshold (INV-5, ADR-0016).          *)
RealActivityCounts ==
  \A i \in Items : OnBoard(logs[i]) /\ ~old(logs[i], now) =>
    now - rankingTimeExcludingCIFailed(logs[i]) <= OldThreshold

(* While a tag stays on an item, its onset stays; that of a mention only   *)
(* moves back, when an older one is learnt of late (computeSince).         *)
OnsetSteady ==
  [][\A i \in Items : logs'[i] # logs[i] /\ OnBoard(logs[i]) /\ OnBoard(logs'[i]) =>
       LET before == computeSince(logs[i])  after == computeSince(logs'[i]) IN
       \A tag \in DOMAIN before \cap DOMAIN after :
         after[tag] = before[tag] \/ (tag = "mentioned" /\ after[tag] < before[tag])]_vars

(* Items that stay pinned keep their order, on the board or off it for a   *)
(* while: whatever the engine learns, whoever flags them again             *)
(* (SetHandleNext, ListHandleNext).                                        *)
PinsKeepOrder ==
  [][\A i, j \in Items :
       /\ pins[i] # NotPinned /\ pins[j] # NotPinned
       /\ pins'[i] # NotPinned /\ pins'[j] # NotPinned
       => (PinnedBefore(i, j) <=> PinnedBefore(i, j)')]_vars

(* Time alone lets an item sink below another only by ageing into a lower  *)
(* band, or when the other has a broken build that is older than all else  *)
(* that is known of it and stops counting (sortItems, updatedAt).          *)
AgeingOnlySinks ==
  [][now' # now => \A i, j \in {k \in Items : OnBoard(logs[k])} :
       Before(i, j, logs, now) /\ Before(j, i, logs, now') =>
         \/ ageBand(logs[i], now') > ageBand(logs[i], now)
         \/ rankingTime(logs[j]) < rankingTimeExcludingCIFailed(logs[j])]_vars

(* An item that stays on the board with its keys keeps its badge, whatever *)
(* is refused or cannot be reached: only a sweep that read the keys while  *)
(* the item was gone may take it, or an answer without a status, which     *)
(* replaces the one that was known (UpsertJiraTicket, PruneJiraTickets).   *)
BadgeKept ==
  [][\A p \in Servers : \A i \in configured[p] :
       LET keys == LatestFacts(logs[i]).ticketKeys IN
       /\ OnBoard(logs[i]) /\ badge(p, i) # Blank
       /\ OnBoard(logs'[i]) /\ LatestFacts(logs'[i]).ticketKeys = keys
       => \/ badge(p, i)' # Blank
          \/ sweep.pc = "pruning" /\ ~(Range(keys) \subseteq sweep.keys)
          \/ \E k \in Range(keys) : Fetched(k, Blank)]_<<logs, tickets>>

(* The cache settles on a row for every open key and none for any other.   *)
CacheConverges ==
  <>[](serving => {k \in Keys : tickets[k] # NoRow} = AllOpenTicketKeys)

(* Nobody waits for ever to be told of a status, not even after a crash    *)
(* between its storing and the end of the sweep, while an item is open.    *)
NewsTold == []<>(serving /\ AllOpenTicketKeys # {} => ~news)
=============================================================================
