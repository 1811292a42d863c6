-------------------------------- MODULE Store --------------------------------
(***************************************************************************)
(* The SQLite database and the processes that want to own it: the lock     *)
(* file, the schema steps, and what the writers do to the tables           *)
(* (storage.go, lock.go, schema.go, pins.go, jira.go, events.go; the order *)
(* of start and stop is main.go's).                                        *)
(*                                                                         *)
(* A process dies at any moment and the operating system drops its lock.   *)
(* Builds differ in how many schema steps they know.                       *)
(***************************************************************************)
EXTENDS AttentionFold

CONSTANTS
  Processes,    \* runs of the program on this database
  migrations,   \* how many schema steps the build of each process knows
  NoOwner,
  Items,        \* ids of the items, of every connection there ever was
  configured,   \* the items of the connections each process has in its config
  Keys,         \* ticket keys
  Statuses,     \* what a ticket tracker says of a ticket
  Blank,        \* the empty status: of a ticket never fetched, or of an answer without one
  NoRow,
  NotPinned

ASSUME StoreAssumption ==
  /\ Processes # {} /\ migrations \in [Processes -> Nat \ {0}]
  /\ NoOwner \notin Processes
  /\ Items \subseteq Nat /\ IsFiniteSet(Items)
  /\ configured \in [Processes -> SUBSET Items]
  /\ NotPinned \notin Nat
  /\ Blank \notin Statuses /\ NoRow \notin Statuses \cup {Blank}

VARIABLES
  lock,       \* the holder of the lock file
  process,    \* how far each process is
  current,    \* the schema version a process works from while it migrates
  versions,   \* the rows of schema_version
  applied,    \* the schema steps whose tables exist
  logs,       \* events, by item
  pins,       \* handle_next: when an item was pinned
  tickets     \* jira_tickets: the status of a key

owner == <<lock, process, current>>
schema == <<versions, applied>>
tables == <<logs, pins, tickets>>
store == <<owner, schema, tables>>

Phases == {"out", "locked", "migrating", "serving", "draining", "closing"}

(* The schema steps some build knows. *)
Known == UNION {1 .. migrations[p] : p \in Processes}

(* The processes whose write pool is open. *)
WritePoolOpen(p) == process[p] \in {"locked", "migrating", "serving", "draining"}

(* Who writes and answers: all contexts, those of requests too, end with   *)
(* the signal that stops a process.                                        *)
Servers == {p \in Processes : process[p] = "serving"}

serving == Servers # {}

(* The engine syncs the connections of the config alone. *)
Synced(i) == \E p \in Servers : i \in configured[p]

Enter(p, from, to) ==
  /\ process[p] = from
  /\ process' = [process EXCEPT ![p] = to]

(* The version a process worked from is a local of migrate. *)
Forget(p) == current' = [current EXCEPT ![p] = 0]

-----------------------------------------------------------------------------
(* Open. *)

(* Mutant: the lock file is opened and never locked. *)
acquireLockUnchecked(p) ==
  /\ Enter(p, "out", "locked")
  /\ lock' = p
  /\ UNCHANGED <<current, schema, tables>>

(* A second process is refused and leaves everything as it is. *)
acquireLock(p) ==
  /\ lock = NoOwner
  /\ Enter(p, "out", "locked")
  /\ lock' = p
  /\ UNCHANGED <<current, schema, tables>>

(* The version is read, or seeded when there is none. *)
ReadVersion(p) ==
  /\ Enter(p, "locked", "migrating")
  /\ versions' = IF versions = <<>> THEN <<0>> ELSE versions
  /\ current' = [current EXCEPT ![p] = Head(versions')]
  /\ UNCHANGED <<lock, applied, tables>>

(* Mutant: the tables of a step and its version are two transactions. *)
MigrateInTwo(p) ==
  /\ process[p] = "migrating" /\ current[p] < migrations[p]
  /\ IF current[p] + 1 \notin applied
     THEN applied' = applied \cup {current[p] + 1} /\ UNCHANGED <<versions, current>>
     ELSE /\ versions' = [r \in DOMAIN versions |-> current[p] + 1]
          /\ current' = [current EXCEPT ![p] = @ + 1]
          /\ UNCHANGED applied
  /\ UNCHANGED <<lock, process, tables>>

(* Mutant: one step more than there are. *)
MigrateOneMore(p) ==
  LET step == current[p] + 1 IN
  /\ process[p] = "migrating" /\ current[p] <= migrations[p]
  /\ step \notin applied
  /\ applied' = applied \cup {step}
  /\ versions' = [r \in DOMAIN versions |-> IF versions[r] = current[p] THEN step ELSE versions[r]]
  /\ current' = [current EXCEPT ![p] = step]
  /\ UNCHANGED <<lock, process, tables>>

(* One step and its version, in one transaction.  A step whose tables      *)
(* exist already fails, see OpenFails.                                     *)
Migrate(p) ==
  LET step == current[p] + 1 IN
  /\ process[p] = "migrating" /\ current[p] < migrations[p]
  /\ step \notin applied
  /\ applied' = applied \cup {step}
  /\ versions' = [r \in DOMAIN versions |-> IF versions[r] = current[p] THEN step ELSE versions[r]]
  /\ current' = [current EXCEPT ![p] = step]
  /\ UNCHANGED <<lock, process, tables>>

(* The read pool opens, the port is bound, engine and refresher start. *)
Serve(p) ==
  /\ current[p] >= migrations[p]
  /\ Enter(p, "migrating", "serving")
  /\ Forget(p)
  /\ UNCHANGED <<lock, schema, tables>>

(* Whatever goes wrong until then: the pool is closed, the lock released. *)
OpenFails(p) ==
  /\ process[p] \in {"locked", "migrating"}
  /\ process' = [process EXCEPT ![p] = "out"]
  /\ lock' = NoOwner
  /\ Forget(p)
  /\ UNCHANGED <<schema, tables>>

-----------------------------------------------------------------------------
(* The end of run, and Close. *)

(* A signal cancels the context of every writer. *)
Cancel(p) ==
  /\ Enter(p, "serving", "draining")
  /\ UNCHANGED <<lock, current, schema, tables>>

(* Mutant: Close gives the lock up before the pools. *)
ClosePoolsLast(p) ==
  /\ process[p] = "draining"
  /\ IF lock = p THEN lock' = NoOwner /\ UNCHANGED process
     ELSE UNCHANGED lock /\ process' = [process EXCEPT ![p] = "closing"]
  /\ UNCHANGED <<current, schema, tables>>

(* The engine has returned and the server is shut down, or waited for long *)
(* enough.                                                                 *)
ClosePools(p) ==
  /\ Enter(p, "draining", "closing")
  /\ UNCHANGED <<lock, current, schema, tables>>

release(p) ==
  /\ Enter(p, "closing", "out")
  /\ lock' = NoOwner
  /\ UNCHANGED <<current, schema, tables>>

Crash(p) ==
  /\ process[p] # "out"
  /\ process' = [process EXCEPT ![p] = "out"]
  /\ lock' = IF lock = p THEN NoOwner ELSE lock
  /\ Forget(p)
  /\ UNCHANGED <<schema, tables>>

-----------------------------------------------------------------------------
(* The writers. *)

SameIdentity(a, b) == [a EXCEPT !.at = 0] = [b EXCEPT !.at = 0]

(* WriteEvents: a row whose identity is known is dropped. *)
WriteEvent(i, row) ==
  /\ \A k \in DOMAIN logs[i] : logs[i][k].kind = row.kind => ~SameIdentity(logs[i][k], row)
  /\ logs' = [logs EXCEPT ![i] = Append(@, row)]

(* Mutant: a pin that is set again is a new pin. *)
SetHandleNextAnew(i, flagged, now) ==
  pins' = [pins EXCEPT ![i] = IF flagged THEN now ELSE NotPinned]

(* A pin that is set again keeps its time. *)
SetHandleNext(i, flagged, now) ==
  pins' = [pins EXCEPT ![i] = IF ~flagged THEN NotPinned ELSE IF @ = NotPinned THEN now ELSE @]

(* By time, then by id. *)
PinnedBefore(i, j) == pins[i] < pins[j] \/ (pins[i] = pins[j] /\ i < j)

ListHandleNext == Sorted({i \in Items : pins[i] # NotPinned}, PinnedBefore)

(* Mutant: a failed fetch replaces the row. *)
UpsertAlways(k, status, fetchError) == tickets' = [tickets EXCEPT ![k] = status]

(* A failed fetch adds a row and never replaces a status. *)
UpsertJiraTicket(k, status, fetchError) ==
  tickets' = [tickets EXCEPT ![k] = IF fetchError /\ @ # NoRow THEN @ ELSE status]

PruneJiraTickets(keep) ==
  tickets' = [k \in Keys |-> IF k \in keep THEN tickets[k] ELSE NoRow]

GetJiraTickets(keys) == {k \in keys : tickets[k] # NoRow}

FactIds(log) == IdsOf("observed", log) \cup IdsOf("removed", log)

(* The latest fact of an item, removals included (LatestItemFacts). *)
LatestIsOpenFact(log) ==
  FactIds(log) # {}
  /\ LET row == log[Max(FactIds(log))] IN row.kind = "observed" /\ row.fact.open

(* Mutant: only the snapshots of an item are looked at. *)
AllOpenTicketKeysUnreaped ==
  UNION {Range(LatestFacts(logs[i]).ticketKeys) :
           i \in {j \in Items : IdsOf("observed", logs[j]) # {} /\ LatestFacts(logs[j]).open}}

(* The keys of every item whose latest fact is an open snapshot, in the    *)
(* config or not.                                                          *)
AllOpenTicketKeys ==
  UNION {Range(logs[i][Max(FactIds(logs[i]))].fact.ticketKeys) :
           i \in {j \in Items : LatestIsOpenFact(logs[j])}}
=============================================================================
