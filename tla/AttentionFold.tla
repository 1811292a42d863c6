---------------------------- MODULE AttentionFold ----------------------------
(***************************************************************************)
(* What the attention fold computes from the rows of one item, oldest      *)
(* first (fold.go, states.go).  The log of an item is its fact stream (see *)
(* EventLog) with the signals in between; the position of a row stands for *)
(* its id.                                                                 *)
(*                                                                         *)
(* Times are days.  A snapshot carries the forge's time of the last update *)
(* and a signal the forge's time of what happened, or Untimed; every row   *)
(* carries the time it was observed.                                       *)
(***************************************************************************)
EXTENDS EventLog, FiniteSetsExt, SequencesExt

CONSTANTS
  Untimed,          \* the forge gave no time
  StaleThreshold,   \* DefaultStaleThreshold
  OldThreshold      \* DefaultOldThreshold

ASSUME ThresholdAssumption ==
  /\ Untimed \notin Int
  /\ StaleThreshold \in Nat \ {0} /\ OldThreshold \in Nat \ {0}
  /\ StaleThreshold < OldThreshold

Snapshot(fact, updated, salt, at) ==
  [kind |-> "observed", fact |-> fact, updated |-> updated, salt |-> salt, at |-> at]

Removal(id, at) == [kind |-> "removed", supersedes |-> id, at |-> at]

Signal(type, occurred, at) == [kind |-> type, occurred |-> occurred, at |-> at]

SignalTypes ==
  {"mentioned", "review_requested", "review_submitted", "assigned", "ci_failed", "approved",
   "changes_requested"}

SignalsOf(log) == {k \in DOMAIN log : log[k].kind \in SignalTypes}

hasMention(log) == IdsOf("mentioned", log) # {}

LatestFacts(log) == log[Max(IdsOf("observed", log))].fact

-----------------------------------------------------------------------------
(* The signal table. *)

reviewIsDone(f) == f.myReview \in {"reviewed", "approved", "changes_requested"}

author(f) == "author" \in f.roles
reviewer(f) == "reviewer" \in f.roles
soleApprover(f) == "sole_approver" \in f.roles

(* My merge is at stake, and the item is not a draft. *)
mine(f) == (author(f) \/ soleApprover(f)) /\ ~f.draft

(* The order of the states is presentation. *)
States ==
  {"changes_requested", "review_requested", "blocked", "mentioned", "ready_to_merge",
   "auto_merge_armed", "checks_running", "checking", "review_submitted"}

matches(s, f, mention) ==
  CASE s = "changes_requested" -> \/ author(f) /\ f.decision = "changes_requested"
                                  \/ reviewer(f) /\ f.myReview = "changes_requested"
    [] s = "review_requested"  -> (reviewer(f) \/ soleApprover(f)) /\ ~f.draft /\ ~reviewIsDone(f)
    [] s = "blocked"           -> mine(f) /\ f.gate = "blocked"
    [] s = "mentioned"         -> mention
    [] s = "ready_to_merge"    -> mine(f) /\ f.gate = "ready"
    [] s = "auto_merge_armed"  -> mine(f) /\ f.autoMergeArmed
    [] s = "checks_running"    -> mine(f) /\ f.checksRunning
    [] s = "checking"          -> f.gate = "unknown"
    [] s = "review_submitted"  -> reviewer(f) /\ reviewIsDone(f)

statesFor(log) == {s \in States : matches(s, LatestFacts(log), hasMention(log))}

-----------------------------------------------------------------------------
(* The ranking clock and the age bands. *)

snapshotTime(row) == IF row.updated = Untimed THEN row.at ELSE row.updated

signalTime(row) == IF row.occurred = Untimed THEN row.at ELSE row.occurred

newestSignalTime(log, signals) ==
  IF signals # {} THEN Max({signalTime(log[k]) : k \in signals})
  ELSE snapshotTime(log[Max(IdsOf("observed", log))])

rankingTime(log) == newestSignalTime(log, SignalsOf(log))

rankingTimeExcludingCIFailed(log) ==
  newestSignalTime(log, SignalsOf(log) \ IdsOf("ci_failed", log))

(* Mutant: a broken build counts like any other signal. *)
updatedAtOfAnySignal(log, now) == rankingTime(log)

(* A broken build counts, but not for work the user has let go. *)
updatedAt(log, now) ==
  IF now - rankingTimeExcludingCIFailed(log) > OldThreshold
  THEN rankingTimeExcludingCIFailed(log) ELSE rankingTime(log)

old(log, now) == now - updatedAt(log, now) > OldThreshold

stale(log, now) == ~old(log, now) /\ now - updatedAt(log, now) > StaleThreshold

(* Mutant: the bands count a broken build, the order within them does not. *)
ageBandOfRanking(log, now) ==
  LET age == now - rankingTime(log)
  IN  IF age > OldThreshold THEN 2 ELSE IF age > StaleThreshold THEN 1 ELSE 0

ageBand(log, now) == IF old(log, now) THEN 2 ELSE IF stale(log, now) THEN 1 ELSE 0

-----------------------------------------------------------------------------
(* Since when a tag is shown. *)

Markers == {"draft", "failing_checks", "merge_conflict", "needs_rebase", "needs_approval",
            "unresolved_discussions", "policy_denied"}

(* Whether a snapshot shows the tag; a mention is no snapshot's business. *)
shows(tag, f) ==
  CASE tag = "draft"   -> f.draft
    [] tag \in Markers -> tag \in f.markers
    [] OTHER           -> matches(tag, f, FALSE)

(* Mutant: the run is cut after one snapshot. *)
onsetForConditionLatest(tag, log) == snapshotTime(log[Max(IdsOf("observed", log))])

(* The oldest snapshot of those that show the tag up to the newest. *)
onsetForCondition(tag, log) ==
  LET seen == IdsOf("observed", log)
      run == {n \in seen : \A m \in seen : m >= n => shows(tag, log[m].fact)}
  IN  snapshotTime(log[Min(run)])

activeTags(log) ==
  statesFor(log) \cup {m \in Markers : shows(m, LatestFacts(log))}

computeSince(log) ==
  [tag \in activeTags(log) |->
     IF tag = "mentioned" THEN Min({signalTime(log[k]) : k \in IdsOf("mentioned", log)})
     ELSE onsetForCondition(tag, log)]

-----------------------------------------------------------------------------
(* The list, as the ids of its items.  What the fold says of an item are   *)
(* the operators above, applied to its log.                                *)

(* sortItems: age band, then recency, then the id. *)
Before(i, j, logs, now) ==
  LET band(k) == ageBand(logs[k], now)  updated(k) == updatedAt(logs[k], now) IN
  \/ band(i) < band(j)
  \/ band(i) = band(j) /\ updated(i) > updated(j)
  \/ band(i) = band(j) /\ updated(i) = updated(j) /\ i < j

(* The members of S, each once, in the total order op. *)
Sorted(S, op(_, _)) ==
  CHOOSE list \in [1 .. Cardinality(S) -> S] :
    /\ Range(list) = S
    /\ \A m, n \in DOMAIN list : m < n => op(list[m], list[n])

(* Where an item is in a list. *)
Place(i, list) == CHOOSE n \in DOMAIN list : list[n] = i

(* The members of S in the order they have in a list. *)
Following(list, S) == Sorted(S, LAMBDA i, j : Place(i, list) < Place(j, list))

(* Items that are removed, merged or closed vanish. *)
Fold(logs, now) ==
  Sorted({i \in DOMAIN logs : OnBoard(logs[i])}, LAMBDA i, j : Before(i, j, logs, now))

(* Mutant: the pinned items come in the order of the list. *)
pinInListOrder(items, pinned) ==
  SelectSeq(items, LAMBDA i : i \in Range(pinned))
  \o SelectSeq(items, LAMBDA i : i \notin Range(pinned))

(* The pinned items of the list, by rank; then the rest, as it was. *)
pin(items, pinned) ==
  Following(pinned, Range(items) \cap Range(pinned))
  \o Following(items, Range(items) \ Range(pinned))
=============================================================================
