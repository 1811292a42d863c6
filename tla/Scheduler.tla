------------------------------ MODULE Scheduler ------------------------------
(***************************************************************************)
(* When a connection polls, and what its sync_log says: the start-up of a  *)
(* connection, its run loop over two tickers, the backoff gate the tiers   *)
(* share, identity, cancellation, and the health the API reads from the    *)
(* rows (engine.go, connection.go, backoff.go, cycle.go, connections.go).  *)
(* What a cycle does to the log is the business of module ConnectionSync.  *)
(*                                                                         *)
(* Time is counted in fast-poll intervals of one minute, the unit of the   *)
(* backoff too.  Both tickers start together, the fast one first, so slow  *)
(* ticks fall just behind fast ones.  A cycle starts on a tick and ends    *)
(* before the next one: that is the normal case, and an overrun only drops *)
(* ticks.  Its backoff is counted from its end, so a gate closed for d     *)
(* minutes lets the tick after d more ticks through.  The connection is    *)
(* one with a fast tier (FastSignal).                                      *)
(***************************************************************************)
EXTENDS Integers, Sequences

CONSTANTS
  ReconEvery,    \* minutes between ticks of the reconcile ticker
  Hints,         \* Retry-After values of the forge, in minutes
  MaxWeather,    \* bound: changes of the forge's mood
  MaxFaults      \* bound: storage failures and crashes together

ASSUME SchedulerAssumption ==
  /\ ReconEvery \in Nat \ {0}
  /\ Hints \subseteq Nat
  /\ MaxWeather \in Nat /\ MaxFaults \in Nat

VARIABLES
  forge,      \* how the forge answers
  place,      \* where the process, or the goroutine, is
  op,         \* the operation of the cycle, or of the last one
  cancelled,  \* the root context
  fastTick, reconTick,  \* a tick waits in the channel (capacity one)
  fastFirst,  \* the loop was waiting when the ticks came: the fast one woke it
  minute,     \* since the last slow tick
  streak, wait,         \* backoff: the streak, and the ticks until the gate opens
  resolved,   \* identity
  rows,       \* sync_log: the latest outcome of every operation (durable)
  promised,   \* history: minutes left of the wait the forge asked a cycle for
  asked,      \* history: minutes left of the wait the forge asked anyone for
  weather, faults  \* bounds: how much of the budgets is used

ticking == <<fastTick, reconTick, fastFirst, minute>>
backoff == <<streak, wait>>
history == <<promised, asked>>
vars == <<forge, place, op, cancelled, ticking, backoff, resolved, rows, history,
          weather, faults>>

(* poisoned: a notification leads to a pull request that answers 404, so   *)
(* fast polls fail and sweeps do not.                                      *)
Moods == {"fine", "poisoned", "offline", "limited", "revoked"}
Outcomes == {"ok", "degraded", "failed"}
Tiers == {"fast_poll", "reconcile"}
Operations == Tiers \cup {"startup"}
Looping == {"seed", "idle", "identity", "poll", "persist"}
Places == Looping \cup {"off", "starting", "dead", "closed"}

Smaller(a, b) == IF a < b THEN a ELSE b
Larger(a, b) == IF a < b THEN b ELSE a

Init ==
  /\ forge \in Moods
  /\ place = "off" /\ op = "reconcile" /\ cancelled = FALSE
  /\ fastTick = FALSE /\ reconTick = FALSE /\ fastFirst = FALSE /\ minute = 0
  /\ streak = 0 /\ wait = 0 /\ resolved = FALSE
  /\ rows = [o \in Operations |-> "none"]
  /\ promised = 0 /\ asked = 0
  /\ weather = 0 /\ faults = 0

SpendFault ==
  /\ faults < MaxFaults
  /\ faults' = faults + 1

(* The forge goes down, comes back, revokes the token, sets a limit, ...   *)
ChangeWeather ==
  /\ weather < MaxWeather
  /\ weather' = weather + 1
  /\ forge' \in Moods \ {forge}
  /\ UNCHANGED <<place, op, cancelled, ticking, backoff, resolved, rows, history, faults>>

-----------------------------------------------------------------------------
(* backoff.go *)

(* One minute shifted left by min(streak - 1, maxBackoffShift). *)
Doubling == <<1, 2, 4, 8, 16>>
Delay(failures) == Doubling[Smaller(failures, Len(Doubling))]

(* Streaks past the cap of the delay are alike. *)
NextStreak == Smaller(streak + 1, Len(Doubling))

ready == wait = 0

Shut(minutes) ==
  /\ streak' = NextStreak
  /\ wait' = minutes + 1

Reset == streak' = 0 /\ wait' = 0

-----------------------------------------------------------------------------
(* The rows.  writeLog uses a context of its own; a row it cannot write is *)
(* dropped.                                                                *)

Write(operation, outcome) ==
  \/ rows' = [rows EXCEPT ![operation] = outcome] /\ UNCHANGED faults
  \/ UNCHANGED rows /\ SpendFault

(* The mode in which the forge fails an operation. *)
Fails(operation) ==
  \/ forge \in {"offline", "limited", "revoked"}
  \/ forge = "poisoned" /\ operation = "fast_poll"

FailUnauthorized ==
  /\ forge = "revoked"
  /\ resolved' = FALSE
  /\ Shut(Delay(NextStreak))
  /\ UNCHANGED history

(* Mutant: the hint is not looked at. *)
DelayOnly(delay, hint) == delay

RateLimitDelay(delay, hint) == Larger(delay, hint)

FailRateLimited ==
  /\ forge = "limited"
  /\ \E hint \in Hints \cup {0} :
       /\ Shut(RateLimitDelay(Delay(NextStreak), hint))
       /\ promised' = hint + 1
       /\ asked' = hint + 1
  /\ UNCHANGED resolved

FailOtherwise ==
  /\ forge \in {"offline", "poisoned"}
  /\ Shut(Delay(NextStreak))
  /\ UNCHANGED <<resolved, history>>

(* fail: the gate shuts and a failing row is written. *)
Failure ==
  /\ FailUnauthorized \/ FailRateLimited \/ FailOtherwise
  /\ Write(op, "failed")

(* Mutant: the cancelled context is not looked at. *)
FailLoudly(failing) ==
  /\ failing
  /\ Failure

(* A call fails: for the forge's reasons, or because it was cancelled,     *)
(* and then nothing is recorded whatever the reason.                       *)
Fail(failing) ==
  \/ /\ cancelled
     /\ UNCHANGED <<backoff, resolved, rows, history, faults>>
  \/ /\ ~cancelled
     /\ failing
     /\ Failure

(* A storage call fails: logStorage, unless the shutdown is the cause. *)
StorageFails ==
  \/ /\ cancelled
     /\ UNCHANGED <<backoff, rows, faults>>
  \/ /\ ~cancelled
     /\ SpendFault
     /\ Shut(Delay(NextStreak))
     /\ rows' \in {rows, [rows EXCEPT ![op] = "failed"]}

-----------------------------------------------------------------------------
(* Start-up: engine.Run at this connection. *)

Start ==
  /\ place = "off"
  /\ place' = "starting"
  /\ cancelled' = FALSE
  /\ fastTick' = FALSE /\ reconTick' = FALSE /\ fastFirst' = FALSE /\ minute' = 0
  /\ streak' = 0 /\ wait' = 0 /\ resolved' = FALSE
  /\ promised' = 0 /\ asked' = 0
  /\ UNCHANGED <<forge, op, rows, weather, faults>>

(* The identity is there: the loop starts. *)
StartResolved ==
  /\ place = "starting"
  /\ forge \in {"fine", "poisoned"}
  /\ ~cancelled
  /\ place' = "seed" /\ resolved' = TRUE
  /\ UNCHANGED <<forge, op, cancelled, ticking, backoff, rows, history, weather, faults>>

(* Permanent: a row, the provider is closed, the loop never starts. *)
StartPermanent ==
  /\ place = "starting"
  /\ forge = "revoked"
  /\ place' = "dead"
  /\ Write("startup", "failed")
  /\ UNCHANGED <<forge, op, cancelled, ticking, backoff, resolved, history, weather>>

(* Transient, a cancelled call included: the loop starts all the same.  A  *)
(* rate limit's hint is dropped with the error.                            *)
StartTransient ==
  /\ place = "starting"
  /\ cancelled \/ forge \in {"offline", "limited"}
  /\ place' = "seed"
  /\ \/ UNCHANGED asked
     \/ forge = "limited" /\ \E hint \in Hints : asked' = hint + 1
  /\ UNCHANGED <<forge, op, cancelled, ticking, backoff, resolved, rows, promised,
                 weather, faults>>

-----------------------------------------------------------------------------
(* The run loop. *)

(* Mutant: only a connection whose identity is resolved runs a cycle. *)
BeginResolvedOnly(operation) ==
  IF cancelled \/ ~ready \/ ~resolved
  THEN place' = "idle" /\ UNCHANGED op
  ELSE place' = "poll" /\ op' = operation

(* cycle: the way to its first call, shared by the seed and both ticks. *)
Begin(operation) ==
  IF cancelled \/ ~ready
  THEN place' = "idle" /\ UNCHANGED op
  ELSE /\ op' = operation
       /\ place' = IF resolved THEN "poll" ELSE "identity"

Seed ==
  /\ place = "seed"
  /\ Begin("reconcile")
  /\ UNCHANGED <<forge, cancelled, ticking, backoff, resolved, rows, history, weather, faults>>

TakeFast ==
  /\ place = "idle"
  /\ fastTick /\ fastTick' = FALSE
  /\ Begin("fast_poll")
  /\ UNCHANGED <<forge, cancelled, reconTick, fastFirst, minute, backoff, resolved, rows,
                 history, weather, faults>>

(* Mutant: of two ticks that wait, select takes either at all times. *)
TakeReconAnyTime ==
  /\ place = "idle"
  /\ reconTick /\ reconTick' = FALSE
  /\ Begin("reconcile")
  /\ UNCHANGED <<forge, cancelled, fastTick, fastFirst, minute, backoff, resolved, rows,
                 history, weather, faults>>

(* A loop that waits in select is woken by the tick that comes first, and  *)
(* the fast one does; both wait for a loop that was busy, and select then  *)
(* takes either.                                                           *)
TakeRecon ==
  /\ place = "idle"
  /\ ~(fastTick /\ fastFirst)
  /\ reconTick /\ reconTick' = FALSE
  /\ Begin("reconcile")
  /\ UNCHANGED <<forge, cancelled, fastTick, fastFirst, minute, backoff, resolved, rows,
                 history, weather, faults>>

IdentityKnown ==
  /\ place = "identity"
  /\ forge \in {"fine", "poisoned"}
  /\ ~cancelled
  /\ place' = "poll" /\ resolved' = TRUE
  /\ UNCHANGED <<forge, op, cancelled, ticking, backoff, rows, history, weather, faults>>

IdentityFails ==
  /\ place = "identity"
  /\ Fail(Fails("reconcile"))
  /\ place' = "idle"
  /\ UNCHANGED <<forge, op, cancelled, ticking, weather>>

(* LoadCursors fails before the provider is called. *)
LoadFails ==
  /\ place = "poll"
  /\ StorageFails
  /\ place' = "idle"
  /\ UNCHANGED <<forge, op, cancelled, ticking, resolved, history, weather>>

PollAnswered ==
  /\ place = "poll"
  /\ ~Fails(op)
  /\ place' = "persist"
  /\ UNCHANGED <<forge, op, cancelled, ticking, backoff, resolved, rows, history, weather, faults>>

PollFails ==
  /\ place = "poll"
  /\ Fail(Fails(op))
  /\ place' = "idle"
  /\ UNCHANGED <<forge, op, cancelled, ticking, weather>>

(* A cancelled context does not undo a write that is through already. *)
PersistDone ==
  /\ place = "persist"
  /\ Reset
  /\ \E outcome \in {"ok", "degraded"} : Write(op, outcome)
  /\ place' = "idle"
  /\ UNCHANGED <<forge, op, cancelled, ticking, resolved, history, weather>>

PersistFails ==
  /\ place = "persist"
  /\ StorageFails
  /\ place' = "idle"
  /\ UNCHANGED <<forge, op, cancelled, ticking, resolved, history, weather>>

-----------------------------------------------------------------------------
(* Time. *)

(* Mutant: the countdown runs past zero. *)
ElapsePastZero(left) == left - 1

Elapse(left) == IF left = 0 THEN 0 ELSE left - 1

(* A channel that holds a tick already drops the new one. *)
Tick ==
  /\ minute' = (minute + 1) % ReconEvery
  /\ fastTick' = TRUE
  /\ fastFirst' = (place = "idle")
  /\ reconTick' = (reconTick \/ minute' = 0)
  /\ wait' = Elapse(wait)
  /\ promised' = Elapse(promised) /\ asked' = Elapse(asked)
  /\ UNCHANGED <<forge, place, op, cancelled, streak, resolved, rows, weather>>

Minute ==
  /\ place = "idle" /\ ~fastTick /\ ~reconTick /\ ~cancelled
  /\ Tick
  /\ UNCHANGED faults

(* A cycle overruns the next tick. *)
Overrun ==
  /\ place \in {"identity", "poll", "persist"}
  /\ SpendFault
  /\ Tick

-----------------------------------------------------------------------------
(* Shutdown: the signal, the goroutine's Done case (provider closed), the  *)
(* end of Run and of the process.  A crash is an end at any point.         *)

Cancel ==
  /\ place \notin {"off", "closed"}
  /\ ~cancelled
  /\ cancelled' = TRUE
  /\ UNCHANGED <<forge, place, op, ticking, backoff, resolved, rows, history, weather, faults>>

(* Mutant: the gate delays the shutdown too. *)
CloseWhenReady ==
  /\ place = "dead" \/ (place = "idle" /\ ready)
  /\ cancelled
  /\ place' = "closed"
  /\ UNCHANGED <<forge, op, cancelled, ticking, backoff, resolved, rows, history, weather, faults>>

Close ==
  /\ place \in {"idle", "dead"}
  /\ cancelled
  /\ place' = "closed"
  /\ UNCHANGED <<forge, op, cancelled, ticking, backoff, resolved, rows, history, weather, faults>>

Exit ==
  /\ place = "closed"
  /\ place' = "off"
  /\ UNCHANGED <<forge, op, cancelled, ticking, backoff, resolved, rows, history, weather, faults>>

Crash ==
  /\ place # "off"
  /\ SpendFault
  /\ place' = "off"
  /\ UNCHANGED <<forge, op, cancelled, ticking, backoff, resolved, rows, history, weather>>

-----------------------------------------------------------------------------

StartUp == StartResolved \/ StartPermanent \/ StartTransient

Cycle ==
  \/ Seed \/ TakeFast \/ TakeRecon
  \/ IdentityKnown \/ IdentityFails
  \/ LoadFails \/ PollAnswered \/ PollFails
  \/ PersistDone \/ PersistFails

Next ==
  \/ Start \/ StartUp \/ Cycle
  \/ Minute \/ Overrun
  \/ Cancel \/ Close \/ Exit \/ Crash
  \/ ChangeWeather

Spec == Init /\ [][Next]_vars

(* The goroutine goes on and time passes.  Nothing is assumed of the order *)
(* in which select takes two ticks that wait.                              *)
FairSpec ==
  /\ Spec
  /\ WF_vars(StartUp \/ Cycle \/ Close) /\ WF_vars(Minute)

-----------------------------------------------------------------------------
(* Health, as GET /connections computes it from the rows. *)

Severity == [ok |-> 0, degraded |-> 1, failing |-> 2]

outcomeStatus(outcome) ==
  CASE outcome \in {"none", "ok"} -> "ok"
    [] outcome = "degraded" -> "degraded"
    [] OTHER -> "failing"

(* Mutant: the last row decides, whichever tier wrote it. *)
HealthOfLastRow(latest) == outcomeStatus(latest[op])

(* The worst of each operation's latest outcome. *)
computeHealth(latest) ==
  CHOOSE status \in DOMAIN Severity :
    /\ \E o \in Operations : outcomeStatus(latest[o]) = status
    /\ \A o \in Operations : Severity[outcomeStatus(latest[o])] <= Severity[status]

Health == computeHealth(rows)

-----------------------------------------------------------------------------
(* Properties. *)

(* Every variable has its type (a check of the model, cf. conn and backoff). *)
TypeOK ==
  /\ forge \in Moods
  /\ place \in Places
  /\ op \in Tiers
  /\ cancelled \in BOOLEAN
  /\ fastTick \in BOOLEAN /\ reconTick \in BOOLEAN /\ fastFirst \in BOOLEAN
  /\ minute \in 0..(ReconEvery - 1)
  /\ streak \in 0..Len(Doubling) /\ wait \in Nat
  /\ resolved \in BOOLEAN
  /\ rows \in [Operations -> Outcomes \cup {"none"}]
  /\ promised \in Nat /\ asked \in Nat
  /\ weather \in Nat /\ faults \in Nat

Calls == place \in {"seed", "idle"} /\ place' \in {"identity", "poll"}

(* After a rate-limited cycle the forge is not called before its hint is   *)
(* over, whatever the streak was and whatever is due (rateLimit and ready  *)
(* in backoff.go; the next_retry the sync activity view shows).            *)
HintKept == [][Calls => promised = 0]_vars

(* What Synchronization_Engine.md says: the engine never retries before    *)
(* the provider's floor - of one run of the process, start-up included.    *)
FloorKept == [][Calls => asked = 0]_vars

(* Shutdown is not a failure: no poll cycle records one once the context   *)
(* is cancelled (cycle, abortStorage).                                     *)
ShutdownQuiet ==
  [][cancelled => \A tier \in Tiers : rows'[tier] # rows[tier] => rows'[tier] # "failed"]_vars

(* The dot gets better only when a tier whose row was as bad as the dot    *)
(* succeeds: a degraded sweep holds it through good fast polls (ADR-0018). *)
DotHeld ==
  [][Severity[Health'] < Severity[Health] =>
       place = "persist" /\ outcomeStatus(rows[op]) = Health]_vars

Running == place \in Looping /\ ~cancelled

(* After a failure of either tier no tick starts a sweep before a fast     *)
(* poll has succeeded: the fast tick comes to the open gate first, and if  *)
(* its poll fails too the gate is shut again when the slow tick is read    *)
(* (run, ready).  A notification that makes fast polls fail thus holds up  *)
(* the sweeps for as long as it is there.                                  *)
SweepWaitsForFast ==
  [][place = "idle" /\ place' \in {"identity", "poll"} /\ op' = "reconcile"
       => streak = 0]_vars

(* Once the forge serves them both tiers recover from every earlier        *)
(* failure, whatever failed before and however long the gate was shut.     *)
TiersRecover ==
  <>[](Running /\ forge = "fine") => \A tier \in Tiers : <>[](rows[tier] # "failed")

(* Once both tiers succeed the dot is not red: it reflects the worst of    *)
(* fast_poll and reconcile (Synchronization_Engine.md).                    *)
DotClears == <>[](Running /\ forge = "fine") => <>[](Health # "failing")

(* A cancelled process closes its provider and ends, from anywhere. *)
ShutdownCompletes == cancelled ~> place \in {"closed", "off"}
=============================================================================
