--------------------------- MODULE SchedulerProofs ---------------------------
(***************************************************************************)
(* Theorems about Scheduler, for every reconcile interval, every set of    *)
(* hints and every bound.                                                  *)
(***************************************************************************)
EXTENDS Scheduler, TLAPS

-----------------------------------------------------------------------------
(* Backoff arithmetic. *)

LEMMA StreakRange ==
  ASSUME streak \in 0..Len(Doubling)
  PROVE  NextStreak \in 1..Len(Doubling)
BY DEF NextStreak, Smaller, Doubling

LEMMA DelayType ==
  ASSUME NEW n \in 1..Len(Doubling)
  PROVE  Delay(n) \in Nat
<1>1. n \in 1..5 BY DEF Doubling
<1>2. Smaller(n, Len(Doubling)) = n BY <1>1 DEF Smaller, Doubling
<1>3. Doubling[n] \in Nat BY <1>1 DEF Doubling
<1> QED BY <1>2, <1>3 DEF Delay

LEMMA RateLimitDelayType ==
  ASSUME NEW delay \in Nat, NEW hint \in Nat
  PROVE  /\ RateLimitDelay(delay, hint) \in Nat
         /\ RateLimitDelay(delay, hint) >= hint
BY DEF RateLimitDelay, Larger

LEMMA ElapseType ==
  ASSUME NEW left \in Nat
  PROVE  Elapse(left) \in Nat
BY DEF Elapse

(* What a shut gate looks like, whoever shuts it. *)
LEMMA ShutType ==
  ASSUME streak \in 0..Len(Doubling), NEW minutes \in Nat, Shut(minutes)
  PROVE  streak' \in 0..Len(Doubling) /\ wait' \in Nat /\ wait' = minutes + 1
<1>1. NextStreak \in 0..Len(Doubling) BY StreakRange DEF Doubling
<1> QED BY <1>1 DEF Shut

LEMMA WriteType ==
  ASSUME TypeOK, NEW o \in Operations, NEW outcome \in Outcomes, Write(o, outcome)
  PROVE  /\ rows' \in [Operations -> Outcomes \cup {"none"}]
         /\ faults' \in Nat
BY DEF TypeOK, Write, SpendFault

-----------------------------------------------------------------------------
(* The parts of a cycle's end. *)

LEMMA NamedOperations ==
  /\ "startup" \in Operations /\ Tiers \subseteq Operations
  /\ "failed" \in Outcomes /\ "ok" \in Outcomes /\ "degraded" \in Outcomes
BY DEF Operations, Tiers, Outcomes

LEMMA FailureType ==
  ASSUME TypeOK, Failure
  PROVE  /\ streak' \in 0..Len(Doubling) /\ wait' \in Nat /\ resolved' \in BOOLEAN
         /\ rows' \in [Operations -> Outcomes \cup {"none"}]
         /\ promised' \in Nat /\ asked' \in Nat /\ faults' \in Nat
<1>1. Delay(NextStreak) \in Nat BY StreakRange, DelayType DEF TypeOK
<1>2. op \in Operations BY DEF TypeOK, Operations
<1>3. /\ rows' \in [Operations -> Outcomes \cup {"none"}]
      /\ faults' \in Nat
  BY <1>2, NamedOperations, WriteType DEF Failure
<1>4. CASE FailUnauthorized
  BY <1>1, <1>3, <1>4, ShutType DEF FailUnauthorized, TypeOK, history
<1>5. CASE FailRateLimited
  <2>1. PICK hint \in Hints \cup {0} :
          /\ Shut(RateLimitDelay(Delay(NextStreak), hint))
          /\ promised' = hint + 1 /\ asked' = hint + 1
    BY <1>5 DEF FailRateLimited
  <2>2. hint \in Nat BY SchedulerAssumption
  <2>3. RateLimitDelay(Delay(NextStreak), hint) \in Nat
    BY <1>1, <2>2, RateLimitDelayType
  <2>4. streak' \in 0..Len(Doubling) /\ wait' \in Nat
    BY <2>1, <2>3, ShutType DEF TypeOK
  <2>5. resolved' \in BOOLEAN BY <1>5 DEF FailRateLimited, TypeOK
  <2> QED BY <1>3, <2>1, <2>2, <2>4, <2>5
<1>6. CASE FailOtherwise
  BY <1>1, <1>3, <1>6, ShutType DEF FailOtherwise, TypeOK, history
<1> QED BY <1>4, <1>5, <1>6 DEF Failure

LEMMA FailType ==
  ASSUME TypeOK, NEW failing \in BOOLEAN, Fail(failing)
  PROVE  /\ streak' \in 0..Len(Doubling) /\ wait' \in Nat /\ resolved' \in BOOLEAN
         /\ rows' \in [Operations -> Outcomes \cup {"none"}]
         /\ promised' \in Nat /\ asked' \in Nat /\ faults' \in Nat
<1>1. CASE cancelled /\ UNCHANGED <<backoff, resolved, rows, history, faults>>
  BY <1>1 DEF TypeOK, backoff, history
<1>2. CASE Failure
  BY <1>2, FailureType
<1> QED BY <1>1, <1>2 DEF Fail

LEMMA StorageFailsType ==
  ASSUME TypeOK, StorageFails
  PROVE  /\ streak' \in 0..Len(Doubling) /\ wait' \in Nat
         /\ rows' \in [Operations -> Outcomes \cup {"none"}]
         /\ faults' \in Nat
<1>1. CASE cancelled /\ UNCHANGED <<backoff, rows, faults>>
  BY <1>1 DEF TypeOK, backoff
<1>2. CASE /\ SpendFault
           /\ Shut(Delay(NextStreak))
           /\ rows' \in {rows, [rows EXCEPT ![op] = "failed"]}
  <2>1. Delay(NextStreak) \in Nat BY StreakRange, DelayType DEF TypeOK
  <2>2. streak' \in 0..Len(Doubling) /\ wait' \in Nat
    BY <1>2, <2>1, ShutType DEF TypeOK
  <2>3. rows' \in [Operations -> Outcomes \cup {"none"}]
    BY <1>2, NamedOperations DEF TypeOK
  <2>4. faults' \in Nat BY <1>2 DEF SpendFault, TypeOK
  <2> QED BY <2>2, <2>3, <2>4
<1> QED BY <1>1, <1>2 DEF StorageFails

LEMMA TickType ==
  ASSUME TypeOK, Tick
  PROVE  /\ minute' \in 0..(ReconEvery - 1)
         /\ fastTick' \in BOOLEAN /\ reconTick' \in BOOLEAN /\ fastFirst' \in BOOLEAN
         /\ wait' \in Nat /\ promised' \in Nat /\ asked' \in Nat
<1>1. minute' \in 0..(ReconEvery - 1)
  BY SchedulerAssumption DEF TypeOK, Tick
<1>2. wait' \in Nat /\ promised' \in Nat /\ asked' \in Nat
  BY ElapseType DEF TypeOK, Tick
<1>3. fastTick' \in BOOLEAN /\ reconTick' \in BOOLEAN /\ fastFirst' \in BOOLEAN
  BY DEF TypeOK, Tick
<1> QED BY <1>1, <1>2, <1>3

-----------------------------------------------------------------------------
(* Type correctness. *)

LEMMA InitTypeOK == Init => TypeOK
<1> SUFFICES ASSUME Init PROVE TypeOK
  OBVIOUS
<1>1. rows \in [Operations -> Outcomes \cup {"none"}]
  BY DEF Init
<1>2. minute \in 0..(ReconEvery - 1)
  BY SchedulerAssumption DEF Init
<1>3. streak \in 0..Len(Doubling)
  BY DEF Init, Doubling
<1>4. place \in Places /\ op \in Tiers
  BY DEF Init, Places, Tiers
<1> QED BY <1>1, <1>2, <1>3, <1>4 DEF Init, TypeOK

LEMMA NextTypeOK == TypeOK /\ [Next]_vars => TypeOK'
<1> SUFFICES ASSUME TypeOK, [Next]_vars PROVE TypeOK'
  OBVIOUS
<1>1. CASE UNCHANGED vars
  BY <1>1 DEF vars, ticking, backoff, history, TypeOK
<1>2. CASE Start
  <2>1. minute' \in 0..(ReconEvery - 1)
    BY <1>2, SchedulerAssumption DEF Start
  <2>2. streak' \in 0..Len(Doubling)
    BY <1>2 DEF Start, Doubling
  <2>3. place' \in Places
    BY <1>2 DEF Start, Places
  <2> QED BY <1>2, <2>1, <2>2, <2>3 DEF Start, TypeOK
<1>3. CASE StartResolved
  BY <1>3 DEF StartResolved, TypeOK, Places, Looping, ticking, backoff, history
<1>4. CASE StartPermanent
  <2>1. /\ rows' \in [Operations -> Outcomes \cup {"none"}]
        /\ faults' \in Nat
    BY <1>4, NamedOperations, WriteType DEF StartPermanent
  <2> QED BY <1>4, <2>1
    DEF StartPermanent, TypeOK, Places, Looping, ticking, backoff, history
<1>5. CASE StartTransient
  <2>1. asked' \in Nat
    BY <1>5, SchedulerAssumption DEF StartTransient, TypeOK
  <2> QED BY <1>5, <2>1 DEF StartTransient, TypeOK, Places, Looping, ticking, backoff
<1>6. CASE Seed
  BY <1>6 DEF Seed, Begin, TypeOK, Places, Looping, Tiers, ticking, backoff, history
<1>7. CASE TakeFast
  BY <1>7 DEF TakeFast, Begin, TypeOK, Places, Looping, Tiers, backoff, history
<1>8. CASE TakeRecon
  BY <1>8 DEF TakeRecon, Begin, TypeOK, Places, Looping, Tiers, backoff, history
<1>9. CASE IdentityKnown
  BY <1>9 DEF IdentityKnown, TypeOK, Places, Looping, ticking, backoff, history
<1>10. CASE IdentityFails
  <2>1. Fails("reconcile") \in BOOLEAN BY DEF Fails
  <2> QED BY <1>10, <2>1, FailType DEF IdentityFails, TypeOK, Places, Looping, ticking
<1>11. CASE LoadFails
  BY <1>11, StorageFailsType DEF LoadFails, TypeOK, Places, Looping, ticking, history
<1>12. CASE PollAnswered
  BY <1>12 DEF PollAnswered, TypeOK, Places, Looping, ticking, backoff, history
<1>13. CASE PollFails
  <2>1. Fails(op) \in BOOLEAN BY DEF Fails
  <2> QED BY <1>13, <2>1, FailType DEF PollFails, TypeOK, Places, Looping, ticking
<1>14. CASE PersistDone
  <2>1. /\ rows' \in [Operations -> Outcomes \cup {"none"}]
        /\ faults' \in Nat
    BY <1>14, NamedOperations, WriteType DEF PersistDone, TypeOK
  <2> QED BY <1>14, <2>1
    DEF PersistDone, Reset, TypeOK, Places, Looping, ticking, history, Doubling
<1>15. CASE PersistFails
  BY <1>15, StorageFailsType DEF PersistFails, TypeOK, Places, Looping, ticking, history
<1>16. CASE Minute
  BY <1>16, TickType DEF Minute, Tick, TypeOK
<1>17. CASE Overrun
  BY <1>17, TickType DEF Overrun, Tick, SpendFault, TypeOK
<1>18. CASE Cancel
  BY <1>18 DEF Cancel, TypeOK, ticking, backoff, history
<1>19. CASE Close
  BY <1>19 DEF Close, TypeOK, Places, Looping, ticking, backoff, history
<1>20. CASE Exit
  BY <1>20 DEF Exit, TypeOK, Places, Looping, ticking, backoff, history
<1>21. CASE Crash
  BY <1>21 DEF Crash, SpendFault, TypeOK, Places, Looping, ticking, backoff, history
<1>22. CASE ChangeWeather
  BY <1>22 DEF ChangeWeather, TypeOK, ticking, backoff, history
<1> QED
  BY <1>1, <1>2, <1>3, <1>4, <1>5, <1>6, <1>7, <1>8, <1>9, <1>10, <1>11, <1>12, <1>13,
     <1>14, <1>15, <1>16, <1>17, <1>18, <1>19, <1>20, <1>21, <1>22
  DEF Next, StartUp, Cycle

(* Every variable keeps its type (conn and backoff, internal/engine). *)
THEOREM TypeCorrect == Spec => []TypeOK
<1>1. Init => TypeOK BY InitTypeOK
<1>2. TypeOK /\ [Next]_vars => TypeOK' BY NextTypeOK
<1> QED BY <1>1, <1>2, PTL DEF Spec

-----------------------------------------------------------------------------
(* The rate-limit hint.  A cycle only runs at an open gate, and between    *)
(* cycles the gate is shut at least as long as the forge was promised.     *)

InCycle == place \in {"identity", "poll", "persist"}

HintInv ==
  /\ promised <= wait
  /\ InCycle => promised = 0

LEMMA FailKeepsHint ==
  ASSUME TypeOK, HintInv, InCycle, NEW failing \in BOOLEAN, Fail(failing)
  PROVE  promised' <= wait'
<1>1. CASE cancelled /\ UNCHANGED <<backoff, resolved, rows, history, faults>>
  BY <1>1 DEF HintInv, backoff, history
<1>2. CASE Failure
  <2>1. wait' \in Nat BY <1>2, FailureType
  <2>2. CASE FailUnauthorized \/ FailOtherwise
    BY <2>1, <2>2 DEF FailUnauthorized, FailOtherwise, HintInv, history
  <2>3. CASE FailRateLimited
    <3>1. PICK hint \in Hints \cup {0} :
            /\ Shut(RateLimitDelay(Delay(NextStreak), hint))
            /\ promised' = hint + 1
      BY <2>3 DEF FailRateLimited
    <3>2. hint \in Nat BY SchedulerAssumption
    <3>3. Delay(NextStreak) \in Nat BY StreakRange, DelayType DEF TypeOK
    <3>4. /\ RateLimitDelay(Delay(NextStreak), hint) \in Nat
          /\ RateLimitDelay(Delay(NextStreak), hint) >= hint
      BY <3>2, <3>3, RateLimitDelayType
    <3>5. wait' = RateLimitDelay(Delay(NextStreak), hint) + 1
      BY <3>1 DEF Shut
    <3> QED BY <3>1, <3>2, <3>4, <3>5
  <2> QED BY <1>2, <2>2, <2>3 DEF Failure
<1> QED BY <1>1, <1>2 DEF Fail

LEMMA ElapseMonotonic ==
  ASSUME NEW a \in Nat, NEW b \in Nat, a <= b
  PROVE  Elapse(a) <= Elapse(b)
BY DEF Elapse

LEMMA InitHintInv == Init => HintInv
BY DEF Init, HintInv, InCycle

LEMMA NextHintInv == TypeOK /\ HintInv /\ [Next]_vars => HintInv'
<1> SUFFICES ASSUME TypeOK, HintInv, [Next]_vars PROVE HintInv'
  OBVIOUS
<1> USE DEF HintInv, InCycle
<1>1. CASE UNCHANGED vars
  BY <1>1 DEF vars, backoff, history
<1>2. CASE Start
  BY <1>2 DEF Start
<1>3. CASE StartResolved \/ StartPermanent \/ StartTransient
  BY <1>3 DEF StartResolved, StartPermanent, StartTransient, backoff, history
<1>4. CASE Seed \/ TakeFast \/ TakeRecon
  <2>1. UNCHANGED <<wait, promised>>
    BY <1>4 DEF Seed, TakeFast, TakeRecon, backoff, history
  <2>2. place' \in {"identity", "poll"} => wait = 0
    BY <1>4 DEF Seed, TakeFast, TakeRecon, Begin, ready
  <2>3. place' \in {"idle", "identity", "poll"}
    BY <1>4 DEF Seed, TakeFast, TakeRecon, Begin
  <2> QED BY <2>1, <2>2, <2>3 DEF TypeOK
<1>5. CASE IdentityKnown \/ PollAnswered
  BY <1>5 DEF IdentityKnown, PollAnswered, backoff, history
<1>6. CASE IdentityFails
  <2>1. Fails("reconcile") \in BOOLEAN BY DEF Fails
  <2> QED BY <1>6, <2>1, FailKeepsHint DEF IdentityFails
<1>7. CASE PollFails
  <2>1. Fails(op) \in BOOLEAN BY DEF Fails
  <2> QED BY <1>7, <2>1, FailKeepsHint DEF PollFails
<1>8. CASE LoadFails \/ PersistFails
  <2>1. wait' \in Nat /\ promised' = 0 /\ place' = "idle"
    BY <1>8, StorageFailsType DEF LoadFails, PersistFails, history
  <2> QED BY <2>1
<1>9. CASE PersistDone
  BY <1>9 DEF PersistDone, Reset, history
<1>10. CASE Minute \/ Overrun
  <2>1. Tick BY <1>10 DEF Minute, Overrun
  <2>2. promised' <= wait'
    BY <2>1, ElapseMonotonic DEF Tick, TypeOK
  <2>3. InCycle' => promised' = 0
    BY <2>1 DEF Tick, Elapse
  <2> QED BY <2>2, <2>3
<1>11. CASE Cancel \/ Close \/ Exit \/ Crash \/ ChangeWeather
  BY <1>11 DEF Cancel, Close, Exit, Crash, ChangeWeather, backoff, history
<1> QED
  BY <1>1, <1>2, <1>3, <1>4, <1>5, <1>6, <1>7, <1>8, <1>9, <1>10, <1>11
  DEF Next, StartUp, Cycle

(* A cycle begins only at an open gate. *)
LEMMA CallsAtOpenGate ==
  ASSUME [Next]_vars, Calls
  PROVE  wait = 0
<1>1. Seed \/ TakeFast \/ TakeRecon
  BY DEF Next, StartUp, Cycle, Calls, vars, Start, StartResolved, StartPermanent,
     StartTransient, IdentityKnown, IdentityFails, LoadFails, PollAnswered, PollFails,
     PersistDone, PersistFails, Minute, Overrun, Tick, Cancel, Close, Exit, Crash,
     ChangeWeather
<1> QED BY <1>1 DEF Seed, TakeFast, TakeRecon, Begin, ready, Calls

(* The forge is not called before the hint of a rate-limited cycle is over *)
(* (rateLimit, ready and the gate check of cycle; internal/engine).        *)
THEOREM HintTheorem == Spec => HintKept
<1>1. Init => TypeOK /\ HintInv BY InitTypeOK, InitHintInv
<1>2. TypeOK /\ HintInv /\ [Next]_vars => TypeOK' /\ HintInv'
  BY NextTypeOK, NextHintInv
<1>3. TypeOK /\ HintInv /\ [Next]_vars => [Calls => promised = 0]_vars
  BY CallsAtOpenGate DEF TypeOK, HintInv
<1> QED BY <1>1, <1>2, <1>3, PTL DEF Spec, HintKept

-----------------------------------------------------------------------------
(* Which steps write a row, and what they write. *)

LEMMA RowSteps ==
  ASSUME TypeOK, [Next]_vars
  PROVE  \/ rows' = rows
         \/ rows' = [rows EXCEPT !["startup"] = "failed"]
         \/ ~cancelled /\ rows' = [rows EXCEPT ![op] = "failed"]
         \/ place = "persist" /\ rows' = [rows EXCEPT ![op] = "ok"]
         \/ place = "persist" /\ rows' = [rows EXCEPT ![op] = "degraded"]
<1>1. CASE UNCHANGED vars
  BY <1>1 DEF vars
<1>2. CASE StartUp
  BY <1>2 DEF StartUp, StartResolved, StartPermanent, StartTransient, Write
<1>3. CASE IdentityFails \/ PollFails
  BY <1>3 DEF IdentityFails, PollFails, Fail, Failure, Write
<1>4. CASE LoadFails \/ PersistFails
  BY <1>4 DEF LoadFails, PersistFails, StorageFails
<1>5. CASE PersistDone
  BY <1>5 DEF PersistDone, Write
<1>6. CASE Start \/ Seed \/ TakeFast \/ TakeRecon \/ IdentityKnown \/ PollAnswered
  BY <1>6 DEF Start, Seed, TakeFast, TakeRecon, IdentityKnown, PollAnswered
<1>7. CASE Minute \/ Overrun
  BY <1>7 DEF Minute, Overrun, Tick
<1>8. CASE Cancel \/ Close \/ Exit \/ Crash \/ ChangeWeather
  BY <1>8 DEF Cancel, Close, Exit, Crash, ChangeWeather
<1> QED BY <1>1, <1>2, <1>3, <1>4, <1>5, <1>6, <1>7, <1>8 DEF Next, Cycle

(* No poll cycle records a failure once the context is cancelled (cycle,   *)
(* abortStorage; internal/engine).                                         *)
THEOREM ShutdownTheorem == Spec => ShutdownQuiet
<1>1. ASSUME TypeOK, [Next]_vars, cancelled,
             NEW tier \in Tiers, rows'[tier] # rows[tier]
      PROVE  rows'[tier] # "failed"
  <2>1. tier # "startup" /\ tier \in Operations BY DEF Tiers, Operations
  <2>2. op \in Operations BY <1>1 DEF TypeOK, Operations
  <2> QED BY <1>1, <2>1, <2>2, RowSteps DEF TypeOK
<1>2. TypeOK /\ [Next]_vars =>
        [cancelled => \A tier \in Tiers :
           rows'[tier] # rows[tier] => rows'[tier] # "failed"]_vars
  BY <1>1
<1> QED BY <1>2, TypeCorrect, PTL DEF Spec, ShutdownQuiet

-----------------------------------------------------------------------------
(* The health dot. *)

LEMMA StatusType ==
  ASSUME NEW outcome
  PROVE  outcomeStatus(outcome) \in {"ok", "degraded", "failing"}
BY DEF outcomeStatus

LEMMA SeverityValues ==
  /\ DOMAIN Severity = {"ok", "degraded", "failing"}
  /\ Severity["ok"] = 0 /\ Severity["degraded"] = 1 /\ Severity["failing"] = 2
BY DEF Severity

(* The dot is the status of some operation, and none is worse. *)
LEMMA HealthIsWorst ==
  ASSUME NEW latest
  PROVE  /\ computeHealth(latest) \in {"ok", "degraded", "failing"}
         /\ \E o \in Operations : outcomeStatus(latest[o]) = computeHealth(latest)
         /\ \A o \in Operations :
              Severity[outcomeStatus(latest[o])] <= Severity[computeHealth(latest)]
<1> DEFINE Worst(status) ==
      /\ \E o \in Operations : outcomeStatus(latest[o]) = status
      /\ \A o \in Operations : Severity[outcomeStatus(latest[o])] <= Severity[status]
<1>1. \E status \in {"ok", "degraded", "failing"} : Worst(status)
  <2>1. CASE \E o \in Operations : outcomeStatus(latest[o]) = "failing"
    BY <2>1, StatusType, SeverityValues
  <2>2. CASE /\ ~ \E o \in Operations : outcomeStatus(latest[o]) = "failing"
             /\ \E o \in Operations : outcomeStatus(latest[o]) = "degraded"
    <3>1. \A o \in Operations : Severity[outcomeStatus(latest[o])] <= Severity["degraded"]
      BY <2>2, StatusType, SeverityValues
    <3> QED BY <2>2, <3>1
  <2>3. CASE \A o \in Operations : outcomeStatus(latest[o]) \notin {"failing", "degraded"}
    <3>1. \A o \in Operations : outcomeStatus(latest[o]) = "ok"
      BY <2>3, StatusType
    <3>2. "startup" \in Operations BY DEF Operations
    <3> QED BY <3>1, <3>2, SeverityValues
  <2> QED BY <2>1, <2>2, <2>3
<1>2. computeHealth(latest) = CHOOSE status \in {"ok", "degraded", "failing"} : Worst(status)
  BY SeverityValues DEF computeHealth
<1> HIDE DEF Worst
<1>3. computeHealth(latest) \in {"ok", "degraded", "failing"} /\ Worst(computeHealth(latest))
  BY <1>1, <1>2
<1> QED BY <1>3 DEF Worst

(* The dot gets better only by a success of a tier that was as bad as the  *)
(* dot (computeHealth in internal/api/connections.go).                     *)
THEOREM DotTheorem == Spec => DotHeld
<1>1. ASSUME TypeOK, TypeOK', [Next]_vars, Severity[Health'] < Severity[Health]
      PROVE  place = "persist" /\ outcomeStatus(rows[op]) = Health
  <2>1. op \in Operations BY <1>1 DEF TypeOK, Operations
  <2>2. /\ Health \in {"ok", "degraded", "failing"}
        /\ Health' \in {"ok", "degraded", "failing"}
    BY HealthIsWorst DEF Health
  <2>3. PICK o \in Operations : outcomeStatus(rows[o]) = Health
    BY HealthIsWorst DEF Health
  <2>4. Severity[outcomeStatus(rows'[o])] <= Severity[Health']
    BY HealthIsWorst DEF Health
  <2>5. rows'[o] # rows[o]
    <3> SUFFICES ASSUME rows'[o] = rows[o] PROVE FALSE
      OBVIOUS
    <3> QED BY <1>1, <2>2, <2>3, <2>4, SeverityValues
  <2>6. rows'[o] # "failed"
    <3> SUFFICES ASSUME rows'[o] = "failed" PROVE FALSE
      OBVIOUS
    <3>1. outcomeStatus(rows'[o]) = "failing" BY DEF outcomeStatus
    <3> QED BY <1>1, <2>2, <2>4, <3>1, SeverityValues
  <2>7. place = "persist" /\ o = op
    BY <1>1, <2>1, <2>5, <2>6, RowSteps, NamedOperations DEF TypeOK
  <2> QED BY <2>3, <2>7
<1>2. TypeOK /\ TypeOK' /\ [Next]_vars =>
        [Severity[Health'] < Severity[Health] =>
           place = "persist" /\ outcomeStatus(rows[op]) = Health]_vars
  BY <1>1
<1> QED BY <1>2, TypeCorrect, PTL DEF Spec, DotHeld
-----------------------------------------------------------------------------
(* After a failure the gate opens to a fast tick. *)

FastComesFirst ==
  place = "idle" /\ ~cancelled /\ streak # 0 /\ wait = 0 => fastTick /\ fastFirst

(* Whoever shuts the gate, it is shut. *)
LEMMA ShutIsShut ==
  ASSUME TypeOK, NEW minutes \in Nat, Shut(minutes)
  PROVE  wait' # 0
BY ShutType DEF TypeOK

LEMMA FailureShuts ==
  ASSUME TypeOK, Failure
  PROVE  wait' # 0
<1>1. Delay(NextStreak) \in Nat BY StreakRange, DelayType DEF TypeOK
<1>2. CASE FailUnauthorized \/ FailOtherwise
  BY <1>1, <1>2, ShutIsShut DEF FailUnauthorized, FailOtherwise
<1>3. CASE FailRateLimited
  <2>1. PICK hint \in Hints \cup {0} : Shut(RateLimitDelay(Delay(NextStreak), hint))
    BY <1>3 DEF FailRateLimited
  <2>2. hint \in Nat BY SchedulerAssumption
  <2>3. RateLimitDelay(Delay(NextStreak), hint) \in Nat BY <1>1, <2>2, RateLimitDelayType
  <2> QED BY <2>1, <2>3, ShutIsShut
<1> QED BY <1>2, <1>3 DEF Failure

LEMMA NextFastComesFirst == TypeOK /\ FastComesFirst /\ [Next]_vars => FastComesFirst'
<1> SUFFICES ASSUME TypeOK, FastComesFirst, [Next]_vars PROVE FastComesFirst'
  OBVIOUS
<1> USE DEF FastComesFirst
<1>1. CASE UNCHANGED vars \/ ChangeWeather
  BY <1>1 DEF vars, ticking, backoff, ChangeWeather
<1>2. CASE Seed \/ TakeFast \/ TakeRecon
  <2>1. UNCHANGED <<cancelled, wait>>
    BY <1>2 DEF Seed, TakeFast, TakeRecon, backoff
  <2>2. place' = "idle" => cancelled \/ wait # 0
    BY <1>2 DEF Seed, TakeFast, TakeRecon, Begin, ready
  <2> QED BY <2>1, <2>2
<1>3. CASE IdentityFails \/ PollFails
  <2>1. UNCHANGED cancelled /\ (cancelled \/ Failure)
    BY <1>3 DEF IdentityFails, PollFails, Fail
  <2> QED BY <2>1, FailureShuts
<1>4. CASE LoadFails \/ PersistFails
  <2>1. UNCHANGED cancelled /\ (cancelled \/ Shut(Delay(NextStreak)))
    BY <1>4 DEF LoadFails, PersistFails, StorageFails
  <2>2. Delay(NextStreak) \in Nat BY StreakRange, DelayType DEF TypeOK
  <2> QED BY <2>1, <2>2, ShutIsShut
<1>5. CASE PersistDone
  BY <1>5 DEF PersistDone, Reset
<1>6. CASE Minute
  BY <1>6 DEF Minute, Tick
<1>7. CASE Overrun
  BY <1>7 DEF Overrun, Tick
<1>8. CASE Cancel
  BY <1>8 DEF Cancel
<1>9. CASE Start \/ StartUp \/ IdentityKnown \/ PollAnswered \/ Close \/ Exit \/ Crash
  BY <1>9 DEF Start, StartUp, StartResolved, StartPermanent, StartTransient, IdentityKnown,
              PollAnswered, Close, Exit, Crash
<1> QED BY <1>1, <1>2, <1>3, <1>4, <1>5, <1>6, <1>7, <1>8, <1>9 DEF Next, Cycle

(* No tick starts a sweep between a failure and the next fast poll that    *)
(* succeeds (run in connection.go, ready and bump in backoff.go).          *)
THEOREM SweepWaitsTheorem == Spec => SweepWaitsForFast
<1>1. ASSUME FastComesFirst, [Next]_vars,
             place = "idle", place' \in {"identity", "poll"}, op' = "reconcile"
      PROVE  streak = 0
  <2>1. TakeFast \/ TakeRecon
    BY <1>1 DEF Next, StartUp, Cycle, vars, Start, StartResolved, StartPermanent, StartTransient,
       Seed, IdentityKnown, IdentityFails, LoadFails, PollAnswered, PollFails, PersistDone,
       PersistFails, Minute, Overrun, Tick, Cancel, Close, Exit, Crash, ChangeWeather
  <2>2. ~cancelled /\ wait = 0
    BY <1>1, <2>1 DEF TakeFast, TakeRecon, Begin, ready
  <2>3. ~TakeFast
    BY <1>1 DEF TakeFast, Begin
  <2>4. ~(fastTick /\ fastFirst)
    BY <2>1, <2>3 DEF TakeRecon
  <2> QED BY <1>1, <2>2, <2>4 DEF FastComesFirst
<1>2. FastComesFirst /\ [Next]_vars =>
        [place = "idle" /\ place' \in {"identity", "poll"} /\ op' = "reconcile"
           => streak = 0]_vars
  BY <1>1
<1>3. Init => FastComesFirst
  BY DEF Init, FastComesFirst
<1> QED BY <1>2, <1>3, NextFastComesFirst, TypeCorrect, PTL DEF Spec, SweepWaitsForFast
-----------------------------------------------------------------------------
(* Shutdown runs out of steps. *)

Pending == (IF fastTick THEN 1 ELSE 0) + (IF reconTick THEN 1 ELSE 0)

(* How many steps a cancelled connection can still take before it is       *)
(* closed: at most the rest of its cycle and one for each tick that waits. *)
StepsToEnd ==
  CASE place \in {"off", "closed"} -> 0
    [] place = "dead" -> 1
    [] place = "idle" -> 1 + Pending
    [] place \in {"seed", "identity", "persist"} -> 4
    [] place \in {"starting", "poll"} -> 5

(* Once cancelled, every step of the connection brings its end nearer, and *)
(* neither the weather nor a cycle that overruns its tick puts it off      *)
(* (Run in engine.go, run and cycle in connection.go and cycle.go).        *)
ShutdownRunsOut ==
  [][cancelled =>
       /\ StartUp \/ Cycle \/ Close => StepsToEnd' < StepsToEnd
       /\ place # "off" => StepsToEnd' <= StepsToEnd]_vars

StepsOfPlaces ==
  /\ StepsToEnd \in 0..5 /\ fastTick \in BOOLEAN /\ reconTick \in BOOLEAN
  /\ place \in {"off", "closed"} => StepsToEnd = 0
  /\ place = "dead" => StepsToEnd = 1
  /\ place = "idle" =>
       /\ fastTick /\ reconTick => StepsToEnd = 3
       /\ fastTick # reconTick => StepsToEnd = 2
       /\ ~fastTick /\ ~reconTick => StepsToEnd = 1
  /\ place \in {"seed", "identity", "persist"} => StepsToEnd = 4
  /\ place \in {"starting", "poll"} => StepsToEnd = 5

LEMMA StepsFollowPlace == TypeOK => StepsOfPlaces
<1> SUFFICES ASSUME TypeOK PROVE StepsOfPlaces
  OBVIOUS
<1>1. /\ fastTick /\ reconTick => Pending = 2
      /\ fastTick # reconTick => Pending = 1
      /\ ~fastTick /\ ~reconTick => Pending = 0
  <2>1. fastTick \in BOOLEAN /\ reconTick \in BOOLEAN
    BY DEF TypeOK
  <2> QED BY <2>1 DEF Pending
<1> QED BY <1>1 DEF StepsToEnd, Places, Looping, TypeOK, StepsOfPlaces

LEMMA ShutdownStep ==
  ASSUME TypeOK, StepsOfPlaces, StepsOfPlaces', [Next]_vars, cancelled
  PROVE  /\ StartUp \/ Cycle \/ Close => StepsToEnd' < StepsToEnd
         /\ place # "off" => StepsToEnd' <= StepsToEnd
<1>1. fastTick \in BOOLEAN /\ reconTick \in BOOLEAN
  BY DEF TypeOK
<1>2. StepsToEnd \in 0..5 /\ StepsToEnd' \in 0..5
  BY DEF StepsOfPlaces
<1> DEFINE Down == StepsToEnd' < StepsToEnd
<1>3. ASSUME StartUp PROVE Down
  <2>1. place = "starting" /\ place' \in {"seed", "dead"}
    BY <1>3 DEF StartUp, StartResolved, StartPermanent, StartTransient
  <2> QED BY <2>1 DEF StepsOfPlaces
<1>4. ASSUME TakeFast \/ TakeRecon PROVE Down
  <2>1. place = "idle" /\ place' = "idle"
    BY <1>4 DEF TakeFast, TakeRecon, Begin
  <2>2. \/ fastTick /\ ~fastTick' /\ reconTick' = reconTick
        \/ reconTick /\ ~reconTick' /\ fastTick' = fastTick
    BY <1>4 DEF TakeFast, TakeRecon
  <2> QED BY <1>1, <2>1, <2>2 DEF StepsOfPlaces
<1>5. ASSUME Cycle, ~(TakeFast \/ TakeRecon) PROVE Down
  <2>1. \/ place = "poll" /\ place' \in {"persist", "idle"}
        \/ place \in {"seed", "identity", "persist"} /\ place' = "idle"
    BY <1>5 DEF Cycle, Seed, Begin, IdentityKnown, IdentityFails, LoadFails, PollAnswered,
                PollFails, PersistDone, PersistFails
  <2>2. place' = "idle" => StepsToEnd' \in 1..3
    BY DEF StepsOfPlaces
  <2> QED BY <2>1, <2>2 DEF StepsOfPlaces
<1>6. ASSUME Close PROVE Down
  <2>1. place \in {"idle", "dead"} /\ place' = "closed"
    BY <1>6 DEF Close
  <2> QED BY <2>1 DEF StepsOfPlaces
<1>7. ASSUME Overrun PROVE StepsToEnd' = StepsToEnd
  <2>1. place \in {"identity", "poll", "persist"} /\ place' = place
    BY <1>7 DEF Overrun, Tick
  <2> QED BY <2>1 DEF StepsOfPlaces
<1>8. ASSUME Exit \/ Crash PROVE StepsToEnd' <= StepsToEnd
  <2>1. place' = "off"
    BY <1>8 DEF Exit, Crash
  <2> QED BY <2>1 DEF StepsOfPlaces
<1>9. ASSUME UNCHANGED <<place, ticking>> PROVE StepsToEnd' = StepsToEnd
  BY <1>9 DEF StepsToEnd, Pending, ticking
<1>10. \/ StartUp \/ Cycle \/ Close \/ Overrun \/ Exit \/ Crash
       \/ place = "off" /\ ~(StartUp \/ Cycle \/ Close)
       \/ UNCHANGED <<place, ticking>>
  BY DEF Next, Start, Minute, Cancel, ChangeWeather, vars, StartUp, StartResolved, StartPermanent,
         StartTransient, Cycle, Seed, TakeFast, TakeRecon, IdentityKnown, IdentityFails, LoadFails,
         PollAnswered, PollFails, PersistDone, PersistFails, Close
<1>11. StartUp \/ Cycle \/ Close => Down
  BY <1>3, <1>4, <1>5, <1>6
<1> HIDE DEF Down
<1>12. Down => StepsToEnd' <= StepsToEnd
  BY <1>2 DEF Down
<1> QED BY <1>2, <1>7, <1>8, <1>9, <1>10, <1>11, <1>12 DEF Down

(* A cancelled connection ends within five steps of its own, from anywhere *)
(* and whatever the forge does: the part of ShutdownCompletes that needs   *)
(* no fairness.                                                            *)
THEOREM ShutdownBounded == Spec => ShutdownRunsOut
<1>1. TypeOK /\ StepsOfPlaces /\ StepsOfPlaces' /\ [Next]_vars =>
        [cancelled =>
           /\ StartUp \/ Cycle \/ Close => StepsToEnd' < StepsToEnd
           /\ place # "off" => StepsToEnd' <= StepsToEnd]_vars
  BY ShutdownStep
<1> QED BY <1>1, StepsFollowPlace, TypeCorrect, PTL DEF Spec, ShutdownRunsOut
-----------------------------------------------------------------------------
(* The gate opens again. *)

(* However long the forge has been failing, the gate is shut for no more   *)
(* than the longest delay, 16 minutes, or for a wait the forge asked for,  *)
(* and a connection without a streak of failures is not held back at all   *)
(* (delay, rateLimit and reset in backoff.go).                             *)
GateOpensAgain ==
  /\ streak = 0 => wait = 0
  /\ wait <= Doubling[Len(Doubling)] + 1 \/ \E hint \in Hints : wait <= hint + 1

LEMMA DelayBounded ==
  ASSUME NEW n \in 1..Len(Doubling)
  PROVE  Delay(n) <= 16
<1>1. n \in 1..5 BY DEF Doubling
<1>2. Smaller(n, Len(Doubling)) = n BY <1>1 DEF Smaller, Doubling
<1>3. Doubling[n] <= 16 BY <1>1 DEF Doubling
<1> QED BY <1>2, <1>3 DEF Delay

LEMMA LongestDelay == Doubling[Len(Doubling)] = 16
BY DEF Doubling

(* Whoever shuts the gate for a delay, it is bounded. *)
LEMMA ShutBounded ==
  ASSUME TypeOK, Shut(Delay(NextStreak))
  PROVE  GateOpensAgain'
<1>1. NextStreak \in 1..Len(Doubling) BY StreakRange DEF TypeOK
<1>2. Delay(NextStreak) \in Nat /\ Delay(NextStreak) <= 16
  BY <1>1, DelayType, DelayBounded
<1>3. streak' # 0 /\ wait' = Delay(NextStreak) + 1
  BY <1>1 DEF Shut
<1>4. wait' <= 17
  <2> DEFINE d == Delay(NextStreak)
  <2>1. d \in Nat /\ d <= 16 /\ wait' = d + 1 BY <1>2, <1>3
  <2> HIDE DEF d
  <2> QED BY <2>1
<1> QED BY <1>3, <1>4, LongestDelay DEF GateOpensAgain

LEMMA FailureBounded ==
  ASSUME TypeOK, Failure
  PROVE  GateOpensAgain'
<1>1. CASE FailUnauthorized \/ FailOtherwise
  BY <1>1, ShutBounded DEF FailUnauthorized, FailOtherwise
<1>2. CASE FailRateLimited
  <2>1. PICK hint \in Hints \cup {0} : Shut(RateLimitDelay(Delay(NextStreak), hint))
    BY <1>2 DEF FailRateLimited
  <2>2. CASE RateLimitDelay(Delay(NextStreak), hint) = Delay(NextStreak)
    BY <2>1, <2>2, ShutBounded
  <2>3. CASE RateLimitDelay(Delay(NextStreak), hint) = hint /\ hint # Delay(NextStreak)
    <3>1. hint \in Nat BY SchedulerAssumption
    <3>2. wait' = hint + 1 /\ streak' = NextStreak
      BY <2>1, <2>3 DEF Shut
    <3>3. streak' # 0
      BY <3>2, StreakRange DEF TypeOK
    <3>4. hint # 0
      <4> SUFFICES ASSUME hint = 0 PROVE FALSE OBVIOUS
      <4>1. Delay(NextStreak) \in Nat BY StreakRange, DelayType DEF TypeOK
      <4>2. RateLimitDelay(Delay(NextStreak), 0) = Delay(NextStreak)
        BY <4>1 DEF RateLimitDelay, Larger
      <4> QED BY <2>3, <4>2
    <3> QED BY <3>1, <3>2, <3>3, <3>4 DEF GateOpensAgain
  <2> QED BY <2>2, <2>3 DEF RateLimitDelay, Larger
<1> QED BY <1>1, <1>2 DEF Failure

LEMMA NextGateOpensAgain == TypeOK /\ GateOpensAgain /\ [Next]_vars => GateOpensAgain'
<1> SUFFICES ASSUME TypeOK, GateOpensAgain, [Next]_vars PROVE GateOpensAgain'
  OBVIOUS
<1>1. CASE UNCHANGED backoff
  BY <1>1 DEF backoff, GateOpensAgain
<1>2. CASE Start \/ PersistDone
  <2>1. streak' = 0 /\ wait' = 0
    BY <1>2 DEF Start, PersistDone, Reset
  <2> QED BY <2>1, LongestDelay DEF GateOpensAgain
<1>3. CASE IdentityFails \/ PollFails
  BY <1>1, <1>3, FailureBounded DEF IdentityFails, PollFails, Fail
<1>4. CASE LoadFails \/ PersistFails
  BY <1>1, <1>4, ShutBounded DEF LoadFails, PersistFails, StorageFails
<1>5. CASE Minute \/ Overrun
  <2>1. UNCHANGED streak /\ wait' = Elapse(wait)
    BY <1>5 DEF Minute, Overrun, Tick
  <2>2. wait \in Nat /\ wait' \in Nat /\ wait' <= wait /\ (wait = 0 => wait' = 0)
    BY <2>1 DEF Elapse, TypeOK
  <2>3. \A bound \in Int : wait <= bound => wait' <= bound
    BY <2>2
  <2>4. \A hint \in Hints : wait <= hint + 1 => wait' <= hint + 1
    BY <2>3, SchedulerAssumption
  <2>5. wait <= 17 => wait' <= 17
    BY <2>3
  <2> QED BY <2>1, <2>2, <2>4, <2>5, LongestDelay DEF GateOpensAgain
<1>6. CASE UNCHANGED vars \/ StartUp \/ Seed \/ TakeFast \/ TakeRecon \/ IdentityKnown
             \/ PollAnswered \/ Cancel \/ Close \/ Exit \/ Crash \/ ChangeWeather
  <2>1. UNCHANGED backoff
    BY <1>6 DEF vars, StartUp, StartResolved, StartPermanent, StartTransient, Seed, TakeFast,
                TakeRecon, IdentityKnown, PollAnswered, Cancel, Close, Exit, Crash, ChangeWeather
  <2> QED BY <1>1, <2>1
<1> QED BY <1>2, <1>3, <1>4, <1>5, <1>6 DEF Next, Cycle

(* The gate opens again, and soon, whatever went before: what recovery     *)
(* (TiersRecover) rests on, and it needs no fairness.                      *)
THEOREM GateBounded == Spec => []GateOpensAgain
<1>1. Init => GateOpensAgain
  BY LongestDelay DEF Init, GateOpensAgain
<1>2. TypeOK /\ GateOpensAgain /\ [Next]_vars => GateOpensAgain'
  BY NextGateOpensAgain
<1> QED BY <1>1, <1>2, TypeCorrect, PTL DEF Spec
=============================================================================
