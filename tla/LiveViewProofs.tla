---------------------------- MODULE LiveViewProofs ----------------------------
(***************************************************************************)
(* Theorems about LiveView, for any connections, buffer and bounds.        *)
(***************************************************************************)
EXTENDS LiveView, TLAPS

-----------------------------------------------------------------------------
(* Records and slots. *)

LEMMA RequestSent ==
  ASSUME NEW kind \in {"hydrate", "refresh"}
  PROVE  /\ Sent(kind) \in Request
         /\ Sent(kind).kind = kind /\ Sent(kind).status = "sent"
BY DEF Sent, Idle, Request

LEMMA RequestIdle == Idle \in Request /\ Idle.kind = "none" /\ Idle.status = "sent"
BY DEF Idle, Request

LEMMA HydrateType ==
  ASSUME TypeOK, hydrate
  PROVE  /\ requests' \in [Requests -> Request]
         /\ hydrateOwner' \in Requests /\ attentionOwner' \in Requests
         /\ retry' = FALSE
<1>1. PICK r \in Requests :
        /\ requests' = [requests EXCEPT ![r] = Sent("hydrate")]
        /\ hydrateOwner' = r /\ attentionOwner' = r
  BY DEF hydrate
<1>2. Sent("hydrate") \in Request BY RequestSent
<1> QED BY <1>1, <1>2 DEF TypeOK, DashboardTypeOK, hydrate

LEMMA RefreshType ==
  ASSUME TypeOK, refreshAttention
  PROVE  /\ requests' \in [Requests -> Request]
         /\ hydrateOwner' = hydrateOwner /\ attentionOwner' \in Requests
<1>1. PICK r \in Requests :
        /\ requests' = [requests EXCEPT ![r] = Sent("refresh")]
        /\ attentionOwner' = r /\ UNCHANGED hydrateOwner
  BY DEF refreshAttention
<1>2. Sent("refresh") \in Request BY RequestSent
<1> QED BY <1>1, <1>2 DEF TypeOK, DashboardTypeOK

LEMMA ReadType ==
  ASSUME TypeOK, NEW r \in Requests, Read(r)
  PROVE  requests' \in [Requests -> Request]
<1>1. /\ requests \in [Requests -> Request] /\ requests[r] \in Request
      /\ list \in Nat
  BY DEF TypeOK, DashboardTypeOK
<1>2. requests' = [requests EXCEPT ![r] = [@ EXCEPT !.status = "answered", !.version = list]]
  BY <1>1, Zenon DEF Read
<1>3. [requests[r] EXCEPT !.status = "answered", !.version = list] \in Request
  BY <1>1 DEF Request
<1> QED BY <1>1, <1>2, <1>3

LEMMA BreakType ==
  ASSUME TypeOK, NEW r \in Requests, Break(r)
  PROVE  requests' \in [Requests -> Request]
<1>1. requests \in [Requests -> Request] /\ requests[r] \in Request
  BY DEF TypeOK, DashboardTypeOK
<1>2. PICK failure \in Failures :
        requests' = [requests EXCEPT ![r] = [@ EXCEPT !.status = failure, !.version = 0]]
  <2>1. PICK failure \in Failures :
          requests' = [requests EXCEPT ![r].status = failure, ![r].version = 0]
    BY DEF Break
  <2>2. requests' = [requests EXCEPT ![r] = [@ EXCEPT !.status = failure, !.version = 0]]
    BY <1>1, <2>1, Zenon
  <2> QED BY <2>2
<1>3. [requests[r] EXCEPT !.status = failure, !.version = 0] \in Request
  BY <1>1 DEF Request, Failures
<1> QED BY <1>1, <1>2, <1>3

LEMMA ReleaseType ==
  ASSUME TypeOK, NEW r \in Requests, Release(r)
  PROVE  /\ requests' \in [Requests -> Request]
         /\ hydrateOwner' \in Requests \cup {NoOne}
         /\ attentionOwner' \in Requests \cup {NoOne}
BY RequestIdle DEF TypeOK, DashboardTypeOK, Release

LEMMA VersionType ==
  ASSUME TypeOK, NEW r \in Requests
  PROVE  requests[r].version \in Nat /\ requests[r] \in Request
BY DEF TypeOK, DashboardTypeOK, Request

LEMMA SettleType ==
  ASSUME TypeOK, NEW r \in Requests, Settle(r)
  PROVE  /\ requests' \in [Requests -> Request]
         /\ hydrateOwner' \in Requests \cup {NoOne}
         /\ attentionOwner' \in Requests \cup {NoOne}
         /\ shown' \in Nat \cup {Blank}
         /\ ready' \in BOOLEAN /\ stale' \in BOOLEAN
         /\ loadError' \in BOOLEAN /\ loading' \in BOOLEAN
         /\ refetch' \in BOOLEAN /\ retry' \in BOOLEAN
<1>1. Release(r)
  BY DEF Settle, Hydrated, HydrateFailed, Refreshed, RefreshFailed
<1>2. requests[r].version \in Nat BY VersionType
<1>3. CASE Hydrated(r)
  BY <1>1, <1>2, <1>3, ReleaseType
  DEF Hydrated, ShowNewest, screen, timers, TypeOK, DashboardTypeOK
<1>4. CASE HydrateFailed(r)
  BY <1>1, <1>4, ReleaseType DEF HydrateFailed, scheduleHydrateRetry, TypeOK, DashboardTypeOK
<1>5. CASE Refreshed(r)
  BY <1>1, <1>2, <1>5, ReleaseType
  DEF Refreshed, ShowNewest, timers, TypeOK, DashboardTypeOK
<1>6. CASE RefreshFailed(r)
  BY <1>1, <1>6, ReleaseType DEF RefreshFailed, scheduleHydrateRetry, TypeOK, DashboardTypeOK
<1> QED BY <1>3, <1>4, <1>5, <1>6 DEF Settle

LEMMA BroadcastType ==
  ASSUME TypeOK, NEW frame \in Frames, broadcast(frame)
  PROVE  /\ queue' \in Seq(Frames) /\ Len(queue') <= Buffer
         /\ untold' \subseteq Reasons
<1>1. CASE registered /\ Len(queue) < Buffer
  <2>1. queue' = Append(queue, frame) /\ untold' = untold
    BY <1>1 DEF broadcast
  <2> QED BY <1>1, <2>1, LiveViewAssumption DEF TypeOK
<1>2. CASE ~(registered /\ Len(queue) < Buffer)
  BY <1>2 DEF broadcast, Untold, Reasons, TypeOK
<1> QED BY <1>1, <1>2

LEMMA AtType ==
  ASSUME TypeOK, NEW c \in Connections, NEW from,
         NEW to \in {"idle", "stored", "completed", "failed"}, At(c, from, to)
  PROVE  engine' \in [Connections -> {"idle", "stored", "completed", "failed"}]
BY DEF At, TypeOK

-----------------------------------------------------------------------------
(* Type correctness. *)

LEMMA InitTypeOK == Init => TypeOK
<1> SUFFICES ASSUME Init PROVE TypeOK
  OBVIOUS
<1>1. 1 \in Requests BY DashboardAssumption DEF Requests
<1>2. requests \in [Requests -> Request]
  BY RequestIdle, RequestSent DEF Init, DashboardInit
<1>3. DashboardTypeOK
  BY <1>1, <1>2 DEF Init, DashboardInit, DashboardTypeOK
<1>4. queue \in Seq(Frames) /\ Len(queue) <= Buffer
  BY LiveViewAssumption DEF Init
<1> QED BY <1>3, <1>4 DEF Init, TypeOK

LEMMA NextTypeOK == TypeOK /\ [Next]_vars => TypeOK'
<1> SUFFICES ASSUME TypeOK, [Next]_vars PROVE TypeOK'
  OBVIOUS
<1> USE DEF requesting, screen, timers, live, history
<1>1. CASE UNCHANGED vars
  BY <1>1 DEF vars, TypeOK, DashboardTypeOK
<1>2. ASSUME NEW c \in Connections, EventsInserted(c) PROVE TypeOK'
  BY <1>2, AtType DEF EventsInserted, ChangeList, TypeOK, DashboardTypeOK
<1>3. ASSUME NEW c \in Connections, SaveCursorsFails(c) PROVE TypeOK'
  BY <1>3, AtType DEF SaveCursorsFails, SpendFault, Untold, Reasons, TypeOK, DashboardTypeOK
<1>4. ASSUME NEW c \in Connections, AttentionChanged(c) PROVE TypeOK'
  BY <1>4, AtType, BroadcastType DEF AttentionChanged, Frames, TypeOK, DashboardTypeOK
<1>5. ASSUME NEW c \in Connections, NothingInserted(c) PROVE TypeOK'
  BY <1>5, AtType DEF NothingInserted, TypeOK, DashboardTypeOK
<1>6. ASSUME NEW c \in Connections, CycleEnds(c) PROVE TypeOK'
  BY <1>6, AtType, BroadcastType DEF CycleEnds, Frames, TypeOK, DashboardTypeOK
<1>7. CASE SetHandleNext
  BY <1>7 DEF SetHandleNext, ChangeList, Untold, Reasons, TypeOK, DashboardTypeOK
<1>8. CASE Accept
  BY <1>8 DEF Accept, TypeOK, DashboardTypeOK
<1>9. CASE register
  BY <1>9, LiveViewAssumption DEF register, TypeOK, DashboardTypeOK
<1>10. CASE Opened
  BY <1>10, HydrateType DEF Opened, TypeOK, DashboardTypeOK
<1>11. CASE scheduleReconnect
  BY <1>11 DEF scheduleReconnect, TypeOK, DashboardTypeOK
<1>12. CASE Deliver
  <2>1. queue' \in Seq(Frames) /\ Len(queue') <= Buffer
    BY <1>12, LiveViewAssumption DEF Deliver, TypeOK
  <2> QED BY <1>12, <2>1 DEF Deliver, TypeOK, DashboardTypeOK
<1>13. CASE LoseStream
  BY <1>13, LiveViewAssumption DEF LoseStream, SpendFault, TypeOK, DashboardTypeOK
<1>14. CASE RefetchTimer
  BY <1>14, RefreshType DEF RefetchTimer, TypeOK, DashboardTypeOK
<1>15. CASE RetryTimer
  BY <1>15, HydrateType DEF RetryTimer, TypeOK, DashboardTypeOK
<1>16. ASSUME NEW r \in Requests, Answer(r) PROVE TypeOK'
  BY <1>16, ReadType DEF Answer, TypeOK, DashboardTypeOK
<1>17. ASSUME NEW r \in Requests, Settled(r) PROVE TypeOK'
  <2>1. untold' \subseteq Reasons
    BY <1>17 DEF Settled, Untold, Reasons, TypeOK
  <2>2. refused' \subseteq {"hydrate", "attention"}
    BY <1>17 DEF Settled, Refusals, TypeOK
  <2> QED BY <1>17, <2>1, <2>2, SettleType DEF Settled, TypeOK, DashboardTypeOK
<1>18. ASSUME NEW r \in Requests, RequestBreaks(r) PROVE TypeOK'
  BY <1>18, BreakType DEF RequestBreaks, SpendFault, TypeOK, DashboardTypeOK
<1>19. CASE Restart
  <2>1. requests' \in [Requests -> Request]
    BY <1>19 DEF Restart, TypeOK, DashboardTypeOK, Request
  <2>2. engine' \in [Connections -> {"idle", "stored", "completed", "failed"}]
    BY <1>19 DEF Restart
  <2>3. queue' \in Seq(Frames) /\ Len(queue') <= Buffer
    <3>1. queue' = <<>> BY <1>19 DEF Restart
    <3> QED BY <3>1, LiveViewAssumption
  <2>4. stream' \in {"connecting", "open", "closed"} /\ handler' = "none"
    BY <1>19 DEF Restart
  <2>5. UNCHANGED <<list, hydrateOwner, attentionOwner, screen, timers, history>>
    BY <1>19 DEF Restart
  <2>6. faults' \in Nat
    <3>1. faults' = faults + 1 BY <1>19 DEF Restart, SpendFault
    <3> QED BY <3>1 DEF TypeOK
  <2> QED BY <2>1, <2>2, <2>3, <2>4, <2>5, <2>6 DEF TypeOK, DashboardTypeOK
<1> QED
  BY <1>1, <1>2, <1>3, <1>4, <1>5, <1>6, <1>7, <1>8, <1>9, <1>10, <1>11, <1>12, <1>13,
     <1>14, <1>15, <1>16, <1>17, <1>18, <1>19
  DEF Next, Cycle, Connect, Progress

(* Every variable keeps its type (dashboard.svelte.ts, events.go). *)
THEOREM TypeCorrect == Spec => []TypeOK
<1>1. Init => TypeOK BY InitTypeOK
<1>2. TypeOK /\ [Next]_vars => TypeOK' BY NextTypeOK
<1> QED BY <1>1, <1>2, PTL DEF Spec

-----------------------------------------------------------------------------
(* The inductive invariant.                                                *)

(* The owner of a slice is in flight; the newest hydrate is a hydrate, and *)
(* a hydrate that is the newest request for the list is the newest hydrate. *)
OwnersInFlight ==
  /\ attentionOwner # NoOne => InFlight(attentionOwner)
  /\ hydrateOwner # NoOne => requests[hydrateOwner].kind = "hydrate"
  /\ attentionOwner # NoOne /\ requests[attentionOwner].kind = "hydrate"
       => hydrateOwner = attentionOwner

(* Nothing shown or answered is ahead of the server. *)
ReadsAreOld ==
  /\ shown <= list
  /\ \A r \in Requests : requests[r].status = "answered" => requests[r].version <= list

(* What the newest request brings is not older than what is shown: it was  *)
(* issued after the last one that was shown had settled.                   *)
NewestIsNewer ==
  attentionOwner # NoOne /\ requests[attentionOwner].status = "answered"
    => requests[attentionOwner].version >= shown

(* Frames wait only for a registered client. *)
QueueIsRegistered == ~registered => queue = <<>>

IInv == OwnersInFlight /\ ReadsAreOld /\ NewestIsNewer /\ QueueIsRegistered
        /\ OldListIsRefreshed

-----------------------------------------------------------------------------
(* What a step can do to the requests and to what is shown. *)

Breakdown ==
  /\ requests' = [r \in Requests |->
       IF InFlight(r) THEN [requests[r] EXCEPT !.status = "broken", !.version = 0]
       ELSE requests[r]]
  /\ UNCHANGED <<hydrateOwner, attentionOwner>>

LEMMA RequestSteps ==
  ASSUME TypeOK, [Next]_vars
  PROVE  \/ UNCHANGED <<requesting, shown>> /\ list' \in {list, list + 1}
         \/ UNCHANGED <<list, shown>> /\ hydrate
         \/ UNCHANGED <<list, shown>> /\ refreshAttention
         \/ /\ UNCHANGED <<list, shown, hydrateOwner, attentionOwner>>
            /\ \E r \in Requests : Read(r) \/ Break(r)
         \/ UNCHANGED <<list, shown>> /\ Breakdown
         \/ UNCHANGED list /\ \E r \in Requests : Settle(r)
<1> USE DEF requesting, screen, live
<1>1. CASE UNCHANGED vars
  BY <1>1 DEF vars
<1>2. CASE \E c \in Connections : Cycle(c)
  BY <1>2 DEF Cycle, EventsInserted, NothingInserted, SaveCursorsFails, AttentionChanged,
     CycleEnds, ChangeList
<1>3. CASE SetHandleNext
  BY <1>3 DEF SetHandleNext, ChangeList
<1>4. CASE Accept \/ register \/ scheduleReconnect \/ Deliver \/ LoseStream
  BY <1>4 DEF Accept, register, scheduleReconnect, Deliver, LoseStream
<1>5. CASE Opened \/ RetryTimer
  BY <1>5 DEF Opened, RetryTimer
<1>6. CASE RefetchTimer
  BY <1>6 DEF RefetchTimer
<1>7. CASE \E r \in Requests : Progress(r) \/ RequestBreaks(r)
  BY <1>7 DEF Progress, Answer, Settled, RequestBreaks
<1>8. CASE Restart
  BY <1>8 DEF Restart, Breakdown
<1> QED BY <1>1, <1>2, <1>3, <1>4, <1>5, <1>6, <1>7, <1>8 DEF Next, Connect

(* What is in a slot after a request is issued, answered, broken or settled. *)
LEMMA Issued ==
  ASSUME TypeOK, NEW kind \in {"hydrate", "refresh"}, NEW r \in Requests, Slot(r),
         requests' = [requests EXCEPT ![r] = Sent(kind)]
  PROVE  /\ requests'[r].kind = kind /\ requests'[r].status = "sent"
         /\ \A q \in Requests : q # r => requests'[q] = requests[q]
BY RequestSent DEF TypeOK, DashboardTypeOK

LEMMA Answered ==
  ASSUME TypeOK, NEW r \in Requests, Read(r)
  PROVE  /\ requests'[r].kind = requests[r].kind
         /\ requests'[r].status = "answered" /\ requests'[r].version = list
         /\ \A q \in Requests : q # r => requests'[q] = requests[q]
BY DEF Read, TypeOK, DashboardTypeOK, Request

LEMMA Broken ==
  ASSUME TypeOK, NEW r \in Requests, Break(r)
  PROVE  /\ requests'[r].kind = requests[r].kind
         /\ requests'[r].status \in Failures
         /\ \A q \in Requests : q # r => requests'[q] = requests[q]
<1>1. PICK failure \in Failures :
        requests' = [requests EXCEPT ![r].status = failure, ![r].version = 0]
  BY DEF Break
<1> QED BY <1>1 DEF TypeOK, DashboardTypeOK, Request

LEMMA BrokenDown ==
  ASSUME TypeOK, Breakdown, NEW r \in Requests
  PROVE  /\ requests'[r].kind = requests[r].kind
         /\ InFlight(r) => requests'[r].status = "broken"
         /\ ~InFlight(r) => requests'[r] = requests[r]
BY DEF Breakdown, InFlight, TypeOK, DashboardTypeOK, Request

LEMMA Released ==
  ASSUME TypeOK, NEW r \in Requests, Release(r)
  PROVE  /\ requests'[r].kind = "none" /\ requests'[r].status = "sent"
         /\ \A q \in Requests : q # r => requests'[q] = requests[q]
         /\ attentionOwner' # r /\ hydrateOwner' # r
         /\ attentionOwner' # NoOne => attentionOwner' = attentionOwner
         /\ hydrateOwner' # NoOne => hydrateOwner' = hydrateOwner
         /\ attentionOwner # r => attentionOwner' = attentionOwner
         /\ hydrateOwner # r => hydrateOwner' = hydrateOwner
<1>1. r # NoOne BY DashboardAssumption DEF Requests, NoOne
<1> QED BY <1>1, RequestIdle DEF Release, TypeOK, DashboardTypeOK

(* What a settled request does to the screen. *)
LEMMA SettledScreen ==
  ASSUME TypeOK, OwnersInFlight, NEW r \in Requests, Settle(r)
  PROVE  /\ Release(r) /\ InFlight(r)
         /\ \/ UNCHANGED <<shown, stale>>
            \/ UNCHANGED shown /\ stale' = TRUE
            \/ /\ attentionOwner = r /\ requests[r].status = "answered"
               /\ shown' = requests[r].version /\ stale' = FALSE
         /\ attentionOwner = r /\ requests[r].status = "answered"
              => shown' = requests[r].version
         /\ attentionOwner = r /\ Failed(r)
              => retry' = TRUE \/ ForgottenFailure(r) \/ "attention" \in Refusals(r)
         /\ retry => retry' = TRUE
         /\ UNCHANGED refetch
         /\ requests[r].status = "answered" \/ Failed(r)
<1> USE DEF screen, timers, Failed, Failures
<1>0. r # NoOne BY DashboardAssumption DEF Requests, NoOne
<1>1. CASE Hydrated(r)
  BY <1>0, <1>1 DEF Hydrated, ShowNewest, OwnersInFlight
<1>2. CASE HydrateFailed(r)
  <2>1. Release(r) /\ InFlight(r) /\ UNCHANGED <<shown, refetch>> /\ Failed(r)
    BY <1>2 DEF HydrateFailed
  <2>2. requests[r].status # "answered" BY <2>1
  <2>3. stale' = stale \/ stale' = TRUE
    BY <1>2 DEF HydrateFailed
  <2>4. retry => retry' = TRUE
    BY <1>2 DEF HydrateFailed, scheduleHydrateRetry, TypeOK, DashboardTypeOK
  <2>5. attentionOwner = r => retry' = TRUE \/ "attention" \in Refusals(r)
    <3> SUFFICES ASSUME attentionOwner = r PROVE retry' = TRUE \/ "attention" \in Refusals(r)
      OBVIOUS
    <3>1. hydrateOwner = r
      BY <1>0, <1>2 DEF HydrateFailed, OwnersInFlight
    <3>2. /\ retry' = (retry \/ requests[r].status = "broken") /\ retry \in BOOLEAN
          /\ requests[r].status \in {"broken", "refused"} /\ requests[r].kind = "hydrate"
      BY <1>2, <3>1 DEF HydrateFailed, scheduleHydrateRetry, TypeOK, DashboardTypeOK
    <3>3. requests[r].status = "refused" /\ ~retry => "attention" \in Refusals(r)
      BY <3>2 DEF Refusals, ForgottenFailure
    <3> QED BY <3>2, <3>3
  <2> QED BY <2>1, <2>2, <2>3, <2>4, <2>5
<1>3. CASE Refreshed(r)
  BY <1>3 DEF Refreshed, ShowNewest
<1>4. CASE RefreshFailed(r)
  <2>1. Release(r) /\ InFlight(r) /\ UNCHANGED <<shown, refetch>> /\ Failed(r)
    BY <1>4 DEF RefreshFailed
  <2>2. requests[r].status # "answered" BY <2>1
  <2>3. stale' = stale \/ stale' = TRUE
    BY <1>4 DEF RefreshFailed
  <2>4. retry => retry' = TRUE
    BY <1>4 DEF RefreshFailed, scheduleHydrateRetry, TypeOK, DashboardTypeOK
  <2>5. attentionOwner = r
          => retry' = TRUE \/ ForgottenFailure(r) \/ "attention" \in Refusals(r)
    BY <1>4 DEF RefreshFailed, scheduleHydrateRetry, Refusals, ForgottenFailure,
                TypeOK, DashboardTypeOK
  <2> QED BY <2>1, <2>2, <2>3, <2>4, <2>5
<1> QED BY <1>1, <1>2, <1>3, <1>4 DEF Settle

-----------------------------------------------------------------------------
(* The parts of the invariant, step by step. *)

LEMMA NextOwnersInFlight ==
  ASSUME TypeOK, OwnersInFlight, [Next]_vars
  PROVE  OwnersInFlight'
<1> USE DEF OwnersInFlight, InFlight
<1>1. CASE UNCHANGED <<requesting, shown>>
  BY <1>1 DEF requesting
<1>2. CASE hydrate
  <2>1. PICK r \in Requests :
          /\ Slot(r) /\ requests' = [requests EXCEPT ![r] = Sent("hydrate")]
          /\ hydrateOwner' = r /\ attentionOwner' = r
    BY <1>2 DEF hydrate
  <2> QED BY <2>1, Issued
<1>3. CASE refreshAttention
  <2>1. PICK r \in Requests :
          /\ Slot(r) /\ requests' = [requests EXCEPT ![r] = Sent("refresh")]
          /\ attentionOwner' = r /\ hydrateOwner' = hydrateOwner
    BY <1>3 DEF refreshAttention
  <2>2. ~InFlight(r) BY <2>1 DEF Slot
  <2>3. hydrateOwner # NoOne => hydrateOwner \in Requests /\ hydrateOwner # r
    BY <2>2 DEF TypeOK, DashboardTypeOK
  <2>4. /\ requests'[r].kind = "refresh"
        /\ \A q \in Requests : q # r => requests'[q] = requests[q]
    BY <2>1, Issued
  <2> QED BY <2>1, <2>3, <2>4
<1>4. CASE /\ UNCHANGED <<hydrateOwner, attentionOwner>>
           /\ \E r \in Requests : Read(r) \/ Break(r)
  <2>1. \A q \in Requests : requests'[q].kind = requests[q].kind
    BY <1>4, Answered, Broken
  <2> QED BY <1>4, <2>1 DEF TypeOK, DashboardTypeOK
<1>5. CASE Breakdown
  <2>1. \A q \in Requests : requests'[q].kind = requests[q].kind
    BY <1>5, BrokenDown
  <2> QED BY <1>5, <2>1 DEF Breakdown, TypeOK, DashboardTypeOK
<1>6. CASE \E r \in Requests : Settle(r)
  <2>1. PICK r \in Requests : Release(r) BY <1>6, SettledScreen
  <2> QED BY <2>1, Released DEF TypeOK, DashboardTypeOK
<1> QED BY <1>1, <1>2, <1>3, <1>4, <1>5, <1>6, RequestSteps

LEMMA NextReadsAreOld ==
  ASSUME TypeOK, OwnersInFlight, ReadsAreOld, [Next]_vars
  PROVE  ReadsAreOld'
<1> USE DEF ReadsAreOld
<1>0. /\ list \in Nat /\ shown \in Int
      /\ \A q \in Requests : requests[q].version \in Nat
  BY VersionType DEF TypeOK, DashboardTypeOK, Blank
<1>1. CASE UNCHANGED <<requesting, shown>> /\ list' \in {list, list + 1}
  BY <1>0, <1>1 DEF requesting
<1>2. CASE UNCHANGED <<list, shown>> /\ hydrate
  <2>1. PICK r \in Requests :
          Slot(r) /\ requests' = [requests EXCEPT ![r] = Sent("hydrate")]
    BY <1>2 DEF hydrate
  <2>2. /\ requests'[r].status = "sent"
        /\ \A q \in Requests : q # r => requests'[q] = requests[q]
    BY <2>1, Issued
  <2> QED BY <1>2, <2>2
<1>3. CASE UNCHANGED <<list, shown>> /\ refreshAttention
  <2>1. PICK r \in Requests :
          Slot(r) /\ requests' = [requests EXCEPT ![r] = Sent("refresh")]
    BY <1>3 DEF refreshAttention
  <2>2. /\ requests'[r].status = "sent"
        /\ \A q \in Requests : q # r => requests'[q] = requests[q]
    BY <2>1, Issued
  <2> QED BY <1>3, <2>2
<1>4. CASE /\ UNCHANGED <<list, shown>>
           /\ \E r \in Requests : Read(r) \/ Break(r)
  BY <1>0, <1>4, Answered, Broken DEF Failures
<1>5. CASE UNCHANGED <<list, shown>> /\ Breakdown
  BY <1>5, BrokenDown
<1>6. CASE UNCHANGED list /\ \E r \in Requests : Settle(r)
  <2>1. PICK r \in Requests : Settle(r) BY <1>6
  <2>2. shown' = shown \/ (requests[r].status = "answered" /\ shown' = requests[r].version)
    BY <2>1, SettledScreen
  <2>3. Release(r) BY <2>1, SettledScreen
  <2> QED BY <1>6, <2>2, <2>3, Released
<1> QED BY <1>1, <1>2, <1>3, <1>4, <1>5, <1>6, RequestSteps

LEMMA NextNewestIsNewer ==
  ASSUME TypeOK, OwnersInFlight, ReadsAreOld, NewestIsNewer, [Next]_vars
  PROVE  NewestIsNewer'
<1> USE DEF NewestIsNewer
<1>0. attentionOwner # NoOne => attentionOwner \in Requests
  BY DEF TypeOK, DashboardTypeOK
<1>1. CASE UNCHANGED <<requesting, shown>>
  BY <1>1 DEF requesting
<1>2. CASE UNCHANGED shown /\ hydrate
  <2>1. PICK r \in Requests :
          /\ Slot(r) /\ requests' = [requests EXCEPT ![r] = Sent("hydrate")]
          /\ attentionOwner' = r
    BY <1>2 DEF hydrate
  <2> QED BY <2>1, Issued
<1>3. CASE UNCHANGED shown /\ refreshAttention
  <2>1. PICK r \in Requests :
          /\ Slot(r) /\ requests' = [requests EXCEPT ![r] = Sent("refresh")]
          /\ attentionOwner' = r
    BY <1>3 DEF refreshAttention
  <2> QED BY <2>1, Issued
<1>4. CASE /\ UNCHANGED <<shown, attentionOwner>>
           /\ \E r \in Requests : Read(r) \/ Break(r)
  <2>1. shown \in Int /\ list \in Nat /\ shown <= list
    BY DEF TypeOK, DashboardTypeOK, Blank, ReadsAreOld
  <2>2. PICK r \in Requests : Read(r) \/ Break(r) BY <1>4
  <2>3. CASE Read(r)
    BY <1>0, <1>4, <2>1, <2>3, Answered
  <2>4. CASE Break(r)
    BY <1>0, <1>4, <2>4, Broken DEF Failures
  <2> QED BY <2>2, <2>3, <2>4
<1>5. CASE UNCHANGED shown /\ Breakdown
  BY <1>0, <1>5, BrokenDown DEF Breakdown, OwnersInFlight
<1>6. CASE \E r \in Requests : Settle(r)
  <2>1. PICK r \in Requests : Settle(r) BY <1>6
  <2>2. Release(r) BY <2>1, SettledScreen
  <2>3. CASE attentionOwner = r
    BY <2>2, <2>3, Released
  <2>4. CASE attentionOwner # r
    <3>1. shown' = shown BY <2>1, <2>4, SettledScreen
    <3> QED BY <1>0, <2>2, <2>4, <3>1, Released
  <2> QED BY <2>3, <2>4
<1> QED BY <1>1, <1>2, <1>3, <1>4, <1>5, <1>6, RequestSteps

LEMMA NextQueueIsRegistered ==
  ASSUME QueueIsRegistered, [Next]_vars
  PROVE  QueueIsRegistered'
<1> USE DEF QueueIsRegistered, registered, live
<1>1. CASE UNCHANGED vars
  BY <1>1 DEF vars
<1>2. CASE \E c \in Connections : AttentionChanged(c) \/ CycleEnds(c)
  BY <1>2 DEF AttentionChanged, CycleEnds, broadcast
<1>3. CASE \E c \in Connections : EventsInserted(c) \/ NothingInserted(c) \/ SaveCursorsFails(c)
  BY <1>3 DEF EventsInserted, NothingInserted, SaveCursorsFails
<1>4. CASE SetHandleNext \/ Accept \/ register \/ Opened \/ scheduleReconnect
  BY <1>4 DEF SetHandleNext, Accept, register, Opened, scheduleReconnect
<1>5. CASE Deliver \/ LoseStream \/ Restart
  BY <1>5 DEF Deliver, LoseStream, Restart
<1>6. CASE RefetchTimer \/ RetryTimer
  BY <1>6 DEF RefetchTimer, RetryTimer
<1>7. CASE \E r \in Requests : Progress(r) \/ RequestBreaks(r)
  BY <1>7 DEF Progress, Answer, Settled, RequestBreaks
<1> QED BY <1>1, <1>2, <1>3, <1>4, <1>5, <1>6, <1>7 DEF Next, Cycle, Connect

-----------------------------------------------------------------------------
(* The list is refreshed: what keeps the news under way. *)

AttentionQueued == \E i \in DOMAIN queue : queue[i] = "attention"

NewestWillShow ==
  /\ attentionOwner # NoOne
  /\ requests[attentionOwner].status = "answered"
       => requests[attentionOwner].version = list

(* A frame that is broadcast is queued, or missed, or not needed. *)
LEMMA BroadcastQueues ==
  ASSUME TypeOK, NEW frame \in Frames, broadcast(frame)
  PROVE  /\ AttentionQueued => AttentionQueued'
         /\ missed => missed'
         /\ frame = "attention" => AttentionQueued' \/ missed' \/ stream # "open"
<1> USE DEF AttentionQueued
<1>1. CASE registered /\ Len(queue) < Buffer
  <2>1. queue \in Seq(Frames) BY DEF TypeOK
  <2>2. queue' = Append(queue, frame) /\ missed' = missed
    BY <1>1 DEF broadcast, missed
  <2>3. /\ DOMAIN queue \subseteq DOMAIN queue'
        /\ \A i \in DOMAIN queue : queue'[i] = queue[i]
        /\ Len(queue) + 1 \in DOMAIN queue' /\ queue'[Len(queue) + 1] = frame
    BY <2>1, <2>2
  <2> QED BY <2>2, <2>3
<1>2. CASE ~(registered /\ Len(queue) < Buffer)
  <2>1. /\ queue' = queue /\ (missed => missed')
        /\ frame = "attention" /\ stream = "open" => missed'
    BY <1>2 DEF broadcast, Untold, missed
  <2> QED BY <2>1
<1> QED BY <1>1, <1>2

LEMMA DeliverKeepsNews ==
  ASSUME TypeOK, Deliver, AttentionQueued
  PROVE  refetch' = TRUE \/ AttentionQueued'
<1>1. queue \in Seq(Frames) /\ queue # <<>> /\ queue' = Tail(queue)
  BY DEF TypeOK, Deliver
<1>2. PICK i \in 1..Len(queue) : queue[i] = "attention"
  BY <1>1 DEF AttentionQueued
<1>3. CASE i = 1
  <2>1. Head(queue) = "attention" BY <1>1, <1>2, <1>3
  <2> QED BY <2>1 DEF Deliver
<1>4. CASE i # 1
  <2>1. i - 1 \in DOMAIN queue' /\ queue'[i - 1] = queue[i]
    BY <1>1, <1>2, <1>4
  <2> QED BY <1>2, <2>1 DEF AttentionQueued
<1> QED BY <1>2, <1>3, <1>4

(* A request that was just issued will show the list. *)
LEMMA IssuedWillShow ==
  ASSUME TypeOK, hydrate \/ refreshAttention
  PROVE  NewestWillShow'
<1>1. PICK r \in Requests, kind \in {"hydrate", "refresh"} :
        /\ Slot(r) /\ requests' = [requests EXCEPT ![r] = Sent(kind)]
        /\ attentionOwner' = r
  BY DEF hydrate, refreshAttention
<1>2. requests'[r].status = "sent" BY <1>1, Issued
<1>3. r # NoOne BY DEF Requests, NoOne
<1> QED BY <1>1, <1>2, <1>3 DEF NewestWillShow

LEMMA NextOldListIsRefreshed ==
  ASSUME TypeOK, IInv, [Next]_vars
  PROVE  OldListIsRefreshed'
<1> USE DEF requesting, screen, timers, live, history
<1> DEFINE forgiven == "attention" \in refused
<1>a. /\ OwnersInFlight /\ ReadsAreOld /\ NewestIsNewer /\ QueueIsRegistered
      /\ shown = list \/ missed \/ forgiven \/ NewsUnderWay
  BY DEF IInv, OldListIsRefreshed
<1>d. untold' = untold => missed' = missed
  BY DEF missed
<1>e. refused' = refused => forgiven' = forgiven
  OBVIOUS
<1>b. NewsUnderWay <=> \/ refetch \/ retry
                       \/ stream # "open"
                       \/ AttentionQueued
                       \/ \E c \in Connections : engine[c] = "stored"
                       \/ NewestWillShow
  BY DEF NewsUnderWay, AttentionQueued, NewestWillShow
<1>c. NewsUnderWay' <=> \/ refetch' \/ retry'
                        \/ stream' # "open"
                        \/ AttentionQueued'
                        \/ \E c \in Connections : engine'[c] = "stored"
                        \/ NewestWillShow'
  BY DEF NewsUnderWay, AttentionQueued, NewestWillShow
<1> SUFFICES shown' = list' \/ missed' \/ forgiven' \/ NewsUnderWay'
  BY DEF OldListIsRefreshed
<1>1. CASE UNCHANGED vars
  <2>1. UNCHANGED <<list, requesting, screen, timers, live, untold, refused>>
    BY <1>1 DEF vars
  <2> QED BY <2>1, <1>a, <1>b, <1>c, <1>d DEF AttentionQueued, NewestWillShow
<1>2. ASSUME NEW c \in Connections, EventsInserted(c) PROVE NewsUnderWay'
  <2>1. engine'[c] = "stored"
    BY <1>2 DEF EventsInserted, At, TypeOK
  <2> QED BY <2>1, <1>c
<1>3. ASSUME NEW c \in Connections, SaveCursorsFails(c) PROVE missed'
  BY <1>3 DEF SaveCursorsFails, Untold, missed
<1>4. ASSUME NEW c \in Connections, AttentionChanged(c)
      PROVE  missed' \/ NewsUnderWay'
  <2>1. broadcast("attention") /\ stream' = stream
    BY <1>4 DEF AttentionChanged
  <2> QED BY <2>1, <1>c, BroadcastQueues DEF Frames
<1>5. ASSUME NEW c \in Connections, NothingInserted(c) \/ CycleEnds(c)
      PROVE  shown' = list' \/ missed' \/ forgiven' \/ NewsUnderWay'
  <2>1. \A d \in Connections : engine[d] = "stored" => engine'[d] = "stored"
    BY <1>5 DEF NothingInserted, CycleEnds, At, TypeOK
  <2>2. UNCHANGED <<list, requesting, screen, timers, stream, refused>>
    BY <1>5 DEF NothingInserted, CycleEnds
  <2>3. (AttentionQueued => AttentionQueued') /\ (missed => missed')
    BY <1>5, <1>d, BroadcastQueues DEF NothingInserted, CycleEnds, Frames, AttentionQueued
  <2>4. NewestWillShow => NewestWillShow' BY <2>2 DEF NewestWillShow
  <2> QED BY <1>a, <1>b, <1>c, <2>1, <2>2, <2>3, <2>4
<1>6. CASE SetHandleNext
  <2>1. missed' BY <1>6 DEF SetHandleNext, Untold, missed
  <2> QED BY <2>1
<1>7. CASE Accept \/ register
  <2>1. UNCHANGED <<list, requesting, screen, timers, stream, untold, refused, engine>>
    BY <1>7 DEF Accept, register
  <2>2. AttentionQueued => AttentionQueued'
    BY <1>7, <1>a DEF Accept, register, AttentionQueued, QueueIsRegistered, registered
  <2>3. NewestWillShow => NewestWillShow' BY <2>1 DEF NewestWillShow
  <2> QED BY <1>a, <1>b, <1>c, <1>d, <2>1, <2>2, <2>3
<1>8. CASE scheduleReconnect \/ LoseStream \/ Restart
  <2>1. stream' # "open" BY <1>8 DEF scheduleReconnect, LoseStream, Restart
  <2> QED BY <2>1, <1>c
<1>9. CASE Opened \/ RefetchTimer \/ RetryTimer
  <2>1. hydrate \/ refreshAttention BY <1>9 DEF Opened, RefetchTimer, RetryTimer
  <2> QED BY <2>1, <1>c, IssuedWillShow
<1>10. CASE Deliver
  <2>1. UNCHANGED <<list, requesting, screen, retry, stream, untold, refused, engine>>
    BY <1>10 DEF Deliver
  <2>2. refetch => refetch' BY <1>10 DEF Deliver
  <2>3. NewestWillShow => NewestWillShow' BY <2>1 DEF NewestWillShow
  <2> QED BY <1>10, <1>a, <1>b, <1>c, <1>d, <2>1, <2>2, <2>3, DeliverKeepsNews
<1>11. ASSUME NEW r \in Requests, Answer(r) \/ RequestBreaks(r)
       PROVE  shown' = list' \/ missed' \/ forgiven' \/ NewsUnderWay'
  <2>1. UNCHANGED <<list, attentionOwner, screen, timers, live, untold, refused>>
    BY <1>11 DEF Answer, RequestBreaks
  <2>2. Read(r) \/ Break(r) BY <1>11 DEF Answer, RequestBreaks
  <2>3. NewestWillShow => NewestWillShow'
    BY <2>1, <2>2, Answered, Broken DEF Failures, NewestWillShow, TypeOK, DashboardTypeOK
  <2> QED BY <1>a, <1>b, <1>c, <1>d, <2>1, <2>3 DEF AttentionQueued
<1>12. ASSUME NEW r \in Requests, Settled(r)
       PROVE  shown' = list' \/ missed' \/ forgiven' \/ NewsUnderWay'
  <2>1. Settle(r) /\ UNCHANGED <<list, live>> BY <1>12 DEF Settled
  <2>2. (missed => missed') /\ (forgiven => forgiven')
    BY <1>12 DEF Settled, Untold, missed
  <2>3. Release(r) /\ (retry => retry' = TRUE) /\ refetch' = refetch
    BY <1>a, <2>1, SettledScreen
  <2>4. CASE attentionOwner # r
    <3>1. shown' = shown BY <1>a, <2>1, <2>4, SettledScreen
    <3>2. NewestWillShow => NewestWillShow'
      BY <2>1, <2>3, <2>4, Released DEF NewestWillShow, TypeOK, DashboardTypeOK
    <3> QED BY <1>a, <1>b, <1>c, <2>1, <2>2, <2>3, <3>1, <3>2 DEF AttentionQueued
  <2>5. CASE attentionOwner = r /\ requests[r].status = "answered"
    <3>1. shown' = requests[r].version BY <1>a, <2>1, <2>5, SettledScreen
    <3>2. /\ requests[r].version <= list /\ requests[r].version >= shown
          /\ requests[r].version \in Nat /\ list \in Nat /\ shown \in Int
      BY <1>a, <2>5, VersionType
      DEF ReadsAreOld, NewestIsNewer, TypeOK, DashboardTypeOK, Blank, Requests, NoOne
    <3>3. NewestWillShow => shown' = list'
      BY <2>1, <2>5, <3>1 DEF NewestWillShow
    <3>4. shown = list => shown' = list'
      BY <2>1, <3>1, <3>2
    <3> QED BY <1>a, <1>b, <1>c, <2>1, <2>2, <2>3, <3>3, <3>4 DEF AttentionQueued
  <2>6. CASE attentionOwner = r /\ Failed(r)
    <3>1. retry' = TRUE \/ ForgottenFailure(r) \/ "attention" \in Refusals(r)
      BY <1>a, <2>1, <2>6, SettledScreen
    <3>2. ForgottenFailure(r) => missed'
      BY <1>12 DEF Settled, Untold, missed
    <3>3. "attention" \in Refusals(r) => forgiven'
      BY <1>12 DEF Settled
    <3> QED BY <1>c, <3>1, <3>2, <3>3
  <2> QED BY <1>a, <2>1, <2>4, <2>5, <2>6, SettledScreen
<1> QED
  BY <1>1, <1>2, <1>3, <1>4, <1>5, <1>6, <1>7, <1>8, <1>9, <1>10, <1>11, <1>12
  DEF Next, Cycle, Connect, Progress

-----------------------------------------------------------------------------
(* Invariance, and what follows from it. *)

LEMMA InitIInv == Init => IInv
<1> SUFFICES ASSUME Init PROVE IInv
  OBVIOUS
<1>1. 1 \in Requests BY DashboardAssumption DEF Requests
<1>2. requests[1] = Sent("hydrate") /\ \A r \in Requests : requests[r].status = "sent"
  BY <1>1, RequestSent, RequestIdle DEF Init, DashboardInit
<1>3. OwnersInFlight
  BY <1>2, RequestSent DEF Init, DashboardInit, OwnersInFlight, InFlight
<1>4. ReadsAreOld
  BY <1>2 DEF Init, DashboardInit, ReadsAreOld, Blank
<1>5. NewestIsNewer
  BY <1>1, <1>2 DEF Init, DashboardInit, NewestIsNewer
<1>6. QueueIsRegistered /\ OldListIsRefreshed
  BY DEF Init, QueueIsRegistered, OldListIsRefreshed, NewsUnderWay
<1> QED BY <1>3, <1>4, <1>5, <1>6 DEF IInv

LEMMA NextIInv == TypeOK /\ IInv /\ [Next]_vars => IInv'
BY NextOwnersInFlight, NextReadsAreOld, NextNewestIsNewer, NextQueueIsRegistered,
   NextOldListIsRefreshed DEF IInv

(* The invariant behind the theorems below: the generations of dashboard,  *)
(* the client's channel and what is under way.                             *)
THEOREM Invariance == Spec => [](TypeOK /\ IInv)
<1>1. Init => TypeOK /\ IInv BY InitTypeOK, InitIInv
<1>2. TypeOK /\ IInv /\ [Next]_vars => TypeOK' /\ IInv' BY NextTypeOK, NextIInv
<1> QED BY <1>1, <1>2, PTL DEF Spec

(* The tab never sits on an old list with nothing under way, unless its    *)
(* newest read failed for good or it was one of the changes nobody told it *)
(* of (events.go, dashboard.svelte.ts, retry.ts).                          *)
THEOREM RefreshTheorem == Spec => []OldListIsRefreshed
<1>1. IInv => OldListIsRefreshed BY DEF IInv
<1> QED BY <1>1, Invariance, PTL

(* The live list implements LaggingView (INV-9): what is shown was the     *)
(* list, and only a later list replaces it.                                *)
THEOREM ViewTheorem == Spec => ViewImplemented
<1>1. Init => View!Init
  BY DEF Init, DashboardInit, View!Init, Blank, View!Blank
<1>2. TypeOK /\ IInv /\ [Next]_vars => [View!Next]_<<list, shown>>
  <2> SUFFICES ASSUME TypeOK, IInv, [Next]_vars PROVE [View!Next]_<<list, shown>>
    OBVIOUS
  <2> USE DEF View!Next, View!Change, View!CatchUp
  <2>1. CASE UNCHANGED shown /\ list' \in {list, list + 1}
    BY <2>1
  <2>2. CASE UNCHANGED list /\ \E r \in Requests : Settle(r)
    <3>1. PICK r \in Requests : Settle(r) BY <2>2
    <3>2. CASE shown' = shown
      BY <2>2, <3>2
    <3>3. CASE /\ attentionOwner = r /\ requests[r].status = "answered"
               /\ shown' = requests[r].version
      <4>1. /\ requests[r].version <= list /\ requests[r].version >= shown
            /\ requests[r].version \in Nat /\ list \in Nat /\ shown \in Int
        BY <3>3, VersionType
        DEF IInv, ReadsAreOld, NewestIsNewer, TypeOK, DashboardTypeOK, Blank, Requests, NoOne
      <4> QED BY <2>2, <3>3, <4>1
    <3> QED BY <3>1, <3>2, <3>3, SettledScreen DEF IInv
  <2> QED BY <2>1, <2>2, RequestSteps
<1> QED BY <1>1, <1>2, Invariance, PTL DEF Spec, ViewImplemented, View!Spec

(* Only a read newer than the failure clears the stale mark (INV-9; the    *)
(* guarded blocks of hydrate and refreshAttention).                        *)
THEOREM NewerErrorTheorem == Spec => NewerErrorStays
<1>1. ASSUME TypeOK, IInv, [Next]_vars, stale, ~stale'
      PROVE  /\ attentionOwner # NoOne /\ requests[attentionOwner].status = "answered"
             /\ shown' = requests[attentionOwner].version
  <2>1. CASE stale' = stale
    BY <1>1, <2>1
  <2>2. CASE \E r \in Requests : Settle(r)
    <3>1. PICK r \in Requests : Settle(r) BY <2>2
    <3>2. r # NoOne BY DEF Requests, NoOne
    <3> QED BY <1>1, <3>1, <3>2, SettledScreen DEF IInv
  <2>3. stale' = stale \/ \E r \in Requests : Settle(r)
    BY <1>1 DEF Next, vars, screen, Cycle, EventsInserted, NothingInserted,
       SaveCursorsFails, AttentionChanged, CycleEnds, SetHandleNext, Connect, Accept,
       register, Opened, scheduleReconnect, Deliver, LoseStream, RefetchTimer, RetryTimer,
       Progress, Answer, Settled, RequestBreaks, Restart
  <2> QED BY <2>1, <2>2, <2>3
<1>2. TypeOK /\ IInv /\ [Next]_vars =>
        [stale /\ ~stale' =>
           attentionOwner # NoOne /\ requests[attentionOwner].status = "answered"
           /\ shown' = requests[attentionOwner].version]_vars
  BY <1>1
<1> QED BY <1>2, Invariance, PTL DEF Spec, NewerErrorStays

-----------------------------------------------------------------------------
(* Error states. *)

(* An error state never stays on the screen with nothing under way, unless *)
(* the newest read failed for good with no retry pending: a list called    *)
(* stale has a read in flight or a retry that waits, and so has a first    *)
(* load that failed; one that goes on has its hydrate in flight; and only  *)
(* a list that was loaded once is called stale (scheduleHydrateRetry,      *)
(* hydrate; dashboard.svelte.ts).                                          *)
ErrorsUnderWay ==
  /\ stale => ready /\ (retry \/ attentionOwner # NoOne \/ refused # {})
  /\ loadError => retry \/ hydrateOwner # NoOne \/ "hydrate" \in refused
  /\ loading => hydrateOwner # NoOne

LEMMA ScreenSteps ==
  ASSUME [Next]_vars
  PROVE  \/ UNCHANGED <<hydrateOwner, attentionOwner, screen, retry, refused>>
         \/ UNCHANGED screen /\ hydrate
         \/ /\ UNCHANGED <<screen, retry>> /\ refreshAttention
            /\ refused' = refused \ {"attention"}
         \/ \E r \in Requests : Settled(r)
<1> USE DEF requesting, timers, live, history
<1>1. CASE UNCHANGED vars
  BY <1>1 DEF vars
<1>2. CASE \E c \in Connections : Cycle(c)
  BY <1>2 DEF Cycle, EventsInserted, NothingInserted, SaveCursorsFails, AttentionChanged,
     CycleEnds, ChangeList
<1>3. CASE SetHandleNext
  BY <1>3 DEF SetHandleNext, ChangeList
<1>4. CASE Accept \/ register \/ scheduleReconnect \/ Deliver \/ LoseStream
  BY <1>4 DEF Accept, register, scheduleReconnect, Deliver, LoseStream
<1>5. CASE Opened \/ RetryTimer
  BY <1>5 DEF Opened, RetryTimer
<1>6. CASE RefetchTimer
  BY <1>6 DEF RefetchTimer
<1>7. CASE \E r \in Requests : Progress(r) \/ RequestBreaks(r)
  BY <1>7 DEF Progress, Answer, RequestBreaks
<1>8. CASE Restart
  BY <1>8 DEF Restart
<1> QED BY <1>1, <1>2, <1>3, <1>4, <1>5, <1>6, <1>7, <1>8 DEF Next, Connect

(* A failure of the newest request of a slice is retried, or remembered. *)
LEMMA FailureIsRemembered ==
  ASSUME TypeOK, NEW r \in Requests, Settled(r), Failed(r), scheduleHydrateRetry(r)
  PROVE  /\ hydrateOwner = r => retry' \/ "hydrate" \in refused'
         /\ attentionOwner = r /\ ~ForgottenFailure(r) => retry' \/ "attention" \in refused'
         /\ retry => retry'
<1>1. requests[r].status \in {"broken", "refused"} /\ retry \in BOOLEAN
  BY DEF Failed, Failures, TypeOK, DashboardTypeOK
<1>2. refused' = refused \cup Refusals(r)
  BY DEF Settled
<1> QED BY <1>1, <1>2 DEF scheduleHydrateRetry, Refusals

LEMMA NextErrorsUnderWay ==
  ASSUME TypeOK, OwnersInFlight, ErrorsUnderWay, [Next]_vars
  PROVE  ErrorsUnderWay'
<1> USE DEF ErrorsUnderWay
<1>0. NoOne \notin Requests
  BY DashboardAssumption DEF Requests, NoOne
<1>1. CASE UNCHANGED <<hydrateOwner, attentionOwner, screen, retry, refused>>
  BY <1>1 DEF screen
<1>2. CASE UNCHANGED screen /\ hydrate
  <2>1. hydrateOwner' # NoOne /\ attentionOwner' # NoOne
    BY <1>0, <1>2, HydrateType
  <2> QED BY <1>2, <2>1 DEF screen
<1>3. CASE /\ UNCHANGED <<screen, retry>> /\ refreshAttention
           /\ refused' = refused \ {"attention"}
  <2>1. hydrateOwner' = hydrateOwner /\ attentionOwner' # NoOne
    BY <1>0, <1>3, RefreshType
  <2> QED BY <1>3, <2>1 DEF screen
<1>4. ASSUME NEW r \in Requests, Settled(r) PROVE ErrorsUnderWay'
  <2>0. Settle(r) /\ refused \subseteq refused'
    BY <1>4 DEF Settled
  <2>1. /\ hydrateOwner # r => hydrateOwner' = hydrateOwner
        /\ attentionOwner # r => attentionOwner' = attentionOwner
    BY <2>0, SettledScreen, Released
  <2>2. CASE Hydrated(r)
    <3>1. attentionOwner = r => hydrateOwner = r
      BY <1>0, <2>2 DEF Hydrated, OwnersInFlight
    <3>2. UNCHANGED retry /\ (hydrateOwner # r => UNCHANGED screen)
      BY <2>2 DEF Hydrated, timers
    <3>3. CASE hydrateOwner # r
      BY <2>0, <2>1, <3>1, <3>2, <3>3 DEF screen
    <3>4. CASE hydrateOwner = r
      <4>1. /\ ready' = TRUE /\ loadError' = FALSE /\ loading' = FALSE
            /\ IF attentionOwner = r THEN stale' = FALSE ELSE stale' = stale
        BY <2>2, <3>4 DEF Hydrated, ShowNewest
      <4> QED BY <2>0, <2>1, <3>2, <4>1
    <3> QED BY <3>3, <3>4
  <2>3. CASE HydrateFailed(r)
    <3>1. attentionOwner = r => hydrateOwner = r
      BY <1>0, <2>3 DEF HydrateFailed, OwnersInFlight
    <3>2. CASE hydrateOwner # r
      <4>1. UNCHANGED <<stale, ready, loadError, loading, retry>>
        BY <2>3, <3>2 DEF HydrateFailed
      <4> QED BY <2>0, <2>1, <3>1, <3>2, <4>1
    <3>3. CASE hydrateOwner = r
      <4>1. /\ retry' \/ "hydrate" \in refused'
            /\ retry => retry'
        BY <1>4, <2>3, <3>3, FailureIsRemembered DEF HydrateFailed
      <4>2. /\ ready' = ready /\ loading' = FALSE
            /\ stale' => stale \/ ready
        BY <2>3, <3>3 DEF HydrateFailed
      <4> QED BY <4>1, <4>2
    <3> QED BY <3>2, <3>3
  <2>4. CASE Refreshed(r)
    <3>1. hydrateOwner # r
      BY <1>0, <2>4 DEF Refreshed, OwnersInFlight
    <3> QED BY <2>0, <2>1, <2>4, <3>1 DEF Refreshed, ShowNewest, timers
  <2>5. CASE RefreshFailed(r)
    <3>1. hydrateOwner # r
      BY <1>0, <2>5 DEF RefreshFailed, OwnersInFlight
    <3>2. UNCHANGED <<ready, loadError, loading>>
      BY <2>5 DEF RefreshFailed
    <3>3. CASE attentionOwner = r /\ ready
      <4>1. /\ retry' \/ "attention" \in refused'
            /\ retry => retry'
        BY <1>4, <2>5, <3>3, FailureIsRemembered DEF RefreshFailed, ForgottenFailure
      <4> QED BY <2>0, <2>1, <3>1, <3>2, <3>3, <4>1
    <3>4. CASE ~(attentionOwner = r /\ ready)
      <4>1. UNCHANGED <<stale, retry>>
        BY <2>5, <3>4 DEF RefreshFailed
      <4> QED BY <2>0, <2>1, <3>1, <3>2, <3>4, <4>1
    <3> QED BY <3>3, <3>4
  <2> QED BY <2>0, <2>2, <2>3, <2>4, <2>5 DEF Settle
<1> QED BY <1>1, <1>2, <1>3, <1>4, ScreenSteps

(* An error state never stays with nothing under way: the part of          *)
(* ErrorsPass that needs no fairness.                                      *)
THEOREM ErrorsTheorem == Spec => []ErrorsUnderWay
<1>1. Init => ErrorsUnderWay
  BY DEF Init, DashboardInit, ErrorsUnderWay, NoOne
<1>2. TypeOK /\ IInv /\ ErrorsUnderWay /\ [Next]_vars => ErrorsUnderWay'
  BY NextErrorsUnderWay DEF IInv
<1> QED BY <1>1, <1>2, Invariance, PTL DEF Spec
=============================================================================
