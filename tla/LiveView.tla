------------------------------- MODULE LiveView -------------------------------
(***************************************************************************)
(* One browser tab that follows the attention list: the engine's cycles,   *)
(* the hub that tells the tab of changes, the event stream, and the        *)
(* dashboard (cycle.go, events.go, sse.ts, dashboard.svelte.ts).           *)
(*                                                                         *)
(* A frame says that something changed, never what.  Frames other than     *)
(* attention.changed lead to reads of other slices and are "sync" here.    *)
(***************************************************************************)
EXTENDS Dashboard, Sequences

CONSTANTS
  Connections,   \* the connections the engine polls
  Buffer,        \* frames a client's channel holds (sseClientBuffer)
  MaxChanges,    \* bound: changes of the list
  MaxFaults      \* bound: failed writes, failed requests, lost streams, restarts

ASSUME LiveViewAssumption ==
  /\ Buffer \in Nat \ {0}
  /\ MaxChanges \in Nat /\ MaxFaults \in Nat

VARIABLES
  engine,    \* how far the cycle of each connection is
  handler,   \* the server's end of the stream: headers out, then registered
  queue,     \* the client's channel in the hub
  stream,    \* the browser's end
  untold,    \* history: why no one told the tab of a change since its last request
  refused,   \* history: slices whose newest request failed and will not be retried
  faults     \* how much of the budget is used

live == <<engine, handler, queue, stream>>
history == <<untold, refused>>
vars == <<list, requesting, screen, timers, live, history, faults>>

Frames == {"attention", "sync"}

(* The frame found no room or no client, the cursor write failed, the      *)
(* change was a pin, a failed refresh was forgotten.                       *)
Reasons == {"frame", "cursors", "pin", "load"}
Untold(reason) == untold' = untold \cup {reason}

Init ==
  /\ DashboardInit
  /\ engine = [c \in Connections |-> "idle"]
  /\ handler = "none" /\ queue = <<>> /\ stream = "connecting"
  /\ untold = {} /\ refused = {} /\ faults = 0

SpendFault ==
  /\ faults < MaxFaults
  /\ faults' = faults + 1

ChangeList ==
  /\ list < MaxChanges
  /\ list' = list + 1

-----------------------------------------------------------------------------
(* The hub. *)

registered == handler = "registered"

(* Mutant: the hub counts on a queued frame to bring the client up to date. *)
broadcastUnlessQueued(frame) ==
  IF registered /\ queue = <<>>
  THEN queue' = Append(queue, frame) /\ UNCHANGED untold
  ELSE UNCHANGED <<queue, untold>>

(* Mutant: a full channel is not looked at. *)
broadcastUnbounded(frame) ==
  IF registered
  THEN queue' = Append(queue, frame) /\ UNCHANGED untold
  ELSE /\ UNCHANGED queue
       /\ IF frame = "attention" /\ stream = "open"
          THEN Untold("frame")
          ELSE UNCHANGED untold

(* A client that is not registered, or whose channel is full, is skipped.  *)
(* A tab whose stream is not open reads everything once it is.             *)
broadcast(frame) ==
  IF registered /\ Len(queue) < Buffer
  THEN queue' = Append(queue, frame) /\ UNCHANGED untold
  ELSE /\ UNCHANGED queue
       /\ IF frame = "attention" /\ stream = "open"
          THEN Untold("frame")
          ELSE UNCHANGED untold

-----------------------------------------------------------------------------
(* The end of a cycle, step by step (persist, fail). *)

At(c, from, to) ==
  /\ engine[c] = from
  /\ engine' = [engine EXCEPT ![c] = to]

EventsInserted(c) ==
  /\ At(c, "idle", "stored")
  /\ ChangeList
  /\ UNCHANGED <<requesting, screen, timers, handler, queue, stream, history, faults>>

(* The events are stored and no one will be told: the retry inserts nothing. *)
SaveCursorsFails(c) ==
  /\ At(c, "stored", "failed")
  /\ SpendFault
  /\ Untold("cursors")
  /\ UNCHANGED <<list, requesting, screen, timers, handler, queue, stream, refused>>

AttentionChanged(c) ==
  /\ At(c, "stored", "completed")
  /\ broadcast("attention")
  /\ UNCHANGED <<list, requesting, screen, timers, handler, stream, refused, faults>>

(* A cycle that inserted nothing, or one that failed before its write. *)
NothingInserted(c) ==
  /\ At(c, "idle", "completed") \/ At(c, "idle", "failed")
  /\ UNCHANGED <<list, requesting, screen, timers, handler, queue, stream, history, faults>>

(* SyncCompleted, SyncFailed. *)
CycleEnds(c) ==
  /\ At(c, "completed", "idle") \/ At(c, "failed", "idle")
  /\ broadcast("sync")
  /\ UNCHANGED <<list, requesting, screen, timers, handler, stream, refused, faults>>

(* A pin is a change of the list that is not broadcast. *)
SetHandleNext ==
  /\ ChangeList
  /\ Untold("pin")
  /\ UNCHANGED <<requesting, screen, timers, live, refused, faults>>

-----------------------------------------------------------------------------
(* The stream. *)

(* handleEvents: the headers go out before the client is registered. *)
Accept ==
  /\ stream = "connecting" /\ handler = "none"
  /\ handler' = "flushed"
  /\ UNCHANGED <<list, requesting, screen, timers, engine, queue, stream, history, faults>>

register ==
  /\ handler = "flushed"
  /\ handler' = "registered" /\ queue' = <<>>
  /\ UNCHANGED <<list, requesting, screen, timers, engine, stream, history, faults>>

(* Mutant: a stream that opens does not read again. *)
OpenedWithoutRead ==
  /\ stream = "connecting" /\ handler # "none"
  /\ stream' = "open"
  /\ UNCHANGED <<list, requesting, screen, timers, engine, handler, queue, history, faults>>

(* The headers arrive: everything is read again. *)
Opened ==
  /\ stream = "connecting" /\ handler # "none"
  /\ stream' = "open"
  /\ hydrate /\ untold' = {} /\ refused' = {}
  /\ UNCHANGED <<list, screen, refetch, engine, handler, queue, faults>>

Deliver ==
  /\ stream = "open" /\ registered /\ queue # <<>>
  /\ queue' = Tail(queue)
  /\ refetch' = (refetch \/ Head(queue) = "attention")
  /\ UNCHANGED <<list, requesting, screen, retry, engine, handler, stream, history, faults>>

(* The connection breaks: the browser connects again by itself, or gives   *)
(* up, as it does when it is refused.                                      *)
LoseStream ==
  /\ SpendFault
  /\ stream # "closed"
  /\ stream' \in {"connecting", "closed"}
  /\ handler' = "none" /\ queue' = <<>>
  /\ UNCHANGED <<list, requesting, screen, timers, engine, history>>

scheduleReconnect ==
  /\ stream = "closed"
  /\ stream' = "connecting"
  /\ UNCHANGED <<list, requesting, screen, timers, engine, handler, queue, history, faults>>

-----------------------------------------------------------------------------
(* The dashboard's timers and requests. *)

RefetchTimer ==
  /\ refetch /\ refetch' = FALSE
  /\ refreshAttention /\ untold' = {} /\ refused' = refused \ {"attention"}
  /\ UNCHANGED <<list, screen, retry, live, faults>>

RetryTimer ==
  /\ retry
  /\ hydrate /\ untold' = {} /\ refused' = {}
  /\ UNCHANGED <<list, screen, refetch, live, faults>>

Answer(r) ==
  /\ Read(r)
  /\ UNCHANGED <<list, hydrateOwner, attentionOwner, screen, timers, live, history, faults>>

RequestBreaks(r) ==
  /\ Break(r)
  /\ SpendFault
  /\ UNCHANGED <<list, hydrateOwner, attentionOwner, screen, timers, live, history>>

(* The slices a failure leaves without a newer read: it is not retriable,  *)
(* and no retry is pending.                                                *)
Refusals(r) ==
  { slice \in {"hydrate", "attention"} :
      /\ requests[r].status = "refused" /\ ~retry
      /\ slice = "hydrate" => hydrateOwner = r
      /\ slice = "attention" => attentionOwner = r /\ ~ForgottenFailure(r) }

Settled(r) ==
  /\ Settle(r)
  /\ IF ForgottenFailure(r) THEN Untold("load") ELSE UNCHANGED untold
  /\ refused' = refused \cup Refusals(r)
  /\ UNCHANGED <<list, live, faults>>

(* The process stops and starts again: the list is durable, the hub and    *)
(* the requests are not.                                                   *)
Restart ==
  /\ SpendFault
  /\ engine' = [c \in Connections |-> "idle"]
  /\ handler' = "none" /\ queue' = <<>>
  /\ stream' \in IF stream = "closed" THEN {"closed"} ELSE {"connecting", "closed"}
  /\ requests' = [r \in Requests |->
       IF InFlight(r) THEN [requests[r] EXCEPT !.status = "broken", !.version = 0]
       ELSE requests[r]]
  /\ UNCHANGED <<list, hydrateOwner, attentionOwner, screen, timers, history>>

-----------------------------------------------------------------------------

Cycle(c) ==
  \/ EventsInserted(c) \/ NothingInserted(c) \/ SaveCursorsFails(c)
  \/ AttentionChanged(c) \/ CycleEnds(c)

Connect == Accept \/ register \/ Opened \/ scheduleReconnect

Progress(r) == Answer(r) \/ Settled(r)

Next ==
  \/ \E c \in Connections : Cycle(c)
  \/ SetHandleNext
  \/ Connect \/ Deliver \/ LoseStream
  \/ RefetchTimer \/ RetryTimer
  \/ \E r \in Requests : Progress(r) \/ RequestBreaks(r)
  \/ Restart

Spec == Init /\ [][Next]_vars

(* A begun cycle ends, a connection attempt is answered, a frame arrives,  *)
(* a timer fires, a request is answered.  Nothing makes the list change.   *)
FairSpec ==
  /\ Spec
  /\ \A c \in Connections : WF_vars(AttentionChanged(c) \/ CycleEnds(c))
  /\ WF_vars(Connect) /\ WF_vars(Deliver)
  /\ WF_vars(RefetchTimer) /\ WF_vars(RetryTimer)
  /\ \A r \in Requests : WF_vars(Progress(r))

-----------------------------------------------------------------------------
(* Properties. *)

(* Every variable has its type (a check of the model, cf. Dashboard). *)
TypeOK ==
  /\ DashboardTypeOK
  /\ untold \subseteq Reasons /\ refused \subseteq {"hydrate", "attention"}
  /\ engine \in [Connections -> {"idle", "stored", "completed", "failed"}]
  /\ handler \in {"none", "flushed", "registered"}
  /\ queue \in Seq(Frames) /\ Len(queue) <= Buffer
  /\ stream \in {"connecting", "open", "closed"}
  /\ faults \in Nat

(* What the tab shows was the list, and only a later list replaces it      *)
(* (INV-9 of Semantic_Invariants.md; the generations of dashboard).        *)
View == INSTANCE LaggingView WITH truth <- list
ViewImplemented == View!Spec

(* Something is under way that will make the tab read the list as it is. *)
NewsUnderWay ==
  \/ refetch \/ retry
  \/ stream # "open"
  \/ \E i \in DOMAIN queue : queue[i] = "attention"
  \/ \E c \in Connections : engine[c] = "stored"
  \/ /\ attentionOwner # NoOne
     /\ requests[attentionOwner].status = "answered"
          => requests[attentionOwner].version = list

missed == untold # {}

(* The tab never sits on an old list with nothing under way, unless its    *)
(* newest read failed for good (isRetriable) with no retry pending, or the *)
(* change was one of those nobody told it of: a dropped frame, a frame     *)
(* between headers and registration, a failed cursor write, a pin, or a    *)
(* failed refresh during the first load (events.go, dashboard).            *)
OldListIsRefreshed ==
  shown = list \/ missed \/ "attention" \in refused \/ NewsUnderWay

(* Hence the tab settles on the list. *)
ViewConverges == <>[](shown = list \/ missed \/ "attention" \in refused)

(* Every error state passes once requests are answered, unless the newest  *)
(* hydrate, or for the stale mark the newest read of the list, failed for  *)
(* good: a pending retry is neither cancelled for nothing nor lost, also   *)
(* not by a failure that is not retriable (scheduleHydrateRetry).          *)
ErrorsPass ==
  <>[](~loading /\ (loadError => "hydrate" \in refused) /\ (stale => refused # {}))

(* Only a read newer than the failure clears the stale mark (INV-9). *)
NewerErrorStays ==
  [][stale /\ ~stale' =>
       attentionOwner # NoOne /\ requests[attentionOwner].status = "answered"
       /\ shown' = requests[attentionOwner].version]_vars

(* What the comments on #ready and stale say: after the first successful   *)
(* hydrate there is a snapshot, or a mark that its refresh failed.         *)
LoadedShowsList == ready /\ attentionOwner = NoOne => shown # Blank \/ stale
(* What the comments on the hub and the dashboard say of the engine's      *)
(* changes: the next frame brings a slow client fully up to date, and a    *)
(* reload and a live update converge on identical data.                    *)
LiveConverges == <>[](shown = list \/ untold \subseteq {"pin", "load"})

=============================================================================
