------------------------------ MODULE Dashboard ------------------------------
(***************************************************************************)
(* The browser's copy of the attention list and the requests that refresh  *)
(* it (frontend/src/lib/dashboard.svelte.ts, api.ts, retry.ts).            *)
(*                                                                         *)
(* The list is the number of changes the server had committed when it was  *)
(* read.  A generation number is only ever compared with its counter, that *)
(* is, a request asks whether it is the newest of its slice: the model     *)
(* keeps the newest request of each.  Of a hydrate's three reads the one   *)
(* of the attention list is followed; another may fail and fail it.  The   *)
(* slices of connections and sync_log obey the same rule and have no error *)
(* state.  A timer may fire at any time.                                   *)
(***************************************************************************)
EXTENDS Integers

CONSTANTS MaxRequests   \* bound: requests in flight

ASSUME DashboardAssumption == MaxRequests \in Nat \ {0}

VARIABLES
  list,            \* the server: changes of the attention list committed
  requests,        \* in flight, with what the server answered
  hydrateOwner,    \* the newest hydrate, or NoOne once it is settled
  attentionOwner,  \* the newest request for the list, likewise
  shown,           \* the list on the screen
  ready,           \* a hydrate has succeeded
  stale, loadError, loading,  \* what the screen says of it
  refetch, retry   \* timers: a coalesced refresh, a hydrate after a failure

requesting == <<requests, hydrateOwner, attentionOwner>>
screen == <<shown, ready, stale, loadError, loading>>
timers == <<refetch, retry>>

Requests == 1..MaxRequests
NoOne == 0
Blank == -1

Request == [kind: {"none", "hydrate", "refresh"},
            status: {"sent", "answered", "broken", "refused"}, version: Nat]
Idle == [kind |-> "none", status |-> "sent", version |-> 0]
Sent(kind) == [Idle EXCEPT !.kind = kind]

InFlight(r) == requests[r].kind # "none"

(* The lowest free slot: which one is of no consequence. *)
Slot(r) == ~InFlight(r) /\ \A q \in Requests : q < r => InFlight(q)

(* The types of the variables, a part of LiveView's type invariant. *)
DashboardTypeOK ==
  /\ list \in Nat
  /\ requests \in [Requests -> Request]
  /\ hydrateOwner \in Requests \cup {NoOne} /\ attentionOwner \in Requests \cup {NoOne}
  /\ shown \in Nat \cup {Blank}
  /\ ready \in BOOLEAN /\ stale \in BOOLEAN
  /\ loadError \in BOOLEAN /\ loading \in BOOLEAN
  /\ refetch \in BOOLEAN /\ retry \in BOOLEAN

(* App calls start once: it hydrates, then opens the stream. *)
DashboardInit ==
  /\ list = 0
  /\ requests = [r \in Requests |-> IF r = 1 THEN Sent("hydrate") ELSE Idle]
  /\ hydrateOwner = 1 /\ attentionOwner = 1
  /\ shown = Blank /\ ready = FALSE
  /\ stale = FALSE /\ loadError = FALSE /\ loading = TRUE
  /\ refetch = FALSE /\ retry = FALSE

-----------------------------------------------------------------------------
(* Issuing a request: it becomes the newest of the slices it reads. *)

hydrate ==
  /\ \E r \in Requests :
       /\ Slot(r)
       /\ requests' = [requests EXCEPT ![r] = Sent("hydrate")]
       /\ hydrateOwner' = r /\ attentionOwner' = r
  /\ retry' = FALSE

refreshAttention ==
  \E r \in Requests :
    /\ Slot(r)
    /\ requests' = [requests EXCEPT ![r] = Sent("refresh")]
    /\ attentionOwner' = r
    /\ UNCHANGED hydrateOwner

(* The server reads the list for a request. *)
Read(r) ==
  /\ InFlight(r) /\ requests[r].status = "sent"
  /\ requests' = [requests EXCEPT ![r].status = "answered", ![r].version = list]

(* isRetriable: a broken request is tried again, a refused one is not. *)
Failures == {"broken", "refused"}
Failed(r) == requests[r].status \in Failures

(* A request fails, before its read or after it. *)
Break(r) ==
  /\ InFlight(r) /\ ~Failed(r)
  /\ \E failure \in Failures :
       requests' = [requests EXCEPT ![r].status = failure, ![r].version = 0]

(* Mutant: a failure that is not retriable cancels a pending retry. *)
scheduleOrCancelRetry(r) == retry' = (requests[r].status = "broken")

(* A failure that is not retriable schedules nothing, and leaves a retry   *)
(* that is pending alone.                                                  *)
scheduleHydrateRetry(r) == retry' = (retry \/ requests[r].status = "broken")

-----------------------------------------------------------------------------
(* Settling a request. *)

Release(r) ==
  /\ requests' = [requests EXCEPT ![r] = Idle]
  /\ hydrateOwner' = IF hydrateOwner = r THEN NoOne ELSE hydrateOwner
  /\ attentionOwner' = IF attentionOwner = r THEN NoOne ELSE attentionOwner

(* Mutant: whoever answers last is shown. *)
ShowAny(r) == shown' = requests[r].version /\ stale' = FALSE

(* The newest read of the list is shown, and the list is not stale then. *)
ShowNewest(r) ==
  IF attentionOwner = r
  THEN shown' = requests[r].version /\ stale' = FALSE
  ELSE UNCHANGED <<shown, stale>>

(* Mutant: any successful hydrate clears the stale mark. *)
HydratedClears(r) ==
  /\ InFlight(r) /\ requests[r].kind = "hydrate" /\ requests[r].status = "answered"
  /\ Release(r)
  /\ IF hydrateOwner = r
     THEN /\ shown' = IF attentionOwner = r THEN requests[r].version ELSE shown
          /\ stale' = FALSE
          /\ ready' = TRUE /\ loadError' = FALSE /\ loading' = FALSE
     ELSE UNCHANGED screen
  /\ UNCHANGED timers

Hydrated(r) ==
  /\ InFlight(r) /\ requests[r].kind = "hydrate" /\ requests[r].status = "answered"
  /\ Release(r)
  /\ IF hydrateOwner = r
     THEN /\ ShowNewest(r)
          /\ ready' = TRUE /\ loadError' = FALSE /\ loading' = FALSE
     ELSE UNCHANGED screen
  /\ UNCHANGED timers

HydrateFailed(r) ==
  /\ InFlight(r) /\ requests[r].kind = "hydrate" /\ Failed(r)
  /\ Release(r)
  /\ IF hydrateOwner = r
     THEN /\ IF ready THEN stale' = TRUE /\ UNCHANGED loadError
                      ELSE loadError' = TRUE /\ UNCHANGED stale
          /\ loading' = FALSE
          /\ scheduleHydrateRetry(r)
     ELSE UNCHANGED <<stale, loadError, loading, retry>>
  /\ UNCHANGED <<shown, ready, refetch>>

Refreshed(r) ==
  /\ InFlight(r) /\ requests[r].kind = "refresh" /\ requests[r].status = "answered"
  /\ Release(r)
  /\ ShowNewest(r)
  /\ UNCHANGED <<ready, loadError, loading, timers>>

(* Before the first hydrate a failed refresh is forgotten. *)
ForgottenFailure(r) ==
  requests[r].kind = "refresh" /\ Failed(r) /\ attentionOwner = r /\ ~ready

RefreshFailed(r) ==
  /\ InFlight(r) /\ requests[r].kind = "refresh" /\ Failed(r)
  /\ Release(r)
  /\ IF attentionOwner = r /\ ready
     THEN stale' = TRUE /\ scheduleHydrateRetry(r)
     ELSE UNCHANGED <<stale, retry>>
  /\ UNCHANGED <<shown, ready, loadError, loading, refetch>>

Settle(r) == Hydrated(r) \/ HydrateFailed(r) \/ Refreshed(r) \/ RefreshFailed(r)
=============================================================================
