---------------------------- MODULE JiraRefresher ----------------------------
(***************************************************************************)
(* The refresher of the ticket cache (refresher.go, client.go).  One sweep *)
(* reads the keys of the open items, fetches each, and deletes the rows of *)
(* all others, while the engine goes on writing.  It dies with its         *)
(* process, and at the signal that stops the process.                      *)
(***************************************************************************)
EXTENDS Store

VARIABLES
  sweep,   \* the sweep under way: keys read, keys left to fetch, anything fetched
  news     \* history: a status was stored and nobody has been told since

refresher == <<sweep, news>>

At(pc, keys, left, changed) == [pc |-> pc, keys |-> keys, left |-> left, changed |-> changed]

Idle == At("idle", {}, {}, FALSE)

(* The next key, or the deletion once every key had its turn. *)
Continue(keys, left, changed) ==
  sweep' = At(IF left = {} THEN "pruning" ELSE "fetching", keys, left, changed)

Turn(k) == serving /\ sweep.pc = "fetching" /\ k \in sweep.left

(* The ticker fires (or the process starts) and the keys are read. *)
CollectKeys ==
  /\ serving /\ sweep.pc = "idle"
  /\ Continue(AllOpenTicketKeys, AllOpenTicketKeys, FALSE)
  /\ UNCHANGED <<store, news>>

(* The tracker answers; nobody checks that the answer has a status. *)
Fetched(k, status) ==
  /\ Turn(k)
  /\ UpsertJiraTicket(k, status, FALSE)
  /\ Continue(sweep.keys, sweep.left \ {k}, TRUE)
  /\ news' = TRUE
  /\ UNCHANGED <<owner, schema, logs, pins>>

(* The tracker refuses, or knows no such ticket. *)
FetchRefused(k) ==
  /\ Turn(k)
  /\ UpsertJiraTicket(k, Blank, TRUE)
  /\ Continue(sweep.keys, sweep.left \ {k}, sweep.changed)
  /\ UNCHANGED <<owner, schema, logs, pins, news>>

(* The tracker cannot be reached, or the row cannot be written. *)
FetchBreaks(k) ==
  /\ Turn(k)
  /\ Continue(sweep.keys, sweep.left \ {k}, sweep.changed)
  /\ UNCHANGED <<store, news>>

(* Mutant: nobody is told of what a sweep fetched. *)
AttentionChangedNever == sweep' = Idle /\ UNCHANGED news

(* The sweep ends; the browsers are told if it fetched anything. *)
AttentionChanged ==
  /\ sweep' = Idle
  /\ news' = (news /\ ~sweep.changed)

(* Mutant: a sweep that has read no key ends there. *)
PruneUnlessEmpty ==
  /\ serving /\ sweep.pc = "pruning"
  /\ IF sweep.keys = {} THEN UNCHANGED tickets ELSE PruneJiraTickets(sweep.keys)
  /\ AttentionChanged
  /\ UNCHANGED <<owner, schema, logs, pins>>

Prune ==
  /\ serving /\ sweep.pc = "pruning"
  /\ PruneJiraTickets(sweep.keys)
  /\ AttentionChanged
  /\ UNCHANGED <<owner, schema, logs, pins>>

PruneBreaks ==
  /\ serving /\ sweep.pc = "pruning"
  /\ AttentionChanged
  /\ UNCHANGED store

Sweep == CollectKeys \/ (\E k \in Keys, status \in Statuses : Fetched(k, status)) \/ Prune

Trouble ==
  PruneBreaks \/ (\E k \in Keys : FetchRefused(k) \/ FetchBreaks(k) \/ Fetched(k, Blank))
=============================================================================
