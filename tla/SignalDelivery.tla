--------------------------- MODULE SignalDelivery ---------------------------
(***************************************************************************)
(* What the fast tier promises, whatever fails in between: a notification  *)
(* is acknowledged to the forge only once its signal is in the database,   *)
(* and a recorded signal is one the forge really sent.  A thread whose     *)
(* repository is archived is exempt.                                       *)
(*                                                                         *)
(* feed[t] is everything thread t ever carried, newest last; an entry says *)
(* whether its reason yields a signal.  The forge shows a poller only the  *)
(* newest entry of a thread.                                               *)
(***************************************************************************)
EXTENDS Naturals, Sequences

CONSTANT Threads

VARIABLES feed, recorded, acked, exempt

vars == <<feed, recorded, acked, exempt>>

Init ==
  /\ feed = [t \in Threads |-> << >>]
  /\ recorded = [t \in Threads |-> {}]
  /\ acked = [t \in Threads |-> 0]
  /\ exempt \subseteq Threads

(* The forge adds an entry to a thread. *)
Arrive ==
  /\ \E t \in Threads, signal \in BOOLEAN :
       feed' = [feed EXCEPT ![t] = Append(@, signal)]
  /\ UNCHANGED <<recorded, acked, exempt>>

(* Signals become durable: only entries that exist and carry a signal. *)
Record ==
  /\ recorded' \in [Threads -> SUBSET Nat]
  /\ \A t \in Threads :
       /\ recorded[t] \subseteq recorded'[t]
       /\ \A n \in recorded'[t] \ recorded[t] : n \in DOMAIN feed[t] /\ feed[t][n]
  /\ UNCHANGED <<feed, acked, exempt>>

(* The cursor moves: never back, and only over what is durable already. *)
Acknowledge ==
  /\ acked' \in [Threads -> Nat]
  /\ \A t \in Threads :
       /\ acked[t] <= acked'[t]
       /\ acked'[t] <= Len(feed[t])
       /\ acked'[t] # 0 /\ feed[t][acked'[t]] =>
            acked'[t] \in recorded[t] \/ t \in exempt
  /\ UNCHANGED <<feed, recorded, exempt>>

(* A repository is archived, for good. *)
Exempt ==
  /\ \E t \in Threads \ exempt : exempt' = exempt \cup {t}
  /\ UNCHANGED <<feed, recorded, acked>>

Next == Arrive \/ Record \/ Acknowledge \/ Exempt

Spec == Init /\ [][Next]_vars
=============================================================================
