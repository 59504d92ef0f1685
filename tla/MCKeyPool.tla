----------------------------- MODULE MCKeyPool -----------------------------
(***************************************************************************)
(* Model values, symmetry and the traffic-only variant for the runs of     *)
(* KeyPool.                                                                *)
(***************************************************************************)
EXTENDS KeyPool, TLC

Symmetry == Permutations(Requests) \cup Permutations(Keys)

(* Every key is stored, enabled and readable.  The admin re-seals secrets  *)
(* that a restart has made unreadable, and edits nothing else.             *)
TrafficInit ==
  /\ row = [k \in Keys |-> "on"] /\ opens = Keys
  /\ cool = [k \in Keys |-> 0] /\ health = [k \in Keys |-> ColdStart]
  /\ MemoryInit

TrafficNext ==
  \/ \E r \in Requests : RequestStep(r)
  \/ \E k \in Keys : UpdateSecret(k)
  \/ GenericAcquire \/ Tick \/ Restart

TrafficSpec == TrafficInit /\ [][TrafficNext]_vars
=============================================================================
