----------------------------- MODULE MCDispatch -----------------------------
(***************************************************************************)
(* Local: two consumers and two records, so that one consumer can leave,   *)
(* take or settle while the pump works for the other.  Peers: one consumer *)
(* and one record beside a peer's token, and a second hold made while the  *)
(* first one's callbacks may still run.  Deleted: two consumers of a topic *)
(* that is deleted, and created again.  Every choice of the names that     *)
(* take part is a configuration, which keeps the symmetry sound.           *)
(***************************************************************************)
EXTENDS Dispatch

MCCaps == [maxInFlight |-> 2, maxAckedAhead |-> 1]

Local ==
  { [records |-> 2, consumers |-> Consumers, nonces |-> ns, tokens |-> 0,
     holds |-> {}, life |-> "kept"] :
      ns \in { x \in SUBSET Nonces : Cardinality(x) = 2 } }
Peers ==
  { [records |-> 1, consumers |-> {c}, nonces |-> {n}, tokens |-> 1,
     holds |-> HoldIds, life |-> "deleted"] : c \in Consumers, n \in Nonces }
Deleted ==
  { [records |-> 1, consumers |-> Consumers, nonces |-> {n}, tokens |-> 0,
     holds |-> {}, life |-> "created again"] : n \in Nonces }
MCConfs == Local \cup Peers \cup Deleted

Gap ==
  { [records |-> 2, consumers |-> Consumers, nonces |-> Nonces, tokens |-> 0,
     holds |-> {}, life |-> "deleted"] }

Symmetry ==
  Permutations(Nonces) \cup Permutations(Consumers) \cup Permutations(HoldIds)
=============================================================================
