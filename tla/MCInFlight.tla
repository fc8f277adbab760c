----------------------------- MODULE MCInFlight -----------------------------
(***************************************************************************)
(* Three offsets, so that an ack can land two ahead of a hole, under caps  *)
(* so low that one offset ahead of the frontier is already too many for a  *)
(* second.                                                                 *)
(***************************************************************************)
EXTENDS InFlight, TLC

MCCaps == { [maxInFlight |-> 2, maxAckedAhead |-> 1],
            [maxInFlight |-> 1, maxAckedAhead |-> 1] }

Symmetry == Permutations(Nonces)
=============================================================================
