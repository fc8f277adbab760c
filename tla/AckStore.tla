------------------------------ MODULE AckStore ------------------------------
(***************************************************************************)
(* What persisting a partition's acks promises, whatever the disk layout:  *)
(* a restart resumes from records that were acked, and from all of those   *)
(* that were reported durable.  A copy installed over the partition brings *)
(* its own acks, and nothing of the copy before it.                        *)
(***************************************************************************)
EXTENDS Naturals

CONSTANTS
  LogEnd,    \* offsets of the partition's log are 0 .. LogEnd - 1
  Copies     \* what a copy's consumers may have acked

Offsets == 0 .. LogEnd - 1

VARIABLES
  acked,     \* offsets consumers of this copy of the partition acked
  stored,    \* what a restart of the process would resume from
  durable    \* what a restart of the machine is sure to resume from

abstractVars == <<acked, stored, durable>>

AbstractInit == acked \in Copies /\ stored = acked /\ durable = acked

Acknowledge ==
  \E o \in Offsets : acked' = acked \cup {o} /\ UNCHANGED <<stored, durable>>

(***************************************************************************)
(* A write, a failed write, or a power loss: the stored set changes, and   *)
(* never loses what is durable nor gains what nobody acked.                *)
(***************************************************************************)
Store ==
  /\ stored' \in SUBSET acked /\ durable \subseteq stored'
  /\ UNCHANGED <<acked, durable>>

Flush ==
  /\ durable' \in SUBSET stored' /\ durable \subseteq durable'
  /\ UNCHANGED <<acked, stored>>

(***************************************************************************)
(* Another copy of the partition takes the place of this one, or this one  *)
(* is removed.                                                             *)
(***************************************************************************)
Replace ==
  \E copy \in Copies \cup {{}} :
    acked' = copy /\ stored' = copy /\ durable' = copy

AbstractNext == Acknowledge \/ Store \/ Flush \/ Replace

AbstractSpec == AbstractInit /\ [][AbstractNext]_abstractVars
=============================================================================
