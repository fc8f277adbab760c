------------------------------- MODULE Outbox -------------------------------
(***************************************************************************)
(* What the accept-then-commit pipeline of a node promises of the records   *)
(* it answered 202, numbered in the order they were accepted: a record      *)
(* leaves the node's log only after it is in some partition's log, or after *)
(* its topic was deleted, and the log is given up from its front.           *)
(***************************************************************************)
EXTENDS Integers

VARIABLES
    accepted,    \* how many records were accepted
    delivered,   \* those that are in a partition's log
    gone,        \* those whose topic was deleted
    settled      \* how many of the first ones the log may drop

outboxVars == <<accepted, delivered, gone, settled>>

OutboxInit == accepted = 0 /\ delivered = {} /\ gone = {} /\ settled = 0

(* A record may be accepted for a topic that is just being deleted. *)
AcceptOne ==
    /\ accepted' = accepted + 1
    /\ gone' \in {gone, gone \union {accepted + 1}}
    /\ UNCHANGED <<delivered, settled>>

Deliver ==
    /\ delivered \subseteq delivered' /\ delivered' \subseteq 1 .. accepted
    /\ UNCHANGED <<accepted, gone, settled>>

DeleteTopic ==
    /\ gone \subseteq gone' /\ gone' \subseteq 1 .. accepted
    /\ UNCHANGED <<accepted, delivered, settled>>

Settle ==
    /\ settled' \in settled .. accepted
    /\ 1 .. settled' \subseteq delivered \union gone
    /\ UNCHANGED <<accepted, delivered, gone>>

OutboxNext == AcceptOne \/ Deliver \/ DeleteTopic \/ Settle

OutboxSpec == OutboxInit /\ [][OutboxNext]_outboxVars
=============================================================================
