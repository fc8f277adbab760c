------------------------- MODULE MCProduceDispatch -------------------------
(***************************************************************************)
(* Small instances of the dispatcher, each with its own budget of records,  *)
(* faults, crashes and topic changes.                                       *)
(***************************************************************************)
EXTENDS ProduceDispatch

Conf(b, f, p, r, n, k, c, h) ==
    [batch |-> b, fanout |-> f, parts |-> p, records |-> r, faults |-> n, kinds |-> k,
     crashes |-> c, changes |-> h]

(* BatchSize 1 stops the reader in the middle of a rescan, 2 makes a rescan *)
(* skip records again, 8 leaves room for a queue of two behind a commit.    *)
(* With one commit at a time the second partition waits its turn.           *)
MCConfs ==
    {Conf(1, 2, 1, 3, 1, Kinds, 0, 0), Conf(2, 2, 1, 3, 1, Kinds, 0, 0),
     Conf(2, 2, 1, 4, 0, {}, 0, 0), Conf(8, 2, 1, 3, 1, {"commit", "read"}, 0, 0),
     Conf(8, 2, 1, 2, 1, {"commit", "store"}, 1, 0),
     Conf(8, 2, 1, 2, 0, {}, 0, 2), Conf(8, 2, 1, 1, 0, {}, 1, 2),
     Conf(1, 1, 2, 2, 1, {"commit"}, 0, 0), Conf(8, 2, 2, 2, 1, {"member"}, 0, 0),
     Conf(8, 2, 2, 1, 1, {"member"}, 0, 1)}

(* Two owners flap while the topic is deleted. *)
Flapping == {Conf(8, 2, 2, 1, 2, {"member"}, 0, 1)}

(* The topic is deleted while the leader cannot be asked. *)
Deleted == {Conf(8, 2, 1, 1, 1, {"leader"}, 0, 1)}
=============================================================================
