------------------------- MODULE MCOffsetCommitter -------------------------
(***************************************************************************)
(* Instances of OffsetCommitter for TLC.                                   *)
(***************************************************************************)
EXTENDS OffsetCommitter

(***************************************************************************)
(* A new copy, and copies whose consumers acked one record, the first or   *)
(* the second.                                                             *)
(***************************************************************************)
MCCopies == {{}, {0}, {1}}

Conf(a, e, d, f, c) ==
  [copy |-> a, end |-> e, dirs |-> d, faults |-> f, crashes |-> c]

(***************************************************************************)
(* A crash after two windows; a failed call under one directory; a         *)
(* directory replaced while two offsets are acked; a failed call and a     *)
(* crash while the directory is replaced.                                  *)
(***************************************************************************)
MCConfs == {Conf({1}, 3, 1, 0, 1), Conf({}, 2, 1, 1, 0), Conf({}, 2, 2, 0, 0),
            Conf({}, 1, 2, 1, 1)}
=============================================================================
