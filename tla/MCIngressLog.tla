---------------------------- MODULE MCIngressLog ----------------------------
(***************************************************************************)
(* Instances of IngressLog for TLC.                                        *)
(***************************************************************************)
EXTENDS IngressLog

Conf(prealloc, writeLimit, batchSizes, maxRecords, maxFaults, maxCrashes) ==
  [prealloc |-> prealloc, writeLimit |-> writeLimit, batchSizes |-> batchSizes,
   maxRecords |-> maxRecords, maxFaults |-> maxFaults, maxCrashes |-> maxCrashes]

(***************************************************************************)
(* Two frames to a segment.  Calls of one and two records share batches    *)
(* and are split by a roll; with prepared segments, calls of two fill the  *)
(* second segment in one write that can tear anywhere, or in two runs.  A  *)
(* second crash follows the first with fewer records.                      *)
(***************************************************************************)
MCConfs == { Conf(FALSE, 2, {1, 2}, 3, 1, 1), Conf(FALSE, 2, {1, 2}, 2, 0, 2),
             Conf(TRUE, 2, {2}, 4, 1, 1), Conf(TRUE, 1, {2}, 4, 0, 1) }
Prepared == { Conf(TRUE, 2, {2}, 4, 0, 2) }
Quiet == { Conf(FALSE, 2, {1, 2}, 3, 0, 0) }
=============================================================================
