--------------------------- MODULE InFlightProofs ---------------------------
(***************************************************************************)
(* The safety properties of InFlight for every log end, set of nonces, set *)
(* of timeouts and set of caps.  The inductive invariant adds to the       *)
(* properties what relates the shard to the persisted record: the shard    *)
(* never knows less than the disk.                                         *)
(***************************************************************************)
EXTENDS InFlight, ShardProofs

Persisted == 0 .. disk.committed \cup disk.ahead

SettledSound ==
  SettledOffsets(sh) \cup Persisted \subseteq settled \cup 0 .. oldest - 1

ShardKnowsDisk == live => Persisted \subseteq AckedOffsets(sh)

Inv ==
  /\ TypeOK
  /\ ShardInv(sh)
  /\ SettledSound
  /\ ShardKnowsDisk
  /\ NothingUnpersisted

(***************************************************************************)
(* What a step may not do to the settled offsets of a shard.               *)
(***************************************************************************)
KeepsSettled ==
  live /\ live' => SettledOffsets(sh) \subseteq SettledOffsets(sh')

(***************************************************************************)
(* A shard that is not there knows nothing.                                *)
(***************************************************************************)
LEMMA NoShardLemma ==
  ShardInv(NoShard) /\ SettledOffsets(NoShard) = {} /\ NoShard \in partitionShard
<1>1. -1 \in -1 .. LogEnd - 1
  BY LogEndAssumption
<1>2. NoCaps \in [maxInFlight : Nat \ {0}, maxAckedAhead : Nat \ {0}]
  BY DEF NoCaps
<1>3. ShardInv(NoShard)
  BY <1>1, <1>2, RecoverLemma DEF NoShard
<1>4. SettledOffsets(NoShard) = {}
  BY DEF NoShard, newPartitionShard, SettledOffsets, Resolved
<1> QED BY <1>3, <1>4 DEF ShardInv

(***************************************************************************)
(* The initial state satisfies the invariant.                              *)
(***************************************************************************)
LEMMA InitInv == Init => Inv
<1> SUFFICES ASSUME Init PROVE Inv
  OBVIOUS
<1>1. TypeOK
  <2>1. disk \in [committed : -1 .. LogEnd - 1, ahead : SUBSET Offsets]
    BY LogEndAssumption DEF Init
  <2>2. tail \in 0 .. LogEnd /\ oldest \in 0 .. tail
    BY LogEndAssumption DEF Init
  <2> QED BY <2>1, <2>2, NoShardLemma DEF Init, TypeOK
<1>2. SettledSound
  BY NoShardLemma DEF Init, SettledSound, Persisted
<1> QED BY <1>1, <1>2, NoShardLemma
        DEF Init, Inv, ShardKnowsDisk, NothingUnpersisted

(***************************************************************************)
(* What the purge that begins every call on the shard leaves behind.       *)
(***************************************************************************)
LEMMA PurgedShard ==
  ASSUME Inv
  PROVE  LET p == purgeExpiredLocked(sh)
         IN  /\ ShardInv(p) /\ p.committed = sh.committed
             /\ p.ackedAhead = sh.ackedAhead
             /\ SettledOffsets(p) = SettledOffsets(sh)
             /\ AckedOffsets(p) = AckedOffsets(sh)
<1> DEFINE p == purgeExpiredLocked(sh)
<1>1. ShardInv(p) /\ SameSettled(p, sh)
  BY PurgeLemma DEF Inv
<1> HIDE DEF p
<1>2. SettledOffsets(p) = SettledOffsets(sh) /\ AckedOffsets(p) = AckedOffsets(sh)
  BY <1>1 DEF SameSettled, SettledOffsets, AckedOffsets, Resolved
<1> QED BY <1>1, <1>2 DEF SameSettled, p

(***************************************************************************)
(* A call that holds a live lease found it reserved.                       *)
(***************************************************************************)
LEMMA SettlingReserved ==
  ASSUME NEW h, Settling(h)
  PROVE  live /\ h.offset \in Reserved(purgeExpiredLocked(sh))
BY DEF Settling, Holds, Reserved

(***************************************************************************)
(* A step that changes the leases only: nothing settled, nothing           *)
(* persisted, no handle of a new kind.                                     *)
(***************************************************************************)
LEMMA LeaseStep ==
  ASSUME Inv, ShardInv(sh'), sh'.committed = sh.committed,
         sh'.ackedAhead = sh.ackedAhead, sh'.corrupt = sh.corrupt,
         UNCHANGED <<logVars, live, pending, disk, settled>>,
         reading' \subseteq Handle, handles' \subseteq Handle
  PROVE  Inv' /\ KeepsSettled
<1>1. TypeOK'
  BY DEF Inv, TypeOK, ShardInv, logVars
<1>2. /\ SettledOffsets(sh)' = SettledOffsets(sh)
      /\ AckedOffsets(sh)' = AckedOffsets(sh)
      /\ Persisted' = Persisted
  BY DEF SettledOffsets, AckedOffsets, Resolved, Persisted
<1>3. SettledSound' /\ ShardKnowsDisk'
  BY <1>2 DEF Inv, SettledSound, ShardKnowsDisk, logVars
<1>4. NothingUnpersisted'
  BY DEF Inv, NothingUnpersisted
<1>5. KeepsSettled
  BY DEF KeepsSettled, SettledOffsets, Resolved
<1> QED BY <1>1, <1>3, <1>4, <1>5 DEF Inv

(***************************************************************************)
(* A step by which an offset is settled and the committer told.            *)
(***************************************************************************)
LEMMA SettlingStep ==
  ASSUME Inv, ShardInv(sh'), live, pending' \in BOOLEAN,
         UNCHANGED <<logVars, live, disk>>,
         settled \subseteq settled', settled' \subseteq Offsets,
         SettledOffsets(sh') \subseteq SettledOffsets(sh) \cup settled' \cup 0 .. oldest - 1,
         SettledOffsets(sh) \subseteq SettledOffsets(sh'),
         AckedOffsets(sh) \subseteq AckedOffsets(sh'),
         ~ pending' => /\ ~ pending
                       /\ sh'.committed = sh.committed /\ sh'.ackedAhead = sh.ackedAhead,
         reading' \subseteq Handle, handles' \subseteq Handle
  PROVE  Inv' /\ KeepsSettled
<1>1. TypeOK'
  BY DEF Inv, TypeOK, ShardInv, logVars
<1>2. Persisted' = Persisted
  BY DEF Persisted
<1>3. SettledSound'
  <2>1. SettledOffsets(sh)' = SettledOffsets(sh') /\ oldest' = oldest
    BY DEF SettledOffsets, Resolved, logVars
  <2> QED BY <1>2, <2>1 DEF Inv, SettledSound
<1>4. ShardKnowsDisk'
  <2>1. AckedOffsets(sh)' = AckedOffsets(sh')
    BY DEF AckedOffsets
  <2> QED BY <1>2, <2>1 DEF Inv, ShardKnowsDisk
<1>5. NothingUnpersisted'
  BY DEF Inv, NothingUnpersisted
<1> QED BY <1>1, <1>3, <1>4, <1>5 DEF Inv, KeepsSettled

(***************************************************************************)
(* Every action preserves the invariant and keeps what is settled.         *)
(***************************************************************************)
LEMMA NextInv == Inv /\ [Next]_vars => Inv' /\ KeepsSettled
<1> SUFFICES ASSUME Inv, [Next]_vars PROVE Inv' /\ KeepsSettled
  OBVIOUS
<1> USE DEF logVars
<1> DEFINE p == purgeExpiredLocked(sh)
<1>p. /\ ShardInv(p) /\ p.committed = sh.committed /\ p.ackedAhead = sh.ackedAhead
      /\ SettledOffsets(p) = SettledOffsets(sh) /\ AckedOffsets(p) = AckedOffsets(sh)
      /\ p.corrupt = sh.corrupt
  BY PurgedShard, PurgeLemma DEF Inv, SameSettled
<1>t. /\ reading \subseteq Handle /\ handles \subseteq Handle /\ ShardInv(sh)
      /\ settled \subseteq Offsets /\ pending \in BOOLEAN /\ live \in BOOLEAN
      /\ tail \in 0 .. LogEnd /\ oldest \in 0 .. tail
      /\ disk.committed \in -1 .. LogEnd - 1 /\ disk.ahead \in SUBSET Offsets
  BY DEF Inv, TypeOK
<1> HIDE DEF p
<1>1. CASE Produce
  <2>1. TypeOK'
    BY <1>1, <1>t, LogEndAssumption DEF Inv, TypeOK, Produce
  <2>2. SettledSound' /\ ShardKnowsDisk' /\ NothingUnpersisted' /\ ShardInv(sh')
    BY <1>1 DEF Inv, Produce, SettledSound, ShardKnowsDisk, NothingUnpersisted,
                Persisted, SettledOffsets, AckedOffsets, Resolved
  <2>3. ShardInv(sh)'
    BY <1>1 DEF Inv, Produce, ShardInv, LeasesOK, FrontierOK, HintOK, HintSkips,
                Resolved, Reserved
  <2>4. KeepsSettled
    BY <1>1 DEF KeepsSettled, Produce
  <2> QED BY <2>1, <2>2, <2>3, <2>4 DEF Inv
<1>2. CASE Reap
  <2>1. oldest' \in 0 .. tail /\ oldest' > oldest
    BY <1>2, <1>t, LogEndAssumption DEF Reap
  <2>2. TypeOK'
    BY <1>2, <2>1 DEF Inv, TypeOK, Reap
  <2>3. 0 .. oldest - 1 \subseteq 0 .. oldest' - 1
    <3>1. oldest \in Int /\ oldest' \in Int
      BY <1>t, <2>1, LogEndAssumption
    <3>2. \A a, b \in Int : a < b => 0 .. a - 1 \subseteq 0 .. b - 1
      OBVIOUS
    <3> QED BY <2>1, <3>1, <3>2
  <2>4. SettledSound'
    BY <1>2, <2>3 DEF Inv, Reap, SettledSound, Persisted, SettledOffsets, Resolved
  <2>5. ShardKnowsDisk' /\ NothingUnpersisted' /\ ShardInv(sh)'
    BY <1>2 DEF Inv, Reap, ShardKnowsDisk, NothingUnpersisted, Persisted,
                AckedOffsets, ShardInv, LeasesOK, FrontierOK, HintOK, HintSkips,
                Resolved, Reserved
  <2>6. KeepsSettled
    BY <1>2 DEF KeepsSettled, Reap
  <2> QED BY <2>2, <2>4, <2>5, <2>6 DEF Inv
<1>3. CASE Tick
  <2>1. ShardInv(sh') /\ SameSettled(sh', sh)
    BY <1>3, <1>t, NowLemma DEF Tick
  <2> QED BY <1>3, <1>t, <2>1, LeaseStep DEF Tick, SameSettled
<1>4. CASE shardOrCreate
  <2>1. PICK caps \in CapsChoices :
          sh' = seedAheadLocked(newPartitionShard(disk.committed, caps), disk.ahead)
    BY <1>4 DEF shardOrCreate
  <2>2. caps \in [maxInFlight : Nat \ {0}, maxAckedAhead : Nat \ {0}]
    BY CapsAssumption
  <2>3. /\ ShardInv(sh') /\ sh'.committed >= disk.committed
        /\ SettledOffsets(sh') = Persisted /\ AckedOffsets(sh') = Persisted
        /\ sh'.committed = disk.committed =>
             sh'.ackedAhead = { o \in disk.ahead : o > disk.committed }
    BY <1>t, <2>1, <2>2, RecoverLemma DEF Persisted
  <2>4. /\ live' /\ pending' = (sh'.committed > disk.committed)
        /\ UNCHANGED <<tail, oldest, disk, reading, handles, settled>>
    BY <1>4 DEF shardOrCreate
  <2>5. TypeOK' /\ ShardInv(sh)'
    BY <2>3, <2>4 DEF Inv, TypeOK, ShardInv, LeasesOK, FrontierOK, HintOK, HintSkips,
                      Resolved, Reserved
  <2>6. SettledOffsets(sh)' = Persisted /\ AckedOffsets(sh)' = Persisted
        /\ Persisted' = Persisted
    BY <2>3, <2>4 DEF SettledOffsets, AckedOffsets, Resolved, Persisted
  <2>7. SettledSound' /\ ShardKnowsDisk'
    BY <2>4, <2>6 DEF Inv, SettledSound, ShardKnowsDisk
  <2>8. NothingUnpersisted'
    <3>1. sh'.committed \in Int /\ disk.committed \in Int
      BY <1>t, <2>3, ShardFields, LogEndAssumption DEF ShardInv
    <3>2. ~ pending' => sh'.committed = disk.committed
      <4>1. sh'.committed > disk.committed => pending'
        BY <2>4
      <4>2. sh'.committed >= disk.committed
        BY <2>3
      <4> QED BY <3>1, <4>1, <4>2
    <3>3. disk' = disk
      BY <2>4
    <3> QED BY <2>3, <3>2, <3>3 DEF NothingUnpersisted
  <2>9. KeepsSettled
    BY <1>4 DEF KeepsSettled, shardOrCreate
  <2> QED BY <2>5, <2>7, <2>8, <2>9 DEF Inv
<1>5. CASE ReserveNext
  <2>1. PICK off \in Offsets, v \in Timeouts, n \in Nonces :
          /\ ReserveNextPicks(p, tail, off)
          /\ sh' = reserveLocked(p, off, v, n)
          /\ reading' = reading \cup {[offset |-> off, nonce |-> n]}
    BY <1>5 DEF ReserveNext, p
  <2>2. v \in Nat
    BY TimeoutsAssumption
  <2>3. ShardInv(sh') /\ SameSettled(sh', p)
    BY <1>p, <1>t, <2>1, <2>2, ReserveLemma
  <2>4. reading' \subseteq Handle
    BY <1>t, <2>1 DEF Handle
  <2> QED BY <1>5, <1>p, <1>t, <2>3, <2>4, LeaseStep DEF ReserveNext, SameSettled
<1>6. CASE purgeAll
  BY <1>6, <1>p, <1>t, LeaseStep DEF purgeAll, p
<1>7. ASSUME NEW h \in reading, Deliver(h)
      PROVE  Inv' /\ KeepsSettled
  <2>1. handles' \subseteq Handle /\ reading' \subseteq Handle
    BY <1>7, <1>t DEF Deliver
  <2> QED BY <1>7, <1>t, <2>1, LeaseStep DEF Deliver
<1>8. ASSUME NEW h \in reading, SkipCorrupt(h)
      PROVE  Inv' /\ KeepsSettled
  <2>1. live /\ h.offset \in Reserved(p)
    BY <1>8, SettlingReserved DEF SkipCorrupt, p
  <2>2. /\ sh' = resolveReserved(p, h.offset, "corrupt")
        /\ pending' = (pending \/ h.offset = p.committed + 1)
        /\ reading' \subseteq Handle /\ settled' = settled \cup {h.offset}
        /\ UNCHANGED <<tail, oldest, live, disk, handles>>
    BY <1>8, <1>t DEF SkipCorrupt, p
  <2>3. /\ ShardInv(sh')
        /\ SettledOffsets(sh') = SettledOffsets(p) \cup {h.offset}
        /\ AckedOffsets(p) \subseteq AckedOffsets(sh')
        /\ h.offset # p.committed + 1 =>
             sh'.committed = p.committed /\ sh'.ackedAhead = p.ackedAhead
    BY <1>p, <2>1, <2>2, ResolveLemma
  <2>4. h.offset \in Offsets
    BY <1>t DEF Handle
  <2>5. pending' \in BOOLEAN
    BY <2>2
  <2> QED BY <1>p, <1>t, <2>1, <2>2, <2>3, <2>4, <2>5, SettlingStep
<1>9. ASSUME NEW h \in reading, SkipMissing(h)
      PROVE  Inv' /\ KeepsSettled
  <2>1. PICK bound \in h.offset + 1 .. oldest : sh' = SkipMissingBelow(p, bound)
    BY <1>9 DEF SkipMissing, p
  <2>2. h.offset \in Nat
    BY <1>t, LogEndAssumption DEF Handle, Offsets
  <2>3. bound \in 1 .. LogEnd /\ bound <= oldest /\ bound \in Nat /\ oldest \in Nat
    BY <1>t, <2>1, <2>2, LogEndAssumption
  <2>4. /\ ShardInv(sh')
        /\ SettledOffsets(p) \subseteq SettledOffsets(sh')
        /\ SettledOffsets(sh') \subseteq SettledOffsets(p) \cup 0 .. bound - 1
        /\ AckedOffsets(p) \subseteq AckedOffsets(sh')
    BY <1>p, <2>1, <2>3, SkipMissingLemma
  <2>5. 0 .. bound - 1 \subseteq 0 .. oldest - 1
    BY <2>3
  <2>6. /\ live /\ pending' = TRUE /\ reading' \subseteq Handle
        /\ UNCHANGED <<tail, oldest, live, disk, handles, settled>>
    BY <1>9, <1>t DEF SkipMissing, Settling
  <2> QED BY <1>p, <1>t, <2>4, <2>5, <2>6, SettlingStep
<1>10. ASSUME NEW h \in reading, ReadError(h)
       PROVE  Inv' /\ KeepsSettled
  <2>1. h.offset \in Reserved(p)
    BY <1>10, SettlingReserved DEF ReadError, p
  <2>2. sh' = ReleaseHandle(p, h.offset) /\ reading' \subseteq Handle
    BY <1>10, <1>t DEF ReadError, p
  <2>3. ShardInv(sh') /\ SameSettled(sh', p)
    BY <1>p, <2>1, <2>2, ReleaseLemma
  <2> QED BY <1>10, <1>p, <1>t, <2>2, <2>3, LeaseStep DEF ReadError, SameSettled
<1>11. ASSUME NEW h \in reading, ReadStale(h)
       PROVE  Inv' /\ KeepsSettled
  <2>1. (sh' = p \/ sh' = sh) /\ reading' \subseteq Handle
    BY <1>11, <1>t DEF ReadStale, p
  <2> QED BY <1>11, <1>p, <1>t, <2>1, LeaseStep DEF ReadStale
<1>12. ASSUME NEW h \in handles, CommitHandle(h)
       PROVE  Inv' /\ KeepsSettled
  <2>1. live /\ h.offset \in Reserved(p)
    BY <1>12, SettlingReserved DEF CommitHandle, p
  <2>2. /\ sh' = resolveReserved(p, h.offset, "ackedAhead")
        /\ pending' = TRUE /\ settled' = settled \cup {h.offset}
        /\ UNCHANGED <<tail, oldest, live, disk, reading, handles>>
    BY <1>12 DEF CommitHandle, p
  <2>3. /\ ShardInv(sh')
        /\ SettledOffsets(sh') = SettledOffsets(p) \cup {h.offset}
        /\ AckedOffsets(p) \subseteq AckedOffsets(sh')
    BY <1>p, <2>1, <2>2, ResolveLemma
  <2>4. h.offset \in Offsets
    BY <1>t DEF Handle
  <2> QED BY <1>p, <1>t, <2>1, <2>2, <2>3, <2>4, SettlingStep
<1>13. ASSUME NEW h \in handles, Extend(h)
       PROVE  Inv' /\ KeepsSettled
  <2>1. h.offset \in Reserved(p)
    BY <1>13, SettlingReserved DEF Extend, p
  <2>2. PICK v \in Timeouts : sh' = ExtendHandle(p, h, v)
    BY <1>13 DEF Extend, p
  <2>3. v \in Nat /\ h \in [offset : Offsets, nonce : Nonces]
    BY <1>t, TimeoutsAssumption DEF Handle
  <2>4. ShardInv(sh') /\ SameSettled(sh', p)
    BY <1>p, <2>1, <2>2, <2>3, ExtendLemma
  <2> QED BY <1>13, <1>p, <1>t, <2>4, LeaseStep DEF Extend, SameSettled
<1>14. ASSUME NEW h \in handles, Nack(h)
       PROVE  Inv' /\ KeepsSettled
  <2>1. h.offset \in Reserved(p)
    BY <1>14, SettlingReserved DEF Nack, p
  <2>2. sh' = ReleaseHandle(p, h.offset)
    BY <1>14 DEF Nack, p
  <2>3. ShardInv(sh') /\ SameSettled(sh', p)
    BY <1>p, <2>1, <2>2, ReleaseLemma
  <2> QED BY <1>14, <1>p, <1>t, <2>3, LeaseStep DEF Nack, SameSettled
<1>15. ASSUME NEW h \in handles, ConsumerGone(h)
       PROVE  Inv' /\ KeepsSettled
  <2>1. handles' \subseteq Handle
    BY <1>15, <1>t DEF ConsumerGone
  <2> QED BY <1>15, <1>t, <2>1, LeaseStep DEF ConsumerGone
<1>16. CASE AlterCaps
  <2>1. PICK caps \in CapsChoices : sh' = RefreshCaps(sh, caps)
    BY <1>16 DEF AlterCaps
  <2>2. caps \in [maxInFlight : Nat \ {0}, maxAckedAhead : Nat \ {0}]
    BY CapsAssumption
  <2>3. /\ ShardInv(sh') /\ sh'.committed = sh.committed
        /\ sh'.ackedAhead = sh.ackedAhead /\ sh'.corrupt = sh.corrupt
    BY <1>t, <2>1, <2>2, RefreshCapsLemma
  <2> QED BY <1>16, <1>t, <2>3, LeaseStep DEF AlterCaps
<1>17. CASE Persist
  <2>1. /\ disk' = [committed |-> sh.committed, ahead |-> sh.ackedAhead]
        /\ live /\ pending' = FALSE
        /\ UNCHANGED <<tail, oldest, live, sh, reading, handles, settled>>
    BY <1>17 DEF Persist, AheadSnapshot
  <2>2. sh.committed \in -1 .. LogEnd - 1 /\ sh.ackedAhead \in SUBSET Offsets
    BY <1>t DEF ShardInv, partitionShard
  <2>3. TypeOK'
    BY <2>1, <2>2 DEF Inv, TypeOK
  <2>4. Persisted' = AckedOffsets(sh) /\ AckedOffsets(sh)' = AckedOffsets(sh)
        /\ SettledOffsets(sh)' = SettledOffsets(sh)
    BY <2>1 DEF Persisted, AckedOffsets, SettledOffsets, Resolved
  <2>5. AckedOffsets(sh) \subseteq SettledOffsets(sh)
    BY DEF AckedOffsets, SettledOffsets, Resolved
  <2>6. SettledSound' /\ ShardKnowsDisk'
    BY <2>1, <2>4, <2>5 DEF Inv, SettledSound, ShardKnowsDisk
  <2>7. NothingUnpersisted'
    <3>1. \A o \in sh.ackedAhead : o > sh.committed
      <4>1. \A o \in sh.ackedAhead : o > sh.committed + 1 /\ o \in Int
        BY <1>t, <2>2, LogEndAssumption DEF ShardInv, FrontierOK, Resolved, Offsets
      <4> QED BY <2>2, <4>1, LogEndAssumption
    <3> QED BY <2>1, <3>1 DEF NothingUnpersisted
  <2>8. ShardInv(sh)'
    BY <1>t, <2>1 DEF ShardInv, LeasesOK, FrontierOK, HintOK, HintSkips, Resolved, Reserved
  <2>9. KeepsSettled
    BY <2>1 DEF KeepsSettled
  <2> QED BY <2>3, <2>6, <2>7, <2>8, <2>9 DEF Inv
<1>18. CASE DropPartition \/ Crash
  <2>1. /\ live' = FALSE /\ sh' = NoShard /\ pending' = FALSE
        /\ reading' \subseteq Handle
        /\ UNCHANGED <<tail, oldest, disk, handles, settled>>
    BY <1>18, <1>t DEF DropPartition, Crash
  <2>2. TypeOK' /\ ShardInv(sh')
    BY <2>1, NoShardLemma DEF Inv, TypeOK
  <2>3. ShardInv(sh)'
    BY <2>1, <2>2 DEF ShardInv, LeasesOK, FrontierOK, HintOK, HintSkips, Resolved, Reserved
  <2>4. SettledOffsets(sh)' = {} /\ Persisted' = Persisted
    BY <2>1, NoShardLemma DEF SettledOffsets, Resolved, Persisted
  <2>5. SettledSound' /\ ShardKnowsDisk' /\ NothingUnpersisted'
    BY <2>1, <2>4 DEF Inv, SettledSound, ShardKnowsDisk, NothingUnpersisted
  <2>6. KeepsSettled
    BY <2>1 DEF KeepsSettled
  <2> QED BY <2>2, <2>3, <2>5, <2>6 DEF Inv
<1>19. CASE UNCHANGED vars
  BY <1>19, <1>t, LeaseStep DEF vars
<1> QED
  BY <1>1, <1>2, <1>3, <1>4, <1>5, <1>6, <1>7, <1>8, <1>9, <1>10, <1>11, <1>12,
     <1>13, <1>14, <1>15, <1>16, <1>17, <1>18, <1>19
  DEF Next

LEMMA SpecInv == Spec => []Inv
<1> QED BY InitInv, NextInv, PTL DEF Spec

(***************************************************************************)
(* Every variable keeps its type: the state of the lease table is always   *)
(* one the Go types and their documented ranges allow.                     *)
(***************************************************************************)
THEOREM TypeCorrect == Spec => []TypeOK
<1>1. Inv => TypeOK
  BY DEF Inv
<1> QED BY <1>1, SpecInv, PTL

(***************************************************************************)
(* No record is passed unread: the frontier of resolveReserved and         *)
(* SkipMissingBelow, and the record the committer wrote from it, stand     *)
(* only on acked, corrupt or retired offsets, over any crash.              *)
(***************************************************************************)
THEOREM FrontierCorrect == Spec => []FrontierSettled
<1>1. Inv => FrontierSettled
  BY DEF Inv, FrontierSettled, SettledSound, Persisted, SettledOffsets
<1> QED BY <1>1, SpecInv, PTL

(***************************************************************************)
(* The nextFree hint of ReserveNext never hides a record that waits for    *)
(* delivery.                                                               *)
(***************************************************************************)
THEOREM HintCorrect == Spec => []NextFreeSound
<1>1. Inv => NextFreeSound
  BY DEF Inv, NextFreeSound, ShardInv, HintOK, HintSkips, resolvedOrReservedLocked,
         Reserved, Resolved
<1> QED BY <1>1, SpecInv, PTL

(***************************************************************************)
(* Every lease has a slot in the expiry heap, through extensions, purges   *)
(* and the rebuild of compactExpiryLocked.                                 *)
(***************************************************************************)
THEOREM LeasesLapse == Spec => []LeaseCanLapse
<1>1. Inv => LeaseCanLapse
  BY DEF Inv, LeaseCanLapse, ShardInv, LeasesOK
<1> QED BY <1>1, SpecInv, PTL

(***************************************************************************)
(* An offset has at most one lease, and none once it is settled.           *)
(***************************************************************************)
THEOREM LeasesExclusive == Spec => []OneLeasePerUnsettledOffset
<1>1. Inv => OneLeasePerUnsettledOffset
  <2> SUFFICES ASSUME ShardInv(sh) PROVE OneLeasePerUnsettledOffset
    BY DEF Inv
  <2>1. \A e \in sh.entries : e.offset \notin SettledOffsets(sh)
    <3>1. sh.committed \in Int
      BY ShardFields DEF ShardInv
    <3>2. \A e \in sh.entries : e.offset \in Int
      BY ShardFields, LogEndAssumption DEF ShardInv, Slot, Offsets
    <3> QED BY <3>1, <3>2 DEF ShardInv, LeasesOK, SettledOffsets
  <2> QED BY <2>1 DEF OneLeasePerUnsettledOffset, ShardInv, LeasesOK, Reserved
<1> QED BY <1>1, SpecInv, PTL

(***************************************************************************)
(* The committer misses no ack: with nothing pending, the persisted record *)
(* is the shard's frontier and acked-ahead set.                            *)
(***************************************************************************)
THEOREM CommitterComplete == Spec => []NothingUnpersisted
<1>1. Inv => NothingUnpersisted
  BY DEF Inv
<1> QED BY <1>1, SpecInv, PTL

(***************************************************************************)
(* The persisted record only grows, because a live shard never knows less  *)
(* than the disk it was recovered from.                                    *)
(***************************************************************************)
THEOREM PersistedMonotonic == Spec => PersistedNeverRegresses
<1>1. ASSUME Inv, [Next]_vars
      PROVE  Persisted \subseteq Persisted'
  <2>1. CASE Persist
    BY <1>1, <2>1 DEF Inv, ShardKnowsDisk, Persist, AheadSnapshot, AckedOffsets, Persisted
  <2>2. CASE UNCHANGED disk
    BY <2>2 DEF Persisted
  <2>3. Persist \/ UNCHANGED disk
    BY <1>1 DEF Next, vars, Produce, Reap, Tick, shardOrCreate, ReserveNext, purgeAll,
                Deliver, SkipCorrupt, SkipMissing, ReadError, ReadStale, CommitHandle,
                Extend, Nack, ConsumerGone, AlterCaps, DropPartition, Crash
  <2> QED BY <2>1, <2>2, <2>3
<1>2. Inv /\ [Next]_vars =>
        [0 .. disk.committed \cup disk.ahead \subseteq
           0 .. disk'.committed \cup disk'.ahead]_vars
  BY <1>1 DEF Persisted
<1> QED BY <1>2, SpecInv, PTL DEF Spec, PersistedNeverRegresses

(***************************************************************************)
(* No step of a shard's life, be it a lapse, a nack, a late ack or         *)
(* retention's SkipMissingBelow, takes an ack back.                        *)
(***************************************************************************)
THEOREM SettledMonotonic == Spec => SettledStaysSettled
<1>1. Inv /\ [Next]_vars =>
        [live /\ live' => SettledOffsets(sh) \subseteq SettledOffsets(sh')]_vars
  BY NextInv DEF KeepsSettled
<1> QED BY <1>1, SpecInv, PTL DEF Spec, SettledStaysSettled
=============================================================================
