------------------------------ MODULE InFlight ------------------------------
(***************************************************************************)
(* Leases on one partition of a queue: consume calls reserve an offset and *)
(* read its record, consumers ack, extend or nack with the receipt handle  *)
(* they were given, leases lapse, the offset committer persists what was   *)
(* acked, and the process crashes and recovers from what was persisted.    *)
(*                                                                         *)
(* The code is internal/consumer and the consume scan of                   *)
(* internal/broker/messaging/consume.go.  Every action is one critical     *)
(* section of the shard's mutex, because that is how the calls interleave; *)
(* a consume call is a reserve and, later, what its read led to.           *)
(***************************************************************************)
EXTENDS Shard

CONSTANTS
  Timeouts,      \* visibility timeouts a topic may be given, in clock ticks
  CapsChoices    \* caps a topic may be given

ASSUME TimeoutsAssumption == Timeouts \subseteq Nat \ {0}
ASSUME CapsAssumption ==
  CapsChoices \subseteq [maxInFlight : Nat \ {0}, maxAckedAhead : Nat \ {0}]

VARIABLES
  tail,      \* log.HighWatermark(): offsets below it can be consumed
  oldest,    \* log.OldestOffset(): retention removed everything below it
  live,      \* this node holds a shard for the partition
  sh,        \* the shard
  pending,   \* a change the committer has not persisted: it was told, or the
             \* onCommit call that follows the unlock is on its way
  disk,      \* the persisted frontier and acked-ahead set
  reading,   \* reservations whose record a consume call is reading
  handles,   \* receipt handles delivered to a consumer that may still use them
  settled    \* history: offsets some consumer acked, or skipped as corrupt

logVars == <<tail, oldest>>
vars == <<tail, oldest, live, sh, pending, disk, reading, handles,
          settled>>

Handle == [offset : Offsets, nonce : Nonces]

NoCaps == [maxInFlight |-> 1, maxAckedAhead |-> 1]
NoShard == newPartitionShard(-1, NoCaps)

(***************************************************************************)
(* A nonce is 63 random bits.  It is modelled as different from every      *)
(* nonce anything still refers to.                                         *)
(***************************************************************************)
nextNonceLocked(n) ==
  /\ \A e \in sh.entries \cup sh.expiry : e.nonce # n
  /\ \A h \in reading \cup handles : h.nonce # n

Init ==
  /\ tail = 0 /\ oldest = 0
  /\ live = FALSE /\ sh = NoShard
  /\ pending = FALSE /\ disk = [committed |-> -1, ahead |-> {}]
  /\ reading = {} /\ handles = {}
  /\ settled = {}

-----------------------------------------------------------------------------
(***************************************************************************)
(* The log: a produce raises the high watermark, retention the oldest      *)
(* offset.  Both are the storage engine's, seen through the two numbers    *)
(* the consume path reads.                                                 *)
(***************************************************************************)
Produce ==
  /\ tail < LogEnd
  /\ tail' = tail + 1
  /\ UNCHANGED <<oldest, live, sh, pending, disk, reading, handles, settled>>

Reap ==
  /\ oldest < tail
  /\ \E o \in oldest + 1 .. tail : oldest' = o
  /\ UNCHANGED <<tail, live, sh, pending, disk, reading, handles, settled>>

Tick ==
  /\ live
  /\ sh' = now(sh)
  /\ UNCHANGED <<logVars, live, pending, disk, reading, handles, settled>>

-----------------------------------------------------------------------------
(***************************************************************************)
(* Variant: recovery reads the frontier only.                              *)
(***************************************************************************)
createWithoutAhead ==
  /\ ~ live
  /\ live' = TRUE
  /\ \E caps \in CapsChoices : sh' = newPartitionShard(disk.committed, caps)
  /\ pending' = FALSE
  /\ UNCHANGED <<logVars, disk, reading, handles, settled>>

(***************************************************************************)
(* shardOrCreate with recoverShard: a consume that finds no shard builds   *)
(* one from the persisted state, and tells the committer when seeding the  *)
(* acked-ahead set moved the frontier past the persisted one.              *)
(***************************************************************************)
shardOrCreate ==
  /\ ~ live
  /\ live' = TRUE
  /\ \E caps \in CapsChoices :
       sh' = seedAheadLocked(newPartitionShard(disk.committed, caps), disk.ahead)
  /\ pending' = (sh'.committed > disk.committed)
  /\ UNCHANGED <<logVars, disk, reading, handles, settled>>

(***************************************************************************)
(* ReserveNext: purge, then hand out an offset to read.                    *)
(***************************************************************************)
ReserveNext ==
  LET s == purgeExpiredLocked(sh)
  IN  /\ live
      /\ \E off \in Offsets, v \in Timeouts, n \in Nonces :
           /\ ReserveNextPicks(s, tail, off)
           /\ nextNonceLocked(n)
           /\ sh' = reserveLocked(s, off, v, n)
           /\ reading' = reading \cup {[offset |-> off, nonce |-> n]}
      /\ UNCHANGED <<logVars, live, pending, disk, handles, settled>>

(***************************************************************************)
(* A purge that leads to nothing else: ReserveNext finding nothing to hand *)
(* out, a call with a stale handle, and the purger's sweep (purgeAll).     *)
(***************************************************************************)
purgeAll ==
  /\ live
  /\ sh' = purgeExpiredLocked(sh)
  /\ UNCHANGED <<logVars, live, pending, disk, reading, handles, settled>>

(***************************************************************************)
(* What a call settling the reservation h does to the shard.               *)
(***************************************************************************)
Settling(h) == live /\ Holds(purgeExpiredLocked(sh), h)

(***************************************************************************)
(* tryQueueRead, the read succeeded: the record goes to a consumer.        *)
(***************************************************************************)
Deliver(h) ==
  /\ h.offset >= oldest
  /\ reading' = reading \ {h}
  /\ handles' = handles \cup {h}
  /\ UNCHANGED <<logVars, live, sh, pending, disk, settled>>

(***************************************************************************)
(* resolveUnreadable, by the read's error: the record is corrupt, it is    *)
(* below the oldest retained offset (as the call read it, which may be     *)
(* behind the log's by now), or the error is transient.                    *)
(***************************************************************************)
SkipCorrupt(h) ==
  LET s == purgeExpiredLocked(sh)
  IN  /\ Settling(h)
      /\ sh' = resolveReserved(s, h.offset, "corrupt")
      /\ pending' = (pending \/ h.offset = s.committed + 1)
      /\ reading' = reading \ {h}
      /\ settled' = settled \cup {h.offset}
      /\ UNCHANGED <<logVars, live, disk, handles>>

SkipMissing(h) ==
  /\ Settling(h)
  /\ \E bound \in h.offset + 1 .. oldest :
       sh' = SkipMissingBelow(purgeExpiredLocked(sh), bound)
  /\ pending' = TRUE
  /\ reading' = reading \ {h}
  /\ UNCHANGED <<logVars, live, disk, handles, settled>>

ReadError(h) ==
  /\ Settling(h)
  /\ sh' = ReleaseHandle(purgeExpiredLocked(sh), h.offset)
  /\ reading' = reading \ {h}
  /\ UNCHANGED <<logVars, live, pending, disk, handles, settled>>

(***************************************************************************)
(* The reservation of a read that failed was purged or dropped meanwhile:  *)
(* the consume reserves again.                                             *)
(***************************************************************************)
ReadStale(h) ==
  /\ ~ Settling(h)
  /\ sh' = IF live THEN purgeExpiredLocked(sh) ELSE sh
  /\ reading' = reading \ {h}
  /\ UNCHANGED <<logVars, live, pending, disk, handles, settled>>

-----------------------------------------------------------------------------
(***************************************************************************)
(* Variant: the committer hears only of frontier moves.                    *)
(***************************************************************************)
CommitHandleQuietAhead(h) ==
  /\ Settling(h)
  /\ sh' = resolveReserved(purgeExpiredLocked(sh), h.offset, "ackedAhead")
  /\ pending' = (pending \/ sh'.committed # sh.committed)
  /\ settled' = settled \cup {h.offset}
  /\ UNCHANGED <<logVars, live, disk, reading, handles>>

(***************************************************************************)
(* The consumer's calls.  The handle stays usable: a client whose answer   *)
(* was lost repeats the call, and a slow one calls long after the lease.   *)
(***************************************************************************)
CommitHandle(h) ==
  /\ Settling(h)
  /\ sh' = resolveReserved(purgeExpiredLocked(sh), h.offset, "ackedAhead")
  /\ pending' = TRUE
  /\ settled' = settled \cup {h.offset}
  /\ UNCHANGED <<logVars, live, disk, reading, handles>>

Extend(h) ==
  /\ Settling(h)
  /\ \E v \in Timeouts : sh' = ExtendHandle(purgeExpiredLocked(sh), h, v)
  /\ UNCHANGED <<logVars, live, pending, disk, reading, handles, settled>>

Nack(h) ==
  /\ Settling(h)
  /\ sh' = ReleaseHandle(purgeExpiredLocked(sh), h.offset)
  /\ UNCHANGED <<logVars, live, pending, disk, reading, handles, settled>>

ConsumerGone(h) ==
  /\ handles' = handles \ {h}
  /\ UNCHANGED <<logVars, live, sh, pending, disk, reading, settled>>

-----------------------------------------------------------------------------
(***************************************************************************)
(* An operator alters the topic's caps and the live shard follows.         *)
(***************************************************************************)
AlterCaps ==
  /\ live
  /\ \E caps \in CapsChoices : sh' = RefreshCaps(sh, caps)
  /\ UNCHANGED <<logVars, live, pending, disk, reading, handles, settled>>

(***************************************************************************)
(* A tick of the offset committer: the snapshot of the shard (frontier and *)
(* acked-ahead set under one lock) replaces the persisted record.          *)
(***************************************************************************)
AheadSnapshot(s) == [committed |-> s.committed, ahead |-> s.ackedAhead]

Persist ==
  /\ live /\ pending
  /\ disk' = AheadSnapshot(sh)
  /\ pending' = FALSE
  /\ UNCHANGED <<logVars, live, sh, reading, handles, settled>>

(***************************************************************************)
(* DropPartition removes the shard; reads and handles given out before it  *)
(* are still on their way.  A crash also ends the reads.                   *)
(***************************************************************************)
DropPartition ==
  /\ live
  /\ live' = FALSE /\ sh' = NoShard /\ pending' = FALSE
  /\ UNCHANGED <<logVars, disk, reading, handles, settled>>

Crash ==
  /\ live' = FALSE /\ sh' = NoShard /\ pending' = FALSE
  /\ reading' = {}
  /\ UNCHANGED <<logVars, disk, handles, settled>>

Next ==
  \/ Produce \/ Reap \/ Tick
  \/ shardOrCreate \/ ReserveNext \/ purgeAll
  \/ \E h \in reading :
       Deliver(h) \/ SkipCorrupt(h) \/ SkipMissing(h) \/ ReadError(h) \/ ReadStale(h)
  \/ \E h \in handles :
       CommitHandle(h) \/ Extend(h) \/ Nack(h) \/ ConsumerGone(h)
  \/ AlterCaps \/ Persist \/ DropPartition \/ Crash

(***************************************************************************)
(* The clock advances, the purger's ticker fires, consumers keep polling,  *)
(* a consume call runs to its end, and a consumer does not present one     *)
(* handle for ever (nonces are drawn from a finite set here).              *)
(***************************************************************************)
Fairness ==
  /\ WF_vars(Tick) /\ WF_vars(purgeAll)
  /\ WF_vars(shardOrCreate) /\ WF_vars(ReserveNext)
  /\ WF_vars(\E h \in reading : Deliver(h) \/ ReadStale(h))
  /\ WF_vars(\E h \in handles : ConsumerGone(h))

Spec == Init /\ [][Next]_vars /\ Fairness

-----------------------------------------------------------------------------
(***************************************************************************)
(* Every variable has the type its Go counterpart has.                     *)
(***************************************************************************)
TypeOK ==
  /\ tail \in 0 .. LogEnd /\ oldest \in 0 .. tail
  /\ live \in BOOLEAN /\ pending \in BOOLEAN
  /\ sh \in partitionShard
  /\ disk \in [committed : -1 .. LogEnd - 1, ahead : SUBSET Offsets]
  /\ reading \subseteq Handle /\ handles \subseteq Handle
  /\ settled \subseteq Offsets

(***************************************************************************)
(* Nothing unread is ever passed: the frontier, in memory and persisted,   *)
(* stands only on offsets that a consumer acked, that were skipped as      *)
(* corrupt, or that retention removed, whatever leases lapsed and whatever *)
(* a crash lost in between.                                                *)
(***************************************************************************)
FrontierSettled ==
  0 .. sh.committed \cup 0 .. disk.committed \cup disk.ahead
    \subseteq settled \cup 0 .. oldest - 1

(***************************************************************************)
(* The scan hint hides nothing: every offset between the frontier and      *)
(* nextFree is leased or resolved, so ReserveNext, which starts its scan   *)
(* there, cannot step over a record that waits for delivery.               *)
(***************************************************************************)
NextFreeSound ==
  \A o \in sh.committed + 1 .. sh.nextFree - 1 : resolvedOrReservedLocked(sh, o)

(***************************************************************************)
(* Every lease can lapse: the expiry heap holds a slot that matches it,    *)
(* through extensions and rebuilds of the heap.  A lease without one would *)
(* outlive its consumer and hide its record for good.                      *)
(***************************************************************************)
LeaseCanLapse == sh.entries \subseteq sh.expiry

(***************************************************************************)
(* A record is with one consumer at a time, and never one that is already  *)
(* settled.                                                                *)
(***************************************************************************)
OneLeasePerUnsettledOffset ==
  /\ \A e, f \in sh.entries : e.offset = f.offset => e = f
  /\ Reserved(sh) \cap SettledOffsets(sh) = {}

(***************************************************************************)
(* In the life of a shard an offset that was settled stays settled, so no  *)
(* ack is undone by a lapse, a nack, a late call or retention.             *)
(***************************************************************************)
SettledStaysSettled ==
  [][live /\ live' => SettledOffsets(sh) \subseteq SettledOffsets(sh')]_vars

(***************************************************************************)
(* Acks are never refused, and still the state ahead of the frontier is    *)
(* bounded: an offset is handed out past the frontier only while the       *)
(* frontier's own offset is leased and the set is not full, so what is or  *)
(* can become acked ahead stays two below maxAckedAhead + maxInFlight (the *)
(* bound the code states) of the largest caps the topic was given.         *)
(***************************************************************************)
LeasedAhead(s) == { o \in Reserved(s) : o > s.committed + 1 }

AheadBounded ==
  \E a, b \in CapsChoices \cup {NoCaps} :
    Cardinality(sh.ackedAhead) + Cardinality(sh.corrupt) + Cardinality(LeasedAhead(sh))
      <= a.maxAckedAhead + b.maxInFlight - 2

(***************************************************************************)
(* No ack is forgotten by the committer: while no onCommit call is due or  *)
(* waits for its tick, a crash would recover exactly the shard's frontier  *)
(* and acked-ahead set.                                                    *)
(***************************************************************************)
NothingUnpersisted ==
  live /\ ~ pending =>
    /\ sh.committed = disk.committed
    /\ sh.ackedAhead = { o \in disk.ahead : o > disk.committed }

(***************************************************************************)
(* The persisted frontier never goes back, over crashes, drops and         *)
(* recoveries, and an offset persisted as acked stays so.                  *)
(***************************************************************************)
PersistedNeverRegresses ==
  [][0 .. disk.committed \cup disk.ahead \subseteq
       0 .. disk'.committed \cup disk'.ahead]_vars

(***************************************************************************)
(* From some point on nobody extends a lease, alters the caps, drops the   *)
(* shard or crashes the process.  Each of these may put a delivery off,    *)
(* and each is somebody's choice.                                          *)
(***************************************************************************)
Undisturbed ==
  <>[][ /\ live => live'
        /\ live /\ live' => sh'.maxInFlight = sh.maxInFlight
        /\ \A e \in sh.entries, f \in sh'.entries :
             e.nonce = f.nonce => f.expiresIn <= e.expiresIn ]_vars

(***************************************************************************)
(* At-least-once, from the lease table's side: a record the frontier waits *)
(* for is handed out again and again until it is settled, though every     *)
(* consumer that gets it dies or never answers.                            *)
(***************************************************************************)
RedeliveredUntilSettled ==
  Undisturbed /\ <>[](sh.committed + 1 < tail) /\ <>[][sh'.committed = sh.committed]_vars
    => []<><<\E h \in reading' \ reading : h.offset = sh.committed + 1>>_vars
=============================================================================
