# Narad in TLA+

TLA+ modules of the parts of Narad that carry its delivery guarantee, the TLC
configurations that check them on small instances, and TLAPS proofs about the
lease table. Every definition is translated from the Go code; `PROJECT.json`
names the lines each one stands for. Paths below are under `src/`.

## The system

A record's way through Narad, and the parts it meets:

1. A producer's record is appended to the **ingress WAL** of the node that took
   the request, and answered 202 once it is durable
   (`internal/persistence/wal`, `internal/broker/ingress`).
2. The node's **produce dispatcher** reads the WAL, commits each record to the
   owner of its partition and moves the checkpoint, behind which the WAL is
   compacted (`internal/cluster/produce_*.go`).
3. The owner's **commit cycle** appends the batch to the **partition log**
   (`internal/broker/messaging/produce_commit.go`, `internal/persistence/storage`).
4. A consumer leases the next free record from the partition's **lease table**
   and acks, nacks, extends or abandons it (`internal/consumer`). Consumers with
   nothing to take park in the **consume dispatch** (`messaging/dispatch.go`).
5. The **offset committer** persists what was acked, the frontier and the acks
   ahead of it (`internal/broker/runtime/consumer_offsets.go`).
6. **Partition moves** copy a partition and its offset files to a new owner;
   **fan-out** copies a parent topic's records to its children; the **metastore**
   (Raft) says which topics, members, assignments and moves there are; the
   **controller** decides the moves.

### Inventory

| component | state | operations | what makes it hard | what must hold | module |
|---|---|---|---|---|---|
| lease table | frontier, leases, expiry heap, acked-ahead, scan hint | reserve, ack, nack, extend, skip, purge, cap refresh, recover | lapses racing acks, stale hint, stale heap slots | frontier only over settled records, one lease each, redelivery until settled | `Shard`, `InFlight` |
| consume dispatch and owner-side tokens | waiter queue, dirty mark, holds, gate | park, give up, pump, wake, claim, refuse, release topic | wake-ups that cross the pump, hand-over to a caller that left | no lost wake, no orphan lease, gate exact | `Dispatch` |
| offset committer | two slots and a frontier file per directory, pending set, per-partition state | commit, tick (prime, write, sync, flip), evict, forget | kill and power loss between two writes, directory replaced under a tick | what was flushed survives, acks stay with their copy, acks reach the files | `OffsetCommitter`, `AckStore` |
| ingress WAL and checkpoint | segments, group commit, durable end, checkpoint file | append, flush, roll, prepare, replay, store, compact, open | torn writes, failed syncs, rolls under a flush, crash in recovery | a 202 is never lost, seqs unique, only durable records replayed | `IngressLog` |
| produce dispatcher | marks per seq, queue per destination, commits in flight, memos, checkpoint | read, rescan, place, launch, finish, reroute, discard, checkpoint | stale replica, deleted and recreated topic, hung owner, lost answers | nothing dropped, partition order, once without faults, the log drains | `ProduceDispatch`, `Outbox` |
| owner's commit cycle | combiner queue, produce lock, log tail | combine, lock, append, sync, advance watermark | handoff freeze, failed sync, incarnation change | only durable records readable, nothing after a freeze | planned |
| partition log | segments, index, watermark, retention | append, recover, roll, trim, reset | torn tail, retention against readers | watermark within what is durable | planned |
| partition move, sweep | staged copy, phases, freeze | copy, freeze, install, flip, abort, sweep | crash between install and flip, a late second copy | one owner serves, no acked record left behind | planned |
| fan-out | cursor per child, anchor, link epoch | step, commit, relink | delete and relink, crash between commit and cursor | each child gets each record at least once after the anchor | planned |
| metastore FSM | topics, members, assignments, moves, links | its commands, snapshot, restore | stale commands, versions | conditional commands, references closed | planned |
| controller | plans, drains | plan, throttle, decommission | stale view, member flaps | no partition without a live copy | planned |
| remote children | delivery state per link | send, confirm, retry | duplicate and late confirmations | in order, at least once | planned |

Pure request handling (HTTP, authentication, schema validation, codecs,
configuration, metrics) keeps no state that steps share and is not modelled.
`PROJECT.json` lists every component with its status.

### Plan

Built, in this order of importance: (1) lease table with proofs, (2) consume
dispatch, (3) offset committer, (4) ingress WAL, (5) produce dispatcher. Next:
(6) owner's commit cycle over the partition log, (7) partition move and sweep,
(8) fan-out cursor, (9) metastore state machine, (10) controller and
decommission, (11) the composition `Outbox` -> lease table -> `AckStore` as one
at-least-once pipeline, (12) remote children. Proofs to follow: that
`ProduceDispatch` implements `Outbox` and keeps `HeldOnce`, the directory
argument of `OffsetCommitter` (`ShardOfThisCopy`), and the exclusive-owner
invariant of the partition move.

## Modules

**Shard** has the operations of `partitionShard` (`consumer/shard.go`,
`reserve.go`, `extend.go`, `complete.go`) as operators on a record: `entries`
are the leases, `expiry` the heap with its stale slots, `nextFree` the scan
hint, `committed` and `ackedAhead` the settled offsets. Time is the time left on
a lease. **InFlight** makes it a state machine: consumers, the read after a
reservation, retention, cap changes, the committer's snapshot, drop, crash and
recovery. **ShardProofs**, **InFlightProofs**: see Proofs.

**Dispatch** puts parked consumers around a shard. The pump goroutine's steps
are the critical sections of the topic's mutex and the shard's; a wake is owed
from the moment its cause happens until `wakeNotifier` runs. Tokens of peers are
anonymous entries of the queue; a hold is one promise to a peer. The topic is
kept, deleted, or deleted and created again under its name, which starts an empty
log: the pump's read of a reserved record then fails (`resolveUnreadable`) or
finds the lease's shard gone, and puts back a waiter that is in no queue.

**OffsetCommitter** models a partition's directory as pages with a cached and a
device image, so that a kill keeps the first and a power loss any mix the kernel
may have written. The tick is one action per function `tickAt` calls, so the
directory may change wherever it lets go of `ioMu`. A move's install is cut where
the path changes: cleared, the copy renamed to it, the parents synced; either of
the last two may fail, which leaves the path empty and skips the reset behind it,
and a flip that is refused takes the copy back. **AckStore** is what the
committer promises: the acks a directory will show hold everything flushed, and a
directory only gets acks of its own copy; `ImplementsAckStore` is the refinement,
checked with the crashes and faults of the same run.

**IngressLog** models segments as frames with the same two images, the group
commit of `wal/append.go` and `sync.go`, rolls and prepared segments, `Open` with
its scan and truncation, replay, the checkpoint writer with its background
flush, and compaction. The write limit of prepared segments is part of the
configuration, so that a group commit is one write that can tear anywhere or
several runs.

**ProduceDispatch** models the loop goroutine of `ProduceDispatcher`. `s` is
`produceDispatchState`; the helpers are operators on it with the code's names
(`Enqueue`, `HoldAll`, `KeepProbe`, `Release`, `RequestRescan`, ...). A round is
cut at every record read and every commit started, so that metadata, owners and
commit goroutines move in between. The topic's life (created, deleted, created
again) is a sequence of which the leader, this node's replica and each owner see
a prefix. Timers are choices: a retry falls due, a commit turns slow, the
reroute grace has passed, a batch lingers, the rescan backstop fires, the memo
of an unconfirmed delete or replacement lapses. The limits `PerDestCap`,
`HoldLimit` and `Horizon` are computed from `BatchSize` as the code does. A
partition's log keeps the incarnation each record was committed under, and an
owner commits at any position of the topic's life it may have applied, so a
record that reached a later topic of the same name is not counted as delivered.
**Outbox** is the promise of the pipeline to a
producer; `ImplementsOutbox` is the refinement.

The `MC*` modules give the instances. Where a module has a constant `Confs`,
`Init` picks one of several small sets of bounds, so that one run covers
instances that would be too large together.

## Runs

| run | shows | instance, states |
|---|---|---|
| `inflight` | seven invariants of the lease table | 3 offsets, 2 nonces, 2 cap settings, symmetry; 307 614 |
| `inflight_live` | acks are never undone, the persisted record never shrinks, redelivery | 2 offsets, 2 nonces; 22 717 |
| `dispatch` | no lost wake, no orphan lease, release wakes all, gate exact | 2 consumers and 2 records; 1 and a peer's token with 2 holds, topic deleted; 2 consumers, topic deleted and created again; 943 415 |
| `offsets` | a power loss keeps what was flushed, shards stay with their copy, refinement of `AckStore`, acks reach the files | 3 offsets and a crash; 2 offsets and a fault; 2 offsets and 2 directories; 2 directories, a fault and a crash; 494 705 |
| `ingress` | ten properties of the WAL and its checkpoint | 2 frames a segment, up to 4 records, 1 fault, up to 2 crashes, write limit 1 or 2; 274 603 |
| `produce` | nothing dropped, held once, skipped findable, order, once, refinement of `Outbox`, the log drains | ten instances: `BatchSize` 1, 2, 8; up to 4 records of 1 partition, or 2 partitions with a failing or dead owner; a crash, topic changes; 110 757 |

The bounds are the least at which the cases meet: three offsets for an ack two
ahead of a hole; two consumers for one to leave while the pump serves the other;
two directories for a tick to meet a replaced one; three windows (one flushed
before the start, two offsets more) for a write over the only durable slot; two
frames to a segment for a batch that a roll splits and for a write that tears in
front of a valid frame; four records at `BatchSize` 2 for a rescan that skips
again what it skipped, `BatchSize` 1 for one that stops half-way, and three at
`BatchSize` 8 for a full queue, a probe and a record behind it; two topic changes
for a name created again.

Six runs refute what the repository says of itself (`findings` in
`PROJECT.json` quotes the lines):

- `dispatch_gap`: a lease that lapses and is purged by `ReserveNext` itself
  wakes no parked consumer.
- `dispatch_delete`: of two consumers that park after a deleted topic's release,
  the pump wakes one.
- `ingress_refused`: a power loss in the middle of `Open`, after a kill in the
  middle of a group commit, leaves a prepared segment that `Open` refuses.
- `ingress_floor`: a roll during the first compaction after an open or a roll
  goes unnoticed, and its segment is skipped by later compactions.
- `produce_launch`: within one read two partitions remember each other as
  stand-ins; when then neither resolves, `launch` moves the records back and
  forth for ever. `Drains` is therefore stated for behaviours in which `launch`
  returns, and `NoLostWake` and `ReleaseWakesAll` leave out the states of the
  first two.

- `produce_quiet`: the topic is deleted while the leader cannot be asked. The
  answer is remembered for the read epoch, and only other records move that on:
  on a node that receives nothing else nobody asks again, and the record pins the
  checkpoint. `Drains` is therefore stated while the topic exists.

One more exception has no run of its own. `NoGapBelowOldest` is stated while no
I/O call fails: when a background flush of the checkpoint fails, a flush that a
store armed meanwhile may succeed without writing the page again (the kernel
marked it clean), `durable()` reports a value that is not on the device, and a
power loss after the next compaction leaves a checkpoint below the oldest
segment. `OpenManager` raises it there, so no record is lost.

## Fairness

- InFlight: time passes, the purger, the consume calls and the committer run,
  and a consumer that does not answer is eventually gone. Acks are never assumed.
- OffsetCommitter: the tick goroutine runs; strong fairness for the collection
  of a due flush and for directory operations, which wait on Go mutexes that
  hand over to a waiter after a millisecond.
- IngressLog: the flusher's next step, the callers and a restarted process run;
  strong fairness for the dispatcher's pass, which crashes interrupt. The
  checkpoint's background flush needs none.
- ProduceDispatch: the loop runs; strong fairness for taking a result (Go's
  `select` chooses among ready cases at random, and every round drains), for a
  due retry, for starting a ready destination (the linger is capped) and for the
  rescan backstop; the memos of a round lapse; commits return because every RPC
  has a deadline; replicas catch up and dead owners come back. Records of other
  topics may arrive and are never assumed to.

## Proofs

`InFlightProofs` proves, for every log length, heap slack, set of nonces, set of
timeouts and set of caps (assumptions `LogEndAssumption`, `SlackAssumption`,
`TimeoutsAssumption`, `CapsAssumption`): `TypeCorrect`, `FrontierCorrect`,
`HintCorrect`, `LeasesLapse`, `LeasesExclusive`, `CommitterComplete`, and the
action properties `PersistedMonotonic` and `SettledMonotonic`.

None of the safety invariants is inductive alone. The invariant `Inv` joins them
with two facts: every offset in the frontier or acked ahead was settled by an
ack, a skip or retention (`SettledSound`), without which a frontier that
advances over acked-ahead offsets proves nothing; and a live shard knows at
least what the files say (`ShardKnowsDisk`), without which a write could shrink
the persisted record. `InitInv` and `NextInv` show it inductive, one step per
action; `ShardProofs` has one lemma per operator of the shard (what it does to
the frontier, the hint, the leases and the heap), which the steps cite.

Only model-checked: `AheadBounded`, liveness (all of it), and everything about
Dispatch, OffsetCommitter, IngressLog and ProduceDispatch.

## Assumptions and what is left out

- OffsetCommitter: the file system keeps directory changes in order; an 8-byte
  write is atomic; a record fits its slot; a shard is only created while the
  partition is owned (`move_runner.go:757`). A power loss undoes no rename of a
  directory: the flip comes after the sync of its parents. A kill while a page that the kernel
  failed to write and marked clean is in the cache is excluded: no process can
  tell such a page from a written one. The final tick of `Close`, the descriptor
  budget over several partitions and a committer without source are left out.
- IngressLog: directory changes are journalled in order; pages of a failed sync
  leave the cache; frames have one size; an I/O error in `Open` is a process
  that dies. Creating a segment and syncing the directory is one step, since the
  new file is empty and the directory is found as before or as after it; so is
  preparing a spare. A fill that fails (`withdrawLocked`) and a graceful `Close` are left
  out.
- Dispatch: one topic, one partition, fixed caps; the delta protocol that
  registers tokens is one action.
- ProduceDispatch: one topic with a stamped incarnation; WAL cursors are
  sequence numbers; an owner's replica may be anywhere up to the leader's. A
  partition's target is looked up in the replica instead of in the table that is
  rebuilt when its version changes. Left out are `DispatchAvailable` (tests),
  shutdown, owners of an older release (which commit by name), the set of
  incarnations known to be gone (it saves questions), holes in the WAL, and the
  resizing of the window.
- Consensus, connections and the file system are external, modelled by what the
  code relies on.
