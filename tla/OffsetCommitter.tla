-------------------------- MODULE OffsetCommitter --------------------------
(***************************************************************************)
(* The offset committer (internal/broker/runtime/consumer_offsets.go) for  *)
(* one partition: ticks persist the shard's acks into consumer.ahead (two  *)
(* slots, a durable anchor and a window that is overwritten in place) and  *)
(* consumer.offset, while the partition's directory is removed, replaced   *)
(* by a move's copy or recreated under the path, syncs fail, the process   *)
(* is killed and the machine loses power.                                  *)
(*                                                                         *)
(* A tick is one action per function tickAt calls, which is where it takes *)
(* and releases ioMu.  An ack is an offset; a record of consumer.ahead is  *)
(* the set of offsets it says were acked (its frontier and the acked-ahead *)
(* offsets above it).                                                      *)
(***************************************************************************)
EXTENDS Integers, Sequences, FiniteSets

CONSTANTS
  None,         \* no record, no shard, no state
  LogEnd,       \* offsets of the partition's log are 0 .. LogEnd - 1
  Copies,       \* what a copy's consumers may have acked
  Confs         \* what a behaviour starts from (the copy in place) and its
                \* bounds: offsets its log holds, directories made at the
                \* path, I/O calls that fail, crashes

Offsets == 0 .. LogEnd - 1

ASSUME LogEndAssumption == LogEnd \in Nat \ {0}
ASSUME CopiesAssumption == Copies \subseteq SUBSET Offsets
ASSUME ConfsAssumption ==
  Confs \subseteq [copy : Copies, end : 1 .. LogEnd, dirs : Nat, faults : Nat,
                   crashes : Nat]

VARIABLES
  conf,       \* the start and the bounds of this behaviour
  dir,        \* the directory the path names; 0 when there is none
  slot,       \* its consumer.ahead: two pages
  level,      \* its consumer.offset: one page
  owned,      \* consume calls take the partition
  todo,       \* what the running move, reclaim, purge or open has left to do
  creating,   \* a shard recovered from the files and not yet stored, or None
  shard,      \* the partition's shard, or None
  owed,       \* an ack's Commit call, made after the shard lock is released
  pending,    \* c.pending holds the partition
  forgotten, stranded,   \* c.forgotten, c.stranded hold it
  st,         \* its offsetPart, or None
  tick,       \* the function tickAt calls next
  want,       \* the tick's snapshot of the shard, or None
  sync,       \* the files the tick writes out
  acked,      \* history: offsets acked of the copy in dir
  flushed,    \* history: offsets in windows of dir that flipped
  dirs, faults, crashes  \* counts

dirVars == <<dir, slot, level, owned>>
shardVars == <<creating, shard, owed>>
tickVars == <<tick, want, sync>>
history == <<acked, flushed>>
counts == <<conf, dirs, faults, crashes>>
vars == <<conf, dir, slot, level, owned, todo, creating, shard, owed, pending,
          forgotten, stranded, st, tick, want, sync, acked, flushed,
          dirs, faults, crashes>>

(***************************************************************************)
(* A page of a file: what the page cache holds, what the device holds, and *)
(* whether the kernel still has to write it.  A slot holds a record or     *)
(* nothing valid (None); consumer.offset a frontier, -1 when it has none.  *)
(***************************************************************************)
Page(content) == [cache |-> content, dev |-> content, dirty |-> FALSE]
Written(p, content) == [p EXCEPT !.cache = content, !.dirty = TRUE]
Synced(p) == IF p.dirty THEN Page(p.cache) ELSE p

(***************************************************************************)
(* A failed sync leaves the page dirty, or marks it clean with the device  *)
(* holding the old content, the new one, or for a slot neither, and the    *)
(* cache kept or read back.                                                *)
(***************************************************************************)
SyncFailed(p, torn) ==
  IF ~ p.dirty \/ p.cache = p.dev THEN {p}
  ELSE {p} \cup UNION {{[cache |-> c, dev |-> d, dirty |-> FALSE] :
                          c \in {p.cache, d}} : d \in {p.dev, p.cache} \cup torn}

(***************************************************************************)
(* What the device may hold after a power loss.  Writing the bytes it      *)
(* already holds tears nothing.                                            *)
(***************************************************************************)
Surviving(p, torn) ==
  IF p.dirty /\ p.cache # p.dev THEN {p.dev, p.cache} \cup torn ELSE {p.dev}

-----------------------------------------------------------------------------
(***************************************************************************)
(* The frontier of a set of acked offsets.                                 *)
(***************************************************************************)
Frontier(acks) ==
  CHOOSE n \in -1 .. LogEnd - 1 : 0 .. n \subseteq acks /\ n + 1 \notin acks

(***************************************************************************)
(* ReadConsumerAhead, and the slot primeLocked anchors on: the newest      *)
(* valid record, slot 0 on a tie; -1 when neither is valid.                *)
(***************************************************************************)
Newest(recs) ==
  IF recs[0] # None /\ (recs[1] = None \/ recs[1].seq <= recs[0].seq) THEN 0
  ELSE IF recs[1] # None THEN 1
  ELSE -1

RecordAcks(recs) == IF Newest(recs) = -1 THEN {} ELSE recs[Newest(recs)].acks

(***************************************************************************)
(* recoverShard: the larger of the two files' frontiers, and the           *)
(* acked-ahead offsets of the newest record.                               *)
(***************************************************************************)
Recovered(recs, offset) == (0 .. offset) \cup RecordAcks(recs)

Cached == [i \in 0 .. 1 |-> slot[i].cache]

NoSync == [window |-> "no", level |-> -1, levelled |-> FALSE]
NoFile == [i \in 0 .. 1 |-> Page(None)]

(***************************************************************************)
(* The files of a copy: one record, and the frontier it implies.           *)
(***************************************************************************)
SlotsOf(acks) ==
  IF acks = {} THEN NoFile
  ELSE [NoFile EXCEPT ![0] = Page([seq |-> 1, acks |-> acks])]

Init ==
  /\ conf \in Confs
  /\ dir = 1 /\ owned = TRUE
  /\ slot = SlotsOf(conf.copy) /\ level = Page(Frontier(conf.copy))
  /\ todo = <<>>
  /\ creating = None /\ shard = None /\ owed = FALSE
  /\ pending = FALSE /\ forgotten = FALSE /\ stranded = FALSE
  /\ st = None
  /\ tick = "idle" /\ want = None /\ sync = NoSync
  /\ acked = conf.copy /\ flushed = conf.copy
  /\ dirs = 1 /\ faults = 0 /\ crashes = 0

-----------------------------------------------------------------------------
(***************************************************************************)
(* The shard.  recoverShard reads the files and stores the shard under the *)
(* create fence, which a drop of the shard waits for; a consume only gets  *)
(* there for a partition this node owns.                                   *)
(***************************************************************************)
RecoverRead ==
  /\ owned /\ shard = None /\ creating = None
  /\ LET acks == Recovered(Cached, level.cache)
         read == {level.cache, Frontier(RecordAcks(Cached))}
     IN  creating' = [of |-> dir, acks |-> acks,
                      advanced |-> \A f \in read : Frontier(acks) > f]
  /\ UNCHANGED <<dirVars, todo, shard, owed, pending, forgotten, stranded, st,
                 tickVars, history, counts>>

(***************************************************************************)
(* The shard is stored; seeding that moved the frontier is committed.      *)
(***************************************************************************)
RecoverStore ==
  /\ creating # None
  /\ creating' = None
  /\ shard' = [of |-> creating.of, acks |-> creating.acks]
  /\ owed' = (owed \/ creating.advanced)
  /\ UNCHANGED <<dirVars, todo, pending, forgotten, stranded, st, tickVars,
                 history, counts>>

(***************************************************************************)
(* An ack.  A shard recovered when the path named nothing serves whatever  *)
(* directory is made there next, and delivers nothing before.              *)
(***************************************************************************)
Ack ==
  /\ shard # None /\ (shard.of # 0 \/ dir # 0)
  /\ LET of == IF shard.of = 0 THEN dir ELSE shard.of
     IN  \E o \in (0 .. conf.end - 1) \ shard.acks :
           /\ shard' = [of |-> of, acks |-> shard.acks \cup {o}]
           /\ acked' = IF of = dir THEN acked \cup {o} ELSE acked
  /\ owed' = TRUE
  /\ UNCHANGED <<dirVars, todo, creating, pending, forgotten, stranded, st,
                 tickVars, flushed, counts>>

(***************************************************************************)
(* Commit: an ack's call, after it released the shard lock.                *)
(***************************************************************************)
Commit ==
  /\ owed /\ owed' = FALSE /\ pending' = TRUE
  /\ UNCHANGED <<dirVars, todo, creating, shard, forgotten, stranded, st,
                 tickVars, history, counts>>

-----------------------------------------------------------------------------
(***************************************************************************)
(* A tick.  tickAt clears the forgotten marks, drain takes what is         *)
(* pending, snapshots asks the shard.                                      *)
(***************************************************************************)
tickAt ==
  /\ tick = "idle"
  /\ forgotten' = FALSE /\ tick' = "drain"
  /\ UNCHANGED <<dirVars, todo, shardVars, pending, stranded, st, want, sync,
                 history, counts>>

drain ==
  /\ tick = "drain"
  /\ pending' = FALSE
  /\ tick' = IF pending THEN "snapshots" ELSE "writeWindows"
  /\ UNCHANGED <<dirVars, todo, shardVars, forgotten, stranded, st, want, sync,
                 history, counts>>

snapshots ==
  /\ tick = "snapshots"
  /\ want' = IF shard = None THEN None ELSE shard.acks
  /\ tick' = IF shard = None THEN "writeWindows" ELSE "prime"
  /\ UNCHANGED <<dirVars, todo, shardVars, pending, forgotten, stranded, st,
                 sync, history, counts>>

newPart ==
  [dir |-> 0, held |-> FALSE, primed |-> FALSE, anchor |-> -1, seq |-> 0,
   durable |-> -1, written |-> None, dirty |-> FALSE, needsRewrite |-> FALSE,
   reprime |-> FALSE, level |-> -1]

window(p) == IF p.anchor = 0 THEN 1 ELSE 0

frontier(p) == IF p.written = None THEN p.durable ELSE Frontier(p.written)

(***************************************************************************)
(* strandLocked: the directory p was written for is gone.  The partition   *)
(* is stranded unless p never opened one.                                  *)
(***************************************************************************)
strandLocked(p) ==
  /\ st' = None
  /\ stranded' = (stranded \/ p.dir # 0)

(***************************************************************************)
(* prime, the cases that do not open the files: a Forget came since the    *)
(* tick began and the snapshot may be the dropped shard's, the partition   *)
(* is stranded, or it is primed already.                                   *)
(***************************************************************************)
primeSkips ==
  /\ tick = "prime" /\ tick' = "writeWindows"
  /\ \/ /\ forgotten
        /\ pending' = TRUE /\ want' = None
     \/ /\ ~ forgotten /\ stranded
        /\ want' = None /\ UNCHANGED pending
     \/ /\ ~ forgotten /\ ~ stranded /\ st # None /\ st.primed
        /\ UNCHANGED <<pending, want>>
  /\ UNCHANGED <<dirVars, todo, shardVars, forgotten, stranded, st, sync,
                 history, counts>>

(***************************************************************************)
(* primeLocked for a partition not primed: its directory is gone, an open  *)
(* or read failed, or the newest valid record becomes the anchor.  After a *)
(* failed prime sync the anchor's bytes are written back.                  *)
(***************************************************************************)
primeLocked ==
  LET p == IF st = None THEN newPart ELSE st
      recs == Cached
      gone == dir = 0 \/ (p.dir # 0 /\ p.dir # dir)
      a == Newest(recs)
  IN  /\ tick = "prime" /\ ~ forgotten /\ ~ stranded /\ ~ p.primed
      /\ \/ /\ gone
            /\ strandLocked(p)
            /\ want' = None /\ tick' = "writeWindows"
            /\ UNCHANGED <<slot, pending, faults>>
         \/ /\ ~ gone /\ faults < conf.faults /\ faults' = faults + 1
            /\ \E d \in {p.dir, dir} : st' = [p EXCEPT !.dir = d]
            /\ pending' = TRUE
            /\ want' = None /\ tick' = "writeWindows"
            /\ UNCHANGED <<slot, stranded>>
         \/ /\ ~ gone
            /\ st' = [p EXCEPT !.dir = dir, !.held = TRUE, !.primed = TRUE,
                               !.anchor = a,
                               !.seq = IF a = -1 THEN 0 ELSE recs[a].seq,
                               !.durable = Frontier(RecordAcks(recs)),
                               !.written = None, !.dirty = FALSE,
                               !.needsRewrite = FALSE, !.level = level.cache]
            /\ slot' = IF p.reprime /\ a # -1
                       THEN [slot EXCEPT ![a] = Written(@, recs[a])] ELSE slot
            /\ tick' = "syncPrimes"
            /\ UNCHANGED <<stranded, want, pending, faults>>
      /\ UNCHANGED <<dir, level, owned, todo, shardVars, forgotten, sync,
                     history, conf, dirs, crashes>>

(***************************************************************************)
(* Variant: the primed file is trusted without writing it out.             *)
(***************************************************************************)
syncPrimesTrusting ==
  /\ tick = "syncPrimes" /\ tick' = "writeWindows"
  /\ st' = IF st = None THEN None ELSE [st EXCEPT !.reprime = FALSE]
  /\ UNCHANGED <<dirVars, todo, shardVars, pending, forgotten, stranded, want,
                 sync, history, counts>>

(***************************************************************************)
(* syncPrimes: the primed file is written out before any window write,     *)
(* since its newest record may be in the page cache only.                  *)
(***************************************************************************)
syncPrimes ==
  LET here == st # None /\ st.dir = dir
  IN  /\ tick = "syncPrimes" /\ tick' = "writeWindows"
      /\ \/ /\ slot' = IF here THEN [i \in 0 .. 1 |-> Synced(slot[i])] ELSE slot
            /\ st' = IF st = None THEN None ELSE [st EXCEPT !.reprime = FALSE]
            /\ UNCHANGED <<pending, faults>>
         \/ /\ st # None
            /\ faults < conf.faults /\ faults' = faults + 1
            /\ \E p0 \in SyncFailed(slot[0], {None}), p1 \in SyncFailed(slot[1], {None}) :
                 slot' = IF here THEN [i \in 0 .. 1 |-> IF i = 0 THEN p0 ELSE p1] ELSE slot
            /\ st' = [st EXCEPT !.primed = FALSE, !.reprime = TRUE, !.held = FALSE]
            /\ pending' = TRUE
      /\ UNCHANGED <<dir, level, owned, todo, shardVars, forgotten, stranded,
                     want, sync, history, conf, dirs, crashes>>

(***************************************************************************)
(* writeWindows, its first loop: a changed snapshot is written into the    *)
(* window, through the held descriptor or one reopened by path and checked *)
(* to be the file primed.  A failed write may leave the slot invalid.      *)
(***************************************************************************)
WriteNeeded ==
  /\ want # None /\ st # None /\ st.primed
  /\ st.written # want \/ st.needsRewrite

writeWindows ==
  LET rec == [seq |-> st.seq + 1, acks |-> want]
      w == window(st)
  IN  /\ tick = "writeWindows" /\ tick' = "collect" /\ want' = None
      /\ \/ /\ ~ WriteNeeded
            /\ UNCHANGED <<slot, pending, stranded, st, faults>>
         \/ /\ WriteNeeded /\ ~ st.held /\ st.dir # dir
            /\ strandLocked(st)
            /\ UNCHANGED <<slot, pending, faults>>
         \/ /\ WriteNeeded /\ (st.held \/ st.dir = dir)
            /\ \E held \in {st.held, TRUE} :
                 st' = [st EXCEPT !.held = held, !.seq = rec.seq, !.written = want,
                                  !.needsRewrite = FALSE, !.dirty = TRUE]
            /\ slot' = IF st.dir = dir THEN [slot EXCEPT ![w] = Written(@, rec)] ELSE slot
            /\ UNCHANGED <<pending, stranded, faults>>
         \/ /\ WriteNeeded /\ (st.held \/ st.dir = dir)
            /\ faults < conf.faults /\ faults' = faults + 1
            /\ st' = [st EXCEPT !.needsRewrite = TRUE, !.held = FALSE]
            /\ \E page \in {slot[w], Written(slot[w], None)} :
                 slot' = IF st.dir = dir THEN [slot EXCEPT ![w] = page] ELSE slot
            /\ pending' = TRUE
            /\ UNCHANGED stranded
      /\ UNCHANGED <<dir, level, owned, todo, shardVars, forgotten, sync,
                     history, conf, dirs, crashes>>

(***************************************************************************)
(* writeWindows, its second loop: a dirty window whose phase came, or that *)
(* waited D, is due for writeout, and consumer.offset may be levelled with *)
(* it or once the partition went quiet.  Both need the primed directory    *)
(* under the path, or the held descriptor.                                 *)
(***************************************************************************)
collect(due, lv) ==
  LET f == frontier(st)
      gone == \/ due /\ ~ st.held /\ st.dir # dir
              \/ lv /\ st.dir # dir
  IN  /\ tick = "collect" /\ tick' = "writeOut"
      /\ due => st # None /\ st.primed /\ st.dirty /\ ~ st.needsRewrite
      /\ lv => st # None /\ st.primed /\ (due \/ ~ st.dirty) /\ f > st.level
      /\ IF gone
         THEN strandLocked(st) /\ UNCHANGED <<level, sync>>
         ELSE /\ st' = IF due /\ ~ st.held THEN [st EXCEPT !.held = TRUE] ELSE st
              /\ level' = IF lv THEN Written(level, f) ELSE level
              /\ sync' = [window |-> IF due THEN "due" ELSE "no",
                          level |-> IF lv THEN f ELSE -1, levelled |-> FALSE]
              /\ UNCHANGED stranded
      /\ UNCHANGED <<dir, slot, owned, todo, shardVars, pending, forgotten,
                     want, history, counts>>

(***************************************************************************)
(* A due window whose descriptor cannot be reopened is queued again.       *)
(***************************************************************************)
reopenFails ==
  /\ tick = "collect" /\ tick' = "writeOut"
  /\ st # None /\ st.primed /\ st.dirty /\ ~ st.needsRewrite /\ ~ st.held
  /\ faults < conf.faults /\ faults' = faults + 1
  /\ pending' = TRUE
  /\ UNCHANGED <<dirVars, todo, shardVars, forgotten, stranded, st, want, sync,
                 history, conf, dirs, crashes>>

(***************************************************************************)
(* writeOut and flushDevices: a window whose path names another file is    *)
(* not written out.  Either sync may fail.                                 *)
(***************************************************************************)
writeOut ==
  LET here == st # None /\ st.dir = dir
      due == sync.window = "due" /\ st # None
      lv == sync.level # -1 /\ here
  IN  /\ tick = "writeOut" /\ tick' = "flip"
      /\ \E wok \in BOOLEAN, lok \in BOOLEAN :
           /\ ~ wok => due /\ here
           /\ ~ lok => lv
           /\ faults' = faults + (IF wok /\ lok THEN 0 ELSE 1)
           /\ faults' <= conf.faults
           /\ IF due /\ here
              THEN \E p0 \in IF wok THEN {Synced(slot[0])} ELSE SyncFailed(slot[0], {None}),
                      p1 \in IF wok THEN {Synced(slot[1])} ELSE SyncFailed(slot[1], {None}) :
                     slot' = [i \in 0 .. 1 |-> IF i = 0 THEN p0 ELSE p1]
              ELSE UNCHANGED slot
           /\ IF lv
              THEN level' \in IF lok THEN {Synced(level)} ELSE SyncFailed(level, {})
              ELSE UNCHANGED level
           /\ sync' = [sync EXCEPT !.window = IF ~ due THEN @
                                              ELSE IF ~ here THEN "gone"
                                              ELSE IF wok THEN "ok" ELSE "err",
                                   !.levelled = lv /\ lok]
      /\ UNCHANGED <<dir, owned, todo, shardVars, pending, forgotten, stranded,
                     st, want, history, conf, dirs, crashes>>

(***************************************************************************)
(* Variant: the level noted is the next offset, not the frontier written.  *)
(***************************************************************************)
flipNextOffset ==
  /\ tick = "flip" /\ tick' = "idle" /\ sync' = NoSync
  /\ st' = IF st = None \/ ~ sync.levelled THEN st
           ELSE [st EXCEPT !.level = sync.level + 1]
  /\ UNCHANGED <<dirVars, todo, shardVars, pending, forgotten, stranded, want,
                 history, counts>>

(***************************************************************************)
(* Variant: a window that failed to sync is not queued again.              *)
(***************************************************************************)
flipWithoutRequeue ==
  /\ tick = "flip" /\ tick' = "idle" /\ sync' = NoSync
  /\ LET ok == sync.window = "ok" /\ st # None
         err == sync.window = "err" /\ st # None
     IN  /\ st' = IF ok THEN [st EXCEPT !.anchor = window(st), !.dirty = FALSE]
                  ELSE IF err THEN [st EXCEPT !.needsRewrite = TRUE] ELSE st
         /\ flushed' = IF ok /\ st.dir = dir THEN flushed \cup st.written ELSE flushed
  /\ UNCHANGED <<dirVars, todo, shardVars, pending, forgotten, stranded, want,
                 acked, counts>>

(***************************************************************************)
(* flip: a window written out and flushed becomes the anchor, a level      *)
(* becomes known; a failed window is to be rewritten in full.              *)
(***************************************************************************)
flip ==
  LET levelled == [st EXCEPT !.level = IF sync.levelled THEN sync.level ELSE @]
      ok == sync.window = "ok" /\ st # None
      err == sync.window = "err" /\ st # None
      gone == sync.window = "gone" /\ st # None
  IN  /\ tick = "flip" /\ tick' = "idle" /\ sync' = NoSync
      /\ IF gone THEN strandLocked(st)
         ELSE /\ st' = IF st = None THEN None
                       ELSE IF ok THEN [levelled EXCEPT !.anchor = window(st),
                                          !.durable = Frontier(st.written), !.dirty = FALSE]
                       ELSE IF err THEN [levelled EXCEPT !.needsRewrite = TRUE]
                       ELSE levelled
              /\ UNCHANGED stranded
      /\ pending' = (pending \/ err)
      /\ flushed' = IF ok /\ st.dir = dir THEN flushed \cup st.written ELSE flushed
      /\ UNCHANGED <<dirVars, todo, shardVars, forgotten, want, acked, counts>>

(***************************************************************************)
(* evictLocked: the descriptor of a clean partition goes to another one of *)
(* the same tick (a prime past the descriptor cap leaves none to begin     *)
(* with).                                                                  *)
(***************************************************************************)
evictLocked ==
  /\ tick \in {"prime", "writeWindows"}
  /\ st # None /\ st.primed /\ st.held /\ ~ st.dirty
  /\ st' = [st EXCEPT !.held = FALSE]
  /\ UNCHANGED <<dirVars, todo, shardVars, pending, forgotten, stranded,
                 tickVars, history, counts>>

-----------------------------------------------------------------------------
(***************************************************************************)
(* The partition's directory.  A move that brings the partition back       *)
(* resets the consumer state before the swap (the old copy is cleared, its *)
(* own renamed to the path and the parents synced) and after, and then     *)
(* owns it or takes its copy back; a reclaim of a partition moved away     *)
(* resets, then removes; a purge renames the directory away and drops the  *)
(* topic's shards twice; an open that finds a deleted incarnation's        *)
(* directory quarantines it, drops the shards and makes its own.           *)
(***************************************************************************)
Forget == <<"forget", "unpend">>
ResetPartitionConsumerState == <<"reset">> \o Forget
DropTopic == <<"drop">> \o Forget

install == <<"remove", "rename", "syncParents">>

(***************************************************************************)
(* Variant: the shard is dropped only after the copy is in place.          *)
(***************************************************************************)
moveInstallResetsAfter ==
  install \o ResetPartitionConsumerState \o <<"proposeFlip">>

moveInstall ==
  ResetPartitionConsumerState \o install
    \o ResetPartitionConsumerState \o <<"proposeFlip">>
ReclaimMovedPartition == ResetPartitionConsumerState \o <<"remove">>
PurgeTopic == <<"remove">> \o DropTopic \o DropTopic
ensureIncarnation == <<"remove">> \o DropTopic \o <<"make">>

StartDirChange ==
  /\ todo = <<>>
  /\ \/ owned /\ owned' = FALSE /\ UNCHANGED todo
     \/ ~ owned /\ dirs < conf.dirs /\ todo' = moveInstall /\ UNCHANGED owned
     \/ ~ owned /\ dir # 0 /\ todo' = ReclaimMovedPartition /\ UNCHANGED owned
     \/ dir # 0 /\ todo' = PurgeTopic /\ UNCHANGED owned
     \/ owned /\ dir # 0 /\ dirs < conf.dirs /\ todo' = ensureIncarnation /\ UNCHANGED owned
     \/ owned /\ dir = 0 /\ dirs < conf.dirs /\ todo' = <<"make">> /\ UNCHANGED owned
  /\ UNCHANGED <<dir, slot, level, shardVars, pending, forgotten, stranded, st,
                 tickVars, history, counts>>

(***************************************************************************)
(* Variant: a drop does not wait for a create under way.                   *)
(***************************************************************************)
DropShardUnfenced ==
  /\ todo # <<>> /\ Head(todo) \in {"reset", "drop"}
  /\ shard' = None
  /\ todo' = IF Head(todo) = "drop" /\ shard = None
             THEN SubSeq(todo, 1 + Len(DropTopic), Len(todo)) ELSE Tail(todo)
  /\ UNCHANGED <<dirVars, creating, owed, pending, forgotten, stranded, st,
                 tickVars, history, counts>>

(***************************************************************************)
(* DropPartition and DropTopic remove the shard once no create is under    *)
(* way.  DropTopic forgets only a partition it found a shard of.           *)
(***************************************************************************)
DropShard ==
  /\ todo # <<>> /\ Head(todo) \in {"reset", "drop"} /\ creating = None
  /\ shard' = None
  /\ todo' = IF Head(todo) = "drop" /\ shard = None
             THEN SubSeq(todo, 1 + Len(DropTopic), Len(todo)) ELSE Tail(todo)
  /\ UNCHANGED <<dirVars, creating, owed, pending, forgotten, stranded, st,
                 tickVars, history, counts>>

(***************************************************************************)
(* Forget, under ioMu (which writeWindows holds over both its loops), and  *)
(* then under mu.                                                          *)
(***************************************************************************)
ForgetState ==
  /\ todo # <<>> /\ Head(todo) = "forget" /\ tick # "collect"
  /\ forgotten' = TRUE /\ stranded' = FALSE /\ st' = None
  /\ todo' = Tail(todo)
  /\ UNCHANGED <<dirVars, shardVars, pending, tickVars, history, counts>>

ForgetPending ==
  /\ todo # <<>> /\ Head(todo) = "unpend"
  /\ pending' = FALSE /\ todo' = Tail(todo)
  /\ UNCHANGED <<dirVars, shardVars, forgotten, stranded, st, tickVars,
                 history, counts>>

(***************************************************************************)
(* The path changes: removed or renamed away, a copy renamed to it with    *)
(* the consumer state the move staged, or a new empty directory; the flip  *)
(* succeeds or is rolled back.                                             *)
(***************************************************************************)
NewDirectory(acks) ==
  /\ dirs' = dirs + 1 /\ dir' = dirs'
  /\ slot' = SlotsOf(acks) /\ level' = Page(Frontier(acks))
  /\ acked' = acks /\ flushed' = acks

RemoveDirectory ==
  /\ dir' = 0 /\ slot' = NoFile /\ level' = Page(-1)
  /\ acked' = {} /\ flushed' = {} /\ UNCHANGED dirs

ChangeDir ==
  /\ todo # <<>>
  /\ \/ Head(todo) = "rename" /\ (\E acks \in Copies : NewDirectory(acks)) /\ UNCHANGED owned
     \/ Head(todo) = "make" /\ NewDirectory({}) /\ UNCHANGED owned
     \/ Head(todo) \in {"remove", "proposeFlip"} /\ RemoveDirectory /\ UNCHANGED owned
     \/ /\ Head(todo) \in {"syncParents", "proposeFlip"} /\ owned' = (Head(todo) = "proposeFlip")
        /\ UNCHANGED <<dir, slot, level, acked, flushed, dirs>>
  /\ todo' = Tail(todo)
  /\ UNCHANGED <<conf, shardVars, pending, forgotten, stranded, st, tickVars, faults,
                 crashes>>

(***************************************************************************)
(* The copy cannot be renamed to the path, or its parents cannot be synced *)
(* and it goes back to staging: the path is left empty, and the reset      *)
(* behind the install is not reached.                                      *)
(***************************************************************************)
InstallFails ==
  /\ todo # <<>> /\ Head(todo) \in {"rename", "syncParents"}
  /\ faults < conf.faults /\ faults' = faults + 1
  /\ RemoveDirectory
  /\ todo' = <<>>
  /\ UNCHANGED <<conf, owned, shardVars, pending, forgotten, stranded, st, tickVars,
                 crashes>>

-----------------------------------------------------------------------------
(***************************************************************************)
(* The process dies: its memory goes, the page cache stays.  A kill while  *)
(* the kernel holds a page it failed to write and marked clean is left     *)
(* out: the next process cannot tell that page from a durable one.         *)
(***************************************************************************)
Die ==
  /\ crashes < conf.crashes /\ crashes' = crashes + 1
  /\ todo' = <<>>
  /\ creating' = None /\ shard' = None /\ owed' = FALSE
  /\ pending' = FALSE /\ forgotten' = FALSE /\ stranded' = FALSE
  /\ st' = None
  /\ tick' = "idle" /\ want' = None /\ sync' = NoSync
  /\ UNCHANGED <<conf, dir, owned, acked, flushed, dirs, faults>>

ProcessCrash ==
  /\ \A i \in 0 .. 1 : slot[i].dirty \/ slot[i].dev = slot[i].cache
  /\ Die
  /\ UNCHANGED <<slot, level>>

PowerLoss ==
  /\ Die
  /\ \E d0 \in Surviving(slot[0], {None}), d1 \in Surviving(slot[1], {None}) :
       slot' = [i \in 0 .. 1 |-> Page(IF i = 0 THEN d0 ELSE d1)]
  /\ \E d \in Surviving(level, {}) : level' = Page(d)

Next ==
  \/ RecoverRead \/ RecoverStore \/ Ack \/ Commit
  \/ tickAt \/ drain \/ snapshots \/ primeSkips \/ primeLocked \/ syncPrimes
  \/ writeWindows \/ reopenFails \/ writeOut \/ flip \/ evictLocked
  \/ \E due, lv \in BOOLEAN : collect(due, lv)
  \/ StartDirChange \/ DropShard \/ ForgetState \/ ForgetPending \/ ChangeDir
  \/ InstallFails \/ ProcessCrash \/ PowerLoss

(***************************************************************************)
(* The ticker runs, a window that stays dirty comes due (its phase comes   *)
(* round, and after D it is due on every tick), and a call that started    *)
(* goes on: a waiter for ioMu or for the create fence gets it, which is    *)
(* what sync.Mutex and sync.RWMutex promise.  Nothing makes a consumer ack *)
(* or a directory change begin.                                            *)
(***************************************************************************)
Fairness ==
  /\ WF_vars(tickAt \/ drain \/ snapshots \/ primeSkips \/ primeLocked
             \/ syncPrimes \/ writeWindows \/ reopenFails
             \/ (\E due, lv \in BOOLEAN : collect(due, lv)) \/ writeOut \/ flip)
  /\ SF_vars(\E lv \in BOOLEAN : collect(TRUE, lv))
  /\ WF_vars(RecoverStore) /\ WF_vars(Commit)
  /\ SF_vars(DropShard \/ ForgetState \/ ForgetPending \/ ChangeDir)

Spec == Init /\ [][Next]_vars /\ Fairness

-----------------------------------------------------------------------------
Record == [seq : Nat, acks : SUBSET Offsets]
SlotPage == [cache : Record \cup {None}, dev : Record \cup {None}, dirty : BOOLEAN]
Frontiers == -1 .. LogEnd - 1

(***************************************************************************)
(* The committer's state, the files and the tick have the shapes the code  *)
(* gives them: in particular offsetPart's anchor names a slot, and no      *)
(* frontier is past the log.                                               *)
(***************************************************************************)
TypeOK ==
  /\ dir \in 0 .. conf.dirs /\ owned \in BOOLEAN
  /\ slot \in [0 .. 1 -> SlotPage]
  /\ level \in [cache : Frontiers, dev : Frontiers, dirty : BOOLEAN]
  /\ creating = None
       \/ creating \in [of : 0 .. conf.dirs, acks : SUBSET Offsets, advanced : BOOLEAN]
  /\ shard = None \/ shard \in [of : 0 .. conf.dirs, acks : SUBSET Offsets]
  /\ {owed, pending, forgotten, stranded} \subseteq BOOLEAN
  /\ st = None \/
       st \in [dir : 0 .. conf.dirs, held : BOOLEAN, primed : BOOLEAN,
               anchor : -1 .. 1, seq : Nat, durable : Frontiers,
               written : SUBSET Offsets \cup {None}, dirty : BOOLEAN,
               needsRewrite : BOOLEAN, reprime : BOOLEAN, level : Frontiers]
  /\ want = None \/ want \in SUBSET Offsets
  /\ sync \in [window : {"no", "due", "ok", "err", "gone"}, level : Frontiers,
               levelled : BOOLEAN]
  /\ acked \in SUBSET Offsets /\ flushed \in SUBSET Offsets

Stored == Recovered(Cached, level.cache)

(***************************************************************************)
(* What a restart resumes from (recoverShard on the files then under the   *)
(* path) was acked by consumers of the copy under that path, and holds     *)
(* every window that flipped: no tick hands one copy of a partition the    *)
(* acks of another, whatever directory change runs beside it, and no       *)
(* failed write, failed sync, crash or later tick undoes a flip.           *)
(***************************************************************************)
Promise == INSTANCE AckStore WITH stored <- Stored, durable <- flushed
ImplementsAckStore == Promise!AbstractSpec

(***************************************************************************)
(* A power loss at any point of a tick, with every dirty page on the       *)
(* device, off it or torn, leaves files that resume from every flipped     *)
(* window and from nothing that was not acked: the writer never overwrites *)
(* the slot holding the newest durable record (consumer_ahead.go).         *)
(***************************************************************************)
PowerLossKeepsFlushed ==
  \A d0 \in Surviving(slot[0], {None}), d1 \in Surviving(slot[1], {None}),
     d \in Surviving(level, {}) :
    LET resumed == Recovered([i \in 0 .. 1 |-> IF i = 0 THEN d0 ELSE d1], d)
    IN  flushed \subseteq resumed /\ resumed \subseteq acked

(***************************************************************************)
(* While a directory is under the path, the shard is one recovered from    *)
(* it, or from nothing: a shard of a purged, reclaimed or replaced copy    *)
(* never serves its successor (InFlight's create fence, the resets around  *)
(* an install and the retired hook).                                       *)
(***************************************************************************)
ShardOfThisCopy == shard # None /\ dir # 0 => shard.of \in {0, dir}

(***************************************************************************)
(* Once crashes, faults and directory changes stop, every ack the live     *)
(* shard holds is in the files a restart reads, and no window waits        *)
(* forever for its writeout: Forget, a requeue, a strand or a Commit       *)
(* arriving late never loses the last ack.                                 *)
(***************************************************************************)
AcksReachTheFiles ==
  <>[](/\ shard # None /\ dir # 0 => shard.acks \subseteq Stored
       /\ st # None => ~ st.dirty)
=============================================================================
