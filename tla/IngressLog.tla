----------------------------- MODULE IngressLog -----------------------------
(***************************************************************************)
(* The ingress WAL of one node: produce calls are staged into a buffer,    *)
(* written and synced in groups, answered 202, dispatched to their         *)
(* partitions, checkpointed and compacted, while writes and syncs fail,    *)
(* the process is killed and the machine loses power.                      *)
(*                                                                         *)
(* The code is internal/persistence/wal and internal/broker/ingress.  The  *)
(* actions are the critical sections of the log's mu and fileOps and of    *)
(* the checkpoint writer's mu.  The dispatcher appears as its single       *)
(* thread of replay, checkpoint and compaction, committing in WAL order.   *)
(*                                                                         *)
(* A record is a number; a frame is a record with the seq it was given.    *)
(* All frames have one size, so sizes and offsets count frames.            *)
(***************************************************************************)
EXTENDS Integers, Sequences, FiniteSets, SequencesExt

CONSTANTS
  SegmentFrames,        \* Options.SegmentBytes
  CompactRotateFrames,  \* Options.CompactRotateBytes
  Confs                 \* the configurations of a node: Options.Prealloc and
                        \* preparedWriteLimit, the sizes of produce calls, and
                        \* bounds on the records produced, the I/O calls that
                        \* fail and the crashes

ASSUME SizesAssumption == {SegmentFrames, CompactRotateFrames} \subseteq Nat \ {0}
ASSUME ConfsAssumption ==
  Confs \subseteq [prealloc : BOOLEAN, writeLimit : Nat \ {0}, batchSizes : SUBSET (1 .. SegmentFrames),
                  maxRecords : Nat, maxFaults : Nat, maxCrashes : Nat]

VARIABLES
  segs,       \* the segment files, by base
  cp,         \* the checkpoint file
  phase,      \* of the process: down, opening, up, or refused to open
  conf,       \* the node's configuration, a member of Confs
  l,          \* the log's fields
  flight,     \* the flush under way
  waiting,    \* produce calls waiting for their batch: the frames of each
  returning,  \* produce calls whose batch ended well, not answered yet
  w,          \* the checkpoint writer
  d,          \* the dispatcher: nextSeq, storedSeq, compactedSeq
  compact,    \* the CompactBefore under way
  produced,   \* number of records produced
  acked,      \* history: frames of calls answered 202
  committed,  \* history: records committed to their partition
  faults, crashes

logVars == <<segs, l, flight, waiting>>
cpVars == <<cp, w>>
vars == <<segs, cp, phase, conf, l, flight, waiting, returning, w, d,
          compact, produced, acked, committed, faults, crashes>>

NoFlight == [step |-> "none"]
NoCompact == [step |-> "none"]
NotSyncing == -1

SmallerOf(a, b) == IF a < b THEN a ELSE b
LargerOf(a, b) == IF a > b THEN a ELSE b
LastOf(set) == CHOOSE b \in set : \A c \in set : c <= b
FirstOf(set) == CHOOSE b \in set : \A c \in set : b <= c

MaxRecords == LastOf({ c.maxRecords : c \in Confs })
Infinity == MaxRecords + 1     \* math.MaxUint64, above every seq

-----------------------------------------------------------------------------
(***************************************************************************)
(* Files.  The image of a segment is its frames and whether it ends in the *)
(* trailer of a prepared segment.  The process reads and writes the cache  *)
(* image; a sync makes the device image equal to it.  An unlinked segment  *)
(* may come back in a power loss until the directory was synced.  A new    *)
(* one is empty and the sync of its directory entry is part of creating    *)
(* it: a power loss between the two leaves the directory as it was before  *)
(* or as it is after.                                                      *)
(***************************************************************************)
Hole == [seq |-> 0, id |-> 0]
Frame == [seq : 0 .. MaxRecords, id : 1 .. MaxRecords]
Image == [frames : Seq(Frame \cup {Hole}), trailer : BOOLEAN]

NewSegment(prepared) ==
  LET img == [frames |-> <<>>, trailer |-> prepared]
  IN  [cache |-> img, device |-> img, unlinked |-> FALSE]

Listed == { b \in DOMAIN segs : ~ segs[b].unlinked }

WithoutTrailingHoles(f) ==
  SubSeq(f, 1, LastOf({0} \cup { i \in DOMAIN f : f[i] # Hole }))

(***************************************************************************)
(* What a power loss may leave of a segment.  A segment that grows by      *)
(* appending keeps a prefix of what was not synced (its size reaches the   *)
(* device after the data).  A prepared one is overwritten in place: each   *)
(* frame not synced is there or is a hole, and a truncate not synced was   *)
(* done or not, independently of the frames in front of it.                *)
(***************************************************************************)
Torn(s) ==
  LET c == s.cache.frames
      v == s.device.frames
      Survivors(i) == (IF i \in DOMAIN c THEN {c[i]} ELSE {})
                        \cup (IF i \in DOMAIN v THEN {v[i]}
                              ELSE IF i \in DOMAIN c THEN {Hole} ELSE {})
      Mixes(n) == { f \in [1 .. n -> UNION { Survivors(i) : i \in 1 .. n }] :
                      \A i \in 1 .. n : f[i] \in Survivors(i) }
  IN  IF s.device.trailer
      THEN UNION { { [frames |-> WithoutTrailingHoles(f), trailer |-> t] :
                       f \in Mixes(IF t THEN LargerOf(Len(c), Len(v)) ELSE Len(c)) } :
                   t \in {TRUE, s.cache.trailer} }
      ELSE { [frames |-> SubSeq(c, 1, n), trailer |-> FALSE] : n \in Len(v) .. Len(c) }

Settled(s, img) == [s EXCEPT !.cache = img, !.device = img]
Written(s, f) == [s EXCEPT !.cache.frames = @ \o f]
Synced(s) == [s EXCEPT !.device = s.cache]

-----------------------------------------------------------------------------
(***************************************************************************)
(* The log between a stop and an Open.                                     *)
(***************************************************************************)
NoLog == [segmentBase |-> 0, segmentSize |-> 0, durableSize |-> 0, nextSeq |-> 0,
          writeBuffer |-> <<>>, syncErr |-> FALSE, writeFailed |-> FALSE,
          activePrepared |-> FALSE, prepRequested |-> FALSE, prepWake |-> FALSE,
          spareReady |-> FALSE,
          compactFloor |-> 0, durableNext |-> 0]
NoWriter == [open |-> FALSE, dirSynced |-> FALSE, dirty |-> FALSE, flushArmed |-> FALSE,
             syncing |-> NotSyncing, syncErr |-> FALSE, resetting |-> FALSE, written |-> 0, synced |-> 0]
NoDispatcher == [nextSeq |-> 0, storedSeq |-> 0, compactedSeq |-> 0]

Init ==
  /\ segs = <<>> /\ cp = [exists |-> FALSE, named |-> FALSE, cache |-> 0, device |-> 0]
  /\ phase = "down" /\ conf \in Confs
  /\ l = NoLog /\ flight = NoFlight /\ waiting = {} /\ returning = {}
  /\ w = NoWriter /\ d = NoDispatcher /\ compact = NoCompact
  /\ produced = 0 /\ acked = {} /\ committed = {}
  /\ faults = 0 /\ crashes = 0

(***************************************************************************)
(* scanSegment: frames up to the first hole or the end.  Valid frames      *)
(* after a hole are corruption, except in the last segment, when it is a   *)
(* prepared one and they end within the write limit of the hole            *)
(* (tornPreparedWrite).                                                    *)
(***************************************************************************)
ValidFrames(img) ==
  LET holes == { i \in DOMAIN img.frames : img.frames[i] = Hole }
  IN  IF holes = {} THEN img.frames ELSE SubSeq(img.frames, 1, FirstOf(holes) - 1)

ScanAccepts(img, last) ==
  LET bad == Len(ValidFrames(img)) + 1
  IN  \/ ~ img.trailer /\ bad > Len(img.frames)
      \/ last /\ img.trailer /\ Len(img.frames) - bad < conf.writeLimit

Seqs(f) == { f[i].seq : i \in DOMAIN f }

scanForOpen(bases) ==
  LET seen == UNION { Seqs(ValidFrames(segs[b].cache)) : b \in bases }
  IN  LastOf({0} \cup { s + 1 : s \in seen })

(***************************************************************************)
(* wal.Open: scan every segment, cut the last one back to its valid        *)
(* frames; then sync it (openActiveSegment).  An Open that fails on I/O is *)
(* a process that dies here.                                               *)
(***************************************************************************)
OpenScan ==
  LET bases == IF Listed = {} THEN {0} ELSE Listed
      last == LastOf(bases)
      found == IF Listed = {} THEN (0 :> NewSegment(FALSE)) @@ segs ELSE segs
  IN  /\ phase = "down"
      /\ IF \A b \in bases : ScanAccepts(found[b].cache, b = last)
         THEN /\ phase' = "opening"
              /\ segs' = [found EXCEPT ![last].cache =
                            [frames |-> ValidFrames(@), trailer |-> FALSE]]
         ELSE phase' = "refused" /\ UNCHANGED segs
      /\ UNCHANGED <<cp, conf, l, flight, waiting, returning, w, d, compact, produced,
                     acked, committed, faults, crashes>>

(***************************************************************************)
(* Open: a log whose last segment is empty goes on from its base.          *)
(***************************************************************************)
NextSeq(bases) == LargerOf(scanForOpen(bases), LastOf(bases))

(***************************************************************************)
(* The rest of wal.Open and ingress.OpenManager: a checkpoint ahead of the *)
(* log is refused, one below the oldest segment is raised to it, and the   *)
(* value is made durable before the dispatcher starts from it.             *)
(***************************************************************************)
OpenManager ==
  LET last == LastOf(Listed)
      size == Len(segs[last].cache.frames)
      next == NextSeq(Listed)
      checkpoint == LargerOf(cp.cache, FirstOf(Listed))
  IN  /\ phase = "opening"
      /\ segs' = [segs EXCEPT ![last] = Synced(@)]
      /\ IF cp.cache > next
         THEN phase' = "refused" /\ UNCHANGED <<cp, l, w, d>>
         ELSE /\ phase' = "up"
              /\ l' = [NoLog EXCEPT !.segmentBase = last, !.segmentSize = size,
                         !.durableSize = size, !.nextSeq = next, !.durableNext = next]
              /\ d' = [nextSeq |-> checkpoint, storedSeq |-> checkpoint, compactedSeq |-> 0]
              /\ IF checkpoint = 0 THEN UNCHANGED <<cp, w>>
                 ELSE /\ cp' = [exists |-> TRUE, named |-> cp.named \/ ~ cp.exists,
                                cache |-> checkpoint, device |-> checkpoint]
                      /\ w' = [NoWriter EXCEPT !.open = TRUE, !.dirSynced = TRUE,
                                 !.written = checkpoint, !.synced = checkpoint]
      /\ UNCHANGED <<conf, flight, waiting, returning, compact, produced, acked, committed,
                     faults, crashes>>

-----------------------------------------------------------------------------
(***************************************************************************)
(* completeBatch: the calls whose last record is in the batch go on.       *)
(***************************************************************************)
LastFrame(call) == CHOOSE f \in call : \A g \in call : g.seq <= f.seq
WaitingOn(batch) == { call \in waiting : LastFrame(call) \in Range(batch) }

(***************************************************************************)
(* stage: frames take the next seqs and room in the active segment, and a  *)
(* successor is asked for when it is half full (requestPrepLocked).        *)
(***************************************************************************)
Frames(log, n, first) ==
  [ i \in 1 .. n |-> [seq |-> log.nextSeq + i - 1, id |-> first + i - 1] ]

Staged(log, f) ==
  LET asks == conf.prealloc /\ ~ log.prepRequested
                /\ 2 * (log.segmentSize + Len(f)) >= SegmentFrames
  IN  [log EXCEPT !.writeBuffer = @ \o f, !.segmentSize = @ + Len(f), !.nextSeq = @ + Len(f),
                  !.prepRequested = @ \/ asks, !.prepWake = @ \/ asks]

(***************************************************************************)
(* syncLocked, when nothing fails: the buffer, if there is one, is written *)
(* and synced.                                                             *)
(***************************************************************************)
SyncedInline(log) ==
  [log EXCEPT !.writeBuffer = <<>>,
              !.durableSize = IF log.writeBuffer = <<>> THEN @ ELSE log.segmentSize]
WithBuffer(log) == [segs EXCEPT ![log.segmentBase] = Synced(Written(@, log.writeBuffer))]

(***************************************************************************)
(* A buffer is written and synced in runs of at most the write limit when  *)
(* the segment is a prepared one (writeAndSyncFileOps).  A failure leaves  *)
(* the runs before it and part of its own.                                 *)
(***************************************************************************)
writeLimitLocked == IF l.activePrepared THEN conf.writeLimit ELSE SegmentFrames

TornInline(s, buffer, limit) ==
  UNION { Torn(Written(Synced(Written(s, SubSeq(buffer, 1, n * limit))),
                       SubSeq(buffer, n * limit + 1, SmallerOf(Len(buffer), (n + 1) * limit)))) :
          n \in 0 .. (Len(buffer) - 1) \div limit }

(***************************************************************************)
(* Variant: the segment is sealed with its zero tail and trailer.          *)
(***************************************************************************)
TrimmedNever(files, log) == files

(***************************************************************************)
(* rollLocked: a prepared segment is trimmed, the successor is created at  *)
(* the next seq (from the spare when there is one and it is wanted) and    *)
(* the directory is synced, which makes earlier unlinks durable.           *)
(***************************************************************************)
Trimmed(files, log) ==
  IF log.activePrepared
  THEN [files EXCEPT ![log.segmentBase] = Synced([@ EXCEPT !.cache.trailer = FALSE])]
  ELSE files

createSegmentLocked(files, log, prepared) ==
  [ b \in { c \in DOMAIN files : ~ files[c].unlinked } \cup {log.nextSeq} |->
      IF b = log.nextSeq THEN NewSegment(prepared) ELSE files[b] ]

Rolled(log, prepared) ==
  [log EXCEPT !.segmentBase = log.nextSeq, !.segmentSize = 0, !.durableSize = 0,
              !.activePrepared = prepared, !.prepRequested = FALSE, !.compactFloor = 0]

CanUsePrepared(log, usePrepared) == usePrepared /\ log.spareReady

(***************************************************************************)
(* appendManyLocked (and appendLocked, for one record) when the records    *)
(* fit the active segment.                                                 *)
(***************************************************************************)
Room == IF l.segmentSize = 0 THEN SegmentFrames ELSE SegmentFrames - l.segmentSize

Appendable(n) == phase = "up" /\ ~ l.syncErr /\ produced + n <= conf.maxRecords
FileOpsFree == flight.step # "io"

AppendStages(n) ==
  LET f == Frames(l, n, produced + 1)
  IN  /\ Appendable(n) /\ n <= Room
      /\ l' = Staged(l, f)
      /\ waiting' = waiting \cup {Range(f)}
      /\ produced' = produced + n
      /\ UNCHANGED <<segs, cp, phase, conf, flight, returning, w, d, compact, acked,
                     committed, faults, crashes>>

(***************************************************************************)
(* The same when the segment fills up in the middle: what is staged is     *)
(* synced inline (its batch is complete) and the log rolls.                *)
(***************************************************************************)
AppendRolls(n) ==
  LET head == Staged(l, Frames(l, Room, produced + 1))
      tail == Frames(head, n - Room, produced + 1 + Room)
  IN  /\ Appendable(n) /\ n > Room /\ FileOpsFree /\ ~ l.writeFailed
      /\ \E prepared \in {FALSE, CanUsePrepared(l, TRUE)} :
           /\ segs' = createSegmentLocked(Trimmed(WithBuffer(head), head), head, prepared)
           /\ l' = Staged([Rolled(SyncedInline(head), prepared) EXCEPT !.spareReady = FALSE], tail)
      /\ returning' = returning \cup WaitingOn(head.writeBuffer)
      /\ waiting' = (waiting \ WaitingOn(head.writeBuffer))
                      \cup {Range(SubSeq(head.writeBuffer, Len(l.writeBuffer) + 1,
                                          Len(head.writeBuffer)) \o tail)}
      /\ produced' = produced + n
      /\ UNCHANGED <<cp, phase, conf, flight, w, d, compact, acked, committed, faults,
                     crashes>>

(***************************************************************************)
(* The inline sync fails, or finds that the flush it waited for failed:    *)
(* the log is latched, everyone in the batch fails and so does the call.   *)
(***************************************************************************)
AppendSyncFails(n) ==
  LET head == Staged(l, Frames(l, Room, produced + 1))
      base == l.segmentBase
      latched == [head EXCEPT !.writeBuffer = <<>>, !.syncErr = TRUE, !.writeFailed = TRUE]
  IN  /\ Appendable(n) /\ n > Room /\ FileOpsFree
      /\ l' = latched
      /\ waiting' = waiting \ WaitingOn(head.writeBuffer)
      /\ produced' = produced + n
      /\ \/ l.writeFailed /\ UNCHANGED <<segs, faults>>
         \/ /\ ~ l.writeFailed /\ head.writeBuffer # <<>> /\ faults < conf.maxFaults
            /\ faults' = faults + 1
            /\ \E img \in TornInline(segs[base], head.writeBuffer, writeLimitLocked) :
                 segs' = [segs EXCEPT ![base] = Settled(@, img)]
      /\ UNCHANGED <<cp, phase, conf, flight, returning, w, d, compact, acked, committed,
                     crashes>>

(***************************************************************************)
(* The roll fails after the inline sync: the trim or its sync (the segment *)
(* stays a prepared one), the new file or its directory's sync (the file   *)
(* is removed).  The call fails; what it had staged before the roll stays. *)
(* The frames in front of a truncate were synced, so whether the device    *)
(* has it or not makes no difference to a later Open.                      *)
(***************************************************************************)
HalfTrimmed(files, log) == {files, Trimmed(files, log)}

AppendRollFails(n) ==
  LET head == Staged(l, Frames(l, Room, produced + 1))
  IN  /\ Appendable(n) /\ n > Room /\ FileOpsFree /\ ~ l.writeFailed
      /\ faults < conf.maxFaults /\ faults' = faults + 1
      /\ \/ /\ l.activePrepared
            /\ segs' \in HalfTrimmed(WithBuffer(head), head)
            /\ l' = SyncedInline(head)
         \/ /\ segs' = Trimmed(WithBuffer(head), head)
            /\ l' = [SyncedInline(head) EXCEPT !.activePrepared = FALSE, !.spareReady = FALSE]
      /\ returning' = returning \cup WaitingOn(head.writeBuffer)
      /\ waiting' = waiting \ WaitingOn(head.writeBuffer)
      /\ produced' = produced + n
      /\ UNCHANGED <<cp, phase, conf, flight, w, d, compact, acked, committed, crashes>>

(***************************************************************************)
(* prepLoop: a wake-up makes a zero-filled successor if one is wanted, or  *)
(* fails to.  One step: a successor that is filled while the log rolls     *)
(* serves the roll after, like one made for it.                            *)
(***************************************************************************)
prepLoop ==
  /\ phase = "up" /\ l.prepWake
  /\ \E ready \in {FALSE, l.prepRequested /\ ~ l.syncErr} :
       l' = [l EXCEPT !.prepWake = FALSE, !.spareReady = @ \/ ready]
  /\ UNCHANGED <<segs, cp, phase, conf, flight, waiting, returning, w, d, compact, produced,
                 acked, committed, faults, crashes>>

-----------------------------------------------------------------------------
(***************************************************************************)
(* flushSync takes the buffer under mu and keeps fileOps while it writes   *)
(* and syncs it, run by run.                                               *)
(***************************************************************************)
flushSync ==
  /\ phase = "up" /\ flight = NoFlight /\ l.writeBuffer # <<>>
  /\ flight' = [step |-> "io", base |-> l.segmentBase, end |-> l.segmentSize,
                batch |-> l.writeBuffer, todo |-> l.writeBuffer, written |-> FALSE,
                limit |-> writeLimitLocked]
  /\ l' = [l EXCEPT !.writeBuffer = <<>>]
  /\ UNCHANGED <<segs, cp, phase, conf, waiting, returning, w, d, compact, produced, acked,
                 committed, faults, crashes>>

Run(fl) == SubSeq(fl.todo, 1, SmallerOf(fl.limit, Len(fl.todo)))

WriteRun ==
  /\ flight.step = "io" /\ ~ flight.written
  /\ segs' = [segs EXCEPT ![flight.base] = Written(@, Run(flight))]
  /\ flight' = [flight EXCEPT !.written = TRUE]
  /\ UNCHANGED <<cp, phase, conf, l, waiting, returning, w, d, compact, produced, acked,
                 committed, faults, crashes>>

(***************************************************************************)
(* Variant: the run counts as durable without the sync.                    *)
(***************************************************************************)
SyncRunWithoutSync ==
  LET rest == SubSeq(flight.todo, Len(Run(flight)) + 1, Len(flight.todo))
  IN  /\ flight.step = "io" /\ flight.written
      /\ flight' = [flight EXCEPT !.todo = rest, !.written = FALSE,
                                  !.step = IF rest = <<>> THEN "ok" ELSE "io"]
      /\ UNCHANGED <<segs, cp, phase, conf, l, waiting, returning, w, d, compact, produced,
                     acked, committed, faults, crashes>>

SyncRun ==
  LET rest == SubSeq(flight.todo, Len(Run(flight)) + 1, Len(flight.todo))
  IN  /\ flight.step = "io" /\ flight.written
      /\ segs' = [segs EXCEPT ![flight.base] = Synced(@)]
      /\ flight' = [flight EXCEPT !.todo = rest, !.written = FALSE,
                                  !.step = IF rest = <<>> THEN "ok" ELSE "io"]
      /\ UNCHANGED <<cp, phase, conf, l, waiting, returning, w, d, compact, produced, acked,
                     committed, faults, crashes>>

(***************************************************************************)
(* A write or a sync fails: writeFailed is latched before fileOps goes.    *)
(* What the kernel could not write is no longer in its cache either.       *)
(***************************************************************************)
RunFails ==
  /\ flight.step = "io" /\ flight.written
  /\ faults < conf.maxFaults /\ faults' = faults + 1
  /\ \E img \in Torn(segs[flight.base]) :
       segs' = [segs EXCEPT ![flight.base] = Settled(@, img)]
  /\ l' = [l EXCEPT !.writeFailed = TRUE]
  /\ flight' = [flight EXCEPT !.step = "err"]
  /\ UNCHANGED <<cp, phase, conf, waiting, returning, w, d, compact, produced, acked,
                 committed, crashes>>

(***************************************************************************)
(* Variants: the size of a segment rolled away meanwhile is taken for the  *)
(* active one's; the synced size is not recorded.                          *)
(***************************************************************************)
flushedAnySegment == [l EXCEPT !.durableSize = LargerOf(@, flight.end)]
flushedUnrecorded == l

(***************************************************************************)
(* flushed: the synced size of the segment, unless the log rolled.         *)
(***************************************************************************)
flushed ==
  [l EXCEPT !.durableSize =
     IF l.segmentBase = flight.base THEN LargerOf(@, flight.end) ELSE @]

(***************************************************************************)
(* Variant: the batch that gathered during a failed flush is forgotten.    *)
(***************************************************************************)
FlushEndsForgetting ==
  /\ flight.step \in {"ok", "err"}
  /\ flight' = NoFlight
  /\ waiting' = waiting \ WaitingOn(flight.batch)
  /\ IF flight.step = "ok"
     THEN /\ l' = flushed
          /\ returning' = returning \cup WaitingOn(flight.batch)
     ELSE /\ l' = [l EXCEPT !.syncErr = TRUE, !.writeBuffer = <<>>]
          /\ UNCHANGED returning
  /\ UNCHANGED <<segs, cp, phase, conf, w, d, compact, produced, acked, committed, faults,
                 crashes>>

(***************************************************************************)
(* The end of flushSync: flushed and the batch is complete, or the log is  *)
(* latched and the batch fails with the one that gathered meanwhile.       *)
(***************************************************************************)
FlushEnds ==
  /\ flight.step \in {"ok", "err"}
  /\ flight' = NoFlight
  /\ IF flight.step = "ok"
     THEN /\ l' = flushed
          /\ returning' = returning \cup WaitingOn(flight.batch)
          /\ waiting' = waiting \ WaitingOn(flight.batch)
     ELSE /\ l' = [l EXCEPT !.syncErr = TRUE, !.writeBuffer = <<>>]
          /\ waiting' = waiting \ WaitingOn(flight.batch \o l.writeBuffer)
          /\ UNCHANGED returning
  /\ UNCHANGED <<segs, cp, phase, conf, w, d, compact, produced, acked, committed, faults,
                 crashes>>

(***************************************************************************)
(* AcceptProduce returns: durableNext is raised and the client gets a 202. *)
(***************************************************************************)
advanceDurableNext(call) ==
  /\ call \in returning
  /\ returning' = returning \ {call}
  /\ acked' = acked \cup call
  /\ l' = [l EXCEPT !.durableNext = LargerOf(@, LastFrame(call).seq + 1)]
  /\ UNCHANGED <<segs, cp, phase, conf, flight, waiting, w, d, compact, produced, committed,
                 faults, crashes>>

-----------------------------------------------------------------------------
(***************************************************************************)
(* Variant: the active segment is replayed to its end.                     *)
(***************************************************************************)
ReplayPastSynced ==
  UNION { Range(ValidFrames(segs[b].cache)) : b \in Listed }

(***************************************************************************)
(* ReplayFromCursorPeek: sealed segments whole, the active one up to its   *)
(* synced size.                                                            *)
(***************************************************************************)
Replay ==
  UNION { LET f == segs[b].cache.frames
              limit == IF b = l.segmentBase THEN SmallerOf(l.durableSize, Len(f)) ELSE Len(f)
          IN  Range(SubSeq(f, 1, limit)) :
          b \in { c \in Listed : c <= l.segmentBase } }

(***************************************************************************)
(* The dispatcher commits the next record to its partition.                *)
(***************************************************************************)
Dispatch ==
  /\ phase = "up" /\ compact = NoCompact /\ ~ w.resetting /\ d.nextSeq < l.durableNext
  /\ \E f \in Replay :
       /\ f.seq = d.nextSeq
       /\ committed' = committed \cup {f.id}
  /\ d' = [d EXCEPT !.nextSeq = @ + 1]
  /\ UNCHANGED <<segs, cp, phase, conf, l, flight, waiting, returning, w, compact, produced,
                 acked, faults, crashes>>

(***************************************************************************)
(* checkpointWriter.store.  A failed background flush is reported once,    *)
(* and the descriptor dropped once no flush runs (resetLocked): the one    *)
(* that runs by then may fail too, for the next store to report.  A new    *)
(* file is synced, then its directory; an existing one is written and a    *)
(* flush is armed.                                                         *)
(***************************************************************************)
Storing == phase = "up" /\ compact = NoCompact /\ d.nextSeq # d.storedSeq /\ ~ w.resetting
Reset(cw) == [cw EXCEPT !.open = FALSE, !.dirty = FALSE]
storeUnchanged == <<segs, phase, conf, l, flight, waiting, returning, compact, produced,
                    acked, committed, crashes>>

StoreReportsFlush ==
  /\ Storing /\ w.syncErr
  /\ w' = IF w.syncing = NotSyncing THEN [Reset(w) EXCEPT !.syncErr = FALSE]
          ELSE [w EXCEPT !.syncErr = FALSE, !.resetting = TRUE]
  /\ UNCHANGED <<cp, d, faults, storeUnchanged>>

resetLocked ==
  /\ w.resetting /\ w.syncing = NotSyncing
  /\ w' = [Reset(w) EXCEPT !.resetting = FALSE]
  /\ UNCHANGED <<cp, d, faults, storeUnchanged>>

StoreWrites ==
  LET v == d.nextSeq
      dirSynced == IF w.open THEN w.dirSynced ELSE cp.exists
  IN  /\ Storing /\ ~ w.syncErr
      /\ IF dirSynced
         THEN /\ cp' = [cp EXCEPT !.cache = v]
              /\ w' = [w EXCEPT !.open = TRUE, !.dirSynced = TRUE, !.written = v,
                                !.dirty = TRUE, !.flushArmed = TRUE]
         ELSE /\ cp' = [exists |-> TRUE, named |-> TRUE, cache |-> v, device |-> v]
              /\ w' = [w EXCEPT !.open = TRUE, !.dirSynced = TRUE, !.written = v,
                                !.synced = LargerOf(@, v)]
      /\ d' = [d EXCEPT !.storedSeq = v]
      /\ UNCHANGED <<faults, storeUnchanged>>

(***************************************************************************)
(* The write or the first sync fails and the descriptor is dropped, or     *)
(* the directory sync fails and the descriptor stays.                      *)
(***************************************************************************)
StoreFails ==
  LET v == d.nextSeq
      dirSynced == IF w.open THEN w.dirSynced ELSE cp.exists
  IN  /\ Storing /\ ~ w.syncErr
      /\ faults < conf.maxFaults /\ faults' = faults + 1
      /\ \/ /\ w.syncing = NotSyncing
            /\ w' = Reset(w)
            /\ cp' = [cp EXCEPT !.exists = TRUE]
         \/ /\ ~ dirSynced /\ w.syncing = NotSyncing
            /\ w' = [Reset(w) EXCEPT !.written = v]
            /\ \E kept \in {cp.device, v} :
                 cp' = [cp EXCEPT !.exists = TRUE, !.cache = kept, !.device = kept]
         \/ /\ ~ dirSynced
            /\ w' = [w EXCEPT !.open = TRUE, !.dirSynced = FALSE, !.written = v]
            /\ cp' = [cp EXCEPT !.exists = TRUE, !.cache = v, !.device = v]
      /\ UNCHANGED <<d, storeUnchanged>>

(***************************************************************************)
(* checkpointWriter.flush: the timer fires, the file is synced without mu, *)
(* the outcome is recorded.                                                *)
(***************************************************************************)
FlushCheckpoint ==
  /\ w.flushArmed
  /\ w' = IF w.open /\ w.dirty /\ w.syncing = NotSyncing
          THEN [w EXCEPT !.flushArmed = FALSE, !.dirty = FALSE, !.syncing = w.written]
          ELSE [w EXCEPT !.flushArmed = FALSE]
  /\ UNCHANGED <<cp, d, faults, storeUnchanged>>

(***************************************************************************)
(* Variant: a value stored while the sync ran is left to the next store.   *)
(***************************************************************************)
CheckpointSyncedNoRearm ==
  /\ w.syncing # NotSyncing
  /\ cp' = [cp EXCEPT !.device = cp.cache]
  /\ w' = [w EXCEPT !.syncing = NotSyncing, !.synced = LargerOf(@, w.syncing)]
  /\ UNCHANGED <<d, faults, storeUnchanged>>

CheckpointSynced ==
  /\ w.syncing # NotSyncing
  /\ cp' = [cp EXCEPT !.device = cp.cache]
  /\ w' = [w EXCEPT !.syncing = NotSyncing, !.synced = LargerOf(@, w.syncing),
                    !.flushArmed = @ \/ (w.dirty /\ w.open)]
  /\ UNCHANGED <<d, faults, storeUnchanged>>

CheckpointSyncFails ==
  /\ w.syncing # NotSyncing
  /\ faults < conf.maxFaults /\ faults' = faults + 1
  /\ w' = [w EXCEPT !.syncing = NotSyncing, !.dirty = TRUE, !.syncErr = TRUE]
  /\ \E kept \in {cp.device, cp.cache} : cp' = [cp EXCEPT !.cache = kept, !.device = kept]
  /\ UNCHANGED <<d, storeUnchanged>>

-----------------------------------------------------------------------------
(***************************************************************************)
(* Variant: the stored checkpoint, synced or not.                          *)
(***************************************************************************)
CompactBoundStored == d.storedSeq

(***************************************************************************)
(* CompactProduceBefore: the stored checkpoint, never past the synced one. *)
(***************************************************************************)
CompactBound == SmallerOf(d.storedSeq, w.synced)

(***************************************************************************)
(* CompactBefore, first rotateFullyCompacted: when every record is below   *)
(* the bound and the active segment is large enough, it is rolled, so that *)
(* it can be removed.  Nothing is staged then: a staged record's seq is    *)
(* not below the bound.                                                    *)
(***************************************************************************)
Rotates(seq) == ~ l.syncErr /\ l.nextSeq <= seq /\ l.segmentSize >= CompactRotateFrames
Compacting == /\ phase = "up" /\ compact = NoCompact
              /\ d.nextSeq = d.storedSeq /\ d.compactedSeq < d.storedSeq

CompactStarts ==
  LET seq == CompactBound
      rolled == Rolled(l, FALSE)
  IN  /\ Compacting
      /\ IF Rotates(seq)
         THEN /\ FileOpsFree /\ ~ l.writeFailed
              /\ segs' = createSegmentLocked(Trimmed(WithBuffer(l), l), l, FALSE)
              /\ l' = rolled
              /\ compact' = [step |-> "list", seq |-> seq, active |-> rolled.segmentBase, floor |-> 0]
         ELSE /\ compact' = [step |-> "list", seq |-> seq, active |-> l.segmentBase,
                            floor |-> l.compactFloor]
              /\ UNCHANGED <<segs, l>>
      /\ UNCHANGED <<cp, phase, conf, flight, waiting, returning, w, d, produced, acked,
                     committed, faults, crashes>>

(***************************************************************************)
(* A rotation whose roll fails ends the pass.                              *)
(***************************************************************************)
RotateFails ==
  /\ Compacting /\ Rotates(CompactBound) /\ FileOpsFree
  /\ faults < conf.maxFaults /\ faults' = faults + 1
  /\ \/ l.activePrepared /\ segs' \in HalfTrimmed(segs, l) /\ UNCHANGED l
     \/ segs' = Trimmed(segs, l) /\ l' = [l EXCEPT !.activePrepared = FALSE]
  /\ UNCHANGED <<cp, phase, conf, flight, waiting, returning, w, d, compact, produced,
                 acked, committed, crashes>>

(***************************************************************************)
(* Every listed segment but the active one goes when its successor starts  *)
(* at or below the bound, unless the floor says that there is none.  The   *)
(* log may have rolled since the active segment was read.                  *)
(***************************************************************************)
Successors(b, bases) == { c \in bases : c > b }

(***************************************************************************)
(* Variant: a segment goes when the one after it is only reached.          *)
(***************************************************************************)
DeletableEarly(b) ==
  /\ b # compact.active /\ Successors(b, Listed) # {}
  /\ FirstOf(Successors(b, Listed)) <= compact.seq + 1

Deletable(b) ==
  /\ b # compact.active /\ Successors(b, Listed) # {}
  /\ FirstOf(Successors(b, Listed)) <= compact.seq

Unlinked(gone) ==
  [ b \in DOMAIN segs |-> IF b \in gone THEN [segs[b] EXCEPT !.unlinked = TRUE] ELSE segs[b] ]
CompactedTo(seq) == [d EXCEPT !.compactedSeq = LargerOf(@, seq)]

CompactLists ==
  LET gone == { b \in Listed : Deletable(b) }
  IN  /\ compact.step = "list"
      /\ IF compact.seq < compact.floor
         THEN compact' = NoCompact /\ d' = CompactedTo(compact.seq) /\ UNCHANGED segs
         ELSE /\ segs' = Unlinked(gone)
              /\ compact' = [compact EXCEPT !.step = "floor"] @@ [kept |-> Listed \ gone]
              /\ UNCHANGED d
      /\ UNCHANGED <<cp, phase, conf, l, flight, waiting, returning, w, produced, acked,
                     committed, faults, crashes>>

(***************************************************************************)
(* A remove that fails ends the pass, with the segments before it gone.    *)
(***************************************************************************)
CompactFails ==
  /\ compact.step = "list" /\ compact.seq >= compact.floor
  /\ faults < conf.maxFaults /\ faults' = faults + 1
  /\ \E b \in { c \in Listed : Deletable(c) } :
       segs' = Unlinked({ c \in Listed : Deletable(c) /\ c < b })
  /\ compact' = NoCompact
  /\ UNCHANGED <<cp, phase, conf, l, flight, waiting, returning, w, d, produced, acked,
                 committed, crashes>>

(***************************************************************************)
(* The next floor is the base after the oldest sealed segment kept; it is  *)
(* recorded when the floor is still the one read at the start.             *)
(***************************************************************************)
NewFloor ==
  LET sealed == compact.kept \ {compact.active}
  IN  IF sealed = {} \/ Successors(FirstOf(sealed), compact.kept) = {} THEN Infinity
      ELSE FirstOf(Successors(FirstOf(sealed), compact.kept))

CompactEnds ==
  /\ compact.step = "floor"
  /\ compact' = NoCompact
  /\ d' = CompactedTo(compact.seq)
  /\ l' = [l EXCEPT !.compactFloor = IF @ = compact.floor THEN NewFloor ELSE @]
  /\ UNCHANGED <<segs, cp, phase, conf, flight, waiting, returning, w, produced, acked,
                 committed, faults, crashes>>

-----------------------------------------------------------------------------
(***************************************************************************)
(* The process dies; its unanswered calls die with it.                     *)
(***************************************************************************)
Die ==
  /\ phase # "refused" /\ phase' = "down"
  /\ l' = NoLog /\ w' = NoWriter /\ d' = NoDispatcher
  /\ flight' = NoFlight /\ compact' = NoCompact /\ waiting' = {} /\ returning' = {}
  /\ crashes < conf.maxCrashes /\ crashes' = crashes + 1
  /\ UNCHANGED <<conf, produced, acked, committed, faults>>

(***************************************************************************)
(* A kill leaves what was written in the cache, a write under way up to    *)
(* some frame.                                                             *)
(***************************************************************************)
Kill ==
  /\ Die /\ phase # "down"
  /\ IF flight.step = "io" /\ flight.written
     THEN \E n \in 0 .. Len(Run(flight)) :
            segs' = [segs EXCEPT ![flight.base].cache.frames = SubSeq(@, 1, Len(@) - n)]
     ELSE UNCHANGED segs
  /\ UNCHANGED cp

(***************************************************************************)
(* A power loss leaves what was synced and some of the rest.  Directory    *)
(* changes reach the device in the order they were made (the journals of   *)
(* ext4 and XFS): an unlink that survives is after every unlink of a lower *)
(* base, and after the creation of the checkpoint it waited for.           *)
(***************************************************************************)
PowerLoss ==
  LET unlinked == { b \in DOMAIN segs : segs[b].unlinked }
      Images == [ b \in DOMAIN segs |-> Torn(segs[b]) ]
  IN  /\ Die
      /\ \E gone \in SUBSET unlinked, forgets \in {FALSE, cp.exists /\ ~ cp.named} :
           /\ \A b \in gone, c \in unlinked : c < b => c \in gone
           /\ forgets => gone = {}
           /\ \E img \in [DOMAIN segs \ gone -> UNION Range(Images)] :
                /\ \A b \in DOMAIN img : img[b] \in Images[b]
                /\ segs' = [ b \in DOMAIN img |->
                               [Settled(segs[b], img[b]) EXCEPT !.unlinked = FALSE] ]
           /\ IF forgets
              THEN cp' = [exists |-> FALSE, named |-> FALSE, cache |-> 0, device |-> 0]
              ELSE \E kept \in {cp.cache, cp.device} :
                     cp' = [cp EXCEPT !.cache = kept, !.device = kept, !.named = cp.exists]

Next ==
  \/ OpenScan \/ OpenManager
  \/ \E n \in conf.batchSizes : AppendStages(n) \/ AppendRolls(n) \/ AppendSyncFails(n) \/ AppendRollFails(n)
  \/ prepLoop \/ flushSync \/ WriteRun \/ SyncRun \/ RunFails \/ FlushEnds
  \/ \E call \in returning : advanceDurableNext(call)
  \/ Dispatch \/ StoreReportsFlush \/ resetLocked \/ StoreWrites \/ StoreFails
  \/ FlushCheckpoint \/ CheckpointSynced \/ CheckpointSyncFails
  \/ CompactStarts \/ RotateFails \/ CompactLists \/ CompactFails \/ CompactEnds
  \/ Kill \/ PowerLoss

(***************************************************************************)
(* The flusher runs (wake-ups and a timer), a returning call returns, a    *)
(* stopped process is started again, and the dispatcher, one thread, reads *)
(* on between two checkpoints and compactions.                             *)
(***************************************************************************)
Fairness ==
  /\ WF_vars(flushSync \/ WriteRun \/ SyncRun \/ FlushEnds)
  /\ WF_vars(\E call \in returning : advanceDurableNext(call))
  /\ WF_vars(OpenScan \/ OpenManager)
  /\ SF_vars(Dispatch) /\ WF_vars(CompactLists \/ CompactEnds)

Spec == Init /\ [][Next]_vars /\ Fairness

-----------------------------------------------------------------------------
(***************************************************************************)
(* Every variable has the type its Go counterpart has.                     *)
(***************************************************************************)
TypeOK ==
  /\ DOMAIN segs \subseteq 0 .. MaxRecords
  /\ \A b \in DOMAIN segs :
       segs[b] \in [cache : Image, device : Image, unlinked : BOOLEAN]
  /\ cp \in [exists : BOOLEAN, named : BOOLEAN, cache : 0 .. MaxRecords, device : 0 .. MaxRecords]
  /\ phase \in {"down", "opening", "up", "refused"} /\ conf \in Confs
  /\ l.durableSize <= l.segmentSize /\ l.durableNext <= l.nextSeq
  /\ w.synced <= w.written /\ d.storedSeq <= d.nextSeq
  /\ \A call \in waiting \cup returning : call \subseteq Frame
  /\ acked \subseteq Frame /\ committed \subseteq 1 .. MaxRecords

(***************************************************************************)
(* A 202 is kept: a record answered 202 was committed to its partition, or *)
(* a process started now would replay it, whatever failed, was killed or   *)
(* lost power since, and however far the log was compacted.                *)
(***************************************************************************)
Recoverable ==
  LET first == IF Listed = {} THEN 0 ELSE FirstOf(Listed)
  IN  { f \in UNION { Range(ValidFrames(segs[b].cache)) : b \in Listed } :
          f.seq >= LargerOf(cp.cache, first) }

NoAckedRecordLost ==
  \A f \in acked : f.id \in committed \/ f \in Recoverable

(***************************************************************************)
(* A seq answered with a 202 is never given to a second record that is     *)
(* answered too: the seq space does not go back over crashes, rolls and a  *)
(* log compacted to one empty segment.                                     *)
(***************************************************************************)
AckedSeqsUnique ==
  \A f, g \in acked : f.seq = g.seq => f = g

(***************************************************************************)
(* The dispatcher reads only what no power loss can take back; otherwise   *)
(* its checkpoint could pass the end of the log that comes back.           *)
(***************************************************************************)
ReplayedIsDurable ==
  phase = "up" =>
    Replay \subseteq UNION { Range(ValidFrames(segs[b].device)) : b \in Listed }

(***************************************************************************)
(* The dispatcher meets no gap: every seq from its cursor to the durable   *)
(* next one is there to be read, while rolls and flushes race.             *)
(***************************************************************************)
NothingHiddenFromDispatch ==
  phase = "up" =>
    d.nextSeq .. l.durableNext - 1 \subseteq { f.seq : f \in Replay }

(***************************************************************************)
(* Compaction stops at the synced checkpoint: while no I/O call fails, no  *)
(* crash leaves a checkpoint below the oldest segment, the gap that the    *)
(* dispatcher could not read across and OpenManager raises the checkpoint  *)
(* over.  (A background flush that fails can leave one: the flush that a   *)
(* store armed meanwhile syncs a page the kernel no longer holds dirty,    *)
(* and its success counts.)                                                *)
(***************************************************************************)
NoGapBelowOldest ==
  phase = "opening" /\ faults = 0 => cp.cache >= FirstOf(Listed)

(***************************************************************************)
(* A node opens its WAL after any failed write, kill or power loss: no     *)
(* crash of its own looks like corruption or like a checkpoint ahead of    *)
(* the log.  With prepared segments that holds of one crash; see           *)
(* OpensWithPreparedSegments for a second one, in the middle of Open.      *)
(***************************************************************************)
OpensAfterAnyCrash == phase = "refused" => conf.prealloc /\ crashes > 1

(***************************************************************************)
(* A tear inside the write window of a prepared segment is truncated       *)
(* rather than refused, so preparing segments never keeps a node down.     *)
(***************************************************************************)
OpensWithPreparedSegments == phase # "refused"

(***************************************************************************)
(* A stored checkpoint that is not yet synced has its flush scheduled or   *)
(* running, or the failure of one to report; compaction waits for nothing  *)
(* else.                                                                   *)
(***************************************************************************)
CheckpointFlushDue ==
  w.open /\ w.dirty => w.flushArmed \/ w.syncing # NotSyncing \/ w.syncErr

(***************************************************************************)
(* The floor of CompactBefore is raised only if no roll happened           *)
(* meanwhile, so it never hides a sealed segment: whatever is sealed, the  *)
(* floor is at most the base after it.                                     *)
(***************************************************************************)
FloorHidesNoSegment ==
  phase = "up" =>
    \A b \in Listed : Successors(b, Listed) # {} =>
      l.compactFloor <= FirstOf(Successors(b, Listed))

(***************************************************************************)
(* Every produce call is answered: its batch completes, with an error when *)
(* a flush or a roll failed, or the process dies.  (The calls are bounded, *)
(* so all of them are answered in the end.)                                *)
(***************************************************************************)
CallsReturn == waiting # {} ~> waiting = {}

(***************************************************************************)
(* At-least-once from the accept side: what was answered 202 is committed  *)
(* in the end, over any number of restarts.                                *)
(***************************************************************************)
AckedIsDispatched ==
  acked # {} ~> ({ f.id : f \in acked } \subseteq committed \/ phase = "refused")
=============================================================================
