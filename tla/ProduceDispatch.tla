-------------------------- MODULE ProduceDispatch --------------------------
(***************************************************************************)
(* The produce dispatcher of one node (internal/cluster/produce_*.go): the  *)
(* loop that drains accepted records from the node's ingress log, commits   *)
(* them to the owners of their partitions and moves the dispatch            *)
(* checkpoint, behind which the ingress log is compacted.                   *)
(*                                                                          *)
(* One topic, whose partitions have different owners.  The topic's life is  *)
(* the sequence created, deleted, created again, ...: position i of it is   *)
(* incarnation (i + 1) \div 2 when i is odd and no topic when i is even.    *)
(* The leader's metadata, this node's replica and each owner's replica are  *)
(* positions in that life.                                                  *)
(*                                                                          *)
(* The loop goroutine owns `s`; its round (step, then finish) is cut at     *)
(* every record read and every commit started, so that metadata, owners and *)
(* commit goroutines move in between.  Clocks are abstracted to choices:    *)
(* a retry falls due, a commit turns slow, the reroute grace has passed,    *)
(* a small batch stops lingering, the rescan backstop fires.                *)
(***************************************************************************)
EXTENDS Integers, Sequences, FiniteSets, SequencesExt, FiniteSetsExt

CONSTANTS
    LookaheadWindows,   \* windows past the checkpoint the reader goes
    Confs               \* the settings batch and fanout (BatchSize, CommitConcurrency),
                        \* and the bounds of a behaviour

Kinds == {"leader", "read", "commit", "store", "member"}

ASSUME LookaheadPositive == LookaheadWindows \in Nat \ {0}
ASSUME ConfsBound ==
    Confs \subseteq [batch : Nat \ {0}, fanout : Nat \ {0}, parts : Nat \ {0},
                     records : Nat, faults : Nat, kinds : SUBSET Kinds,
                     crashes : Nat, changes : Nat]

VARIABLES
    conf,      \* the settings and the bounds of this behaviour
    wal,       \* accepted records, by WAL sequence number: partition and incarnation
    leader,    \* the leader's position in the topic's life
    replica,   \* this node's replica
    alive,     \* the partitions whose owner membership calls alive
    s,         \* the dispatcher's state (produceDispatchState)
    jobs,      \* the commit in flight to each destination (dispatchJob)
    pc,        \* where the loop is: top, read or launch
    rd,        \* the read in progress
    disk,      \* the checkpoint as written (stored) and as compacted to
    log,       \* each partition's log at its owner, under the incarnation it shows
    late,      \* commits whose caller gave up and that may still land
    strayed,   \* history: the records that were ever rerouted
    faults, crashes

vars == <<conf, wal, leader, replica, alive, s, jobs, pc, rd, disk, log,
          late, strayed, faults, crashes>>
metadata == <<leader, replica, alive>>
history == <<strayed, faults, crashes>>

Partitions == 0 .. conf.parts - 1
NoTopic == 0
TopicAt(i) == IF i % 2 = 1 THEN (i + 1) \div 2 ELSE NoTopic

(* perDestCap, holdLimit and the horizon of a window that BatchSize caps,   *)
(* as it does below the base window (clampWindow).                          *)
PerDestCap == Max({conf.batch \div 4, 1})
HoldLimit == Min({Max({conf.batch, 4 * PerDestCap}), conf.batch})
Horizon == conf.batch * LookaheadWindows

MayFail(kind) == kind \in conf.kinds /\ faults < conf.faults

Entry(q, p) == [seq |-> q, orig |-> p]
Seqs(entries) == {e.seq : e \in ToSet(entries)}
NoJob == [status |-> "none"]
NotReading == [at |-> 0]
None == -1      \* rerouteFor: nowhere to go
Unasked == -2   \* rerouteFor: not asked since the last read

NewDest == [queue |-> <<>>, inflight |-> FALSE, slow |-> FALSE, held |-> 0,
            skipped |-> 0, first |-> 0, failing |-> FALSE, unresolved |-> FALSE]

(* newProduceDispatchState: everything at or past the checkpoint is unread. *)
NewState(n) ==
    [next |-> n, read |-> n, marks |-> [q \in 1 .. conf.records |-> "unread"],
     dest |-> [p \in Partitions |-> NewDest], ready |-> <<>>, waiting |-> {},
     held |-> 0, slowHeld |-> 0, skipped |-> 0, rescanFrom |-> 0,
     deleted |-> "unasked", unsure |-> {}, memo |-> [p \in Partitions |-> Unasked]]

(***************************************************************************)
(* What the dispatcher's helpers make of its state st.                      *)
(***************************************************************************)
Marked(st, seqs, mark) ==
    [st EXCEPT !.marks = [q \in DOMAIN @ |-> IF q \in seqs THEN mark ELSE @[q]]]

(* Variant: a destination already on the ready list is put on it again. *)
EnqueueAgain(st, p) ==
    IF st.dest[p].inflight \/ st.dest[p].queue = <<>> \/ p \in st.waiting
    THEN st ELSE [st EXCEPT !.ready = Append(@, p)]

Enqueue(st, p) ==
    IF \/ p \in ToSet(st.ready) \/ st.dest[p].inflight
       \/ st.dest[p].queue = <<>> \/ p \in st.waiting
    THEN st ELSE [st EXCEPT !.ready = Append(@, p)]

Unhold(st, p, n) == [st EXCEPT !.dest[p].held = @ - n, !.held = @ - n]

HoldAll(st, p, entries) ==
    Enqueue([Marked(st, Seqs(entries), "held") EXCEPT
                !.dest[p].queue = @ \o entries,
                !.dest[p].held = @ + Len(entries),
                !.held = @ + Len(entries)], p)

(* release, for each of the entries: back to the log, under the partition   *)
(* it was accepted for.                                                     *)
Release(st, entries) ==
    LET of(p) == {e.seq : e \in {x \in ToSet(entries) : x.orig = p}}
        low(p) == Min(of(p) \union (IF st.dest[p].skipped = 0 THEN {} ELSE {st.dest[p].first}))
    IN [Marked(st, Seqs(entries), "skipped") EXCEPT
          !.dest = [p \in Partitions |->
                      IF of(p) = {} THEN @[p]
                      ELSE [@[p] EXCEPT !.skipped = @ + Cardinality(of(p)), !.first = low(p)]],
          !.skipped = @ + Len(entries)]

TakeQueue(st, p) == [Unhold(st, p, Len(st.dest[p].queue)) EXCEPT !.dest[p].queue = <<>>]

ReleaseAll(st, p, failed) == Release(TakeQueue(st, p), failed \o st.dest[p].queue)

(* Variant: the queue the probe comes from stays counted as held. *)
KeepProbeUncounted(st, p, failed) ==
    LET all == failed \o st.dest[p].queue
    IN IF all = <<>> THEN st
       ELSE Release(HoldAll([st EXCEPT !.dest[p].queue = <<>>], p, <<Head(all)>>), Tail(all))

(* keepProbe: the lowest record stays as the next probe. *)
KeepProbe(st, p, failed) ==
    LET all == failed \o st.dest[p].queue
    IN IF all = <<>> THEN st
       ELSE Release(HoldAll(TakeQueue(st, p), p, <<Head(all)>>), Tail(all))

MoveQueue(st, from, to) == HoldAll(TakeQueue(st, from), to, st.dest[from].queue)

RequestRescan(st, p) ==
    IF st.dest[p].skipped = 0 THEN st
    ELSE [st EXCEPT !.rescanFrom =
            IF @ = 0 \/ st.dest[p].first < @ THEN st.dest[p].first ELSE @]

Forget(st, p) ==
    IF /\ st.dest[p].held = 0 /\ st.dest[p].skipped = 0
       /\ ~st.dest[p].failing /\ ~st.dest[p].unresolved /\ p \notin ToSet(st.ready)
    THEN [st EXCEPT !.dest[p] = NewDest, !.waiting = @ \ {p}] ELSE st

(* Variant: what queued behind the commit is not put on the ready list. *)
AfterCommitIdle(st, p) == Forget(st, p)

AfterCommit(st, p) ==
    LET d == st.dest[p]
        drained == /\ d.skipped > 0 /\ ~d.failing /\ ~d.unresolved
                   /\ Len(d.queue) < PerDestCap \div 2
    IN Forget(Enqueue(IF drained THEN RequestRescan(st, p) ELSE st, p), p)

(* rerouteTarget: the first sibling, going round, that resolves and whose   *)
(* commits neither fail nor hang.                                           *)
RerouteTarget(st, p) ==
    LET sibling(i) == (p + i) % conf.parts
        takes(q) == /\ q \in alive
                    /\ ~st.dest[q].failing /\ ~st.dest[q].unresolved /\ ~st.dest[q].slow
        steps == {i \in 1 .. conf.parts - 1 : takes(sibling(i))}
    IN IF TopicAt(replica) = NoTopic \/ steps = {} THEN None ELSE sibling(Min(steps))

(* rerouteFor: the answer, and the state that remembers it until the next   *)
(* read.                                                                    *)
RerouteFor(st, p) == IF st.memo[p] = Unasked THEN RerouteTarget(st, p) ELSE st.memo[p]
RerouteAsked(st, p) == [st EXCEPT !.memo[p] = RerouteFor(st, p)]

(* dispatchTarget: the topic has an assignment for the partition and its    *)
(* owner is not dead.  The table of targets it is looked up in is checked   *)
(* against the store's versions on every call, so it is the replica's view  *)
(* of that moment.                                                          *)
Resolves(p) == TopicAt(replica) # NoTopic /\ p \in alive

(* Variant: the local replica decides alone. *)
TopicDeletedLocally(sure) == TopicAt(replica) = NoTopic

(* topicConfirmedDeleted: gone here, and on the leader when it can be asked *)
(* (sure).                                                                  *)
TopicConfirmedDeleted(sure) ==
    sure /\ TopicAt(replica) = NoTopic /\ TopicAt(leader) = NoTopic

(* incarnationGoneOnLeader *)
IncarnationGoneOnLeader(id, sure) == sure /\ TopicAt(leader) # id

(* topicDeleted: an answer holds until the next read, and one that was not  *)
(* a yes is not asked for again for failureBackoff (unsure; its key is      *)
(* NoTopic).                                                                *)
AsksIfDeleted(st) == st.deleted = "unasked" /\ NoTopic \notin st.unsure
TopicDeleted(st, sure) ==
    IF AsksIfDeleted(st) THEN TopicConfirmedDeleted(sure) ELSE st.deleted = "yes"
DeletedAsked(st, sure) ==
    IF ~AsksIfDeleted(st) THEN st
    ELSE IF TopicConfirmedDeleted(sure) THEN [st EXCEPT !.deleted = "yes"]
    ELSE [st EXCEPT !.deleted = "no", !.unsure = @ \union {NoTopic}]

(* The leader cannot be asked, or this node has not caught up with it: a    *)
(* fault, unless the replica is in fact behind.                             *)
Sures == IF replica < leader \/ MayFail("leader") THEN BOOLEAN ELSE {TRUE}
AskCost(sure) == IF sure \/ replica < leader THEN 0 ELSE 1

(* launch first takes the destinations whose retry is due (woken, in any    *)
(* order) off the waiting list.                                             *)
Woken(st, woken) ==
    FoldLeft(Enqueue, [st EXCEPT !.waiting = @ \ ToSet(woken)], woken)
Wakings(st) ==
    UNION {{w \in [1 .. n -> st.waiting] : IsInjective(w)} : n \in 0 .. Cardinality(st.waiting)}

(***************************************************************************)
(* The reader.                                                              *)
(***************************************************************************)
(* skip *)
Skip(st, q, reseen) ==
    LET p == wal[q].part
        d == st.dest[p]
        lowest == \/ d.skipped = 0
                  \/ reseen /\ p \notin rd.blocked /\ d.first >= rd.from
                  \/ q < d.first
    IN [Marked(st, {q}, "skipped") EXCEPT
          !.dest[p].first = IF lowest THEN q ELSE @,
          !.dest[p].skipped = @ + 1, !.skipped = @ + 1]

Discard(st, q) == Marked(st, {q}, "done")
Hold(st, q, p) == HoldAll(st, p, <<Entry(q, wal[q].part)>>)
HoldProbe(st, q, reseen) ==
    IF st.dest[wal[q].part].held > 0 THEN Skip(st, q, reseen) ELSE Hold(st, q, wal[q].part)

(* The failing destination's records go to a sibling: past the grace, and   *)
(* not when its own retry can take this one.                                *)
PlaceFailing(st, q, reseen, past, due) ==
    LET p == wal[q].part
        asked == RerouteAsked(st, p)
    IN IF past /\ (st.dest[p].inflight \/ ~due)
       THEN IF RerouteFor(st, p) # None THEN Hold(asked, q, RerouteFor(st, p))
            ELSE HoldProbe(asked, q, reseen)
       ELSE HoldProbe(st, q, reseen)

PlaceUnresolved(st, q, reseen, sure) ==
    LET p == wal[q].part
        asked == DeletedAsked(st, sure)
        routed == RerouteAsked(asked, p)
    IN IF TopicDeleted(st, sure) THEN Discard(asked, q)
       ELSE IF RerouteFor(asked, p) # None THEN Hold(routed, q, RerouteFor(asked, p))
       ELSE HoldProbe([routed EXCEPT !.dest[p].unresolved = TRUE], q, reseen)

PlaceResolved(st, q, reseen, past, due) ==
    LET p == wal[q].part
        st1 == [st EXCEPT !.dest[p].unresolved = FALSE]
    IN CASE st1.dest[p].failing -> PlaceFailing(st1, q, reseen, past, due)
         [] ~st1.dest[p].failing /\ (st1.dest[p].slow \/ Len(st1.dest[p].queue) >= PerDestCap)
              -> Skip(st1, q, reseen)
         [] OTHER -> Hold(st1, q, p)

(* incarnationState: another incarnation has the topic's name here; whether *)
(* the record's is gone is asked of the leader once per failureBackoff.     *)
Replaced(q) == TopicAt(replica) \notin {NoTopic, wal[q].id}

PlaceFirst(st, q, reseen, sure, past, due) ==
    CASE Replaced(q) ->
           IF wal[q].id \notin st.unsure /\ IncarnationGoneOnLeader(wal[q].id, sure)
           THEN Discard(st, q)
           ELSE Skip([st EXCEPT !.unsure = @ \union {wal[q].id}], q, reseen)
      [] ~Replaced(q) /\ ~Resolves(wal[q].part) -> PlaceUnresolved(st, q, reseen, sure)
      [] OTHER -> PlaceResolved(st, q, reseen, past, due)

(* Variant: a record does not wait behind a skipped one of its partition. *)
PlaceAhead(st, q, blocked, reseen, sure, past, due) ==
    PlaceFirst(st, q, reseen, sure, past, due)

(* place *)
Place(st, q, blocked, reseen, sure, past, due) ==
    IF blocked THEN Skip(st, q, reseen) ELSE PlaceFirst(st, q, reseen, sure, past, due)

Skippers(st) == {p \in Partitions : st.dest[p].skipped > 0}

(* rescanStart *)
RescanStart(st) ==
    IF st.rescanFrom > 0 THEN st.rescanFrom ELSE Min({st.dest[p].first : p \in Skippers(st)})

ReaderFull(st) == st.held - st.slowHeld >= HoldLimit

(* read, up to the replay: plain, or a rescan that is due or that the       *)
(* backstop starts.  Records of other topics (traffic) also make the reader *)
(* run, with nothing of this topic to read.  A read forgets the reroutes    *)
(* and what was known of a delete.                                          *)
ReadBegins(backstop, traffic, woken) ==
    LET rescan == s.skipped > 0 /\ (s.rescanFrom > 0 \/ backstop)
        st == [s EXCEPT !.rescanFrom = 0]
        end == s.next + Horizon
        nothing == s.read > Len(wal) \/ s.read >= end
        from == IF rescan THEN RescanStart(s) ELSE s.read
    IN /\ pc = "top"
       /\ traffic => /\ ~rescan /\ ~ReaderFull(s)
                     /\ s.read > Len(wal) /\ s.read < end
       /\ backstop => s.skipped > 0 /\ s.rescanFrom = 0
       /\ IF ~rescan /\ ~traffic /\ (nothing \/ ReaderFull(s))
          THEN /\ s' = Woken(st, woken) /\ rd' = [at |-> 1] /\ pc' = "launch"
          ELSE /\ woken = <<>>
               /\ s' = [st EXCEPT !.deleted = "unasked", !.memo = [p \in Partitions |-> Unasked]]
               /\ rd' = [at |-> from, from |-> from, rescan |-> rescan, old |-> s.read,
                          durable |-> Len(wal) + 1, end |-> end, blocked |-> {},
                          pending |-> {p \in Skippers(s) : rescan /\ s.dest[p].first >= from}]
               /\ pc' = "read"
       /\ UNCHANGED <<conf, wal, metadata, jobs, disk, log, late, history>>

(* The replay's position: what is below the checkpoint, and what was read   *)
(* and is not skipped, is passed over.                                      *)
Cursor == IF rd.at < s.next THEN s.next ELSE rd.at
RescanDone == rd.rescan /\ rd.pending = {} /\ Cursor < rd.old
Stops == Cursor >= rd.durable \/ Cursor >= rd.end \/ ReaderFull(s)

(* errRescanDone: go on with new records. *)
ReadCutsShort ==
    /\ pc = "read" /\ RescanDone
    /\ rd' = [rd EXCEPT !.at = rd.old]
    /\ UNCHANGED <<conf, wal, metadata, s, jobs, pc, disk, log, late, history>>

(* Already read, and not skipped. *)
ReadPasses ==
    /\ pc = "read" /\ ~RescanDone /\ ~Stops
    /\ Cursor < s.read /\ s.marks[Cursor] # "skipped"
    /\ rd' = [rd EXCEPT !.at = Cursor + 1]
    /\ UNCHANGED <<conf, wal, metadata, s, jobs, pc, disk, log, late, history>>

(* fn: a new record, or a skipped one again, is placed. *)
ReadPlaces(sure, past, due) ==
    LET q == Cursor
        p == wal[q].part
        reseen == q < s.read
        st == IF reseen THEN [s EXCEPT !.dest[p].skipped = @ - 1, !.skipped = @ - 1]
                        ELSE [s EXCEPT !.read = q + 1]
        behind == st.dest[p].skipped > 0
        blocked == IF reseen THEN p \in rd.blocked \/ (behind /\ st.dest[p].first < rd.from)
                             ELSE behind
        placed == Place(st, q, blocked, reseen, sure, past, due)
        again == reseen /\ placed.marks[q] = "skipped"
        asks == /\ ~blocked
                /\ IF Replaced(q) THEN wal[q].id \notin s.unsure
                   ELSE ~Resolves(p) /\ AsksIfDeleted(s)
        finished == reseen /\ (placed.dest[p].skipped = 0 \/ again)
    IN /\ pc = "read" /\ ~RescanDone /\ ~Stops
       /\ q >= s.read \/ s.marks[q] = "skipped"
       /\ sure \/ asks
       /\ past \/ due => ~blocked /\ s.dest[p].failing
       /\ s' = Forget(placed, p)
       /\ rd' = [rd EXCEPT !.at = q + 1,
                           !.blocked = IF again THEN @ \union {p} ELSE @,
                           !.pending = IF finished THEN @ \ {p} ELSE @]
       /\ strayed' = IF placed.marks[q] = "held" /\ placed.dest[p].queue = s.dest[p].queue
                     THEN strayed \union {q} ELSE strayed
       /\ faults' = faults + AskCost(sure)
       /\ UNCHANGED <<conf, wal, metadata, jobs, pc, disk, log, late, crashes>>

(* Variant: the cursor behind the record the replay stopped at. *)
StoppedBehind == Cursor + 1

(* stopped: the record the replay stopped at, which it did not place. *)
Stopped == Cursor

(* The replay stops (at a boundary) or fails: a destination the rescan did  *)
(* not finish with has its remaining skipped records past the stop.         *)
ReadEnds(fails, woken) ==
    LET unfinished(p) == /\ rd.rescan /\ ~fails /\ Cursor < rd.old
                         /\ s.dest[p].skipped > 0 /\ p \notin rd.blocked
                         /\ s.dest[p].first \in rd.from .. Stopped - 1
    IN /\ pc = "read" /\ ~RescanDone
       /\ Stops \/ (fails /\ MayFail("read"))
       /\ fails => ~Stops
       /\ s' = Woken([s EXCEPT !.dest = [p \in Partitions |->
                           IF unfinished(p) THEN [@[p] EXCEPT !.first = Stopped] ELSE @[p]]], woken)
       /\ rd' = [at |-> 1] /\ pc' = "launch"
       /\ faults' = IF fails THEN faults + 1 ELSE faults
       /\ UNCHANGED <<conf, wal, metadata, jobs, disk, log, late, strayed, crashes>>

(***************************************************************************)
(* Commits: launch, the goroutines and the owners, finish.                  *)
(***************************************************************************)
Active == Cardinality({p \in Partitions : jobs[p].status # "none" /\ ~s.dest[p].slow})
LaunchOver == rd.at > Len(s.ready) \/ Active >= conf.fanout

(* lingerUntil: a small batch of a healthy destination waits for more while *)
(* other commits run.                                                       *)
Lingers ==
    LET d == s.dest[s.ready[rd.at]]
    IN /\ pc = "launch" /\ ~LaunchOver
       /\ Active > 0 /\ ~d.failing /\ ~d.unresolved /\ Len(d.queue) < PerDestCap
       /\ rd' = [rd EXCEPT !.at = @ + 1]
       /\ UNCHANGED <<conf, wal, metadata, s, jobs, pc, disk, log, late, history>>

(* dropReplaced *)
DropReplaced(st, p) ==
    LET gone(e) == Replaced(e.seq)
        kept(e) == ~Replaced(e.seq)
        out == SelectSeq(st.dest[p].queue, gone)
        st1 == Release([Unhold(st, p, Len(out)) EXCEPT !.dest[p].queue = SelectSeq(@, kept)], out)
        lows == {st1.dest[e.orig].first : e \in ToSet(out)}
    IN IF out = <<>> THEN st
       ELSE [st1 EXCEPT !.rescanFrom = Min(lows \union (IF @ = 0 THEN {} ELSE {@}))]

(* unresolvedAtLaunch *)
UnresolvedAtLaunch(st, p, sure) ==
    LET asked == DeletedAsked(st, sure)
        alt == RerouteFor(asked, p)
        routed == RerouteAsked(asked, p)
    IN IF TopicDeleted(st, sure)
       THEN Forget([TakeQueue(Marked(asked, Seqs(st.dest[p].queue), "done"), p)
                      EXCEPT !.dest[p].unresolved = FALSE], p)
       ELSE IF alt # None THEN Forget(MoveQueue(routed, p, alt), p)
       ELSE KeepProbe([routed EXCEPT !.dest[p].unresolved = TRUE, !.waiting = @ \union {p}],
                      p, <<>>)

(* startCommit's batch: a probe is one record, a remote batch what fits one *)
(* frame (n), the rest stays queued.                                        *)
Launched(st, p, n) ==
    LET st1 == [st EXCEPT !.dest[p].queue = SubSeq(@, n + 1, Len(@)), !.dest[p].inflight = TRUE]
        refill == ~st.dest[p].failing /\ Len(st1.dest[p].queue) < PerDestCap \div 2
    IN IF refill THEN RequestRescan(st1, p) ELSE st1

(* launch takes the next ready destination: startCommit. *)
Start(p, n, sure) ==
    LET st == [s EXCEPT !.ready = RemoveAt(@, rd.at)]
        st1 == DropReplaced([st EXCEPT !.dest[p].unresolved = FALSE], p)
        batch == st1.dest[p].queue
    IN /\ pc = "launch" /\ ~LaunchOver /\ s.ready[rd.at] = p
       /\ sure \/ (~Resolves(p) /\ AsksIfDeleted(s))
       /\ \/ /\ ~Resolves(p) /\ n = 1
             /\ s' = UnresolvedAtLaunch(st, p, sure)
             /\ strayed' = IF /\ s'.dest[p].queue = <<>>
                              /\ s'.marks[Head(s.dest[p].queue).seq] = "held"
                           THEN strayed \union Seqs(s.dest[p].queue) ELSE strayed
             /\ UNCHANGED jobs
          \/ /\ Resolves(p) /\ batch = <<>> /\ n = 1
             /\ s' = Forget(st1, p)
             /\ UNCHANGED <<jobs, strayed>>
          \/ /\ Resolves(p) /\ n \in 1 .. Len(batch)
             /\ st1.dest[p].failing => n = 1
             /\ s' = Launched(st1, p, n)
             /\ jobs' = [jobs EXCEPT ![p] =
                            [status |-> "sent", batch |-> SubSeq(batch, 1, n), discard |-> {}]]
             /\ UNCHANGED strayed
       /\ faults' = faults + AskCost(sure)
       /\ UNCHANGED <<conf, wal, metadata, pc, rd, disk, log, late, crashes>>

(* An owner's replica may be at any position of the topic's life up to the  *)
(* leader's.  It commits a batch of one incarnation while it shows that one *)
(* (CommitAcceptedProduceBatch).                                            *)
SeqsOf(batch) == [i \in DOMAIN batch |-> batch[i].seq]
Stamped(seqs, id) == [i \in DOMAIN seqs |-> [seq |-> seqs[i], id |-> id]]

(* batchIncarnation: every record was accepted for the incarnation here. *)
OwnerTakes(seqs, id) == id # NoTopic /\ \A i \in DOMAIN seqs : wal[seqs[i]].id = id

OwnerCommits(p, i) ==
    /\ jobs[p].status = "sent" /\ OwnerTakes(SeqsOf(jobs[p].batch), TopicAt(i))
    /\ log' = [log EXCEPT ![p] = @ \o Stamped(SeqsOf(jobs[p].batch), TopicAt(i))]
    /\ jobs' = [jobs EXCEPT ![p].status = "committed"]
    /\ UNCHANGED <<conf, wal, metadata, s, pc, rd, disk, late, history>>

(* A commit that lands after its caller gave up. *)
LateCommits(m, i) ==
    /\ m \in late /\ OwnerTakes(m.seqs, TopicAt(i))
    /\ log' = [log EXCEPT ![m.part] = @ \o Stamped(m.seqs, TopicAt(i))]
    /\ late' = late \ {m}
    /\ UNCHANGED <<conf, wal, metadata, s, jobs, pc, rd, disk, history>>

(* discardable, of a failed batch *)
Discardable(batch, sure) ==
    {q \in Seqs(batch) : \/ TopicConfirmedDeleted(sure)
                         \/ Replaced(q) /\ IncarnationGoneOnLeader(wal[q].id, sure)}

(* runJob reports: the owner's success; a refusal because it shows another  *)
(* incarnation than a record's; or a failure, because it shows no topic or  *)
(* for any other reason, the answer to a commit that landed being lost or   *)
(* the commit still under way included.  An owner that does not commit      *)
(* records of the live incarnation is a fault.                              *)
JobReports(p, result, sure) ==
    LET job == jobs[p]
        seqs == SeqsOf(job.batch)
        lives == \A q \in ToSet(seqs) : wal[q].id = TopicAt(leader)
        shown == {TopicAt(i) : i \in 1 .. leader}
        fault == result # "ok" /\ (job.status = "committed" \/ lives)
        cost == (IF fault THEN 1 ELSE 0) + (IF result = "ok" THEN 0 ELSE AskCost(sure))
    IN /\ \/ job.status = "committed" /\ result \in {"ok", "failed"}
          \/ job.status = "sent" /\ result = "failed" /\ (fault \/ NoTopic \in shown)
          \/ /\ job.status = "sent" /\ result = "mismatch"
             /\ \E id \in shown \ {NoTopic} : \E q \in ToSet(seqs) : wal[q].id # id
       /\ result = "ok" => sure
       /\ fault => MayFail("commit")
       /\ faults + cost <= conf.faults
       /\ jobs' = [jobs EXCEPT
                     ![p].status = result,
                     ![p].discard = IF result = "ok" THEN {} ELSE Discardable(job.batch, sure)]
       /\ late' = IF job.status = "sent" /\ result = "failed" /\ fault
                  THEN late \union {[part |-> p, seqs |-> seqs]} ELSE late
       /\ faults' = faults + cost
       /\ UNCHANGED <<conf, wal, metadata, s, pc, rd, disk, log, strayed, crashes>>

(* Variant: the batch in flight goes back to the log as well. *)
MarkSlowWithBatch(p) ==
    /\ pc = "top" /\ jobs[p].status # "none" /\ ~s.dest[p].slow
    /\ s' = ReleaseAll([s EXCEPT !.dest[p].slow = TRUE, !.slowHeld = @ + Len(jobs[p].batch)],
                       p, jobs[p].batch)
    /\ UNCHANGED <<conf, wal, metadata, jobs, pc, rd, disk, log, late, history>>

(* markSlow: what queued behind a commit that hangs goes back to the log. *)
MarkSlow(p) ==
    /\ pc = "top" /\ jobs[p].status # "none" /\ ~s.dest[p].slow
    /\ s' = ReleaseAll([s EXCEPT !.dest[p].slow = TRUE, !.slowHeld = @ + Len(jobs[p].batch)],
                       p, <<>>)
    /\ UNCHANGED <<conf, wal, metadata, jobs, pc, rd, disk, log, late, history>>

(* finish, up to the outcome *)
Landed(p) ==
    LET n == Len(jobs[p].batch)
    IN Unhold([s EXCEPT !.slowHeld = IF s.dest[p].slow THEN @ - n ELSE @,
                        !.dest[p].inflight = FALSE, !.dest[p].slow = FALSE], p, n)

FinishOK(p) ==
    LET st == Marked(Landed(p), Seqs(jobs[p].batch), "done")
        healed == [st EXCEPT !.dest[p].failing = FALSE, !.dest[p].unresolved = FALSE,
                             !.waiting = @ \ {p}]
        recovers == st.dest[p].failing \/ st.dest[p].unresolved
    IN AfterCommit(IF recovers THEN RequestRescan(healed, p) ELSE st, p)

Kept(p) == LET stays(e) == e.seq \notin jobs[p].discard IN SelectSeq(jobs[p].batch, stays)
AfterDiscard(p) == Marked(Landed(p), jobs[p].discard, "done")

FinishMismatch(p) ==
    Forget(ReleaseAll([AfterDiscard(p) EXCEPT !.dest[p].failing = FALSE, !.waiting = @ \ {p}],
                      p, Kept(p)), p)

FinishFailed(p, past) ==
    LET st == [AfterDiscard(p) EXCEPT !.dest[p].failing = TRUE]
        asked == RerouteAsked(st, p)
        alt == RerouteFor(st, p)
        waits(x) == [x EXCEPT !.waiting = @ \union {p}]
    IN IF past /\ alt # None
       THEN RequestRescan(waits(MoveQueue(HoldAll(asked, alt, Kept(p)), p, alt)), p)
       ELSE KeepProbe(waits(IF past THEN asked ELSE st), p, Kept(p))

Finish(p, past) ==
    LET result == jobs[p].status
        st == CASE result = "ok" -> FinishOK(p)
                [] result # "ok" /\ Kept(p) = <<>> -> AfterCommit(AfterDiscard(p), p)
                [] result = "mismatch" /\ Kept(p) # <<>> -> FinishMismatch(p)
                [] OTHER -> FinishFailed(p, past)
    IN /\ pc = "top" /\ result \in {"ok", "failed", "mismatch"}
       /\ past => result = "failed"
       /\ s' = st
       /\ jobs' = [jobs EXCEPT ![p] = NoJob]
       /\ strayed' = IF result = "failed" /\ st.dest[p].queue = <<>>
                     THEN strayed \union Seqs(Kept(p)) \union Seqs(s.dest[p].queue) ELSE strayed
       /\ UNCHANGED <<conf, wal, metadata, pc, rd, disk, log, late, faults, crashes>>

(***************************************************************************)
(* The checkpoint.                                                          *)
(***************************************************************************)
(* Variant: a record left in the log does not hold the checkpoint. *)
FrontierPastSkipped(st) ==
    Min({st.read} \union {q \in st.next .. st.read - 1 : st.marks[q] = "held"})

(* popDone: the first record that is not done. *)
Frontier(st) ==
    Min({st.read} \union {q \in st.next .. st.read - 1 : st.marks[q] # "done"})

(* sweepIdle *)
Swept(st) ==
    LET idle(p) == /\ st.dest[p].held = 0 /\ st.dest[p].skipped = 0
                   /\ p \notin ToSet(st.ready) /\ ~st.dest[p].inflight
    IN IF TopicAt(replica) # NoTopic THEN st
       ELSE [st EXCEPT !.dest = [p \in Partitions |-> IF idle(p) THEN NewDest ELSE @[p]],
                       !.waiting = {p \in @ : ~idle(p)}]

(* advanceCheckpoint, then sweepIdle when it is time.  The store may fail   *)
(* (a fault); compaction reaches the value last synced (to).                *)
Checkpoint(stores, to, sweeps) ==
    LET st == [s EXCEPT !.next = Frontier(s)]
        stored == IF stores THEN st.next ELSE disk.stored
    IN /\ pc = "launch" /\ LaunchOver
       /\ pc' = "top" /\ rd' = NotReading
       /\ ~stores => st.next # disk.stored /\ MayFail("store") /\ to = disk.compacted
       /\ to \in disk.compacted .. stored
       /\ crashes = conf.crashes /\ stores => to = stored
       /\ s' = IF sweeps THEN Swept(st) ELSE st
       /\ disk' = [stored |-> stored, compacted |-> to]
       /\ faults' = IF stores THEN faults ELSE faults + 1
       /\ UNCHANGED <<conf, wal, metadata, jobs, log, late, strayed, crashes>>

(***************************************************************************)
(* Everything around the dispatcher.                                        *)
(***************************************************************************)
(* A producer's record reaches the ingress log, stamped with an incarnation *)
(* this node's replica has shown.                                           *)
Accept(p, i) ==
    /\ Len(wal) < conf.records
    /\ i \in 1 .. replica /\ TopicAt(i) # NoTopic
    /\ wal' = Append(wal, [part |-> p, id |-> TopicAt(i)])
    /\ UNCHANGED <<conf, metadata, s, jobs, pc, rd, disk, log, late, history>>

TopicChanges ==
    /\ leader <= conf.changes
    /\ leader' = leader + 1
    /\ UNCHANGED <<conf, wal, replica, alive, s, jobs, pc, rd, disk, log, late, history>>

(* failureBackoff has passed since an answer that was not sure. *)
UnsureLapses(k) ==
    /\ k \in s.unsure
    /\ s' = [s EXCEPT !.unsure = @ \ {k}]
    /\ UNCHANGED <<conf, wal, metadata, jobs, pc, rd, disk, log, late, history>>

ReplicaApplies ==
    /\ replica < leader
    /\ replica' = replica + 1
    /\ UNCHANGED <<conf, wal, leader, alive, s, jobs, pc, rd, disk, log, late, history>>

MemberDies(p) ==
    /\ p \in alive /\ MayFail("member")
    /\ alive' = alive \ {p}
    /\ faults' = faults + 1
    /\ UNCHANGED <<conf, wal, leader, replica, s, jobs, pc, rd, disk, log, late, strayed, crashes>>

MemberReturns(p) ==
    /\ p \notin alive
    /\ alive' = alive \union {p}
    /\ UNCHANGED <<conf, wal, leader, replica, s, jobs, pc, rd, disk, log, late, history>>

(* The node dies and starts again from a checkpoint no older than the one   *)
(* compacted to, with a replica that may be an older snapshot.  Commits in  *)
(* flight may still land.                                                   *)
Crash(n, i) ==
    /\ crashes < conf.crashes
    /\ n \in disk.compacted .. disk.stored
    /\ i \in 1 .. replica
    /\ s' = NewState(n) /\ pc' = "top" /\ rd' = NotReading
    /\ replica' = i
    /\ disk' = [disk EXCEPT !.stored = n]
    /\ late' = late \union {[part |-> p, seqs |-> SeqsOf(jobs[p].batch)] :
                               p \in {x \in Partitions : jobs[x].status = "sent"}}
    /\ jobs' = [p \in Partitions |-> NoJob]
    /\ crashes' = crashes + 1
    /\ UNCHANGED <<conf, wal, leader, alive, log, strayed, faults>>

(***************************************************************************)
(* The specification.                                                       *)
(***************************************************************************)
Init ==
    /\ conf \in Confs
    /\ wal = <<>> /\ leader = 1 /\ replica = 1
    /\ alive = Partitions
    /\ s = NewState(1) /\ jobs = [p \in Partitions |-> NoJob]
    /\ pc = "top" /\ rd = NotReading
    /\ disk = [stored |-> 1, compacted |-> 1]
    /\ log = [p \in Partitions |-> <<>>] /\ late = {}
    /\ strayed = {} /\ faults = 0 /\ crashes = 0

Read ==
    \/ /\ pc = "read"
       /\ \/ ReadCutsShort \/ ReadPasses
          \/ \E woken \in Wakings(s) : ReadEnds(FALSE, woken)
          \/ \E sure \in Sures, past, due \in BOOLEAN : ReadPlaces(sure, past, due)
    \/ /\ pc = "top"
       /\ \E woken \in Wakings(s) : ReadBegins(FALSE, FALSE, woken)
StartAny(p) ==
    /\ pc = "launch" /\ ~LaunchOver
    /\ \E sure \in Sures, n \in 1 .. conf.records : Start(p, n, sure)
CheckpointAny ==
    /\ pc = "launch" /\ LaunchOver
    /\ \E stores, sweeps \in BOOLEAN, to \in 1 .. conf.records + 1 :
          Checkpoint(stores, to, sweeps)
Round == Read \/ Lingers \/ CheckpointAny \/ (\E p \in Partitions : StartAny(p))
FinishAny(p) == \E past \in BOOLEAN : Finish(p, past)
Reports(p) ==
    \E result \in {"ok", "failed", "mismatch"}, sure \in Sures : JobReports(p, result, sure)

Next ==
    \/ Round
    \/ ReadBegins(TRUE, FALSE, <<>>) \/ ReadBegins(FALSE, TRUE, <<>>)
    \/ \E woken \in Wakings(s) : ReadEnds(TRUE, woken)
    \/ \E p \in Partitions :
         \/ FinishAny(p) \/ MarkSlow(p) \/ Reports(p)
         \/ \E i \in 1 .. leader : OwnerCommits(p, i)
         \/ MemberDies(p) \/ MemberReturns(p)
         \/ \E i \in 1 .. replica : Accept(p, i)
    \/ \E m \in late, i \in 1 .. leader : LateCommits(m, i)
    \/ \E k \in s.unsure : UnsureLapses(k)
    \/ TopicChanges \/ ReplicaApplies
    \/ \E n \in 1 .. conf.records + 1, i \in 1 .. replica : Crash(n, i)

(* The loop runs on; it takes the results that wait, retries a waiting      *)
(* destination, starts a ready one however often it lingers, and rescans on *)
(* the backstop; time passes; commits return; this node's replica catches   *)
(* up and dead owners come back.  Nothing makes other topics' records       *)
(* arrive.                                                                  *)
Starts == \E p \in Partitions : StartAny(p)
Finishes == \E p \in Partitions : FinishAny(p)
Wakes ==
    /\ pc # "launch" /\ s.waiting # {}
    /\ \E woken \in Wakings(s) \ {<<>>} :
          ReadBegins(FALSE, FALSE, woken) \/ ReadEnds(FALSE, woken)
Answers == \E p \in Partitions : Reports(p) \/ \E i \in 1 .. leader : OwnerCommits(p, i)
Lapses == \E k \in s.unsure : UnsureLapses(k)
Recovers == ReplicaApplies \/ \E p \in Partitions : MemberReturns(p)
Fairness ==
    /\ WF_vars(Read \/ Lingers \/ CheckpointAny)
    /\ SF_vars(Starts) /\ SF_vars(Finishes) /\ SF_vars(Wakes)
    /\ SF_vars(ReadBegins(TRUE, FALSE, <<>>))
    /\ WF_vars(Lapses) /\ WF_vars(Answers) /\ WF_vars(Recovers)

Spec == Init /\ [][Next]_vars /\ Fairness

(***************************************************************************)
(* Properties.                                                              *)
(***************************************************************************)
Delivered(q) ==
    \E p \in Partitions : \E e \in ToSet(log[p]) : e.seq = q /\ e.id = wal[q].id
Gone(q) == TopicAt(leader) # wal[q].id
Between == s.next .. s.read - 1

(* The checkpoints are in order (compacted, stored, in memory, read), every *)
(* record read past the checkpoint has a mark, and no destination is twice  *)
(* on the ready list.                                                       *)
TypeOK ==
    /\ s.next \in 1 .. s.read /\ s.read \in 1 .. Len(wal) + 1
    /\ disk.compacted <= disk.stored /\ disk.stored <= s.next
    /\ \A q \in Between : s.marks[q] \in {"skipped", "held", "done"}
    /\ s.waiting \subseteq Partitions /\ IsInjective(s.ready)

(* A record the dispatcher is done with, behind the checkpoint or marked so *)
(* past it, is in a partition's log of its own incarnation of the topic, or *)
(* that incarnation is gone for good: place, unresolvedAtLaunch and         *)
(* discardable drop nothing of a topic that lives, and no owner takes it    *)
(* for an older one, whatever this node's and the owner's replica show and  *)
(* however often the topic is deleted and created again while commits fly.  *)
SettledBehindCheckpoint ==
    \A q \in DOMAIN wal :
        q < s.next \/ (q < s.read /\ s.marks[q] = "done") => Delivered(q) \/ Gone(q)

(* A held record is in exactly one place, a destination's queue or its      *)
(* commit in flight, and no other record is in any; the held counts, which  *)
(* stop the reader and let forget drop a destination, are exact.  Probes,   *)
(* reroutes, releases and discards move records between them all the time.  *)
InJob(p) == IF jobs[p].status = "none" THEN <<>> ELSE jobs[p].batch
Holding(p) == InJob(p) \o s.dest[p].queue
Places(q, lists) ==
    {<<p, i>> \in Partitions \X (1 .. conf.records) : i \in DOMAIN lists[p] /\ lists[p][i] = q}
HeldOnce ==
    /\ LET held == [p \in Partitions |-> SeqsOf(Holding(p))]
       IN \A q \in Between : Cardinality(Places(q, held)) = IF s.marks[q] = "held" THEN 1 ELSE 0
    /\ \A p \in Partitions : s.dest[p].held = Len(Holding(p))
    /\ s.held = MapThenSumSet(LAMBDA p : s.dest[p].held, Partitions)

(* No skipped record is forgotten in the log: a destination counts its      *)
(* skipped records exactly, and its firstSkipped is at or below the lowest  *)
(* of them, so that a rescan that starts there meets them all.              *)
SkippedFindable ==
    \A p \in Partitions :
        LET out == {q \in Between : s.marks[q] = "skipped" /\ wal[q].part = p}
        IN /\ s.dest[p].skipped = Cardinality(out)
           /\ out # {} => s.dest[p].first <= Min(out)

(* Partition order: of two records accepted for one partition and one       *)
(* incarnation, neither of which was ever rerouted, the later one is not in *)
(* the owner's log before the earlier one is, over skips, rescans, probes,  *)
(* slow commits, late commits and crashes.                                  *)
FirstIn(q, l) == Min({i \in DOMAIN l : l[i].seq = q})
NoOvertaking ==
    \A p \in Partitions : \A a, b \in DOMAIN wal :
        /\ a < b /\ wal[a] = wal[b] /\ wal[a].part = p /\ ~Gone(a)
        /\ {a, b} \intersect strayed = {} /\ b \in Seqs(log[p])
        => a \in Seqs(log[p]) /\ FirstIn(a, log[p]) < FirstIn(b, log[p])

(* Exactly once in steady state: while nothing fails and the node does not  *)
(* crash, no record is committed twice, even when commits turn slow and the *)
(* topic is deleted and created again under them.                           *)
OnceWithoutFaults ==
    LET committed == [p \in Partitions |-> SeqsOf(log[p])]
    IN faults = 0 /\ crashes = 0 => \A q \in DOMAIN wal : Cardinality(Places(q, committed)) <= 1

(* The pipeline's promise: behind what compaction may delete is only what   *)
(* is in a partition's log or gone, and it moves forward only.              *)
Out == INSTANCE Outbox WITH
    accepted <- Len(wal),
    delivered <- {q \in DOMAIN wal : Delivered(q)},
    gone <- {q \in DOMAIN wal : Gone(q)},
    settled <- disk.compacted - 1
ImplementsOutbox == Out!OutboxSpec

(* "guarantees it eventually reaches a partition": once faults, crashes and *)
(* topic changes stop and the topic exists, every accepted record is        *)
(* settled and the checkpoint reaches the end of the log, with no more      *)
(* records coming in to wake the reader.  Provided that launch returns: see *)
(* LaunchReturns.                                                           *)
Drained == s.next = Len(wal) + 1
Drains == []<>(pc # "launch") /\ <>[](TopicAt(leader) # NoTopic) => <>[]Drained

(* "An unconfirmed answer is kept for failureBackoff": so the records of a  *)
(* deleted topic are settled, too, once the leader can be asked.            *)
DrainsDeletedTopic == []<>(pc # "launch") => <>[]Drained

(* A round of the loop ends: launch goes through its ready list once, also  *)
(* when startCommit appends to it.                                          *)
LaunchReturns == pc = "launch" ~> pc = "top"
=============================================================================
