------------------------------ MODULE Dispatch ------------------------------
(***************************************************************************)
(* Parked consumers of one topic with one partition: the demand queue, the *)
(* pump that feeds it and the wake-ups that start the pump                 *)
(* (internal/broker/messaging/dispatch.go, consume.go), over the shard of  *)
(* module Shard.                                                           *)
(*                                                                         *)
(* The pump is one goroutine; its steps are the critical sections of the   *)
(* topic's mutex and of the shard's.  Between them consumers park, give    *)
(* up, ack, nack; peers register tokens and claim; records are committed;  *)
(* leases lapse; the topic is deleted.  A call that ends in a wake makes   *)
(* it after releasing its lock: the wake is owed until wakeNotifier runs.  *)
(*                                                                         *)
(* Tokens are anonymous: only the one at the head of the queue matters.    *)
(* peerToken.Notify fails only for a spent token, and the pump has just    *)
(* seen that it is not, so that branch of pumpQueue has no action here.    *)
(***************************************************************************)
EXTENDS Shard, Sequences, SequencesExt

CONSTANTS
  Consumers,    \* local long-polling consumers, one call at a time each
  Caps,         \* the topic's maxInFlight and maxAckedAhead
  HoldIds,      \* identities of claim holds
  Confs         \* bounds: [records, consumers, nonces, tokens, holds, life]

ASSUME CapsAssumption ==
  Caps \in [maxInFlight : Nat \ {0}, maxAckedAhead : Nat \ {0}]
ASSUME ConfsAssumption ==
  Confs \subseteq [ records : 0 .. LogEnd, consumers : SUBSET Consumers,
                    nonces : SUBSET Nonces, tokens : Nat, holds : SUBSET HoldIds,
                    life : {"kept", "deleted", "created again"} ]

VARIABLES
  tail,         \* log.HighWatermark()
  sh,           \* the partition's shard
  owner,        \* who has the receipt handle of a nonce
  call,         \* what a consumer's call is doing
  queue,        \* topicDispatch.queue
  hasWaiters,   \* topicDispatch.hasWaiters
  dirty,        \* the topic is in dispatcher.dirty, and so the pump is kicked
  owed,         \* a wakeNotifier call is on its way
  pump,         \* the pump goroutine
  outstanding,  \* topicDispatch.outstanding
  holds,        \* topicDispatch.holds, oldest first
  armed,        \* holds whose deadline or verdict callback may still run
  told,         \* holds whose peer may still come to claim
  won,          \* claims that reserved a record and have not yet said so
  topic,        \* "up", "deleted" (its record is), "released" (its waiters too)
  swallowed,    \* history: a lease lapsed and no wake was made for it
  again,        \* the topic was created again after a delete
  due,          \* history: consumers a release owes the end of their call
  conf          \* the bounds of this behaviour: who takes part, and how much

shardVars == <<tail, sh>>
lifeVars == <<again, due, conf>>
peerVars == <<outstanding, holds, armed, told, won>>
vars == <<tail, sh, owner, call, queue, hasWaiters, dirty, owed, pump,
          outstanding, holds, armed, told, won, topic, swallowed, again, due, conf>>

VisibilityTimeout == 1

gone == topic # "up"

Token == "token"     \* a peer's token that can be spent
Lapse == "lapsed"    \* one that is spent, or whose TTL ran out

IdlePump ==
  [pc |-> "idle", waiter |-> "", abandoned |-> FALSE, released |-> FALSE,
   dead |-> FALSE, tail |-> 0, nonce |-> ""]

Init ==
  /\ tail = 0 /\ sh = newPartitionShard(-1, Caps)
  /\ owner = [n \in Nonces |-> "nobody"]
  /\ call = [c \in Consumers |-> "none"]
  /\ queue = <<>> /\ hasWaiters = FALSE /\ dirty = FALSE /\ owed = FALSE
  /\ pump = IdlePump
  /\ outstanding = 0 /\ holds = <<>> /\ armed = {} /\ told = {} /\ won = {}
  /\ topic = "up" /\ again = FALSE /\ swallowed = FALSE /\ due = {}
  /\ conf \in Confs

anyDemandLocked(q) == q # <<>>

nextNonceLocked(n) ==
  /\ owner[n] = "nobody"
  /\ \A e \in sh.entries \cup sh.expiry : e.nonce # n

LeaseOf(n) == { e \in purgeExpiredLocked(sh).entries : e.nonce = n }

-----------------------------------------------------------------------------
(***************************************************************************)
(* The clock, a commit, and the purger.  Each of the last two ends with a  *)
(* wake.                                                                   *)
(***************************************************************************)
Tick ==
  /\ sh' = now(sh) /\ sh' # sh
  /\ UNCHANGED <<tail, owner, call, queue, hasWaiters, dirty, owed, pump,
                 peerVars, topic, swallowed, lifeVars>>

Commit ==
  /\ tail < conf.records /\ ~ gone
  /\ tail' = tail + 1 /\ owed' = TRUE
  /\ UNCHANGED <<sh, owner, call, queue, hasWaiters, dirty, pump, peerVars,
                 topic, swallowed, lifeVars>>

purgeAll ==
  /\ sh' = purgeExpiredLocked(sh)
  /\ owed' = (owed \/ Lapsed(sh) # {})
  /\ UNCHANGED <<tail, owner, call, queue, hasWaiters, dirty, pump, peerVars,
                 topic, swallowed, lifeVars>>

(***************************************************************************)
(* The wake runs on the goroutine that owes it.  Several goroutines can    *)
(* owe one, so it may still be owed afterwards.                            *)
(***************************************************************************)
wakeNotifier ==
  /\ owed
  /\ dirty' = (dirty \/ hasWaiters)
  /\ owed' \in BOOLEAN
  /\ UNCHANGED <<shardVars, owner, call, queue, hasWaiters, pump, peerVars,
                 topic, swallowed, lifeVars>>

-----------------------------------------------------------------------------
(***************************************************************************)
(* A handle's owner settles its lease: an ack, a nack (also the one by     *)
(* which the broker gives a record back, releaseUndelivered) or an extend. *)
(* With a stale handle the call still purges, and wakes if that released   *)
(* something.                                                              *)
(***************************************************************************)
Ack(n) ==
  LET s == purgeExpiredLocked(sh)
  IN  \E e \in LeaseOf(n) :
        /\ sh' = resolveReserved(s, e.offset, "ackedAhead")
        /\ owed' = (owed \/ Lapsed(sh) # {} \/ resolveRelieves(s, e.offset))

Release(n) ==
  LET s == purgeExpiredLocked(sh)
  IN  IF LeaseOf(n) = {}
      THEN /\ sh' = s
           /\ owed' = (owed \/ Lapsed(sh) # {})
      ELSE \E e \in LeaseOf(n) :
             /\ sh' = ReleaseHandle(s, e.offset)
             /\ owed' = TRUE

ExtendLease(n) ==
  \E e \in LeaseOf(n) :
    /\ sh' = ExtendHandle(purgeExpiredLocked(sh), e, VisibilityTimeout)
    /\ owed' = (owed \/ Lapsed(sh) # {})

ClientCall(n) ==
  /\ owner[n] = "client" /\ ~ gone
  /\ \/ (Ack(n) \/ Release(n)) /\ owner' = [owner EXCEPT ![n] = "nobody"]
     \/ ExtendLease(n) /\ UNCHANGED owner
  /\ UNCHANGED <<tail, call, queue, hasWaiters, dirty, pump, peerVars, topic,
                 swallowed, lifeVars>>

(***************************************************************************)
(* ReserveNext by a call that does not hold a parked consumer: a fresh     *)
(* consume or a peer's claim.  Its purge announces nothing.                *)
(***************************************************************************)
Reserve(n, off, logTail) ==
  LET s == purgeExpiredLocked(sh)
  IN  /\ ReserveNextPicks(s, logTail, off)
      /\ nextNonceLocked(n)
      /\ sh' = reserveLocked(s, off, VisibilityTimeout, n)

Miss(logTail) ==
  LET s == purgeExpiredLocked(sh)
  IN  /\ \A off \in Offsets : ~ ReserveNextPicks(s, logTail, off)
      /\ sh' = s

Swallow == swallowed' = (swallowed \/ Lapsed(sh) # {})

ClientReserves ==
  \E n \in conf.nonces, off \in Offsets :
    Reserve(n, off, tail) /\ owner' = [owner EXCEPT ![n] = "client"]

-----------------------------------------------------------------------------
(***************************************************************************)
(* A long poll (Consume, ConsumeProbe, ConsumeWait): a scan, and when that *)
(* finds nothing, enqueue.                                                 *)
(***************************************************************************)
Consume(c) ==
  /\ call[c] = "none" /\ ~ gone
  /\ \/ ClientReserves /\ UNCHANGED call
     \/ Miss(tail) /\ call' = [call EXCEPT ![c] = "missed"] /\ UNCHANGED owner
  /\ Swallow
  /\ UNCHANGED <<tail, queue, hasWaiters, dirty, owed, pump, peerVars, topic,
                 lifeVars>>

enqueue(c) ==
  /\ call[c] = "missed"
  /\ call' = [call EXCEPT ![c] = "parked"]
  /\ queue' = Append(queue, c)
  /\ hasWaiters' = TRUE /\ dirty' = TRUE
  /\ UNCHANGED <<shardVars, owner, owed, pump, peerVars, topic, swallowed,
                 lifeVars>>

(***************************************************************************)
(* The consumer's select: its channel delivers or is closed, or it gives   *)
(* up.  dequeue takes it off the queue, or marks the waiter the pump holds *)
(* as abandoned and looks into the channel once more.  A record found      *)
(* there is served on a timeout and given back when the client is gone.    *)
(***************************************************************************)
Receive(c) ==
  /\ call[c] \in {"handed", "closed"}
  /\ call' = [call EXCEPT ![c] = "none"]
  /\ owner' = [n \in Nonces |-> IF owner[n] = c THEN "client" ELSE owner[n]]
  /\ due' = due \ {c}
  /\ UNCHANGED <<shardVars, queue, hasWaiters, dirty, owed, pump, peerVars,
                 topic, swallowed, again, conf>>

dequeue(c) ==
  /\ queue' = SelectSeq(queue, LAMBDA e : e # c)
  /\ pump' = IF pump.waiter = c THEN [pump EXCEPT !.abandoned = TRUE] ELSE pump
  /\ hasWaiters' = anyDemandLocked(queue')
  /\ call' = [call EXCEPT ![c] = "none"]

GiveUp(c) ==
  /\ call[c] \in {"parked", "handed", "closed"}
  /\ dequeue(c)
  /\ \/ /\ call[c] = "handed"
        /\ \E n \in Nonces : owner[n] = c /\ owner' = [owner EXCEPT ![n] = "releasing"]
     \/ owner' = [n \in Nonces |-> IF owner[n] = c THEN "client" ELSE owner[n]]
  /\ due' = due \ {c}
  /\ UNCHANGED <<shardVars, dirty, owed, peerVars, topic, swallowed, again, conf>>

releaseUndelivered(n) ==
  /\ owner[n] = "releasing"
  /\ Release(n)
  /\ owner' = [owner EXCEPT ![n] = "nobody"]
  /\ UNCHANGED <<tail, call, queue, hasWaiters, dirty, pump, peerVars, topic,
                 swallowed, lifeVars>>

-----------------------------------------------------------------------------
(***************************************************************************)
(* The pump: pumpTopic, pumpQueue.                                         *)
(***************************************************************************)
drainDirty ==
  /\ pump.pc = "idle" /\ dirty
  /\ dirty' = FALSE
  /\ pump' = [IdlePump EXCEPT !.pc = "peek"]
  /\ swallowed' = FALSE
  /\ UNCHANGED <<shardVars, owner, call, queue, hasWaiters, owed, peerVars, topic,
                 lifeVars>>

PumpEmpty ==
  /\ pump.pc = "peek" /\ queue = <<>>
  /\ hasWaiters' = FALSE
  /\ pump' = IdlePump
  /\ UNCHANGED <<shardVars, owner, call, queue, dirty, owed, peerVars, topic,
                 swallowed, lifeVars>>

(***************************************************************************)
(* consumable: the pump's estimate of the records that are free.           *)
(***************************************************************************)
consumable ==
  tail - (sh.committed + 1) - Cardinality(sh.entries) - Cardinality(sh.ackedAhead)

addHoldLocked(h) ==
  /\ h \notin ToSet(holds) \cup armed \cup told \cup won
  /\ outstanding' = outstanding + 1
  /\ holds' = Append(holds, h)
  /\ armed' = armed \cup {h} /\ told' = told \cup {h}

PumpToken ==
  /\ pump.pc = "peek" /\ queue # <<>>
  /\ \/ /\ Head(queue) = Lapse
        /\ queue' = Tail(queue)
        /\ UNCHANGED <<pump, peerVars>>
     \/ /\ Head(queue) = Token /\ consumable <= outstanding
        /\ pump' = IdlePump
        /\ UNCHANGED <<queue, peerVars>>
     \/ /\ Head(queue) = Token /\ consumable > outstanding
        /\ \E h \in conf.holds : addHoldLocked(h)
        /\ queue' = Append(Tail(queue), Lapse)
        /\ UNCHANGED <<pump, won>>
  /\ UNCHANGED <<shardVars, owner, call, hasWaiters, dirty, owed, topic, swallowed,
                 lifeVars>>

PumpTakesWaiter ==
  /\ pump.pc = "peek" /\ queue # <<>> /\ Head(queue) \in Consumers
  /\ queue' = Tail(queue)
  /\ pump' = [IdlePump EXCEPT !.pc = "read", !.waiter = Head(queue), !.tail = tail]
  /\ UNCHANGED <<shardVars, owner, call, hasWaiters, dirty, owed, peerVars, topic,
                 swallowed, lifeVars>>

(***************************************************************************)
(* readForWaiter.  It looks the topic up once, and a topic that is gone    *)
(* makes the waiter dead, then or never: a delete that comes later is not  *)
(* seen.  The high watermark is read before the shard is locked, at some   *)
(* moment since the waiter was taken.  The read of a reserved record may   *)
(* fail.                                                                   *)
(***************************************************************************)
readForWaiter ==
  /\ \/ /\ pump.pc = "read" /\ gone
        /\ pump' = [pump EXCEPT !.pc = "put back", !.dead = TRUE]
        /\ UNCHANGED <<sh, owner>>
     \/ /\ (pump.pc = "read" /\ ~ gone) \/ pump.pc = "scan"
        /\ \E logTail \in pump.tail .. tail :
             \/ /\ Miss(logTail)
                /\ pump' = [pump EXCEPT !.pc = "put back"]
                /\ UNCHANGED owner
             \/ \E n \in conf.nonces, off \in Offsets :
                  /\ Reserve(n, off, logTail)
                  /\ owner' = [owner EXCEPT ![n] = "pump"]
                  /\ \E next \in {"hand over", "failed"} :
                       pump' = [pump EXCEPT !.pc = next, !.nonce = n]
  /\ UNCHANGED <<tail, call, queue, hasWaiters, dirty, owed, peerVars, topic,
                 swallowed, lifeVars>>

(***************************************************************************)
(* resolveUnreadable.  An error that may pass gives the lease back, with a *)
(* wake, and ends the read.  A record that is lost for good is skipped,    *)
(* alone (SkipCorrupt) or with all below the oldest retained one           *)
(* (SkipMissingBelow), and the scan reserves again; the second announces   *)
(* nothing when the lease is no longer the scan's.                         *)
(***************************************************************************)
SkipCorrupt(n) ==
  LET s == purgeExpiredLocked(sh)
  IN  /\ IF LeaseOf(n) = {}
         THEN /\ sh' = s
              /\ owed' = (owed \/ Lapsed(sh) # {})
         ELSE \E e \in LeaseOf(n) :
                /\ sh' = resolveReserved(s, e.offset, "corrupt")
                /\ owed' = (owed \/ Lapsed(sh) # {} \/ resolveRelieves(s, e.offset))
      /\ UNCHANGED swallowed

SkipReaped(n) ==
  LET s == purgeExpiredLocked(sh)
  IN  IF LeaseOf(n) = {}
      THEN sh' = s /\ Swallow /\ UNCHANGED owed
      ELSE /\ \E e \in LeaseOf(n) : \E oldest \in e.offset + 1 .. tail :
                sh' = SkipMissingBelow(s, oldest)
           /\ owed' = TRUE
           /\ UNCHANGED swallowed

resolveUnreadable ==
  /\ pump.pc = "failed"
  /\ \/ /\ Release(pump.nonce) /\ UNCHANGED swallowed
        /\ pump' = [pump EXCEPT !.pc = "put back", !.nonce = ""]
     \/ /\ SkipCorrupt(pump.nonce) \/ SkipReaped(pump.nonce)
        /\ pump' = [pump EXCEPT !.pc = "scan", !.tail = tail, !.nonce = ""]
  /\ owner' = [owner EXCEPT ![pump.nonce] = "nobody"]
  /\ UNCHANGED <<tail, call, queue, hasWaiters, dirty, peerVars, topic, lifeVars>>

(***************************************************************************)
(* Variant: the flag is restored without looking again.                    *)
(***************************************************************************)
PutBackNoRekick ==
  LET wake == pump.released \/ pump.dead
  IN  /\ pump.pc = "put back"
      /\ queue' = IF pump.abandoned \/ wake THEN queue ELSE <<pump.waiter>> \o queue
      /\ call' = IF ~ pump.abandoned /\ wake
                 THEN [call EXCEPT ![pump.waiter] = "closed"] ELSE call
      /\ hasWaiters' = anyDemandLocked(queue')
      /\ pump' = IdlePump
      /\ UNCHANGED <<shardVars, owner, dirty, owed, peerVars, topic, swallowed,
                     lifeVars>>

(***************************************************************************)
(* Variant: the generation is not compared, only the read's own error      *)
(* counts.                                                                 *)
(***************************************************************************)
PutBackAnyGeneration ==
  /\ pump.pc = "put back"
  /\ queue' = IF pump.abandoned \/ pump.dead THEN queue ELSE <<pump.waiter>> \o queue
  /\ call' = IF ~ pump.abandoned /\ pump.dead
             THEN [call EXCEPT ![pump.waiter] = "closed"] ELSE call
  /\ hasWaiters' = anyDemandLocked(queue')
  /\ dirty' = (dirty \/ (~ hasWaiters /\ hasWaiters'))
  /\ pump' = IdlePump
  /\ UNCHANGED <<shardVars, owner, owed, peerVars, topic, swallowed, lifeVars>>

(***************************************************************************)
(* Nothing to hand over: the waiter goes back to the head of the queue, or *)
(* is woken empty when the topic was released meanwhile (its generation    *)
(* changed) or the read found it unservable.  If the flag had gone false   *)
(* meanwhile, a wake may have been dropped: look again.                    *)
(***************************************************************************)
PutBack ==
  LET wake == pump.released \/ pump.dead
  IN  /\ pump.pc = "put back"
      /\ queue' = IF pump.abandoned \/ wake THEN queue ELSE <<pump.waiter>> \o queue
      /\ call' = IF ~ pump.abandoned /\ wake
                 THEN [call EXCEPT ![pump.waiter] = "closed"] ELSE call
      /\ hasWaiters' = anyDemandLocked(queue')
      /\ dirty' = (dirty \/ (~ hasWaiters /\ hasWaiters'))
      /\ pump' = IdlePump
      /\ UNCHANGED <<shardVars, owner, owed, peerVars, topic, swallowed, lifeVars>>

(***************************************************************************)
(* Variant: the record is sent to a consumer that has left.                *)
(***************************************************************************)
HandOverToAbandoned ==
  /\ pump.pc = "hand over"
  /\ owner' = [owner EXCEPT ![pump.nonce] = pump.waiter]
  /\ pump' = [IdlePump EXCEPT !.pc = "peek"]
  /\ call' = IF pump.abandoned THEN call
             ELSE [call EXCEPT ![pump.waiter] = "handed"]
  /\ UNCHANGED <<shardVars, queue, hasWaiters, dirty, owed, peerVars, topic,
                 swallowed, lifeVars>>

HandOver ==
  /\ pump.pc = "hand over"
  /\ IF pump.abandoned \/ pump.released
     THEN /\ owner' = [owner EXCEPT ![pump.nonce] = "releasing"]
          /\ pump' = [pump EXCEPT !.pc = "give back", !.waiter = ""]
     ELSE /\ owner' = [owner EXCEPT ![pump.nonce] = pump.waiter]
          /\ pump' = [IdlePump EXCEPT !.pc = "peek"]
  /\ call' = IF pump.abandoned THEN call
             ELSE [call EXCEPT ![pump.waiter] =
                     IF pump.released THEN "closed" ELSE "handed"]
  /\ UNCHANGED <<shardVars, queue, hasWaiters, dirty, owed, peerVars, topic,
                 swallowed, lifeVars>>

(***************************************************************************)
(* The pump goes on to the next waiter once the record is given back.      *)
(***************************************************************************)
GaveBack ==
  /\ pump.pc = "give back" /\ owner[pump.nonce] # "releasing"
  /\ pump' = [IdlePump EXCEPT !.pc = "peek"]
  /\ UNCHANGED <<shardVars, owner, call, queue, hasWaiters, dirty, owed, peerVars,
                 topic, swallowed, lifeVars>>

-----------------------------------------------------------------------------
(***************************************************************************)
(* Peers: a token is registered, runs out or is dropped; a peer that was   *)
(* told comes to claim, or never does.                                     *)
(***************************************************************************)
registerRemote ==
  /\ ~ gone /\ Len(SelectSeq(queue, LAMBDA e : e \in {Token, Lapse})) < conf.tokens
  /\ queue' = Append(queue, Token)
  /\ hasWaiters' = TRUE /\ dirty' = TRUE
  /\ UNCHANGED <<shardVars, owner, call, owed, pump, peerVars, topic, swallowed,
                 lifeVars>>

TokenExpires ==
  /\ \E i \in DOMAIN queue : queue[i] = Token /\ queue' = [queue EXCEPT ![i] = Lapse]
  /\ UNCHANGED <<shardVars, owner, call, hasWaiters, dirty, owed, pump, peerVars,
                 topic, swallowed, lifeVars>>

dropRemote ==
  /\ \E i \in DOMAIN queue : queue[i] \in {Token, Lapse} /\ queue' = RemoveAt(queue, i)
  /\ hasWaiters' = anyDemandLocked(queue')
  /\ UNCHANGED <<shardVars, owner, call, dirty, owed, pump, peerVars, topic,
                 swallowed, lifeVars>>

Unhold(h) ==
  /\ outstanding' = IF outstanding > 0 THEN outstanding - 1 ELSE 0
  /\ holds' = SelectSeq(holds, LAMBDA g : g # h)
  /\ dirty' = TRUE

(***************************************************************************)
(* Variant: the count goes down for a hold that was already retired.       *)
(***************************************************************************)
retireHoldTwice(h) ==
  /\ h \in armed
  /\ armed' \in {armed, armed \ {h}}
  /\ Unhold(h)
  /\ UNCHANGED <<shardVars, owner, call, queue, hasWaiters, owed, pump, told, won,
                 topic, swallowed, lifeVars>>

(***************************************************************************)
(* The deadline fired or the peer declined.  Both may come for one hold,   *)
(* and either may come after a claim retired it.                           *)
(***************************************************************************)
retireHold(h) ==
  /\ h \in armed
  /\ armed' \in {armed, armed \ {h}}
  /\ IF h \in ToSet(holds) THEN Unhold(h)
                           ELSE UNCHANGED <<outstanding, holds, dirty>>
  /\ UNCHANGED <<shardVars, owner, call, queue, hasWaiters, owed, pump, told, won,
                 topic, swallowed, lifeVars>>

(***************************************************************************)
(* A claim is an ordinary consume; one that wins its record then retires   *)
(* the oldest hold.                                                        *)
(***************************************************************************)
Claim(h) ==
  /\ h \in told
  /\ told' = told \ {h}
  /\ IF gone THEN UNCHANGED <<sh, owner, won, swallowed, lifeVars>>
     ELSE /\ \/ ClientReserves /\ won' = won \cup {h}
             \/ Miss(tail) /\ UNCHANGED <<owner, won>>
          /\ Swallow
  /\ UNCHANGED <<tail, call, queue, hasWaiters, dirty, owed, pump, outstanding,
                 holds, armed, topic, lifeVars>>

claimArrived(h) ==
  /\ h \in won
  /\ won' = won \ {h}
  /\ IF holds = <<>> THEN UNCHANGED <<outstanding, holds, dirty>>
                     ELSE Unhold(Head(holds))
  /\ UNCHANGED <<shardVars, owner, call, queue, hasWaiters, owed, pump, armed,
                 told, topic, swallowed, lifeVars>>

PeerGone(h) ==
  /\ h \in told
  /\ told' = told \ {h}
  /\ UNCHANGED <<shardVars, owner, call, queue, hasWaiters, dirty, owed, pump,
                 outstanding, holds, armed, won, topic, swallowed, lifeVars>>

-----------------------------------------------------------------------------
(***************************************************************************)
(* The topic is deleted: its record goes first, then its waiters are       *)
(* released (more than once), then its dispatch state is forgotten.  The   *)
(* name may be created again, with an empty log and a new shard, before or *)
(* after the release: a node learns of the delete by a purge that can come *)
(* late.  The dispatch state is kept by name.                              *)
(***************************************************************************)
DeleteTopic ==
  /\ ~ gone /\ conf.life # "kept"
  /\ topic' = "deleted"
  /\ UNCHANGED <<shardVars, owner, call, queue, hasWaiters, dirty, owed, pump,
                 peerVars, swallowed, lifeVars>>

CreateTopic ==
  /\ gone /\ conf.life = "created again" /\ ~ again
  /\ topic' = "up" /\ again' = TRUE
  /\ tail' = 0 /\ sh' = newPartitionShard(-1, Caps)
  /\ pump' = [pump EXCEPT !.tail = 0]
  /\ UNCHANGED <<owner, call, queue, hasWaiters, dirty, owed, peerVars, swallowed,
                 due, conf>>

releaseTopic ==
  /\ gone \/ again
  /\ topic' = IF gone THEN "released" ELSE topic
  /\ call' = [c \in Consumers |-> IF c \in ToSet(queue) THEN "closed" ELSE call[c]]
  /\ queue' = <<>> /\ hasWaiters' = FALSE
  /\ holds' = <<>> /\ outstanding' = 0
  /\ pump' = IF pump.waiter # "" THEN [pump EXCEPT !.released = TRUE] ELSE pump
  /\ due' = due \cup { c \in Consumers : call[c] = "parked" }
  /\ UNCHANGED <<shardVars, owner, dirty, owed, armed, told, won, swallowed, again,
                 conf>>

forget ==
  /\ gone \/ again
  /\ queue = <<>> /\ holds = <<>> /\ pump.waiter = ""
  /\ hasWaiters' = FALSE
  /\ UNCHANGED <<shardVars, owner, call, queue, dirty, owed, pump, peerVars, topic,
                 swallowed, lifeVars>>

PumpStep ==
  \/ drainDirty \/ PumpEmpty \/ PumpToken \/ PumpTakesWaiter \/ readForWaiter
  \/ resolveUnreadable \/ PutBack \/ HandOver \/ GaveBack

Next ==
  \/ Tick \/ Commit \/ purgeAll \/ wakeNotifier
  \/ \E n \in conf.nonces : ClientCall(n) \/ releaseUndelivered(n)
  \/ \E c \in conf.consumers : Consume(c) \/ enqueue(c) \/ Receive(c) \/ GiveUp(c)
  \/ PumpStep
  \/ registerRemote \/ TokenExpires \/ dropRemote
  \/ \E h \in conf.holds : retireHold(h) \/ Claim(h) \/ PeerGone(h) \/ claimArrived(h)
  \/ DeleteTopic \/ CreateTopic \/ releaseTopic \/ forget

Spec == Init /\ [][Next]_vars
-----------------------------------------------------------------------------
(***************************************************************************)
(* Every variable has the type its Go counterpart has.                     *)
(***************************************************************************)
TypeOK ==
  /\ tail \in 0 .. LogEnd /\ sh \in partitionShard
  /\ owner \in [Nonces -> {"nobody", "client", "pump", "releasing"} \cup Consumers]
  /\ call \in [Consumers -> {"none", "missed", "parked", "handed", "closed"}]
  /\ queue \in Seq(Consumers \cup {Token, Lapse})
  /\ {hasWaiters, dirty, owed, swallowed} \subseteq BOOLEAN
  /\ pump \in [ pc : {"idle", "peek", "read", "scan", "failed", "put back",
                      "hand over", "give back"},
                waiter : Consumers \cup {""}, abandoned : BOOLEAN,
                released : BOOLEAN, dead : BOOLEAN, tail : 0 .. LogEnd,
                nonce : Nonces \cup {""} ]
  /\ outstanding \in Nat /\ holds \in Seq(HoldIds) /\ won \subseteq HoldIds
  /\ due \subseteq Consumers /\ armed \subseteq HoldIds /\ told \subseteq HoldIds
  /\ topic \in {"up", "deleted", "released"}

(***************************************************************************)
(* Nothing is going to look at the topic: the pump sleeps, the topic is    *)
(* not marked and no wake is on its way.                                   *)
(***************************************************************************)
Quiet == pump.pc = "idle" /\ ~ dirty /\ ~ owed

Deliverable == \E off \in Offsets : ReserveNextPicks(sh, tail, off)

(***************************************************************************)
(* No wake-up is lost: while a consumer is queued and no record is held    *)
(* for a peer, the broker does not go to sleep over a record that could be *)
(* handed out.  This needs the flag, the dirty mark and the re-kick to be  *)
(* right in every interleaving of the pump with consumers that park and    *)
(* give up, with commits and with releases.  The states after a lapse that *)
(* ReserveNext purged without a wake are left out: see                     *)
(* EveryReleaseWakes.                                                      *)
(***************************************************************************)
Stranded ==
  /\ Quiet /\ ~ gone /\ outstanding = 0
  /\ Deliverable /\ ToSet(queue) \cap Consumers # {}

NoLostWake == ~ swallowed => ~ Stranded

(***************************************************************************)
(* The same with no exception: every lease expiry wakes the parked         *)
(* consumers, also one that ReserveNext purges on the way.                 *)
(***************************************************************************)
EveryReleaseWakes == ~ Stranded

(***************************************************************************)
(* No record is reserved for nobody: every lease has somebody who will     *)
(* settle it, a client, a consumer about to receive it, or the broker that *)
(* is about to give it back.  A consumer that gives up while the pump      *)
(* reserves for it leaves no lease behind to wait out.                     *)
(***************************************************************************)
NoOrphanLease ==
  \A e \in sh.entries :
    \/ owner[e.nonce] \in {"client", "releasing"}
    \/ owner[e.nonce] = "pump" /\ pump.nonce = e.nonce
    \/ \E c \in Consumers : owner[e.nonce] = c /\ call[c] = "handed"

(***************************************************************************)
(* The gate counts the promises made to peers, each once: however claims,  *)
(* refusals, deadlines and topic releases race, outstanding is the number  *)
(* of live holds.  Too low and one record is promised twice, too high and  *)
(* the topic's records are withheld for good.                              *)
(***************************************************************************)
OutstandingIsHolds == outstanding = Len(holds)

(***************************************************************************)
(* Deleting a topic ends every long poll that was parked on it, also one   *)
(* the pump held at that moment, which is in no queue: the pump must see   *)
(* by the generation that its queue was drained, and neither its own read, *)
(* made before the delete, nor a look at the topic, which may have been    *)
(* created again, tells it.  Consumers that park after the release are not *)
(* meant: see NoPollOutlivesTopic.                                         *)
(***************************************************************************)
ReleaseWakesAll == Quiet => \A c \in due : call[c] # "parked"

(***************************************************************************)
(* The same with no exception: a long poll on a deleted topic returns at   *)
(* once, also one that parks after the release.                            *)
(***************************************************************************)
NoPollOutlivesTopic ==
  topic = "released" /\ Quiet => \A c \in Consumers : call[c] # "parked"
=============================================================================
