------------------------------- MODULE Shard -------------------------------
(***************************************************************************)
(* The reservation table of one partition (internal/consumer), as pure     *)
(* operators: a shard is a record, and every method the Go code runs under *)
(* the shard's mutex is an operator from a shard to a shard.  InFlight and *)
(* Dispatch give the operators their callers and their interleavings.      *)
(*                                                                         *)
(* A reservation and a slot of the expiry heap are the same kind of record *)
(* (offset, time left, nonce).  The heap's test "nonce and expiry equal    *)
(* those of the live reservation" is then membership of the slot in        *)
(* entries.  Time is relative: expiresIn is expiresAtUnixMs minus the      *)
(* clock, stopped at 0, because the code only ever compares an expiry with *)
(* the clock or with the expiry of the same reservation.                   *)
(***************************************************************************)
EXTENDS Integers, FiniteSets

CONSTANTS
  LogEnd,            \* bound: offsets are 0 .. LogEnd-1
  Nonces,            \* receipt-handle nonces
  HeapCompactSlack   \* heapCompactSlack, 16 in the code

ASSUME LogEndAssumption == LogEnd \in Nat
ASSUME SlackAssumption == HeapCompactSlack \in Nat

Offsets == 0 .. LogEnd - 1

Slot == [offset : Offsets, expiresIn : Nat, nonce : Nonces]

partitionShard ==
  [ committed : -1 .. LogEnd - 1, entries : SUBSET Slot, expiry : SUBSET Slot,
    ackedAhead : SUBSET Offsets, corrupt : SUBSET Offsets, nextFree : 0 .. LogEnd,
    maxInFlight : Nat \ {0}, maxAckedAhead : Nat \ {0} ]

(***************************************************************************)
(* The least element of a set of integers that has one.                    *)
(***************************************************************************)
Least(S) == CHOOSE x \in S : \A y \in S : x <= y

Larger(a, b) == IF a < b THEN b ELSE a

newPartitionShard(committed, caps) ==
  [ committed     |-> committed,
    entries       |-> {},
    expiry        |-> {},
    ackedAhead    |-> {},
    corrupt       |-> {},
    nextFree      |-> committed + 1,
    maxInFlight   |-> caps.maxInFlight,
    maxAckedAhead |-> caps.maxAckedAhead ]

Reserved(s) == { e.offset : e \in s.entries }

Resolved(s) == s.ackedAhead \cup s.corrupt

SettledOffsets(s) == 0 .. s.committed \cup Resolved(s)

resolvedOrReservedLocked(s, off) == off \in Reserved(s) \cup Resolved(s)

aheadFullLocked(s) ==
  Cardinality(s.ackedAhead) + Cardinality(s.corrupt) >= s.maxAckedAhead

atCap(s) == Cardinality(s.entries) >= s.maxInFlight

(***************************************************************************)
(* Variant: the hint is not lowered when an offset is freed.               *)
(***************************************************************************)
freedLockedKeepsHint(s, offs) == s

freedLocked(s, offs) ==
  [s EXCEPT !.nextFree = Least({@} \cup offs)]

compactExpiryLocked(s) ==
  IF Cardinality(s.expiry) > 2 * Cardinality(s.entries) + HeapCompactSlack
  THEN [s EXCEPT !.expiry = s.entries]
  ELSE s

(***************************************************************************)
(* The reservations a purge releases: popped from the heap because their   *)
(* time is up, and still the live reservation of their offset.             *)
(***************************************************************************)
Lapsed(s) == { e \in s.expiry : e.expiresIn = 0 /\ e \in s.entries }

purgeExpiredLocked(s) ==
  compactExpiryLocked(
    freedLocked([s EXCEPT !.entries = @ \ Lapsed(s),
                          !.expiry  = { e \in @ : e.expiresIn > 0 }],
                { e.offset : e \in Lapsed(s) }))

advanceCommittedLocked(s) ==
  LET hole == Least({ o \in s.committed + 1 .. LogEnd : o \notin Resolved(s) })
  IN  [s EXCEPT !.committed  = hole - 1,
                !.ackedAhead = @ \ (s.committed + 1 .. hole - 1),
                !.corrupt    = @ \ (s.committed + 1 .. hole - 1),
                !.nextFree   = Larger(@, hole)]

seedAheadLocked(s, offsets) ==
  advanceCommittedLocked(
    [s EXCEPT !.ackedAhead = @ \cup { o \in offsets : o > s.committed }])

(***************************************************************************)
(* Variants: the ahead cap is not enforced on delivery; the frontier's     *)
(* offset is handed out without a look at who has it.                      *)
(***************************************************************************)
PicksPastAheadCap(s, logTail, off) ==
  LET next == s.committed + 1
  IN  /\ ~ atCap(s)
      /\ next < logTail
      /\ ~ resolvedOrReservedLocked(s, off)
      /\ off \in Larger(next, s.nextFree) .. logTail - 1

PicksFrontierTwice(s, logTail, off) ==
  LET next == s.committed + 1
  IN  /\ ~ atCap(s)
      /\ next < logTail
      /\ aheadFullLocked(s)  => off = next
      /\ ~ aheadFullLocked(s) =>
           /\ off \in Larger(next, s.nextFree) .. logTail - 1
           /\ ~ resolvedOrReservedLocked(s, off)

(***************************************************************************)
(* ReserveNext, after its purge: it hands out off.                         *)
(***************************************************************************)
ReserveNextPicks(s, logTail, off) ==
  LET next == s.committed + 1
  IN  /\ ~ atCap(s)
      /\ next < logTail
      /\ ~ resolvedOrReservedLocked(s, off)
      /\ IF aheadFullLocked(s)
         THEN off = next
         ELSE /\ off \in Larger(next, s.nextFree) .. logTail - 1
              /\ \A o \in Larger(next, s.nextFree) .. off - 1 :
                   resolvedOrReservedLocked(s, o)

(***************************************************************************)
(* Variant: the hint moves one offset too far.                             *)
(***************************************************************************)
reserveLockedTooFar(s, off, visibilityTimeout, nonce) ==
  LET slot == [offset |-> off, expiresIn |-> visibilityTimeout, nonce |-> nonce]
  IN  [s EXCEPT !.entries  = @ \cup {slot},
                !.expiry   = @ \cup {slot},
                !.nextFree = IF off >= @ THEN off + 2 ELSE @]

reserveLocked(s, off, visibilityTimeout, nonce) ==
  LET slot == [offset |-> off, expiresIn |-> visibilityTimeout, nonce |-> nonce]
  IN  [s EXCEPT !.entries  = @ \cup {slot},
                !.expiry   = @ \cup {slot},
                !.nextFree = IF off >= @ THEN off + 1 ELSE @]

(***************************************************************************)
(* The check every settling call makes after its purge: the handle names   *)
(* the live reservation.                                                   *)
(***************************************************************************)
Holds(s, h) == \E e \in s.entries : e.offset = h.offset /\ e.nonce = h.nonce

Unreserve(s, offset) ==
  [s EXCEPT !.entries = { e \in @ : e.offset # offset }]

(***************************************************************************)
(* Variants: every ack is taken for one at the frontier; the frontier      *)
(* moves onto the first offset that is not resolved.                       *)
(***************************************************************************)
resolveReservedAnywhere(s, offset, set) ==
  advanceCommittedLocked([Unreserve(s, offset) EXCEPT !.committed = offset])

resolveReservedTooFar(s, offset, set) ==
  IF offset = s.committed + 1
  THEN LET t == advanceCommittedLocked([Unreserve(s, offset) EXCEPT !.committed = offset])
       IN  [t EXCEPT !.committed = @ + 1]
  ELSE [Unreserve(s, offset) EXCEPT ![set] = @ \cup {offset}]

(***************************************************************************)
(* resolveReserved, past the checks: set is "ackedAhead" (CommitHandle) or *)
(* "corrupt" (SkipCorrupt).                                                *)
(***************************************************************************)
resolveReserved(s, offset, set) ==
  IF offset = s.committed + 1
  THEN advanceCommittedLocked([Unreserve(s, offset) EXCEPT !.committed = offset])
  ELSE [Unreserve(s, offset) EXCEPT ![set] = @ \cup {offset}]

(***************************************************************************)
(* Whether a resolve of offset, of a shard whose purge is done, can        *)
(* relieve a parked poller.                                                *)
(***************************************************************************)
resolveRelieves(s, offset) ==
  atCap(s) \/ (offset = s.committed + 1 /\ aheadFullLocked(s))

(***************************************************************************)
(* Variant: the acked-ahead set is reset, not filtered.                    *)
(***************************************************************************)
SkipMissingForgetsAcks(s, bound) ==
  advanceCommittedLocked(
    [s EXCEPT !.entries    = { e \in @ : e.offset >= bound },
              !.ackedAhead = {},
              !.corrupt    = { o \in @ : o >= bound },
              !.committed  = Larger(@, bound - 1)])

SkipMissingBelow(s, bound) ==
  advanceCommittedLocked(
    [s EXCEPT !.entries    = { e \in @ : e.offset >= bound },
              !.ackedAhead = { o \in @ : o >= bound },
              !.corrupt    = { o \in @ : o >= bound },
              !.committed  = Larger(@, bound - 1)])

(***************************************************************************)
(* Variant: no slot is pushed for the new deadline.                        *)
(***************************************************************************)
ExtendWithoutSlot(s, h, visibilityTimeout) ==
  LET slot == [offset |-> h.offset, expiresIn |-> visibilityTimeout,
               nonce |-> h.nonce]
  IN  [s EXCEPT !.entries = { e \in @ : e.offset # h.offset } \cup {slot}]

ExtendHandle(s, h, visibilityTimeout) ==
  LET slot == [offset |-> h.offset, expiresIn |-> visibilityTimeout,
               nonce |-> h.nonce]
  IN  [s EXCEPT !.entries = { e \in @ : e.offset # h.offset } \cup {slot},
                !.expiry  = @ \cup {slot}]

ReleaseHandle(s, offset) == freedLocked(Unreserve(s, offset), {offset})

RefreshCaps(s, caps) ==
  [s EXCEPT !.maxInFlight   = caps.maxInFlight,
            !.maxAckedAhead = caps.maxAckedAhead]

(***************************************************************************)
(* One tick of the clock, seen from the shard.                             *)
(***************************************************************************)
Elapse(slots) ==
  { [e EXCEPT !.expiresIn = IF @ > 0 THEN @ - 1 ELSE 0] : e \in slots }

now(s) == [s EXCEPT !.entries = Elapse(@), !.expiry = Elapse(@)]
=============================================================================
