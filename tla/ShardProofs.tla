---------------------------- MODULE ShardProofs -----------------------------
(***************************************************************************)
(* What every operation on a shard preserves, for every log end and every  *)
(* set of nonces: one lemma per operation of module Shard, each stating    *)
(* that the shard invariant holds afterwards and how the settled offsets   *)
(* changed.                                                                *)
(***************************************************************************)
EXTENDS Shard, TLAPS, WellFoundedInduction

(***************************************************************************)
(* Leases: above the frontier, on offsets that are not resolved, one per   *)
(* offset, each with its slot in the expiry heap.                          *)
(***************************************************************************)
LeasesOK(s) ==
  /\ \A e \in s.entries : e.offset > s.committed /\ e.offset \notin Resolved(s)
  /\ \A e, f \in s.entries : e.offset = f.offset => e = f
  /\ s.entries \subseteq s.expiry

(***************************************************************************)
(* The frontier stands right below an unresolved offset.                   *)
(***************************************************************************)
FrontierOK(s) == \A o \in Resolved(s) : o > s.committed + 1

(***************************************************************************)
(* The scan hint skips only offsets that are leased or resolved.           *)
(***************************************************************************)
HintSkips(s) ==
  \A o \in s.committed + 1 .. s.nextFree - 1 : o \in Reserved(s) \cup Resolved(s)

HintOK(s) == s.nextFree > s.committed /\ HintSkips(s)

ShardInv(s) == s \in partitionShard /\ LeasesOK(s) /\ FrontierOK(s) /\ HintOK(s)

(***************************************************************************)
(* What a crash keeps of a shard: everything acked.                        *)
(***************************************************************************)
AckedOffsets(s) == 0 .. s.committed \cup s.ackedAhead

-----------------------------------------------------------------------------
(***************************************************************************)
(* A set of naturals that is not empty has a least element.                *)
(***************************************************************************)
LEMMA LeastExists ==
  ASSUME NEW T \in SUBSET Nat, T # {}
  PROVE  \E x \in T : \A y \in T : x <= y
<1> DEFINE R == OpToRel(<, Nat)
<1>1. IsWellFoundedOn(R, Nat)
  BY NatLessThanWellFounded, Zenon
<1>2. PICK x \in T : \A y \in T : ~ (<<y, x>> \in R)
  <2> HIDE DEF R
  <2> QED BY <1>1, WFMin
<1>3. \A y \in T : ~ (y < x)
  <2> TAKE y \in T
  <2>1. x \in Nat /\ y \in Nat
    OBVIOUS
  <2> QED BY <1>2, <2>1 DEF OpToRel
<1> QED BY <1>3

(***************************************************************************)
(* Least picks that element.                                               *)
(***************************************************************************)
LEMMA LeastIsLeast ==
  ASSUME NEW T \in SUBSET Nat, T # {}
  PROVE  Least(T) \in T /\ \A y \in T : Least(T) <= y
BY LeastExists DEF Least

(***************************************************************************)
(* The fields of a shard.                                                  *)
(***************************************************************************)
LEMMA ShardFields ==
  ASSUME NEW s \in partitionShard
  PROVE  /\ s.committed \in Int /\ -1 <= s.committed /\ s.committed <= LogEnd - 1
         /\ s.entries \subseteq Slot /\ s.expiry \subseteq Slot
         /\ s.ackedAhead \subseteq Offsets /\ s.corrupt \subseteq Offsets
         /\ s.nextFree \in Nat /\ s.nextFree <= LogEnd
         /\ Reserved(s) \subseteq Offsets
         /\ \A e \in s.entries : e.offset \in Offsets
BY LogEndAssumption DEF partitionShard, Slot, Reserved, Offsets

(***************************************************************************)
(* advanceCommittedLocked, started on a frontier whose successor may be    *)
(* resolved: it moves the frontier over the whole run of resolved offsets  *)
(* and changes no other state; what was settled stays settled.             *)
(***************************************************************************)
LEMMA AdvanceLemma ==
  ASSUME NEW s \in partitionShard, LeasesOK(s), HintSkips(s),
         \A o \in Resolved(s) : o > s.committed
  PROVE  LET t == advanceCommittedLocked(s)
         IN  /\ ShardInv(t)
             /\ t.committed >= s.committed
             /\ \A o \in s.committed + 1 .. t.committed : o \in Resolved(s)
             /\ t.entries = s.entries
             /\ Resolved(t) = { o \in Resolved(s) : o > t.committed }
             /\ t.ackedAhead = { o \in s.ackedAhead : o > t.committed }
             /\ t.maxInFlight = s.maxInFlight /\ t.maxAckedAhead = s.maxAckedAhead
<1> DEFINE H == { o \in s.committed + 1 .. LogEnd : o \notin Resolved(s) }
           hole == Least(H)
           t == advanceCommittedLocked(s)
<1>0. /\ s.committed \in Int /\ -1 <= s.committed /\ s.committed <= LogEnd - 1
      /\ s.ackedAhead \subseteq Offsets /\ s.corrupt \subseteq Offsets
      /\ s.nextFree \in Nat /\ s.nextFree <= LogEnd
      /\ LogEnd \in Nat
  BY ShardFields, LogEndAssumption
<1>1. H \in SUBSET Nat /\ LogEnd \in H
  BY <1>0 DEF Resolved, Offsets
<1>2. hole \in H /\ \A y \in H : hole <= y
  <2> HIDE DEF H
  <2> QED BY <1>1, LeastIsLeast
<1>3. /\ hole \in Nat /\ s.committed + 1 <= hole /\ hole <= LogEnd
      /\ hole \notin Resolved(s)
  BY <1>0, <1>1, <1>2
<1>4. \A o \in s.committed + 1 .. hole - 1 : o \in Resolved(s)
  BY <1>0, <1>2, <1>3
<1>5. t = [s EXCEPT !.committed  = hole - 1,
                    !.ackedAhead = @ \ (s.committed + 1 .. hole - 1),
                    !.corrupt    = @ \ (s.committed + 1 .. hole - 1),
                    !.nextFree   = Larger(@, hole)]
  BY DEF advanceCommittedLocked
<1> HIDE DEF H, hole, t
<1>6. /\ t.committed = hole - 1
      /\ t.ackedAhead = s.ackedAhead \ (s.committed + 1 .. hole - 1)
      /\ t.corrupt = s.corrupt \ (s.committed + 1 .. hole - 1)
      /\ t.nextFree = Larger(s.nextFree, hole)
      /\ t.entries = s.entries /\ t.expiry = s.expiry
      /\ t.maxInFlight = s.maxInFlight /\ t.maxAckedAhead = s.maxAckedAhead
  BY <1>5 DEF partitionShard
<1>7. t \in partitionShard
  <2>1. Larger(s.nextFree, hole) \in 0 .. LogEnd
    BY <1>0, <1>3 DEF Larger
  <2>2. hole - 1 \in -1 .. LogEnd - 1
    BY <1>0, <1>3
  <2>3. /\ s.ackedAhead \ (s.committed + 1 .. hole - 1) \in SUBSET Offsets
        /\ s.corrupt \ (s.committed + 1 .. hole - 1) \in SUBSET Offsets
    BY <1>0
  <2> QED BY <1>5, <2>1, <2>2, <2>3 DEF partitionShard
<1>8. /\ t.ackedAhead = { o \in s.ackedAhead : o > t.committed }
      /\ Resolved(t) = { o \in Resolved(s) : o > t.committed }
  BY <1>0, <1>3, <1>6 DEF Resolved, Offsets
<1>9. LeasesOK(t)
  <2>1. ASSUME NEW e \in s.entries
        PROVE  e.offset > hole - 1
    <3>1. e.offset \in Nat /\ e.offset > s.committed /\ e.offset \notin Resolved(s)
      BY ShardFields, LogEndAssumption DEF LeasesOK, Offsets
    <3> QED BY <1>0, <1>3, <1>4, <3>1
  <2> QED BY <1>6, <1>8, <2>1 DEF LeasesOK
<1>10. FrontierOK(t)
  BY <1>0, <1>3, <1>6, <1>8 DEF FrontierOK, Resolved, Offsets
<1>11. HintOK(t)
  <2>1. t.nextFree > t.committed
    BY <1>0, <1>3, <1>6 DEF Larger
  <2>2. ASSUME NEW o \in t.committed + 1 .. t.nextFree - 1
        PROVE  o \in Reserved(t) \cup Resolved(t)
    <3>1. o \in s.committed + 1 .. s.nextFree - 1 /\ o > t.committed
      BY <1>0, <1>3, <1>6 DEF Larger
    <3>2. o \in Reserved(s) \cup Resolved(s)
      BY <3>1 DEF HintSkips
    <3> QED BY <1>6, <1>8, <3>1, <3>2 DEF Reserved
  <2> QED BY <2>1, <2>2 DEF HintOK, HintSkips
<1> QED
  BY <1>0, <1>3, <1>4, <1>6, <1>7, <1>8, <1>9, <1>10, <1>11 DEF ShardInv, t

(***************************************************************************)
(* Two shards agree on what is settled and on the caps.                    *)
(***************************************************************************)
SameSettled(t, s) ==
  /\ t.committed = s.committed /\ t.ackedAhead = s.ackedAhead
  /\ t.corrupt = s.corrupt
  /\ t.maxInFlight = s.maxInFlight /\ t.maxAckedAhead = s.maxAckedAhead

(***************************************************************************)
(* freedLocked repairs the hint after the offsets offs were freed.         *)
(***************************************************************************)
LEMMA FreedLemma ==
  ASSUME NEW s \in partitionShard, LeasesOK(s), FrontierOK(s),
         NEW offs \in SUBSET Offsets, \A o \in offs : o > s.committed,
         s.nextFree > s.committed,
         \A o \in s.committed + 1 .. s.nextFree - 1 :
           o \in Reserved(s) \cup Resolved(s) \cup offs
  PROVE  LET t == freedLocked(s, offs)
         IN  ShardInv(t) /\ SameSettled(t, s) /\ t.entries = s.entries
<1> DEFINE m == Least({s.nextFree} \cup offs)
           t == freedLocked(s, offs)
<1>0. /\ s.committed \in Int /\ -1 <= s.committed
      /\ s.nextFree \in Nat /\ s.nextFree <= LogEnd
      /\ LogEnd \in Nat
  BY ShardFields, LogEndAssumption
<1>1. {s.nextFree} \cup offs \in SUBSET Nat
  <2>1. offs \subseteq Nat
    BY <1>0 DEF Offsets
  <2> QED BY <1>0, <2>1
<1>2. m \in {s.nextFree} \cup offs /\ \A y \in {s.nextFree} \cup offs : m <= y
  <2>1. {s.nextFree} \cup offs # {}
    OBVIOUS
  <2> QED BY <1>1, <2>1, LeastIsLeast
<1>3. t = [s EXCEPT !.nextFree = m]
  BY DEF freedLocked
<1> HIDE DEF m, t
<1>4. m \in Nat /\ m <= s.nextFree /\ m > s.committed
  BY <1>0, <1>1, <1>2
<1>5. /\ t \in partitionShard /\ SameSettled(t, s)
      /\ t.entries = s.entries /\ t.expiry = s.expiry /\ t.nextFree = m
  BY <1>0, <1>3, <1>4 DEF partitionShard, SameSettled
<1>6. Resolved(t) = Resolved(s) /\ Reserved(t) = Reserved(s)
  BY <1>5 DEF Resolved, Reserved, SameSettled
<1>7. LeasesOK(t) /\ FrontierOK(t)
  BY <1>5, <1>6 DEF LeasesOK, FrontierOK, SameSettled
<1>8. HintOK(t)
  <2>1. ASSUME NEW o \in s.committed + 1 .. m - 1
        PROVE  o \in Reserved(s) \cup Resolved(s)
    <3>1. o \in s.committed + 1 .. s.nextFree - 1 /\ o \notin offs
      BY <1>0, <1>2, <1>4
    <3> QED BY <3>1
  <2> QED BY <1>4, <1>5, <1>6, <2>1 DEF HintOK, HintSkips, SameSettled
<1> QED BY <1>5, <1>7, <1>8 DEF ShardInv, t

(***************************************************************************)
(* Rebuilding the heap keeps a slot for every lease.                       *)
(***************************************************************************)
LEMMA CompactLemma ==
  ASSUME NEW s, ShardInv(s)
  PROVE  LET t == compactExpiryLocked(s)
         IN  ShardInv(t) /\ SameSettled(t, s) /\ t.entries = s.entries
<1> DEFINE t == compactExpiryLocked(s)
<1>1. t = s \/ t = [s EXCEPT !.expiry = s.entries]
  BY DEF compactExpiryLocked
<1> HIDE DEF t
<1>2. CASE t = s
  BY <1>2 DEF SameSettled, t
<1>3. CASE t = [s EXCEPT !.expiry = s.entries]
  <2>1. /\ t \in partitionShard /\ SameSettled(t, s) /\ t.nextFree = s.nextFree
        /\ t.entries = s.entries /\ t.expiry = s.entries
    BY <1>3 DEF ShardInv, partitionShard, SameSettled
  <2>2. Resolved(t) = Resolved(s) /\ Reserved(t) = Reserved(s)
    BY <2>1 DEF Resolved, Reserved, SameSettled
  <2>3. LeasesOK(t) /\ FrontierOK(t) /\ HintOK(t)
    BY <2>1, <2>2 DEF ShardInv, LeasesOK, FrontierOK, HintOK, HintSkips, SameSettled
  <2> QED BY <2>1, <2>3 DEF ShardInv, t
<1> QED BY <1>1, <1>2, <1>3

(***************************************************************************)
(* A purge ends leases and settles nothing.                                *)
(***************************************************************************)
LEMMA PurgeLemma ==
  ASSUME NEW s, ShardInv(s)
  PROVE  LET t == purgeExpiredLocked(s)
         IN  /\ ShardInv(t) /\ SameSettled(t, s)
             /\ t.entries = s.entries \ Lapsed(s)
<1> DEFINE u == [s EXCEPT !.entries = @ \ Lapsed(s),
                          !.expiry  = { e \in @ : e.expiresIn > 0 }]
           offs == { e.offset : e \in Lapsed(s) }
           v == freedLocked(u, offs)
<1>0. s \in partitionShard /\ LeasesOK(s) /\ FrontierOK(s) /\ HintOK(s)
  BY DEF ShardInv
<1>1. /\ u.entries = s.entries \ Lapsed(s)
      /\ u.expiry = { e \in s.expiry : e.expiresIn > 0 }
      /\ u.nextFree = s.nextFree
      /\ u \in partitionShard /\ SameSettled(u, s)
  BY <1>0 DEF partitionShard, SameSettled
<1>2. offs \in SUBSET Offsets /\ \A o \in offs : o > s.committed
  BY <1>0, ShardFields DEF Lapsed, LeasesOK
<1> HIDE DEF u
<1>3. Resolved(u) = Resolved(s)
  BY <1>1 DEF Resolved, SameSettled
<1>4. LeasesOK(u)
  <2>1. \A e \in s.entries : e.expiresIn \in Nat
    BY <1>0, ShardFields DEF Slot
  <2>2. u.entries \subseteq u.expiry
    BY <1>0, <1>1, <2>1 DEF LeasesOK, Lapsed
  <2> QED BY <1>0, <1>1, <1>3, <2>2 DEF LeasesOK, SameSettled
<1>5. FrontierOK(u)
  BY <1>0, <1>1, <1>3 DEF FrontierOK, SameSettled
<1>6. u.nextFree > u.committed
  BY <1>0, <1>1 DEF HintOK, SameSettled
<1>7. \A o \in u.committed + 1 .. u.nextFree - 1 :
        o \in Reserved(u) \cup Resolved(u) \cup offs
  <2>1. \A o \in s.committed + 1 .. s.nextFree - 1 : o \in Reserved(s) \cup Resolved(s)
    BY <1>0 DEF HintOK, HintSkips
  <2>2. Reserved(s) \subseteq Reserved(u) \cup offs
    BY <1>1 DEF Reserved
  <2> QED BY <1>1, <1>3, <2>1, <2>2 DEF SameSettled
<1>8. \A o \in offs : o > u.committed
  BY <1>1, <1>2 DEF SameSettled
<1> HIDE DEF offs
<1>9. ShardInv(v) /\ SameSettled(v, u) /\ v.entries = u.entries
  BY <1>1, <1>2, <1>4, <1>5, <1>6, <1>7, <1>8, FreedLemma
<1> HIDE DEF v
<1>10. LET t == compactExpiryLocked(v)
       IN  ShardInv(t) /\ SameSettled(t, v) /\ t.entries = v.entries
  BY <1>9, CompactLemma
<1>11. purgeExpiredLocked(s) = compactExpiryLocked(v)
  BY DEF purgeExpiredLocked, u, v, offs
<1> QED BY <1>1, <1>9, <1>10, <1>11 DEF SameSettled

(***************************************************************************)
(* Handing out an offset adds one lease, on an offset that had none and    *)
(* that is not settled.                                                    *)
(***************************************************************************)
LEMMA ReserveLemma ==
  ASSUME NEW s, ShardInv(s), NEW logTail \in 0 .. LogEnd, NEW off,
         ReserveNextPicks(s, logTail, off), off \in Offsets,
         NEW v \in Nat, NEW n \in Nonces
  PROVE  LET t == reserveLocked(s, off, v, n)
         IN  ShardInv(t) /\ SameSettled(t, s)
<1> DEFINE slot == [offset |-> off, expiresIn |-> v, nonce |-> n]
           t == reserveLocked(s, off, v, n)
           nf == IF off >= s.nextFree THEN off + 1 ELSE s.nextFree
<1>0. s \in partitionShard /\ LeasesOK(s) /\ FrontierOK(s) /\ HintOK(s)
  BY DEF ShardInv
<1>1. /\ s.committed \in Int /\ -1 <= s.committed
      /\ s.nextFree \in Nat /\ s.nextFree <= LogEnd /\ s.nextFree > s.committed
      /\ LogEnd \in Nat /\ off \in Nat /\ off < LogEnd
  BY <1>0, ShardFields, LogEndAssumption DEF HintOK, Offsets
<1>2. slot \in Slot /\ slot.offset = off
  BY DEF Slot
<1>3. off \notin Reserved(s) /\ off \notin Resolved(s)
  BY DEF ReserveNextPicks, resolvedOrReservedLocked
<1>4. /\ off > s.committed
      /\ \A o \in s.nextFree .. off - 1 : o \in Reserved(s) \cup Resolved(s)
  <2>1. CASE aheadFullLocked(s)
    BY <1>1, <2>1 DEF ReserveNextPicks
  <2>2. CASE ~ aheadFullLocked(s)
    <3>1. Larger(s.committed + 1, s.nextFree) = s.nextFree
      BY <1>1 DEF Larger
    <3> QED BY <1>1, <2>2, <3>1 DEF ReserveNextPicks, resolvedOrReservedLocked
  <2> QED BY <2>1, <2>2
<1>5. t = [s EXCEPT !.entries  = @ \cup {slot}, !.expiry = @ \cup {slot},
                    !.nextFree = nf]
  BY DEF reserveLocked
<1>6. nf \in 0 .. LogEnd /\ nf > s.committed
  BY <1>1
<1> HIDE DEF t, slot, nf
<1>7. /\ t \in partitionShard /\ SameSettled(t, s) /\ t.nextFree = nf
      /\ t.entries = s.entries \cup {slot} /\ t.expiry = s.expiry \cup {slot}
  BY <1>0, <1>2, <1>5, <1>6 DEF partitionShard, SameSettled
<1>8. Resolved(t) = Resolved(s) /\ Reserved(t) = Reserved(s) \cup {off}
  BY <1>2, <1>7 DEF Resolved, Reserved, SameSettled
<1>9. LeasesOK(t)
  <2>1. \A e \in s.entries : e.offset # off
    BY <1>3 DEF Reserved
  <2> QED BY <1>0, <1>2, <1>3, <1>4, <1>7, <1>8, <2>1 DEF LeasesOK, SameSettled
<1>10. FrontierOK(t)
  BY <1>0, <1>7, <1>8 DEF FrontierOK, SameSettled
<1>11. HintOK(t)
  <2>1. ASSUME NEW o \in s.committed + 1 .. nf - 1
        PROVE  o \in Reserved(s) \cup {off} \cup Resolved(s)
    <3>1. \/ o \in s.committed + 1 .. s.nextFree - 1
          \/ o \in s.nextFree .. off - 1
          \/ o = off
      BY <1>1 DEF nf
    <3> QED BY <1>0, <1>4, <3>1 DEF HintOK, HintSkips
  <2> QED BY <1>6, <1>7, <1>8, <2>1 DEF HintOK, HintSkips, SameSettled
<1> QED BY <1>7, <1>9, <1>10, <1>11 DEF ShardInv, t

(***************************************************************************)
(* An ack or a corrupt skip settles exactly its own offset.                *)
(***************************************************************************)
LEMMA ResolveLemma ==
  ASSUME NEW s, ShardInv(s), NEW offset \in Reserved(s),
         NEW set \in {"ackedAhead", "corrupt"}
  PROVE  LET t == resolveReserved(s, offset, set)
         IN  /\ ShardInv(t)
             /\ SettledOffsets(t) = SettledOffsets(s) \cup {offset}
             /\ AckedOffsets(s) \subseteq AckedOffsets(t)
             /\ set = "corrupt" /\ offset # s.committed + 1 =>
                  t.committed = s.committed /\ t.ackedAhead = s.ackedAhead
<1> DEFINE t == resolveReserved(s, offset, set)
           r == Unreserve(s, offset)
<1>0. s \in partitionShard /\ LeasesOK(s) /\ FrontierOK(s) /\ HintOK(s)
  BY DEF ShardInv
<1>1. /\ s.committed \in Int /\ -1 <= s.committed /\ s.committed <= LogEnd - 1
      /\ s.nextFree \in Nat /\ LogEnd \in Nat
      /\ s.ackedAhead \subseteq Offsets /\ s.corrupt \subseteq Offsets
      /\ Reserved(s) \subseteq Offsets
      /\ Resolved(s) \subseteq Nat
      /\ offset \in Nat /\ offset < LogEnd /\ offset \in Offsets
  BY <1>0, ShardFields, LogEndAssumption DEF Offsets, Resolved
<1>2. offset > s.committed /\ offset \notin Resolved(s)
  BY <1>0 DEF LeasesOK, Reserved
<1>3. /\ r = [s EXCEPT !.entries = { e \in s.entries : e.offset # offset }]
      /\ r \in partitionShard
  BY <1>0 DEF Unreserve, partitionShard
<1> HIDE DEF r
<1>4. CASE offset = s.committed + 1
  <2> DEFINE u == [r EXCEPT !.committed = offset]
  <2>1. /\ u \in partitionShard /\ u.committed = offset
        /\ u.entries = { e \in s.entries : e.offset # offset }
        /\ u.expiry = s.expiry /\ u.nextFree = s.nextFree
        /\ u.ackedAhead = s.ackedAhead /\ u.corrupt = s.corrupt
    <3>1. offset \in -1 .. LogEnd - 1
      BY <1>1
    <3>2. u \in partitionShard /\ u.committed = offset
      BY <1>3, <3>1 DEF partitionShard
    <3> QED BY <1>0, <1>3, <3>2 DEF partitionShard
  <2> HIDE DEF u
  <2>2. Resolved(u) = Resolved(s) /\ Reserved(u) = Reserved(s) \ {offset}
    BY <2>1 DEF Resolved, Reserved
  <2>3. \A o \in Resolved(u) : o > u.committed
    BY <1>0, <1>4, <2>1, <2>2 DEF FrontierOK
  <2>4. LeasesOK(u)
    <3>1. ASSUME NEW e \in u.entries PROVE e.offset > offset
      <4>1. e.offset \in Nat /\ e.offset > s.committed /\ e.offset # offset
        BY <1>0, <1>1, <2>1, ShardFields DEF LeasesOK, Offsets
      <4> QED BY <1>1, <1>4, <4>1
    <3> QED BY <1>0, <2>1, <2>2, <3>1 DEF LeasesOK
  <2>5. HintSkips(u)
    <3>1. ASSUME NEW o \in offset + 1 .. s.nextFree - 1
          PROVE  o \in Reserved(u) \cup Resolved(u)
      <4>1. o \in s.committed + 1 .. s.nextFree - 1 /\ o # offset
        BY <1>1, <1>4
      <4> QED BY <1>0, <2>2, <4>1 DEF HintOK, HintSkips
    <3> QED BY <2>1, <3>1 DEF HintSkips
  <2> DEFINE a == advanceCommittedLocked(u)
  <2>6. /\ ShardInv(a)
        /\ a.committed >= u.committed
        /\ \A o \in u.committed + 1 .. a.committed : o \in Resolved(u)
        /\ Resolved(a) = { o \in Resolved(u) : o > a.committed }
        /\ a.ackedAhead = { o \in u.ackedAhead : o > a.committed }
    BY <2>1, <2>3, <2>4, <2>5, AdvanceLemma
  <2>7. t = a
    BY <1>4 DEF resolveReserved, r, u
  <2> HIDE DEF a, t
  <2>8. a.committed \in Int
    BY <2>6, ShardFields DEF ShardInv
  <2>9. SettledOffsets(a) = SettledOffsets(s) \cup {offset}
    BY <1>1, <1>4, <2>1, <2>2, <2>6, <2>8 DEF SettledOffsets
  <2>10. AckedOffsets(s) \subseteq AckedOffsets(a)
    BY <1>1, <1>4, <2>1, <2>6, <2>8 DEF AckedOffsets, Offsets
  <2> QED BY <1>4, <2>6, <2>7, <2>9, <2>10 DEF t
<1>5. CASE offset # s.committed + 1
  <2>1. t = [r EXCEPT ![set] = @ \cup {offset}]
    BY <1>5 DEF resolveReserved, r
  <2> HIDE DEF t
  <2>2. /\ t \in partitionShard /\ t.committed = s.committed
        /\ t.entries = { e \in s.entries : e.offset # offset }
        /\ t.expiry = s.expiry /\ t.nextFree = s.nextFree
        /\ Resolved(t) = Resolved(s) \cup {offset}
        /\ s.ackedAhead \subseteq t.ackedAhead
        /\ set = "corrupt" => t.ackedAhead = s.ackedAhead
    <3>1. CASE set = "ackedAhead"
      <4>1. t = [r EXCEPT !.ackedAhead = @ \cup {offset}]
        BY <2>1, <3>1
      <4> QED BY <1>0, <1>1, <1>3, <3>1, <4>1 DEF partitionShard, Resolved
    <3>2. CASE set = "corrupt"
      <4>1. t = [r EXCEPT !.corrupt = @ \cup {offset}]
        BY <2>1, <3>2
      <4> QED BY <1>0, <1>1, <1>3, <3>2, <4>1 DEF partitionShard, Resolved
    <3> QED BY <3>1, <3>2
  <2>3. Reserved(t) = Reserved(s) \ {offset}
    BY <2>2 DEF Reserved
  <2>4. LeasesOK(t)
    BY <1>0, <2>2 DEF LeasesOK
  <2>5. FrontierOK(t)
    BY <1>0, <1>1, <1>2, <1>5, <2>2 DEF FrontierOK
  <2>6. HintOK(t)
    BY <1>0, <2>2, <2>3 DEF HintOK, HintSkips
  <2>7. SettledOffsets(t) = SettledOffsets(s) \cup {offset} /\ AckedOffsets(s) \subseteq AckedOffsets(t)
    BY <2>2 DEF SettledOffsets, AckedOffsets
  <2> QED BY <1>5, <2>2, <2>4, <2>5, <2>6, <2>7 DEF ShardInv, t
<1> QED BY <1>4, <1>5

(***************************************************************************)
(* SkipMissingBelow settles what retention removed and unsettles nothing.  *)
(***************************************************************************)
LEMMA SkipMissingLemma ==
  ASSUME NEW s, ShardInv(s), NEW bound \in 1 .. LogEnd
  PROVE  LET t == SkipMissingBelow(s, bound)
         IN  /\ ShardInv(t)
             /\ SettledOffsets(s) \subseteq SettledOffsets(t)
             /\ SettledOffsets(t) \subseteq SettledOffsets(s) \cup 0 .. bound - 1
             /\ AckedOffsets(s) \subseteq AckedOffsets(t)
<1> DEFINE c == Larger(s.committed, bound - 1)
           u == [s EXCEPT !.entries    = { e \in @ : e.offset >= bound },
                          !.ackedAhead = { o \in @ : o >= bound },
                          !.corrupt    = { o \in @ : o >= bound },
                          !.committed  = Larger(@, bound - 1)]
           t == advanceCommittedLocked(u)
<1>0. s \in partitionShard /\ LeasesOK(s) /\ FrontierOK(s) /\ HintOK(s)
  BY DEF ShardInv
<1>1. /\ s.committed \in Int /\ -1 <= s.committed /\ s.committed <= LogEnd - 1
      /\ s.nextFree \in Nat /\ LogEnd \in Nat /\ bound \in Nat
      /\ s.ackedAhead \subseteq Nat /\ s.corrupt \subseteq Nat
      /\ \A e \in s.entries : e.offset \in Nat
  BY <1>0, ShardFields, LogEndAssumption DEF Offsets
<1>2. c \in -1 .. LogEnd - 1 /\ c >= s.committed /\ c >= bound - 1
      /\ (c = s.committed \/ c = bound - 1)
  BY <1>1 DEF Larger
<1>3. /\ u \in partitionShard /\ u.committed = c
      /\ u.entries = { e \in s.entries : e.offset >= bound }
      /\ u.expiry = s.expiry /\ u.nextFree = s.nextFree
      /\ u.ackedAhead = { o \in s.ackedAhead : o >= bound }
      /\ u.corrupt = { o \in s.corrupt : o >= bound }
  <2>1. u = [s EXCEPT !.entries    = { e \in s.entries : e.offset >= bound },
                      !.ackedAhead = { o \in s.ackedAhead : o >= bound },
                      !.corrupt    = { o \in s.corrupt : o >= bound },
                      !.committed  = c]
    BY <1>0 DEF partitionShard
  <2> HIDE DEF u, c
  <2> QED BY <1>0, <1>2, <2>1 DEF partitionShard
<1> HIDE DEF u, c
<1>4. Resolved(u) = { o \in Resolved(s) : o >= bound }
  BY <1>3 DEF Resolved
<1>5. Resolved(s) \subseteq Nat
  BY <1>1 DEF Resolved
<1>6. \A o \in Resolved(u) : o > u.committed
  BY <1>0, <1>1, <1>2, <1>3, <1>4, <1>5 DEF FrontierOK
<1>7. LeasesOK(u)
  <2>1. \A e \in u.entries : e.offset > u.committed
    BY <1>0, <1>1, <1>2, <1>3 DEF LeasesOK
  <2> QED BY <1>0, <1>3, <1>4, <2>1 DEF LeasesOK
<1>8. HintSkips(u)
  <2>1. ASSUME NEW o \in u.committed + 1 .. u.nextFree - 1
        PROVE  o \in Reserved(u) \cup Resolved(u)
    <3>1. o \in s.committed + 1 .. s.nextFree - 1 /\ o >= bound
      BY <1>1, <1>2, <1>3
    <3>2. o \in Reserved(s) \cup Resolved(s)
      BY <1>0, <3>1 DEF HintOK, HintSkips
    <3> QED BY <1>3, <1>4, <3>1, <3>2 DEF Reserved
  <2> QED BY <2>1 DEF HintSkips
<1>9. /\ ShardInv(t)
      /\ t.committed >= u.committed
      /\ \A o \in u.committed + 1 .. t.committed : o \in Resolved(u)
      /\ Resolved(t) = { o \in Resolved(u) : o > t.committed }
      /\ t.ackedAhead = { o \in u.ackedAhead : o > t.committed }
  BY <1>3, <1>6, <1>7, <1>8, AdvanceLemma
<1>10. SkipMissingBelow(s, bound) = t
  BY DEF SkipMissingBelow, u
<1> HIDE DEF t
<1>11. t.committed \in Int
  BY <1>9, ShardFields DEF ShardInv
<1>12. AckedOffsets(s) \subseteq AckedOffsets(t)
  BY <1>1, <1>2, <1>3, <1>9, <1>11 DEF AckedOffsets
<1>13. SettledOffsets(s) \subseteq SettledOffsets(t)
  BY <1>1, <1>2, <1>3, <1>4, <1>5, <1>9, <1>11 DEF SettledOffsets
<1>14. SettledOffsets(t) \subseteq SettledOffsets(s) \cup 0 .. bound - 1
  <2>1. ASSUME NEW o \in 0 .. t.committed, o \notin Resolved(s)
        PROVE  o \in 0 .. s.committed \cup 0 .. bound - 1
    <3>1. o \notin u.committed + 1 .. t.committed
      BY <1>4, <1>9, <2>1
    <3> QED BY <1>1, <1>2, <1>3, <1>11, <3>1
  <2> QED BY <1>4, <1>9, <2>1 DEF SettledOffsets
<1> QED BY <1>9, <1>10, <1>12, <1>13, <1>14

(***************************************************************************)
(* A nack frees its offset and settles nothing.                            *)
(***************************************************************************)
LEMMA ReleaseLemma ==
  ASSUME NEW s, ShardInv(s), NEW offset \in Reserved(s)
  PROVE  LET t == ReleaseHandle(s, offset)
         IN  ShardInv(t) /\ SameSettled(t, s)
<1> DEFINE u == Unreserve(s, offset)
<1>0. s \in partitionShard /\ LeasesOK(s) /\ FrontierOK(s) /\ HintOK(s)
  BY DEF ShardInv
<1>1. /\ u \in partitionShard /\ SameSettled(u, s)
      /\ u.entries = { e \in s.entries : e.offset # offset }
      /\ u.expiry = s.expiry /\ u.nextFree = s.nextFree
  BY <1>0 DEF Unreserve, partitionShard, SameSettled
<1> HIDE DEF u
<1>2. Resolved(u) = Resolved(s) /\ Reserved(s) = Reserved(u) \cup {offset}
  BY <1>1 DEF Resolved, Reserved, SameSettled
<1>3. LeasesOK(u) /\ FrontierOK(u)
  BY <1>0, <1>1, <1>2 DEF LeasesOK, FrontierOK, SameSettled
<1>4. {offset} \in SUBSET Offsets /\ \A o \in {offset} : o > u.committed
  <2>1. offset \in Offsets
    BY <1>0, ShardFields
  <2>2. offset > s.committed
    BY <1>0 DEF LeasesOK, Reserved
  <2> QED BY <1>1, <2>1, <2>2 DEF SameSettled
<1>5. /\ u.nextFree > u.committed
      /\ \A o \in u.committed + 1 .. u.nextFree - 1 :
           o \in Reserved(u) \cup Resolved(u) \cup {offset}
  BY <1>0, <1>1, <1>2 DEF HintOK, HintSkips, SameSettled
<1>6. LET t == freedLocked(u, {offset}) IN ShardInv(t) /\ SameSettled(t, u)
  BY <1>1, <1>3, <1>4, <1>5, FreedLemma
<1> QED BY <1>1, <1>6 DEF ReleaseHandle, SameSettled, u

(***************************************************************************)
(* Extending a lease keeps it a lease that can lapse.                      *)
(***************************************************************************)
LEMMA ExtendLemma ==
  ASSUME NEW s, ShardInv(s), NEW h \in [offset : Offsets, nonce : Nonces],
         h.offset \in Reserved(s), NEW v \in Nat
  PROVE  LET t == ExtendHandle(s, h, v)
         IN  ShardInv(t) /\ SameSettled(t, s)
<1> DEFINE slot == [offset |-> h.offset, expiresIn |-> v, nonce |-> h.nonce]
           t == ExtendHandle(s, h, v)
<1>0. s \in partitionShard /\ LeasesOK(s) /\ FrontierOK(s) /\ HintOK(s)
  BY DEF ShardInv
<1>1. slot \in Slot /\ slot.offset = h.offset
  BY DEF Slot
<1>2. t = [s EXCEPT !.entries = { e \in s.entries : e.offset # h.offset } \cup {slot},
                    !.expiry  = s.expiry \cup {slot}]
  BY <1>0 DEF ExtendHandle, partitionShard
<1> HIDE DEF slot, t
<1>3. /\ t \in partitionShard /\ SameSettled(t, s) /\ t.nextFree = s.nextFree
      /\ t.entries = { e \in s.entries : e.offset # h.offset } \cup {slot}
      /\ t.expiry = s.expiry \cup {slot}
  BY <1>0, <1>1, <1>2 DEF partitionShard, SameSettled
<1>4. Resolved(t) = Resolved(s) /\ Reserved(t) = Reserved(s)
  BY <1>1, <1>3 DEF Resolved, Reserved, SameSettled
<1>5. h.offset > s.committed /\ h.offset \notin Resolved(s)
  BY <1>0 DEF LeasesOK, Reserved
<1>6. LeasesOK(t)
  BY <1>0, <1>1, <1>3, <1>4, <1>5 DEF LeasesOK, SameSettled
<1>7. FrontierOK(t) /\ HintOK(t)
  BY <1>0, <1>3, <1>4 DEF FrontierOK, HintOK, HintSkips, SameSettled
<1> QED BY <1>3, <1>6, <1>7 DEF ShardInv, t

(***************************************************************************)
(* New caps touch no lease.                                                *)
(***************************************************************************)
LEMMA RefreshCapsLemma ==
  ASSUME NEW s, ShardInv(s),
         NEW caps \in [maxInFlight : Nat \ {0}, maxAckedAhead : Nat \ {0}]
  PROVE  LET t == RefreshCaps(s, caps)
         IN  /\ ShardInv(t) /\ t.committed = s.committed
             /\ t.ackedAhead = s.ackedAhead /\ t.corrupt = s.corrupt
<1> DEFINE t == RefreshCaps(s, caps)
<1>0. s \in partitionShard /\ LeasesOK(s) /\ FrontierOK(s) /\ HintOK(s)
  BY DEF ShardInv
<1>1. /\ t \in partitionShard /\ t.committed = s.committed
      /\ t.entries = s.entries /\ t.expiry = s.expiry /\ t.nextFree = s.nextFree
      /\ t.ackedAhead = s.ackedAhead /\ t.corrupt = s.corrupt
  BY <1>0 DEF RefreshCaps, partitionShard
<1> HIDE DEF t
<1>2. Resolved(t) = Resolved(s) /\ Reserved(t) = Reserved(s)
  BY <1>1 DEF Resolved, Reserved
<1>3. LeasesOK(t) /\ FrontierOK(t) /\ HintOK(t)
  BY <1>0, <1>1, <1>2 DEF LeasesOK, FrontierOK, HintOK, HintSkips
<1> QED BY <1>1, <1>3 DEF ShardInv, t

(***************************************************************************)
(* Nor does the clock.                                                     *)
(***************************************************************************)
LEMMA NowLemma ==
  ASSUME NEW s, ShardInv(s)
  PROVE  LET t == now(s)
         IN  ShardInv(t) /\ SameSettled(t, s)
<1> DEFINE t == now(s)
           tick(e) == [e EXCEPT !.expiresIn = IF @ > 0 THEN @ - 1 ELSE 0]
<1>0. s \in partitionShard /\ LeasesOK(s) /\ FrontierOK(s) /\ HintOK(s)
  BY DEF ShardInv
<1>1. \A e \in Slot : tick(e) \in Slot /\ tick(e).offset = e.offset
  BY DEF Slot
<1>2. t = [s EXCEPT !.entries = { tick(e) : e \in s.entries },
                    !.expiry = { tick(e) : e \in s.expiry }]
  BY <1>0 DEF now, Elapse, partitionShard
<1> HIDE DEF t, tick
<1>3. s.entries \subseteq Slot /\ s.expiry \subseteq Slot
  BY <1>0, ShardFields
<1>4. /\ { tick(e) : e \in s.entries } \in SUBSET Slot
      /\ { tick(e) : e \in s.expiry } \in SUBSET Slot
  BY <1>1, <1>3
<1>5. /\ t \in partitionShard /\ SameSettled(t, s) /\ t.nextFree = s.nextFree
      /\ t.entries = { tick(e) : e \in s.entries }
      /\ t.expiry = { tick(e) : e \in s.expiry }
  BY <1>0, <1>2, <1>4 DEF partitionShard, SameSettled
<1>6. Resolved(t) = Resolved(s) /\ Reserved(t) = Reserved(s)
  BY <1>1, <1>3, <1>5 DEF Resolved, Reserved, SameSettled
<1>7. LeasesOK(t)
  <2>1. \A e \in t.entries : e.offset > t.committed /\ e.offset \notin Resolved(t)
    BY <1>0, <1>1, <1>3, <1>5, <1>6 DEF LeasesOK, SameSettled
  <2>2. \A e, f \in t.entries : e.offset = f.offset => e = f
    BY <1>0, <1>1, <1>3, <1>5 DEF LeasesOK
  <2>3. t.entries \subseteq t.expiry
    BY <1>0, <1>5 DEF LeasesOK
  <2> QED BY <2>1, <2>2, <2>3 DEF LeasesOK
<1>8. FrontierOK(t) /\ HintOK(t)
  BY <1>0, <1>5, <1>6 DEF FrontierOK, HintOK, HintSkips, SameSettled
<1> QED BY <1>5, <1>7, <1>8 DEF ShardInv, t

(***************************************************************************)
(* Recovery: the shard built from a persisted frontier and acked-ahead set *)
(* has settled exactly what they say.                                      *)
(***************************************************************************)
LEMMA RecoverLemma ==
  ASSUME NEW c \in -1 .. LogEnd - 1, NEW ahead \in SUBSET Offsets,
         NEW caps \in [maxInFlight : Nat \ {0}, maxAckedAhead : Nat \ {0}]
  PROVE  /\ ShardInv(newPartitionShard(c, caps))
         /\ LET t == seedAheadLocked(newPartitionShard(c, caps), ahead)
            IN  /\ ShardInv(t) /\ t.committed >= c
                /\ SettledOffsets(t) = 0 .. c \cup ahead
                /\ AckedOffsets(t) = 0 .. c \cup ahead
                /\ t.committed = c => t.ackedAhead = { o \in ahead : o > c }
<1> DEFINE s == newPartitionShard(c, caps)
           up == { o \in ahead : o > c }
           u == [s EXCEPT !.ackedAhead = @ \cup { o \in ahead : o > s.committed }]
           t == advanceCommittedLocked(u)
<1>0. LogEnd \in Nat /\ c \in Int /\ -1 <= c /\ c <= LogEnd - 1 /\ ahead \subseteq Nat
  BY LogEndAssumption DEF Offsets
<1>1. /\ s \in partitionShard /\ s.committed = c /\ s.entries = {} /\ s.expiry = {}
      /\ s.ackedAhead = {} /\ s.corrupt = {} /\ s.nextFree = c + 1
  BY <1>0 DEF newPartitionShard, partitionShard
<1> HIDE DEF s
<1>2. Resolved(s) = {} /\ Reserved(s) = {}
  BY <1>1 DEF Resolved, Reserved
<1>3. ShardInv(s)
  BY <1>0, <1>1, <1>2 DEF ShardInv, LeasesOK, FrontierOK, HintOK, HintSkips
<1>4. up \in SUBSET Offsets /\ u = [s EXCEPT !.ackedAhead = up]
  BY <1>1 DEF partitionShard
<1> HIDE DEF u
<1>5. /\ u \in partitionShard /\ u.committed = c /\ u.entries = {} /\ u.expiry = {}
      /\ u.ackedAhead = up /\ u.corrupt = {} /\ u.nextFree = c + 1
  <2> HIDE DEF up
  <2> QED BY <1>1, <1>4 DEF partitionShard
<1>6. Resolved(u) = up /\ Reserved(u) = {}
  BY <1>5 DEF Resolved, Reserved
<1>7. LeasesOK(u) /\ HintSkips(u) /\ \A o \in Resolved(u) : o > u.committed
  BY <1>0, <1>5, <1>6 DEF LeasesOK, HintSkips
<1>8. /\ ShardInv(t)
      /\ t.committed >= u.committed
      /\ \A o \in u.committed + 1 .. t.committed : o \in Resolved(u)
      /\ Resolved(t) = { o \in Resolved(u) : o > t.committed }
      /\ t.ackedAhead = { o \in u.ackedAhead : o > t.committed }
  BY <1>5, <1>7, AdvanceLemma
<1>9. seedAheadLocked(s, ahead) = t
  BY DEF seedAheadLocked, u
<1> HIDE DEF t
<1>10. t.committed \in Int
  BY <1>8, ShardFields DEF ShardInv
<1>a. t.committed >= c
  BY <1>5, <1>8
<1>11. Resolved(t) = { o \in ahead : o > t.committed } /\ t.ackedAhead = Resolved(t)
  <2>1. Resolved(t) = { o \in up : o > t.committed } /\ t.ackedAhead = Resolved(t)
    <3> HIDE DEF up
    <3> QED BY <1>5, <1>6, <1>8
  <2>2. \A o \in ahead : o > t.committed => o > c
    BY <1>0, <1>10, <1>a
  <2> QED BY <2>1, <2>2
<1>12. 0 .. t.committed \cup Resolved(t) = 0 .. c \cup ahead
  <2>1. ASSUME NEW o \in 0 .. t.committed \cup Resolved(t)
        PROVE  o \in 0 .. c \cup ahead
    <3>1. o \in 0 .. c \/ o \in c + 1 .. t.committed \/ o \in ahead
      BY <1>0, <1>10, <1>11
    <3>2. o \in c + 1 .. t.committed => o \in up
      BY <1>5, <1>6, <1>8
    <3> QED BY <3>1, <3>2
  <2>2. ASSUME NEW o \in 0 .. c \cup ahead
        PROVE  o \in 0 .. t.committed \cup Resolved(t)
    <3>1. o \in Nat
      BY <1>0
    <3>2. o > t.committed => o \in ahead
      BY <1>0, <1>10, <1>a, <3>1
    <3> QED BY <1>0, <1>10, <1>11, <3>1, <3>2
  <2> QED BY <2>1, <2>2
<1> QED BY <1>3, <1>5, <1>8, <1>9, <1>11, <1>12
  DEF SettledOffsets, AckedOffsets, s
=============================================================================
