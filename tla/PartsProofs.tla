---------------------------- MODULE PartsProofs -----------------------------
(***************************************************************************)
(* Proofs about the components that share no state with another: the queue *)
(* between two threads, for any values and any capacity and however the    *)
(* threads interleave; the fills of the adverse selection tracker, for a   *)
(* ring of any size, any horizons and tokens; the two-leg hedge manager,   *)
(* for any number of operations, targets and orders at work; and the risk  *)
(* engine, for any limits, signals, fills and results.                     *)
(***************************************************************************)
EXTENDS MCParts, FeedProofs

-----------------------------------------------------------------------------
(***************************************************************************)
(* The queue between two threads implements a bounded queue.               *)
(***************************************************************************)

\* What each thread knows between the steps of its call.  The other one cannot spoil it: the
\* consumer only makes room, the producer only adds, and neither writes a slot in use.
Producer ==
  /\ pushing.at # "idle" => ~Full(head, tail) /\ pushing.value \in Values
  /\ pushing.at = "store" => slots[head] = pushing.value

Consumer ==
  /\ popping.at # "idle" => tail # head
  /\ popping.at = "store" => popping.value = slots[tail]

RingInv == RingTypeOK /\ Producer /\ Consumer

-----------------------------------------------------------------------------
(***************************************************************************)
(* The indices.                                                            *)
(***************************************************************************)

\* The next index is an index, and another one.
LEMMA NextIndex ==
  ASSUME NEW i \in Indices
  PROVE  ring_next(i) \in Indices /\ ring_next(i) # i
BY RingAssumption DEF Indices, ring_next

\* Indices have the same next one only if they are the same.
LEMMA NextInjective ==
  ASSUME NEW i \in Indices, NEW j \in Indices, ring_next(i) = ring_next(j)
  PROVE  i = j
BY RingAssumption DEF Indices, ring_next

\* The length is below the capacity; at its largest the ring is full, at zero it is empty.
LEMMA LenBounds ==
  ASSUME head \in Indices, tail \in Indices
  PROVE  /\ ring_len \in 0 .. Capacity - 1
         /\ ring_len = Capacity - 1 <=> Full(head, tail)
         /\ ring_len = 0 <=> head = tail
BY RingAssumption DEF Indices, ring_next, ring_len, Full

\* The slots in use are all distinct from the producer's, which comes after the last of them.
LEMMA SlotsInUse ==
  ASSUME head \in Indices, tail \in Indices
  PROVE  /\ \A n \in 0 .. ring_len - 1 : SlotOf(n) \in Indices /\ SlotOf(n) # head
         /\ SlotOf(ring_len) = head
         /\ SlotOf(0) = tail
BY RingAssumption DEF Indices, ring_len, SlotOf

-----------------------------------------------------------------------------
(***************************************************************************)
(* The invariant.                                                          *)
(***************************************************************************)

\* The initial state satisfies the invariant.
LEMMA RingInitInv == RingInit => RingInv
BY RingAssumption DEF RingInit, RingInv, RingTypeOK, Producer, Consumer, Idle, Indices

\* Every step of either thread keeps the invariant.
LEMMA RingNextInv == RingInv /\ [RingNext]_ring_vars => RingInv'
<1>. SUFFICES ASSUME RingInv, [RingNext]_ring_vars
              PROVE  RingInv'
  OBVIOUS
<1>. USE DEF RingInv, RingTypeOK, Producer, Consumer
<1>1. ASSUME NEW v \in Values, PushLoad(v)
      PROVE  RingInv'
  BY <1>1, SMTT(20) DEF PushLoad
<1>2. CASE PushFull
  BY <1>2 DEF PushFull
<1>3. CASE PushCopy
  <2>1. popping.at = "store" => slots'[tail] = slots[tail]
    BY <1>3 DEF PushCopy
  <2>. QED
    BY <1>3, <2>1, SMTT(20) DEF PushCopy
<1>4. CASE PushStore
  <2>1. ring_next(head) \in Indices /\ ring_next(head) # tail
    BY <1>4, NextIndex DEF PushStore, Full
  <2>. QED
    BY <1>4, <2>1, RingAssumption, SMTT(20) DEF PushStore, Idle
<1>5. CASE PopLoad
  BY <1>5, SMTT(20) DEF PopLoad
<1>6. CASE PopCopy
  BY <1>6, SMTT(20) DEF PopCopy
<1>7. CASE PopStore
  <2>1. ring_next(tail) \in Indices
    BY NextIndex
  <2>2. ~Full(head, tail) => ring_next(head) # ring_next(tail)
    BY <1>7, NextInjective DEF PopStore
  <2>. QED
    BY <1>7, <2>1, <2>2, RingAssumption, SMTT(20) DEF PopStore, Idle, Full
<1>8. CASE UNCHANGED ring_vars
  BY <1>8 DEF ring_vars
<1>. QED
  BY <1>1, <1>2, <1>3, <1>4, <1>5, <1>6, <1>7, <1>8 DEF RingNext

\* The indices stay in the ring, and what a thread found when it loaded them still holds when
\* it stores its own: a push never overtakes the consumer and a pop never the producer.
THEOREM RingInvariant == RingSpec => []RingInv
<1>. QED
  BY RingInitInv, RingNextInv, PTL DEF RingSpec

\* The variables keep their types.
THEOREM RingTypeCorrect == RingSpec => []RingTypeOK
<1>1. RingInv => RingTypeOK
  BY DEF RingInv
<1>. QED
  BY <1>1, RingInvariant, PTL

-----------------------------------------------------------------------------
(***************************************************************************)
(* The queue.                                                              *)
(***************************************************************************)

Slotted == Values \cup {NoValue}

\* The contents are a sequence of ring_len values, those of the slots from the tail on.
AreContents ==
  /\ Contents \in Seq(Slotted)
  /\ Len(Contents) = ring_len
  /\ \A n \in 1 .. ring_len : Contents[n] = slots[SlotOf(n - 1)]

\* In every state of the invariant.
LEMMA ContentsSeq == RingInv => AreContents
<1>. SUFFICES ASSUME RingInv PROVE AreContents
  OBVIOUS
<1>1. ring_len \in Nat
  BY LenBounds, RingAssumption DEF RingInv, RingTypeOK
<1>2. \A n \in 1 .. ring_len : slots[SlotOf(n - 1)] \in Slotted
  <2>. TAKE n \in 1 .. ring_len
  <2>1. n - 1 \in 0 .. ring_len - 1
    BY <1>1
  <2>. QED
    BY <2>1, SlotsInUse DEF RingInv, RingTypeOK, Slotted
<1>3. Contents \in [1 .. ring_len -> Slotted]
  BY <1>2 DEF Contents
<1>. QED
  BY <1>1, <1>3 DEF Contents, AreContents

\* A push enters the queue at its end with the store of the head.
LEMMA PushIsPut ==
  ASSUME RingInv, RingInv', PushStore
  PROVE  Fifo!Put(pushing.value)
<1>1. /\ head' = ring_next(head) /\ tail' = tail /\ slots' = slots
      /\ pushing.value \in Values /\ slots[head] = pushing.value
      /\ ~Full(head, tail)
      /\ head \in Indices /\ tail \in Indices
      /\ popped' = popped /\ dropped' = dropped
  BY DEF PushStore, RingInv, RingTypeOK, Producer
<1>2. ring_len \in 0 .. Capacity - 2 /\ ring_len' = ring_len + 1
  BY <1>1, RingAssumption DEF Indices, ring_len, ring_next, Full
<1>3. /\ Contents' \in Seq(Slotted) /\ Len(Contents') = ring_len'
      /\ \A n \in 1 .. ring_len' : Contents'[n] = slots'[SlotOf(n - 1)']
  <2>1. AreContents'
    BY ContentsSeq, PTL
  <2>. QED
    BY <2>1 DEF AreContents
<1>4. \A n \in Int : SlotOf(n - 1)' = SlotOf(n - 1)
  BY <1>1 DEF SlotOf
<1>5. Append(Contents, pushing.value) \in Seq(Slotted)
  BY <1>1, ContentsSeq DEF AreContents, Slotted
<1>6. /\ Len(Append(Contents, pushing.value)) = ring_len'
      /\ \A n \in 1 .. ring_len' : Append(Contents, pushing.value)[n] = Contents'[n]
  <2>1. \A n \in 1 .. ring_len : Append(Contents, pushing.value)[n] = Contents'[n]
    BY <1>1, <1>2, <1>3, <1>4, ContentsSeq DEF AreContents
  <2>2. Contents'[ring_len + 1] = pushing.value
    BY <1>1, <1>2, <1>3, <1>4, SlotsInUse
  <2>. QED
    BY <1>2, <2>1, <2>2, ContentsSeq DEF AreContents
<1>7. Contents' = Append(Contents, pushing.value)
  BY <1>3, <1>5, <1>6, SeqEqual
<1>. QED
  BY <1>1, <1>2, <1>7, ContentsSeq, RingAssumption DEF AreContents, Fifo!Put

\* A pop takes the first value with the store of the tail.
LEMMA PopIsTake ==
  ASSUME RingInv, RingInv', PopStore
  PROVE  Fifo!Take
<1>1. /\ tail' = ring_next(tail) /\ head' = head /\ slots' = slots
      /\ tail # head /\ popped' = slots[tail] /\ dropped' = dropped
      /\ head \in Indices /\ tail \in Indices
  BY DEF PopStore, RingInv, RingTypeOK, Consumer
<1>2. ring_len \in 1 .. Capacity - 1 /\ ring_len' = ring_len - 1
  BY <1>1, RingAssumption DEF Indices, ring_len, ring_next
<1>3. /\ Contents' \in Seq(Slotted) /\ Len(Contents') = ring_len'
      /\ \A n \in 1 .. ring_len' : Contents'[n] = slots'[SlotOf(n - 1)']
  <2>1. AreContents'
    BY ContentsSeq, PTL
  <2>. QED
    BY <2>1 DEF AreContents
<1>4. \A n \in 1 .. ring_len' : SlotOf(n - 1)' = SlotOf(n)
  BY <1>1, <1>2, RingAssumption DEF SlotOf, Indices, ring_next
<1>5. Contents # <<>> /\ Head(Contents) = slots[tail]
  BY <1>1, <1>2, ContentsSeq, SlotsInUse DEF AreContents
<1>6. /\ Tail(Contents) \in Seq(Slotted) /\ Len(Tail(Contents)) = ring_len'
      /\ \A n \in 1 .. ring_len' : Tail(Contents)[n] = slots[SlotOf(n)]
  <2>1. /\ Tail(Contents) \in Seq(Slotted) /\ Len(Tail(Contents)) = ring_len'
        /\ \A n \in 1 .. ring_len' : Tail(Contents)[n] = Contents[n + 1]
    BY <1>2, <1>5, ContentsSeq, HeadTailProperties DEF AreContents
  <2>2. \A n \in 1 .. ring_len' : Contents[n + 1] = slots[SlotOf(n)]
    <3>. TAKE n \in 1 .. ring_len'
    <3>1. n + 1 \in 1 .. ring_len /\ (n + 1) - 1 = n
      BY <1>2
    <3>. QED
      BY <3>1, ContentsSeq DEF AreContents
  <2>. QED
    BY <2>1, <2>2
<1>7. Contents' = Tail(Contents)
  BY <1>1, <1>3, <1>4, <1>6, SeqEqual
<1>. QED
  BY <1>1, <1>5, <1>7 DEF Fifo!Take

\* Copying to the head's slot, which holds none of the queue's values, is not seen.
LEMMA CopyUnseen ==
  ASSUME RingInv, PushCopy
  PROVE  UNCHANGED <<Contents, popped, dropped>>
<1>1. /\ slots' = [slots EXCEPT ![head] = pushing.value]
      /\ slots \in [Indices -> Slotted]
      /\ head' = head /\ tail' = tail /\ popped' = popped /\ dropped' = dropped
  BY DEF PushCopy, RingInv, RingTypeOK, Slotted
<1>2. ring_len' = ring_len /\ ring_len \in Nat
  BY <1>1, LenBounds, RingAssumption DEF ring_len, RingInv, RingTypeOK
<1>3. \A n \in 1 .. ring_len : slots'[SlotOf(n - 1)'] = slots[SlotOf(n - 1)]
  <2>. TAKE n \in 1 .. ring_len
  <2>1. n - 1 \in 0 .. ring_len - 1
    BY <1>2
  <2>2. SlotOf(n - 1) \in Indices /\ SlotOf(n - 1) # head
    BY <2>1, SlotsInUse DEF RingInv, RingTypeOK
  <2>3. SlotOf(n - 1)' = SlotOf(n - 1)
    BY <1>1 DEF SlotOf
  <2>. QED
    BY <1>1, <2>2, <2>3
<1>. QED
  BY <1>1, <1>2, <1>3 DEF Contents

\* What the steps of a thread on its own variables leave, the queue does not see.
LEMMA OwnStepsUnseen ==
  ASSUME UNCHANGED <<slots, head, tail, popped, dropped>>
  PROVE  UNCHANGED <<Contents, popped, dropped>>
BY DEF Contents, ring_len, SlotOf

\* However the two threads interleave, the ring is a queue of Capacity - 1 values.
THEOREM RingRefinesQueue == RingSpec => RingIsFifo
<1>1. RingInit => Fifo!Init
  BY RingAssumption DEF RingInit, Fifo!Init, Contents, ring_len
<1>2. ASSUME RingInv, RingInv', [RingNext]_ring_vars
      PROVE  [Fifo!Next]_<<Contents, popped, dropped>>
  <2>1. ASSUME NEW v \in Values, PushLoad(v)
        PROVE  UNCHANGED <<Contents, popped, dropped>>
    BY <2>1, OwnStepsUnseen DEF PushLoad
  <2>2. ASSUME PushFull
        PROVE  Fifo!Refuse
    <3>1. Len(Contents) = Capacity - 1
      BY <1>2, <2>2, ContentsSeq, LenBounds DEF AreContents, PushFull, RingInv, RingTypeOK
    <3>2. Contents' = Contents
      BY <2>2 DEF PushFull, Contents, ring_len, SlotOf
    <3>. QED
      BY <2>2, <3>1, <3>2 DEF PushFull, Fifo!Refuse
  <2>3. ASSUME PushCopy
        PROVE  UNCHANGED <<Contents, popped, dropped>>
    BY <1>2, <2>3, CopyUnseen
  <2>4. ASSUME PushStore
        PROVE  Fifo!Next
    <3>1. pushing.value \in Values
      BY <1>2, <2>4 DEF RingInv, Producer, PushStore
    <3>. QED
      BY <1>2, <2>4, <3>1, PushIsPut DEF Fifo!Next
  <2>5. ASSUME PopLoad
        PROVE  UNCHANGED <<Contents, popped, dropped>>
    BY <2>5, OwnStepsUnseen DEF PopLoad
  <2>6. ASSUME PopCopy
        PROVE  UNCHANGED <<Contents, popped, dropped>>
    BY <2>6, OwnStepsUnseen DEF PopCopy
  <2>7. ASSUME PopStore
        PROVE  Fifo!Next
    BY <1>2, <2>7, PopIsTake DEF Fifo!Next
  <2>8. ASSUME UNCHANGED ring_vars
        PROVE  UNCHANGED <<Contents, popped, dropped>>
    BY <2>8, OwnStepsUnseen DEF ring_vars
  <2>. QED
    BY <1>2, <2>1, <2>2, <2>3, <2>4, <2>5, <2>6, <2>7, <2>8 DEF RingNext, Fifo!Next
<1>. QED
  BY <1>1, <1>2, RingInvariant, PTL DEF RingSpec, RingIsFifo, Fifo!Spec

-----------------------------------------------------------------------------
(***************************************************************************)
(* The last fills keep their records around the wrap.                      *)
(***************************************************************************)

\* The slot in which a fill is recorded: one below its id before the wrap, then the id modulo
\* the size.
Place(id) == IF id <= MaxAdverse THEN id - 1 ELSE id % MaxAdverse

\* The fills that must still have a record.
Recent(id) == id > Len(fills) - MaxAdverse + 1

MeasuredSoFar(r, ps) == {h \in Horizons : \E t \in ps[r.token] : t - r.t >= h}

\* The ring is filled in the order of the ids, and no price comes from the future.
RecordsFilled ==
  /\ next_fill_id = Len(fills) + 1
  /\ count = IF Len(fills) < MaxAdverse THEN Len(fills) ELSE MaxAdverse
  /\ \A token \in Tokens : \A t \in prices[token] : t <= adv_now

\* Every record in use has been measured as far as the prices of its token allow.
Measured ==
  \A i \in AdvSlots : i < count =>
    /\ records[i].token \in Tokens
    /\ records[i].measured = MeasuredSoFar(records[i], prices)

\* A recent fill is in its place.
Placed ==
  \A id \in 1 .. Len(fills) : Recent(id) =>
    /\ records[Place(id)].fill_id = id
    /\ records[Place(id)].t = fills[id].t
    /\ records[Place(id)].token = fills[id].token

AdvInv == AdvTypeOK /\ RecordsFilled /\ Measured /\ Placed

-----------------------------------------------------------------------------
(***************************************************************************)
(* The places.                                                             *)
(***************************************************************************)

\* A remainder is less than the divisor, and a number below twice the divisor leaves what it
\* is above it.
LEMMA Remainder ==
  ASSUME NEW n \in Nat, NEW m \in Nat \ {0}
  PROVE  /\ n % m \in 0 .. m - 1
         /\ n = m * (n \div m) + (n % m)
         /\ n \div m \in Nat
  OBVIOUS

\* Numbers less than the divisor apart leave different remainders.
LEMMA RemaindersDiffer ==
  ASSUME NEW n \in Nat, NEW k \in Nat, NEW m \in Nat \ {0}, k < n, n < k + m
  PROVE  n % m # k % m
<1>. SUFFICES ASSUME n % m = k % m PROVE FALSE
  OBVIOUS
<1>. DEFINE q == n \div m - k \div m
<1>1. n - k = m * q /\ q \in Int
  BY Remainder
<1>2. CASE q <= 0
  <2>1. m * q <= 0
    BY <1>1, <1>2
  <2>. QED
    BY <1>1, <2>1
<1>3. CASE q >= 1
  <2>1. m * q >= m
    BY <1>1, <1>3
  <2>. QED
    BY <1>1, <2>1
<1>. QED
  BY <1>1, <1>2, <1>3

\* Past the divisor and below its double the remainder is the difference.
LEMMA FirstTurn ==
  ASSUME NEW n \in Nat, NEW m \in Nat \ {0}, m <= n, n < 2 * m
  PROVE  n % m = n - m
<1>. DEFINE q == n \div m
<1>1. n = m * q + (n % m) /\ n % m \in 0 .. m - 1 /\ q \in Nat
  BY Remainder
<1>2. CASE q = 0
  BY <1>1, <1>2
<1>3. CASE q = 1
  BY <1>1, <1>3
<1>4. CASE q >= 2
  <2>1. m * q >= m * 2
    BY <1>1, <1>4
  <2>. QED
    BY <1>1, <2>1
<1>. QED
  BY <1>1, <1>2, <1>3, <1>4

\* A fill has a slot of the ring.
LEMMA PlaceIsSlot ==
  ASSUME NEW id \in Nat \ {0}
  PROVE  Place(id) \in AdvSlots
<1>1. id % MaxAdverse \in 0 .. MaxAdverse - 1
  BY Remainder, AdverseAssumption
<1>. QED
  BY <1>1, AdverseAssumption DEF Place, AdvSlots

\* The new fill does not take the place of one of the MaxAdverse - 2 before it.
LEMMA PlacesDiffer ==
  ASSUME NEW n \in Nat \ {0}, NEW id \in 1 .. n - 1, id > n - MaxAdverse + 1
  PROVE  Place(n) # Place(id)
<1>0. MaxAdverse \in Nat \ {0} /\ n \in Nat /\ id \in Nat
  BY AdverseAssumption
<1>1. CASE n <= MaxAdverse
  BY <1>0, <1>1 DEF Place
<1>2. CASE n > MaxAdverse /\ id <= MaxAdverse
  <2>1. n % MaxAdverse = n - MaxAdverse
    BY <1>0, <1>2, FirstTurn
  <2>. QED
    BY <1>0, <1>2, <2>1 DEF Place
<1>3. CASE n > MaxAdverse /\ id > MaxAdverse
  <2>1. id < n /\ n < id + MaxAdverse
    BY <1>0
  <2>2. n % MaxAdverse # id % MaxAdverse
    BY <1>0, <2>1, RemaindersDiffer
  <2>. QED
    BY <1>0, <1>3, <2>2 DEF Place
<1>. QED
  BY <1>0, <1>1, <1>2, <1>3

-----------------------------------------------------------------------------
(***************************************************************************)
(* The steps.                                                              *)
(***************************************************************************)

LEMMA InitKeeps == AdvInit => AdvInv
<1>. SUFFICES ASSUME AdvInit PROVE AdvInv
  OBVIOUS
<1>1. NoFill \in AdvRecord
  BY DEF NoFill, AdvRecord
<1>2. AdvTypeOK
  BY <1>1, AdverseAssumption DEF AdvInit, AdvTypeOK
<1>3. Len(fills) = 0
  BY DEF AdvInit
<1>. QED
  BY <1>2, <1>3, AdverseAssumption DEF AdvInit, AdvInv, RecordsFilled, Measured, Placed, AdvSlots

\* Where a fill is recorded is its place, and the slots in use are the first ones.
LEMMA SlotIsPlace ==
  ASSUME AdvInv
  PROVE  /\ next_fill_id \in Nat \ {0} /\ Len(fills) \in Nat
         /\ AdvSlot = Place(next_fill_id)
         /\ AdvSlot \in AdvSlots
<1>1. next_fill_id = Len(fills) + 1 /\ Len(fills) \in Nat
  BY DEF AdvInv, RecordsFilled, AdvTypeOK
<1>2. AdvSlot = Place(next_fill_id)
  BY <1>1, AdverseAssumption DEF AdvInv, RecordsFilled, AdvSlot, Place
<1>. QED
  BY <1>1, <1>2, PlaceIsSlot

\* A new fill takes its place; the recent ones keep theirs.
LEMMA FillKeeps ==
  ASSUME AdvInv, NEW token \in Tokens, RecordFill(token)
  PROVE  AdvInv'
<1>. DEFINE n   == next_fill_id
            rec == [fill_id |-> n, t |-> adv_now, token |-> token, measured |-> {}]
<1>1. /\ n \in Nat \ {0} /\ Len(fills) \in Nat /\ n = Len(fills) + 1
      /\ AdvSlot = Place(n) /\ AdvSlot \in AdvSlots
  BY SlotIsPlace DEF AdvInv, RecordsFilled
<1>2. /\ records' = [records EXCEPT ![AdvSlot] = rec]
      /\ count' = IF count < MaxAdverse THEN count + 1 ELSE count
      /\ next_fill_id' = n + 1
      /\ fills' = Append(fills, [t |-> adv_now, token |-> token])
      /\ prices' = prices /\ adv_now' = adv_now
  BY DEF RecordFill
<1>3. AdvTypeOK
  BY DEF AdvInv
<1>4. rec \in AdvRecord
  BY <1>1, <1>3 DEF AdvRecord, AdvTypeOK
<1>5. /\ fills' \in Seq([t : Nat, token : Tokens])
      /\ Len(fills') = n
      /\ fills'[n] = [t |-> adv_now, token |-> token]
      /\ \A id \in 1 .. n - 1 : fills'[id] = fills[id]
  BY <1>1, <1>2, <1>3, AppendProperties DEF AdvTypeOK
<1>6. /\ records'[AdvSlot] = rec
      /\ \A i \in AdvSlots : i # AdvSlot => records'[i] = records[i]
  BY <1>1, <1>2, <1>3 DEF AdvTypeOK
<1>7. AdvTypeOK'
  <2>1. records' \in [AdvSlots -> AdvRecord]
    BY <1>2, <1>3, <1>4 DEF AdvTypeOK
  <2>2. count' \in 0 .. MaxAdverse
    BY <1>2, <1>3, AdverseAssumption DEF AdvTypeOK
  <2>. QED
    BY <1>1, <1>2, <1>3, <1>5, <2>1, <2>2 DEF AdvTypeOK
<1>8. RecordsFilled'
  BY <1>1, <1>2, <1>5, AdverseAssumption DEF AdvInv, RecordsFilled
<1>9. Measured'
  <2>. SUFFICES ASSUME NEW i \in AdvSlots, i < count'
                PROVE  /\ records'[i].token \in Tokens
                       /\ records'[i].measured = MeasuredSoFar(records'[i], prices)
    BY <1>2 DEF Measured
  <2>1. CASE i = AdvSlot
    <3>1. records'[i] = rec
      BY <1>6, <2>1
    <3>2. MeasuredSoFar(rec, prices) = {}
      <4>. SUFFICES ASSUME NEW h \in Horizons, NEW t \in prices[token], t - adv_now >= h
                    PROVE  FALSE
        BY DEF MeasuredSoFar
      <4>1. t <= adv_now /\ t \in Nat /\ adv_now \in Nat /\ h \in Nat \ {0}
        BY <1>3, AdverseAssumption DEF AdvInv, RecordsFilled, AdvTypeOK
      <4>. QED
        BY <4>1
    <3>. QED
      BY <3>1, <3>2
  <2>2. CASE i # AdvSlot
    <3>1. records'[i] = records[i]
      BY <1>6, <2>2
    <3>2. i < count
      BY <1>2, <1>3, <2>2 DEF AdvSlot, AdvSlots, AdvTypeOK
    <3>. QED
      BY <3>1, <3>2 DEF AdvInv, Measured
  <2>. QED
    BY <2>1, <2>2
<1>10. Placed'
  <2>. SUFFICES ASSUME NEW id \in 1 .. n, id > n - MaxAdverse + 1
                PROVE  /\ records'[Place(id)].fill_id = id
                       /\ records'[Place(id)].t = fills'[id].t
                       /\ records'[Place(id)].token = fills'[id].token
    BY <1>5 DEF Placed, Recent, Place
  <2>1. CASE id = n
    BY <1>1, <1>5, <1>6, <2>1
  <2>2. CASE id # n
    <3>1. id \in 1 .. n - 1 /\ id \in Nat \ {0} /\ id \in 1 .. Len(fills)
      BY <1>1, <2>2
    <3>2. Place(n) # Place(id) /\ Place(id) \in AdvSlots
      BY <1>1, <3>1, PlacesDiffer, PlaceIsSlot
    <3>3. Recent(id)
      BY <1>1, <3>1, AdverseAssumption DEF Recent
    <3>. QED
      BY <1>1, <1>5, <1>6, <3>1, <3>2, <3>3 DEF AdvInv, Placed
  <2>. QED
    BY <2>1, <2>2
<1>. QED
  BY <1>7, <1>8, <1>9, <1>10 DEF AdvInv

\* A price measures what is due of every record in use, and moves none.
LEMMA PriceKeeps ==
  ASSUME AdvInv, NEW token \in Tokens, OnPrice(token)
  PROVE  AdvInv'
<1>1. /\ records' = [i \in AdvSlots |->
           IF i < count /\ records[i].token = token
           THEN [records[i] EXCEPT !.measured = @ \cup DueHorizons(records[i])]
           ELSE records[i]]
      /\ prices' = [prices EXCEPT ![token] = @ \cup {adv_now}]
      /\ count' = count /\ next_fill_id' = next_fill_id
      /\ fills' = fills /\ adv_now' = adv_now
  BY DEF OnPrice
<1>2. AdvTypeOK
  BY DEF AdvInv
<1>3. /\ prices' \in [Tokens -> SUBSET Nat]
      /\ prices'[token] = prices[token] \cup {adv_now}
      /\ \A k \in Tokens : k # token => prices'[k] = prices[k]
  BY <1>1, <1>2 DEF AdvTypeOK
<1>4. \A i \in AdvSlots :
        LET r == records[i]
        IN  /\ r \in AdvRecord
            /\ DueHorizons(r) \subseteq Horizons
            /\ [r EXCEPT !.measured = @ \cup DueHorizons(r)] \in AdvRecord
  BY <1>2 DEF AdvTypeOK, AdvRecord, DueHorizons
<1>5. \A i \in AdvSlots :
        /\ records'[i] \in AdvRecord
        /\ records'[i].fill_id = records[i].fill_id
        /\ records'[i].t = records[i].t
        /\ records'[i].token = records[i].token
        /\ records'[i].measured =
             IF i < count /\ records[i].token = token
             THEN records[i].measured \cup DueHorizons(records[i]) ELSE records[i].measured
  BY <1>1, <1>4 DEF AdvRecord
<1>6. AdvTypeOK'
  <2>1. records' \in [AdvSlots -> AdvRecord]
    BY <1>1, <1>5
  <2>. QED
    BY <1>1, <1>2, <1>3, <2>1 DEF AdvTypeOK
<1>7. RecordsFilled'
  <2>1. \A k \in Tokens : \A t \in prices'[k] : t <= adv_now
    BY <1>2, <1>3 DEF AdvInv, RecordsFilled, AdvTypeOK
  <2>. QED
    BY <1>1, <2>1 DEF AdvInv, RecordsFilled
<1>8. Measured'
  <2>. SUFFICES ASSUME NEW i \in AdvSlots, i < count
                PROVE  /\ records'[i].token \in Tokens
                       /\ records'[i].measured = MeasuredSoFar(records'[i], prices')
    BY <1>1 DEF Measured
  <2>1. /\ records[i].token \in Tokens
        /\ records[i].measured = MeasuredSoFar(records[i], prices)
    BY DEF AdvInv, Measured
  <2>2. CASE records[i].token = token
    <3>1. MeasuredSoFar(records'[i], prices') =
            MeasuredSoFar(records[i], prices) \cup DueHorizons(records[i])
      BY <1>3, <1>5, <2>2 DEF MeasuredSoFar, DueHorizons
    <3>. QED
      BY <1>5, <2>1, <2>2, <3>1
  <2>3. CASE records[i].token # token
    <3>1. MeasuredSoFar(records'[i], prices') = MeasuredSoFar(records[i], prices)
      BY <1>3, <1>5, <2>1, <2>3 DEF MeasuredSoFar
    <3>. QED
      BY <1>5, <2>1, <2>3, <3>1
  <2>. QED
    BY <2>2, <2>3
<1>9. Placed'
  <2>. SUFFICES ASSUME NEW id \in 1 .. Len(fills), Recent(id)
                PROVE  /\ records'[Place(id)].fill_id = id
                       /\ records'[Place(id)].t = fills[id].t
                       /\ records'[Place(id)].token = fills[id].token
    BY <1>1 DEF Placed, Recent, Place
  <2>1. Place(id) \in AdvSlots
    BY <1>2, PlaceIsSlot DEF AdvTypeOK
  <2>. QED
    BY <1>5, <2>1 DEF AdvInv, Placed
<1>. QED
  BY <1>6, <1>7, <1>8, <1>9 DEF AdvInv

LEMMA TimeKeeps ==
  ASSUME AdvInv, AdvAdvance \/ UNCHANGED adv_vars
  PROVE  AdvInv'
<1>1. /\ UNCHANGED <<records, count, next_fill_id, fills, prices>>
      /\ adv_now \in Nat /\ adv_now' \in Nat /\ adv_now <= adv_now'
  BY DEF AdvAdvance, adv_vars, AdvInv, AdvTypeOK
<1>2. AdvTypeOK' /\ Measured' /\ Placed'
  BY <1>1 DEF AdvInv, AdvTypeOK, Measured, Placed, Recent, Place, MeasuredSoFar
<1>3. RecordsFilled'
  BY <1>1 DEF AdvInv, AdvTypeOK, RecordsFilled
<1>. QED
  BY <1>2, <1>3 DEF AdvInv

\* The inductive invariant of the ring of fills: a recent fill is in the place its id says,
\* and every record in use has been measured as far as prices allow.
THEOREM AdverseInvariant == AdvSpec => []AdvInv
<1>1. AdvInv /\ [AdvNext]_adv_vars => AdvInv'
  BY FillKeeps, PriceKeeps, TimeKeeps DEF AdvNext
<1>. QED
  BY <1>1, InitKeeps, PTL DEF AdvSpec

\* The ring, its count and its records keep their types for any size of the ring.
THEOREM AdverseTypeCorrect == AdvSpec => []AdvTypeOK
<1>1. AdvInv => AdvTypeOK
  BY DEF AdvInv
<1>. QED
  BY <1>1, AdverseInvariant, PTL

\* For any size of the ring, the last MaxAdverse - 1 fills keep a record each, with exactly
\* the horizons measured that a later price of their token came after.
THEOREM LastFillsAlwaysKept == AdvSpec => []LastFillsKept
<1>1. ASSUME AdvInv, NEW id \in 1 .. Len(fills), id > Len(fills) - MaxAdverse + 1
      PROVE  \E i \in AdvSlots :
               LET r == records[i]
               IN  /\ r.fill_id = id
                   /\ r.t = fills[id].t /\ r.token = fills[id].token
                   /\ r.measured = {h \in Horizons : \E t \in prices[r.token] : t - r.t >= h}
  <2>1. Len(fills) \in Nat /\ id \in Nat \ {0}
    BY <1>1 DEF AdvInv, AdvTypeOK
  <2>2. Place(id) \in AdvSlots
    BY <2>1, PlaceIsSlot
  <2>3. Place(id) < count
    <3>1. CASE Len(fills) < MaxAdverse
      BY <1>1, <2>1, <3>1, AdverseAssumption DEF AdvInv, RecordsFilled, Place
    <3>2. CASE Len(fills) >= MaxAdverse
      BY <1>1, <2>1, <2>2, <3>2, AdverseAssumption DEF AdvInv, RecordsFilled, AdvSlots
    <3>. QED
      BY <2>1, <3>1, <3>2, AdverseAssumption
  <2>. WITNESS Place(id) \in AdvSlots
  <2>. QED
    BY <1>1, <2>2, <2>3 DEF AdvInv, Placed, Measured, MeasuredSoFar, Recent
<1>2. AdvInv => LastFillsKept
  BY <1>1 DEF LastFillsKept
<1>. QED
  BY <1>2, AdverseInvariant, PTL

-----------------------------------------------------------------------------
(***************************************************************************)
(* The two-leg hedge manager.                                              *)
(***************************************************************************)

\* The state of an operation agrees with its fills; see StateFollowsFills.
Agrees(op) ==
  CASE op.state = "HEDGE_REQUIRED" -> Unhedged(op)
    [] op.state = "LEG_B_PENDING"  -> op.yes > op.no
    [] op.state = "LEG_A_PENDING"  -> op.no > op.yes \/ op.yes = 0
    [] op.state = "LEG_A_PARTIAL"  -> ~Unhedged(op) /\ op.yes > 0 /\ ~BothFilled(op)
    [] op.state = "BOTH_FILLED"    -> BothFilled(op)
    [] OTHER                       -> ~Unhedged(op)

\* A slot never used is empty, and the first fill of a YES leg leaves its time.
Sound(op) ==
  /\ op \in ArbOp
  /\ Agrees(op)
  /\ op.arb_id = 0 => op.state = "IDLE"
  /\ op.yes > 0 => op.leg_a_fill_t > 0

\* What an action asks for, of the operation it is about.
Fits(a, op) ==
  a.action = "MARKET_HEDGE" =>
    /\ op.state = "HEDGE_REQUIRED"
    /\ a.size = IF a.is_yes THEN op.yes - op.no ELSE op.no - op.yes

OpsInv ==
  /\ ArbTypeOK
  /\ \A i \in OpSlots : Sound(arb.ops[i])
  /\ \A a \in acts : Fits(a, arb.ops[a.op])

-----------------------------------------------------------------------------
(***************************************************************************)
(* What the calls do to one operation.                                     *)
(***************************************************************************)

\* A fill leaves the operation sound.
LEMMA FillSound ==
  ASSUME NEW op \in ArbOp, Sound(op), op.arb_id # 0,
         NEW is_yes \in BOOLEAN, NEW n \in Nat \ {0},
         NEW over_risk \in BOOLEAN, NEW edge \in BOOLEAN, NEW now \in Nat \ {0}
  PROVE  Sound(Filled(op, is_yes, n, over_risk, edge, now))
<1>. DEFINE c == Credited(op, is_yes, n, now)
            f == Filled(op, is_yes, n, over_risk, edge, now)
<1>1. /\ c \in ArbOp /\ c.arb_id = op.arb_id
      /\ c.yes > 0 \/ c.no > 0
      /\ c.yes > 0 => c.leg_a_fill_t > 0
  <2>1. CASE is_yes
    <3>1. c = [op EXCEPT !.yes = op.yes + n,
                         !.leg_a_fill_t = IF op.leg_a_fill_t = 0 THEN now ELSE op.leg_a_fill_t]
      BY <2>1 DEF Credited
    <3>2. /\ c.yes = op.yes + n /\ c.arb_id = op.arb_id
          /\ c.leg_a_fill_t = IF op.leg_a_fill_t = 0 THEN now ELSE op.leg_a_fill_t
      BY <3>1 DEF ArbOp
    <3>3. c \in ArbOp
      <4>. DEFINE y == op.yes + n
                  first == IF op.leg_a_fill_t = 0 THEN now ELSE op.leg_a_fill_t
      <4>1. y \in Nat /\ first \in Nat
        BY DEF ArbOp
      <4>2. c = [op EXCEPT !.yes = y, !.leg_a_fill_t = first]
        BY <3>1
      <4>. HIDE DEF c, y, first
      <4>. QED
        BY <4>1, <4>2 DEF ArbOp
    <3>4. c.yes > 0 /\ c.leg_a_fill_t > 0
      <4>. HIDE DEF c
      <4>. QED
        BY <3>2 DEF ArbOp
    <3>. QED
      BY <3>2, <3>3, <3>4
  <2>2. CASE ~is_yes
    <3>1. c = [op EXCEPT !.no = op.no + n]
      BY <2>2 DEF Credited
    <3>. QED
      BY <3>1 DEF ArbOp, Sound
  <2>. QED
    BY <2>1, <2>2
<1>2. StateAfterFill(c, over_risk, edge) \in ArbStates
  BY DEF StateAfterFill, ArbStates
<1>3. f \in ArbOp /\ f = [c EXCEPT !.state = StateAfterFill(c, over_risk, edge)]
  BY <1>1, <1>2 DEF Filled, ArbOp
<1>4. /\ f.arb_id = c.arb_id /\ f.target = c.target /\ f.yes = c.yes /\ f.no = c.no
      /\ f.leg_a_fill_t = c.leg_a_fill_t
      /\ f.state = StateAfterFill(c, over_risk, edge)
  BY <1>1, <1>3 DEF ArbOp
<1>. HIDE DEF c, f
<1>5. Agrees(f)
  BY <1>1, <1>4 DEF Agrees, StateAfterFill, Unhedged, BothFilled, ArbOp
<1>. QED
  BY <1>1, <1>3, <1>4, <1>5 DEF Sound, f

\* A cancel leaves the operation sound.
LEMMA CancelSound ==
  ASSUME NEW op \in ArbOp, Sound(op), op.arb_id # 0
  PROVE  Sound([op EXCEPT !.state = StateAfterCancel(op)])
BY DEF Sound, Agrees, StateAfterCancel, Unhedged, BothFilled, ArbOp, ArbStates

\* So does the sweep of an overdue one.
LEMMA SweepSound ==
  ASSUME NEW op \in ArbOp, Sound(op), NEW now \in Nat, Overdue(op, now)
  PROVE  Sound([op EXCEPT !.state = "HEDGE_REQUIRED"])
BY DEF Sound, Agrees, Overdue, Finished, Unhedged, BothFilled, ArbOp, ArbStates

\* An action asks for the excess of its operation.
LEMMA ActTypes ==
  ASSUME NEW i \in OpSlots, NEW op \in ArbOp
  PROVE  /\ ExcessYes(op) \in Nat /\ ExcessNo(op) \in Nat
         /\ Hedge(i, op) \in ArbAction /\ Requote(i, op) \in ArbAction
         /\ Hedge(i, op).op = i /\ Requote(i, op).op = i
         /\ op.state = "HEDGE_REQUIRED" => Fits(Hedge(i, op), op)
         /\ Fits(Requote(i, op), op)
<1>1. ExcessYes(op) \in Nat /\ ExcessNo(op) \in Nat
  BY DEF ExcessYes, ExcessNo, ArbOp
<1>2. Hedge(i, op) \in ArbAction
  BY <1>1 DEF Hedge, ArbAction
<1>3. Requote(i, op) \in ArbAction /\ Requote(i, op).op = i
      /\ Requote(i, op).action = "SUBMIT"
  BY <1>2 DEF Requote, ArbAction, Hedge
<1>4. op.state = "HEDGE_REQUIRED" => Fits(Hedge(i, op), op)
  <2>1. Hedge(i, op).is_yes <=> op.yes > op.no
    BY Zenon DEF Hedge
  <2>2. Hedge(i, op).size = IF op.yes > op.no THEN op.yes - op.no ELSE op.no - op.yes
    BY DEF Hedge, ExcessYes, ExcessNo, ArbOp
  <2>. QED
    BY <2>1, <2>2, Zenon DEF Fits
<1>. QED
  BY <1>1, <1>2, <1>3, <1>4 DEF Fits, Hedge

-----------------------------------------------------------------------------
(***************************************************************************)
(* The invariant.                                                          *)
(***************************************************************************)

\* The initial state satisfies the invariant.
LEMMA OpsInit == ArbInit => OpsInv
<1>. SUFFICES ASSUME ArbInit PROVE OpsInv
  OBVIOUS
<1>1. NoOp \in ArbOp /\ Sound(NoOp)
  BY DEF NoOp, ArbOp, ArbStates, Sound, Agrees, Unhedged
<1>2. arb \in [ops : [OpSlots -> ArbOp], next_arb_id : Nat \ {0}]
      /\ \A i \in OpSlots : arb.ops[i] = NoOp
  BY <1>1 DEF ArbInit, pt_arb_mgr_init
<1>3. working \in [OpSlots -> [BOOLEAN -> Nat]] /\ acts = {} /\ arb_now \in Nat \ {0}
  BY DEF ArbInit
<1>. QED
  BY <1>1, <1>2, <1>3 DEF OpsInv, ArbTypeOK

\* Opening an operation keeps it.
LEMMA OpenOps ==
  ASSUME OpsInv, NEW target \in Targets, ArbOpen(target)
  PROVE  OpsInv'
<1>1. PICK i \in OpSlots :
        /\ FreeOp(arb, i)
        /\ arb' = Opened(arb, i, target)
        /\ working' = [working EXCEPT ![i] = [leg \in BOOLEAN |-> @[leg] + target]]
  BY DEF ArbOpen
<1>. DEFINE op == [NoOp EXCEPT !.arb_id = arb.next_arb_id, !.state = "LEG_A_PENDING",
                               !.target = target]
<1>2. op \in ArbOp /\ Sound(op)
  BY ArbDeskAssumption
     DEF OpsInv, ArbTypeOK, NoOp, ArbOp, ArbStates, Sound, Agrees, Unhedged
<1>3. arb' = [ops |-> [arb.ops EXCEPT ![i] = op], next_arb_id |-> arb.next_arb_id + 1]
  BY <1>1 DEF Opened
<1>. HIDE DEF op
<1>4. arb' \in [ops : [OpSlots -> ArbOp], next_arb_id : Nat \ {0}]
      /\ \A j \in OpSlots : Sound(arb'.ops[j])
  BY <1>2, <1>3 DEF OpsInv, ArbTypeOK
<1>5. working' \in [OpSlots -> [BOOLEAN -> Nat]]
  BY <1>1, ArbDeskAssumption DEF OpsInv, ArbTypeOK
<1>6. acts' = {} /\ arb_now' \in Nat \ {0}
  BY DEF ArbOpen, OpsInv, ArbTypeOK
<1>. QED
  BY <1>4, <1>5, <1>6 DEF OpsInv, ArbTypeOK

\* A fill, with the replacement it asks for, keeps it.
LEMMA FillOps ==
  ASSUME OpsInv, NEW i \in OpSlots, NEW is_yes \in BOOLEAN, NEW n \in Nat \ {0},
         NEW over_risk \in BOOLEAN, NEW edge \in BOOLEAN,
         ArbFill(i, is_yes, n, over_risk, edge)
  PROVE  OpsInv'
<1>. DEFINE op == Filled(arb.ops[i], is_yes, n, over_risk, edge, arb_now)
            asked(leg) == IF \E a \in acts' : a.action = "SUBMIT" /\ a.is_yes = leg
                          THEN ExcessYes(op) + ExcessNo(op) ELSE 0
            left(leg) == working[i][leg] - (IF leg = is_yes THEN n ELSE 0)
<1>1. op \in ArbOp /\ Sound(op)
  <2>1. arb.ops[i] \in ArbOp /\ Sound(arb.ops[i]) /\ arb.ops[i].arb_id # 0
    BY DEF ArbFill, OpsInv, ArbTypeOK
  <2>2. arb_now \in Nat \ {0}
    BY DEF OpsInv, ArbTypeOK
  <2>3. Sound(op)
    BY <2>1, <2>2, FillSound
  <2>. QED
    BY <2>3 DEF Sound
<1>2. arb' = [arb EXCEPT !.ops[i] = op]
      /\ acts' = ActsAfterFill(i, op)
      /\ working' = [working EXCEPT ![i] = [leg \in BOOLEAN |-> left(leg) + asked(leg)]]
      /\ n <= working[i][is_yes]
      /\ arb_now' = arb_now
  BY DEF ArbFill
<1>. HIDE DEF op
<1>3. \A leg \in BOOLEAN : asked(leg) \in Nat
  BY <1>1, ActTypes
<1>4. \A leg \in BOOLEAN : left(leg) \in Nat
  BY <1>2 DEF OpsInv, ArbTypeOK
<1>. HIDE DEF asked, left
<1>5. working' \in [OpSlots -> [BOOLEAN -> Nat]]
  <2>1. [leg \in BOOLEAN |-> left(leg) + asked(leg)] \in [BOOLEAN -> Nat]
    BY <1>3, <1>4
  <2>. QED
    BY <1>2, <2>1 DEF OpsInv, ArbTypeOK
<1>6. arb' \in [ops : [OpSlots -> ArbOp], next_arb_id : Nat \ {0}]
      /\ \A j \in OpSlots : Sound(arb'.ops[j])
  BY <1>1, <1>2 DEF OpsInv, ArbTypeOK
<1>7. \A a \in acts' : a \in ArbAction /\ a.op = i /\ Fits(a, op)
  BY <1>1, <1>2, ActTypes DEF ActsAfterFill
<1>8. arb'.ops[i] = op
  BY <1>2 DEF OpsInv, ArbTypeOK
<1>. QED
  BY <1>2, <1>5, <1>6, <1>7, <1>8 DEF OpsInv, ArbTypeOK

\* A cancel keeps it.
LEMMA CancelOps ==
  ASSUME OpsInv, NEW i \in OpSlots, NEW is_yes \in BOOLEAN, ArbCancel(i, is_yes)
  PROVE  OpsInv'
<1>. DEFINE op == [arb.ops[i] EXCEPT !.state = StateAfterCancel(arb.ops[i])]
<1>1. op \in ArbOp /\ Sound(op)
  BY CancelSound DEF ArbCancel, OpsInv, ArbTypeOK, Sound
<1>2. arb' = [arb EXCEPT !.ops[i] = op]
  BY DEF ArbCancel, OpsInv, ArbTypeOK
<1>6. \A a \in acts' : a \in ArbAction /\ a.op = i /\ Fits(a, op)
  <2>1. arb.ops[i] \in ArbOp
    BY DEF OpsInv, ArbTypeOK
  <2>2. acts' \subseteq {Hedge(i, arb.ops[i])} /\ (acts' # {} => op.state = "HEDGE_REQUIRED")
    BY <2>1 DEF ArbCancel, StateAfterCancel, ArbOp
  <2>3. op.yes = arb.ops[i].yes /\ op.no = arb.ops[i].no
    BY <2>1 DEF ArbOp
  <2>4. Hedge(i, arb.ops[i]) = Hedge(i, op)
    BY <2>3 DEF Hedge, ExcessYes, ExcessNo
  <2>. HIDE DEF op
  <2>. QED
    BY <1>1, <2>2, <2>4, ActTypes
<1>7. arb'.ops[i] = op
  BY <1>2 DEF OpsInv, ArbTypeOK
<1>. HIDE DEF op
<1>3. arb' \in [ops : [OpSlots -> ArbOp], next_arb_id : Nat \ {0}]
      /\ \A j \in OpSlots : Sound(arb'.ops[j])
  BY <1>1, <1>2 DEF OpsInv, ArbTypeOK
<1>5. working' \in [OpSlots -> [BOOLEAN -> Nat]] /\ arb_now' \in Nat \ {0}
  BY DEF ArbCancel, OpsInv, ArbTypeOK
<1>. QED
  BY <1>3, <1>5, <1>6, <1>7 DEF OpsInv, ArbTypeOK

\* The sweep of a tick keeps it.
LEMMA TickOps ==
  ASSUME OpsInv, ArbTick
  PROVE  OpsInv'
<1>. DEFINE op(i) == IF Overdue(arb.ops[i], arb_now)
                     THEN [arb.ops[i] EXCEPT !.state = "HEDGE_REQUIRED"] ELSE arb.ops[i]
<1>1. \A i \in OpSlots : op(i) \in ArbOp /\ Sound(op(i))
  BY SweepSound DEF OpsInv, ArbTypeOK, Sound
<1>2. arb' = [arb EXCEPT !.ops = [i \in OpSlots |-> op(i)]]
  BY DEF ArbTick, Swept
<1>6. ASSUME NEW i \in OpSlots, Overdue(arb.ops[i], arb_now)
      PROVE  Hedge(i, arb.ops[i]) \in ArbAction /\ Fits(Hedge(i, arb.ops[i]), op(i))
  <2>1. arb.ops[i] \in ArbOp
    BY DEF OpsInv, ArbTypeOK
  <2>2. /\ op(i).yes = arb.ops[i].yes /\ op(i).no = arb.ops[i].no
        /\ op(i).state = "HEDGE_REQUIRED"
    BY <1>6, <2>1 DEF ArbOp
  <2>3. Hedge(i, arb.ops[i]) = Hedge(i, op(i))
    BY <2>2 DEF Hedge, ExcessYes, ExcessNo
  <2>. QED
    BY <1>1, <2>2, <2>3, ActTypes
<1>7. \A i \in OpSlots : arb'.ops[i] = op(i)
  BY <1>2 DEF OpsInv, ArbTypeOK
<1>. HIDE DEF op
<1>3. arb' \in [ops : [OpSlots -> ArbOp], next_arb_id : Nat \ {0}]
      /\ \A j \in OpSlots : Sound(arb'.ops[j])
  BY <1>1, <1>2 DEF OpsInv, ArbTypeOK
<1>4. \A a \in acts' : a \in ArbAction /\ Fits(a, arb'.ops[a.op])
  <2>. TAKE a \in acts'
  <2>1. PICK i \in OpSlots : Overdue(arb.ops[i], arb_now) /\ a = Hedge(i, arb.ops[i])
    BY DEF ArbTick, TickActs
  <2>2. a.op = i
    BY <2>1 DEF Hedge
  <2>. QED
    BY <1>6, <1>7, <2>1, <2>2
<1>5. working' \in [OpSlots -> [BOOLEAN -> Nat]] /\ arb_now' \in Nat \ {0}
  BY DEF ArbTick, OpsInv, ArbTypeOK
<1>. QED
  BY <1>3, <1>4, <1>5 DEF OpsInv, ArbTypeOK

\* Every step keeps it.
LEMMA OpsNext == OpsInv /\ [ArbNext]_arb_vars => OpsInv'
<1>. SUFFICES ASSUME OpsInv, [ArbNext]_arb_vars
              PROVE  OpsInv'
  OBVIOUS
<1>1. ASSUME NEW target \in Targets, ArbOpen(target)
      PROVE  OpsInv'
  BY <1>1, OpenOps
<1>2. ASSUME NEW i \in OpSlots, NEW is_yes \in BOOLEAN,
             NEW over_risk \in BOOLEAN, NEW edge \in BOOLEAN,
             NEW n \in 1 .. working[i][is_yes], ArbFill(i, is_yes, n, over_risk, edge)
      PROVE  OpsInv'
  <2>1. n \in Nat \ {0}
    BY DEF OpsInv, ArbTypeOK
  <2>. QED
    BY <1>2, <2>1, FillOps
<1>3. ASSUME NEW i \in OpSlots, NEW is_yes \in BOOLEAN, ArbCancel(i, is_yes)
      PROVE  OpsInv'
  BY <1>3, CancelOps
<1>4. CASE ArbTick
  BY <1>4, TickOps
<1>5. CASE ArbAdvance
  BY <1>5 DEF ArbAdvance, OpsInv, ArbTypeOK
<1>6. CASE UNCHANGED arb_vars
  BY <1>6 DEF arb_vars, OpsInv, ArbTypeOK
<1>. QED
  BY <1>1, <1>2, <1>3, <1>4, <1>5, <1>6 DEF ArbNext

\* All of it, in every state.
THEOREM OpsInvariant == ArbSpec => []OpsInv
<1>. QED
  BY OpsInit, OpsNext, PTL DEF ArbSpec

\* The table, the open orders and the actions asked for keep their types.
THEOREM ArbTypeCorrect == ArbSpec => []ArbTypeOK
<1>1. OpsInv => ArbTypeOK
  BY DEF OpsInv
<1>. QED
  BY <1>1, OpsInvariant, PTL

\* Fills, cancels and ticks of the two legs may come in any order: the state of an operation
\* agrees with its fills.
THEOREM StateFollowsFillsHolds == ArbSpec => []StateFollowsFills
<1>1. OpsInv => StateFollowsFills
  BY DEF OpsInv, Sound, Agrees, StateFollowsFills
<1>. QED
  BY <1>1, OpsInvariant, PTL

-----------------------------------------------------------------------------
(***************************************************************************)
(* What a step may do with an excess.                                      *)
(***************************************************************************)

\* An operation that is over has no excess, or both legs past their target.
LEMMA FinishedMatches ==
  ASSUME NEW op \in ArbOp, Sound(op), Unhedged(op), ~BothFilled(op)
  PROVE  ~Finished(op) /\ op.arb_id # 0
BY DEF Sound, Agrees, Finished

\* No step gives the slot of an operation with an excess away.
LEMMA SlotKept ==
  ASSUME OpsInv, ArbNext, NEW i \in OpSlots, Unhedged(arb.ops[i]), ~BothFilled(arb.ops[i])
  PROVE  arb'.ops[i].arb_id = arb.ops[i].arb_id
<1>. USE DEF OpsInv, ArbTypeOK
<1>. arb.ops[i] \in ArbOp /\ Sound(arb.ops[i])
  OBVIOUS
<1>1. ASSUME NEW target \in Targets, ArbOpen(target)
      PROVE  arb'.ops[i] = arb.ops[i]
  <2>1. PICK j \in OpSlots : FreeOp(arb, j) /\ arb' = Opened(arb, j, target)
    BY <1>1 DEF ArbOpen
  <2>2. i # j
    BY <2>1, FinishedMatches DEF FreeOp
  <2>. QED
    BY <2>1, <2>2 DEF Opened
<1>2. ASSUME NEW j \in OpSlots, NEW is_yes \in BOOLEAN,
             NEW over_risk \in BOOLEAN, NEW edge \in BOOLEAN,
             NEW n \in 1 .. working[j][is_yes], ArbFill(j, is_yes, n, over_risk, edge)
      PROVE  arb'.ops[i].arb_id = arb.ops[i].arb_id
  <2>. DEFINE op == Filled(arb.ops[j], is_yes, n, over_risk, edge, arb_now)
  <2>1. op.arb_id = arb.ops[j].arb_id
    <3>1. arb.ops[j] \in ArbOp
      OBVIOUS
    <3>. QED
      BY <3>1 DEF Filled, Credited, ArbOp
  <2>2. arb' = [arb EXCEPT !.ops[j] = op]
    BY <1>2 DEF ArbFill
  <2>. HIDE DEF op
  <2>. QED
    BY <2>1, <2>2
<1>3. ASSUME NEW j \in OpSlots, NEW is_yes \in BOOLEAN, ArbCancel(j, is_yes)
      PROVE  arb'.ops[i].arb_id = arb.ops[i].arb_id
  BY <1>3 DEF ArbCancel, ArbOp
<1>4. ASSUME ArbTick
      PROVE  arb'.ops[i].arb_id = arb.ops[i].arb_id
  BY <1>4 DEF ArbTick, Swept, ArbOp
<1>5. ASSUME ArbAdvance
      PROVE  arb'.ops[i].arb_id = arb.ops[i].arb_id
  BY <1>5 DEF ArbAdvance
<1>. QED
  BY <1>1, <1>2, <1>3, <1>4, <1>5 DEF ArbNext

\* The slot of an excess is not given away, and a hedge is for the excess of its operation.
THEOREM ExcessIsKeptHolds == ArbSpec => ExcessIsKept
<1>1. OpsInv /\ OpsInv' /\ [ArbNext]_arb_vars =>
        [\A i \in OpSlots :
           /\ Unhedged(arb.ops[i]) /\ ~BothFilled(arb.ops[i])
                => arb'.ops[i].arb_id = arb.ops[i].arb_id
           /\ \A a \in acts' : a.op = i /\ a.action = "MARKET_HEDGE" =>
                /\ arb'.ops[i].state = "HEDGE_REQUIRED"
                /\ a.size = IF a.is_yes THEN arb'.ops[i].yes - arb'.ops[i].no
                                        ELSE arb'.ops[i].no - arb'.ops[i].yes]_arb_vars
  BY SlotKept DEF OpsInv, Fits
<1>. QED
  BY <1>1, OpsInvariant, PTL DEF ArbSpec, ExcessIsKept

\* A tick leaves no YES fill past its time without a hedge.
THEOREM SweptInTimeHolds == ArbSpec => SweptInTime
<1>1. ASSUME OpsInv, ArbTick, NEW i \in OpSlots,
             Unhedged(arb.ops[i]), ~BothFilled(arb.ops[i]), arb.ops[i].yes > 0,
             arb_now - arb.ops[i].leg_a_fill_t >= MaxUnhedged
      PROVE  \E a \in acts' : a.op = i /\ a.action = "MARKET_HEDGE"
  <2>1. arb.ops[i] \in ArbOp /\ Sound(arb.ops[i])
    BY <1>1 DEF OpsInv, ArbTypeOK
  <2>2. Overdue(arb.ops[i], arb_now)
    BY <1>1, <2>1, FinishedMatches DEF Overdue, Sound
  <2>3. Hedge(i, arb.ops[i]) \in acts'
    BY <1>1, <2>2 DEF ArbTick, TickActs
  <2>. QED
    BY <2>3 DEF Hedge
<1>2. OpsInv =>
        [ArbTick =>
           \A i \in OpSlots :
             /\ Unhedged(arb.ops[i]) /\ ~BothFilled(arb.ops[i])
             /\ arb.ops[i].yes > 0
             /\ arb_now - arb.ops[i].leg_a_fill_t >= MaxUnhedged
             => \E a \in acts' : a.op = i /\ a.action = "MARKET_HEDGE"]_arb_vars
  BY <1>1
<1>. QED
  BY <1>2, OpsInvariant, PTL DEF ArbSpec, SweptInTime

-----------------------------------------------------------------------------
(***************************************************************************)
(* The risk engine.                                                        *)
(***************************************************************************)

-----------------------------------------------------------------------------
(***************************************************************************)
(* Arithmetic of the sizes.                                                *)
(***************************************************************************)

\* The shares a sum pays for cost no more than the sum.
LEMMA DivCost ==
  ASSUME NEW sum \in Nat, NEW price \in Nat \ {0}
  PROVE  /\ sum \div price \in Nat
         /\ \A n \in Nat : n <= sum \div price => n * price <= sum
<1>1. sum \div price \in Nat /\ (sum \div price) * price <= sum
  BY SMT
<1>2. ASSUME NEW n \in Nat, NEW q \in Nat, n <= q
      PROVE  n * price <= q * price
  BY <1>2, SMT
<1>. QED
  BY <1>1, <1>2, SMT

\* An amount times the scale grows with the amount.
LEMMA ScaleMonotonic ==
  ASSUME NEW a \in Int, NEW b \in Int, a <= b
  PROVE  a * PriceScale <= PriceScale * b
BY RiskAssumption, SMT

\* The size approved is bounded by the order, by the market's room and by the total's.
LEMMA SizeFits ==
  ASSUME NEW r \in RiskEngine, NEW sig \in Signal, sig.price > 0, NEW exposure \in Nat,
         ~NoRoom(r, sig, exposure)
  PROVE  LET n == SizeApproved(r, sig, exposure)
         IN  /\ n \in Nat
             /\ n <= RiskCfg.max_order_size
             /\ n * sig.price <= PriceScale * (RiskCfg.max_position_per_market - exposure)
             /\ n * sig.price <= PriceScale * (RiskCfg.max_total_exposure - r.total_exposure)
<1>. DEFINE n == SizeApproved(r, sig, exposure)
            room == Room(r, exposure)
            shares == (room * PriceScale) \div sig.price
<1>1. /\ RiskCfg.max_position_per_market \in Nat /\ RiskCfg.max_total_exposure \in Nat
      /\ RiskCfg.max_order_size \in Nat /\ PriceScale \in Nat
      /\ r.total_exposure \in Nat /\ sig.price \in Nat \ {0} /\ sig.max_size \in Nat
  BY RiskAssumption DEF RiskLimits, RiskEngine, Signal
<1>2. /\ room \in Nat
      /\ room <= RiskCfg.max_position_per_market - exposure
      /\ room <= RiskCfg.max_total_exposure - r.total_exposure
  BY <1>1 DEF NoRoom, Room, Floor
<1>3. room * PriceScale \in Nat
  BY <1>1, <1>2
<1>4. shares \in Nat /\ \A k \in Nat : k <= shares => k * sig.price <= room * PriceScale
  BY <1>1, <1>3, DivCost
<1>5. n = Floor(sig.max_size, Floor(shares, RiskCfg.max_order_size))
  BY DEF SizeApproved, AllowedShares
<1>. HIDE DEF n, room, shares
<1>6. n \in Nat /\ n <= RiskCfg.max_order_size /\ n <= shares
  BY <1>1, <1>4, <1>5 DEF Floor
<1>7. n * sig.price <= room * PriceScale
  BY <1>4, <1>6
<1>8. /\ room * PriceScale <= PriceScale * (RiskCfg.max_position_per_market - exposure)
      /\ room * PriceScale <= PriceScale * (RiskCfg.max_total_exposure - r.total_exposure)
  BY <1>1, <1>2, ScaleMonotonic
<1>9. /\ n * sig.price \in Int /\ room * PriceScale \in Int
      /\ PriceScale * (RiskCfg.max_position_per_market - exposure) \in Int
      /\ PriceScale * (RiskCfg.max_total_exposure - r.total_exposure) \in Int
  BY <1>1, <1>2, <1>6
<1>. QED
  BY <1>6, <1>7, <1>8, <1>9 DEF n

-----------------------------------------------------------------------------
(***************************************************************************)
(* What the checks let pass.                                               *)
(***************************************************************************)

\* An approved signal met none of the reasons to reject it.
LEMMA ApprovedMeans ==
  ASSUME NEW r, NEW sig, NEW exposure, NEW now,
         Verdict(r, sig, exposure, now) = "approved"
  PROVE  /\ r.tripped # TRUE
         /\ ~RateExceeded(RateWindow(r, now))
         /\ Breakers(r) = {}
         /\ ~FeedStale(r, now) /\ ~PoorSignal(sig) /\ ~NoRoom(r, sig, exposure)
BY DEF Verdict

\* Judging a signal leaves an engine.
LEMMA EvaluatedType ==
  ASSUME NEW r \in RiskEngine, NEW sig, NEW exposure, NEW now \in Nat
  PROVE  Evaluated(r, sig, exposure, now) \in RiskEngine
<1>. DEFINE w == RateWindow(r, now)
            verdict == Verdict(r, sig, exposure, now)
<1>1. w \in RiskEngine
  BY DEF RateWindow, RiskEngine
<1>2. Evaluated(r, sig, exposure, now) =
        [w EXCEPT !.tripped = w.tripped \/ verdict = "breaker",
                  !.orders_in_sec = IF verdict = "approved" THEN w.orders_in_sec + 1
                                    ELSE w.orders_in_sec]
  BY DEF Evaluated
<1>. HIDE DEF w, verdict
<1>3. (w.tripped \/ verdict = "breaker") \in BOOLEAN
  OBVIOUS
<1>4. (IF verdict = "approved" THEN w.orders_in_sec + 1 ELSE w.orders_in_sec) \in Nat
  BY <1>1 DEF RiskEngine
<1>. QED
  BY <1>1, <1>2, <1>3, <1>4 DEF RiskEngine

\* So do the feeds' marks and the operator's switch.
LEMMA SwitchType ==
  ASSUME NEW r \in RiskEngine, NEW now \in Nat
  PROVE  /\ feed_touch_poly(r, now) \in RiskEngine
         /\ feed_touch_binance(r, now) \in RiskEngine
         /\ trip_kill(r) \in RiskEngine /\ reset_kill(r) \in RiskEngine
BY DEF feed_touch_poly, feed_touch_binance, trip_kill, reset_kill, RiskEngine

\* So does a fill.
LEMMA FillType ==
  ASSUME NEW r \in RiskEngine, NEW notional \in Nat
  PROVE  pt_risk_on_fill(r, notional) \in RiskEngine
<1>. DEFINE total == r.total_exposure + notional
<1>1. total \in Nat
  BY DEF RiskEngine
<1>2. pt_risk_on_fill(r, notional) = [r EXCEPT !.total_exposure = total]
  BY DEF pt_risk_on_fill
<1>. HIDE DEF total
<1>. QED
  BY <1>1, <1>2 DEF RiskEngine

\* So does a result.
LEMMA ResultType ==
  ASSUME NEW r \in RiskEngine, NEW pnl \in Int
  PROVE  pt_risk_on_trade_pnl(r, pnl) \in RiskEngine
<1>. DEFINE sum == r.daily_pnl + pnl
            peak == IF sum > r.peak_pnl THEN sum ELSE r.peak_pnl
            run == IF pnl < 0 THEN r.consecutive_losses + 1
                   ELSE IF pnl > 0 THEN 0 ELSE r.consecutive_losses
<1>1. sum \in Int /\ peak \in Nat /\ run \in Nat
  BY DEF RiskEngine
<1>2. pt_risk_on_trade_pnl(r, pnl) =
        [r EXCEPT !.daily_pnl = sum, !.peak_pnl = peak, !.consecutive_losses = run]
  BY DEF pt_risk_on_trade_pnl
<1>. HIDE DEF sum, peak, run
<1>. QED
  BY <1>1, <1>2 DEF RiskEngine

-----------------------------------------------------------------------------
(***************************************************************************)
(* The types.                                                              *)
(***************************************************************************)

\* The initial state has the types.
LEMMA RiskInitType == RiskInit => RiskTypeOK
BY DEF RiskInit, RiskTypeOK, pt_risk_init, RiskEngine, Nothing

\* A signal keeps them.
LEMMA SignalType ==
  ASSUME RiskTypeOK, NEW sig \in Offers, NEW exposure \in Exposures, SignalArrives(sig, exposure)
  PROVE  RiskTypeOK'
<1>. DEFINE verdict == Verdict(risk_engine, sig, exposure, risk_now)
<1>1. /\ risk_engine \in RiskEngine /\ risk_now \in Nat \ {0}
      /\ sig \in Signal /\ sig.price > 0 /\ exposure \in Nat
  BY RiskDeskAssumption DEF RiskTypeOK
<1>2. risk_engine' \in RiskEngine
  BY <1>1, EvaluatedType DEF SignalArrives
<1>3. CASE verdict = "approved"
  <2>1. approvals' = Append(approvals, risk_now)
        /\ approved' = [size |-> SizeApproved(risk_engine, sig, exposure),
                        price |-> sig.price, exposure |-> exposure]
    BY <1>3 DEF SignalArrives
  <2>2. SizeApproved(risk_engine, sig, exposure) \in Nat
    BY <1>1, <1>3, ApprovedMeans, SizeFits
  <2>3. sig.price \in Nat
    BY <1>1 DEF Signal
  <2>. QED
    BY <1>1, <1>2, <2>1, <2>2, <2>3 DEF SignalArrives, RiskTypeOK
<1>4. CASE verdict # "approved"
  BY <1>2, <1>4 DEF SignalArrives, RiskTypeOK
<1>. QED
  BY <1>3, <1>4

\* Every step keeps them.
LEMMA RiskNextType == RiskTypeOK /\ [RiskNext]_risk_vars => RiskTypeOK'
<1>. SUFFICES ASSUME RiskTypeOK, [RiskNext]_risk_vars
              PROVE  RiskTypeOK'
  OBVIOUS
<1>. USE DEF RiskTypeOK
<1>1. ASSUME NEW sig \in Offers, NEW exposure \in Exposures, SignalArrives(sig, exposure)
      PROVE  RiskTypeOK'
  BY <1>1, SignalType
<1>2. CASE PolyTouched
  BY <1>2, SwitchType DEF PolyTouched, Called
<1>3. CASE BinanceTouched
  BY <1>3, SwitchType DEF BinanceTouched, Called
<1>4. CASE Killed
  BY <1>4, SwitchType DEF Killed, Called
<1>5. CASE Resumed
  BY <1>5, SwitchType DEF Resumed, Called
<1>6. ASSUME NEW n \in Notionals, FillReported(n)
      PROVE  RiskTypeOK'
  <2>1. n \in Nat
    BY RiskDeskAssumption
  <2>. QED
    BY <1>6, <2>1, FillType DEF FillReported, Reported, Called
<1>7. ASSUME NEW p \in Results, ResultReported(p)
      PROVE  RiskTypeOK'
  <2>1. p \in Int
    BY RiskDeskAssumption
  <2>. QED
    BY <1>7, <2>1, ResultType DEF ResultReported, Reported, Called
<1>8. CASE RiskAdvance
  BY <1>8 DEF RiskAdvance
<1>9. CASE UNCHANGED risk_vars
  BY <1>9 DEF risk_vars
<1>. QED
  BY <1>1, <1>2, <1>3, <1>4, <1>5, <1>6, <1>7, <1>8, <1>9 DEF RiskNext

\* The engine and the history keep their types.
THEOREM RiskTypeCorrect == RiskSpec => []RiskTypeOK
<1>. QED
  BY RiskInitType, RiskNextType, PTL DEF RiskSpec

-----------------------------------------------------------------------------
(***************************************************************************)
(* What an approval promises.                                              *)
(***************************************************************************)

\* Only a signal that is approved adds to the approvals.
LEMMA OnlySignalsApprove ==
  ASSUME RiskNext, approvals' # approvals
  PROVE  \E sig \in Offers, exposure \in Exposures :
           /\ Verdict(risk_engine, sig, exposure, risk_now) = "approved"
           /\ approved' = [size |-> SizeApproved(risk_engine, sig, exposure),
                           price |-> sig.price, exposure |-> exposure]
<1>1. PICK sig \in Offers, exposure \in Exposures : SignalArrives(sig, exposure)
  BY DEF RiskNext, PolyTouched, BinanceTouched, Killed, Resumed, FillReported, ResultReported,
         Reported, Called, RiskAdvance
<1>. QED
  BY <1>1 DEF SignalArrives

\* Nothing is approved while a breaker's condition stands or a feed is stale.
THEOREM BreakersHoldAlways == RiskSpec => BreakersHold
<1>1. [RiskNext]_risk_vars =>
        [approvals' # approvals =>
           /\ Breakers(risk_engine) = {}
           /\ ~FeedStale(risk_engine, risk_now)]_risk_vars
  BY OnlySignalsApprove, ApprovedMeans
<1>. QED
  BY <1>1, PTL DEF RiskSpec, BreakersHold

\* An approved order fits into what its market and the total have room for.
THEOREM ApprovedFitsAlways == RiskSpec => ApprovedFits
<1>1. ASSUME RiskTypeOK, RiskNext, approvals' # approvals
      PROVE  /\ approved'.size <= RiskCfg.max_order_size
             /\ approved'.size * approved'.price
                  <= PriceScale * (RiskCfg.max_position_per_market - approved'.exposure)
             /\ approved'.size * approved'.price
                  <= PriceScale * (RiskCfg.max_total_exposure - risk_engine.total_exposure)
  <2>1. PICK sig \in Offers, exposure \in Exposures :
          /\ Verdict(risk_engine, sig, exposure, risk_now) = "approved"
          /\ approved' = [size |-> SizeApproved(risk_engine, sig, exposure),
                          price |-> sig.price, exposure |-> exposure]
    BY <1>1, OnlySignalsApprove
  <2>2. /\ risk_engine \in RiskEngine /\ sig \in Signal /\ sig.price > 0 /\ exposure \in Nat
        /\ ~NoRoom(risk_engine, sig, exposure)
    BY <1>1, <2>1, RiskDeskAssumption, ApprovedMeans DEF RiskTypeOK
  <2>3. /\ approved'.size = SizeApproved(risk_engine, sig, exposure)
        /\ approved'.price = sig.price /\ approved'.exposure = exposure
    BY <2>1
  <2>. QED
    BY <2>2, <2>3, SizeFits
<1>2. RiskTypeOK /\ [RiskNext]_risk_vars =>
        [approvals' # approvals =>
           /\ approved'.size <= RiskCfg.max_order_size
           /\ approved'.size * approved'.price
                <= PriceScale * (RiskCfg.max_position_per_market - approved'.exposure)
           /\ approved'.size * approved'.price
                <= PriceScale * (RiskCfg.max_total_exposure - risk_engine.total_exposure)]_risk_vars
  BY <1>1
<1>. QED
  BY <1>2, RiskTypeCorrect, PTL DEF RiskSpec, ApprovedFits

-----------------------------------------------------------------------------
(***************************************************************************)
(* The rate.                                                               *)
(***************************************************************************)

MaxRate == RiskCfg.max_orders_per_sec

\* The approvals are in order of time, and those of the running window are the last ones.
WindowInv ==
  LET n == Len(approvals)
      c == risk_engine.orders_in_sec
      w == risk_engine.window_start
  IN  /\ w <= risk_now
      /\ w = 0 => n = 0
      /\ c <= n /\ c <= MaxRate
      /\ \A i \in 1 .. n : approvals[i] <= risk_now
      /\ \A i, j \in 1 .. n : i <= j => approvals[i] <= approvals[j]
      /\ \A i \in 1 .. n - c : approvals[i] <= w
      /\ \A i \in 1 .. n - c - MaxRate : approvals[i] + OneSecond <= w
      /\ \A i \in 1 .. n - 2 * MaxRate :
            approvals[i] + OneSecond <= approvals[i + 2 * MaxRate]

RateInv == RiskTypeOK /\ WindowInv

\* What WindowInv says of a sequence of times, a count, a window and a clock.
WindowOf(a, n, c, w, now) ==
  /\ w <= now
  /\ w = 0 => n = 0
  /\ c <= n /\ c <= MaxRate
  /\ \A i \in 1 .. n : a[i] <= now
  /\ \A i, j \in 1 .. n : i <= j => a[i] <= a[j]
  /\ \A i \in 1 .. n - c : a[i] <= w
  /\ \A i \in 1 .. n - c - MaxRate : a[i] + OneSecond <= w
  /\ \A i \in 1 .. n - 2 * MaxRate : a[i] + OneSecond <= a[i + 2 * MaxRate]

\* The rate and the second are positive.
LEMMA RatePositive == MaxRate \in Nat \ {0} /\ OneSecond \in Nat \ {0}
BY RiskAssumption DEF RiskLimits, MaxRate

\* A window that starts anew leaves all the approvals to the past.
LEMMA NewWindow ==
  ASSUME NEW a \in Seq(Nat), NEW c \in Nat, NEW w \in Nat, NEW now \in Nat \ {0},
         WindowOf(a, Len(a), c, w, now),
         w = 0 \/ now >= w + OneSecond
  PROVE  WindowOf(a, Len(a), 0, now, now)
<1>. DEFINE n == Len(a)
<1>1. n \in Nat /\ \A i \in 1 .. n : a[i] \in Nat
  OBVIOUS
<1>2. \A i \in 1 .. n - 0 - MaxRate : a[i] + OneSecond <= now
  <2>. TAKE i \in 1 .. n - 0 - MaxRate
  <2>1. i \in 1 .. n - c /\ i \in 1 .. n /\ w # 0
    BY <1>1, RatePositive DEF WindowOf
  <2>2. a[i] <= w /\ w + OneSecond <= now
    BY <2>1 DEF WindowOf
  <2>. QED
    BY <1>1, <2>1, <2>2, RatePositive
<1>3. \A i \in 1 .. n - 0 : a[i] <= now
  BY <1>1 DEF WindowOf
<1>. HIDE DEF n
<1>. QED
  BY <1>1, <1>2, <1>3, RatePositive DEF WindowOf, n

\* An approval within the rate joins the window.
LEMMA JoinsWindow ==
  ASSUME NEW a \in Seq(Nat), NEW c \in Nat, NEW w \in Nat, NEW now \in Nat \ {0},
         WindowOf(a, Len(a), c, w, now), w # 0, c < MaxRate
  PROVE  WindowOf(Append(a, now), Len(Append(a, now)), c + 1, w, now)
<1>. DEFINE n == Len(a)
            b == Append(a, now)
<1>1. /\ n \in Nat /\ Len(b) = n + 1
      /\ \A i \in 1 .. n : a[i] \in Nat /\ b[i] = a[i]
      /\ b[n + 1] = now
  OBVIOUS
<1>7. WindowOf(a, n, c, w, now)
  OBVIOUS
<1>. HIDE DEF n, b
<1>2. \A i \in 1 .. n + 1 : b[i] <= now
  BY <1>1, <1>7 DEF WindowOf
<1>3. \A i, j \in 1 .. n + 1 : i <= j => b[i] <= b[j]
  BY <1>1, <1>2, <1>7 DEF WindowOf
<1>4. \A i \in 1 .. (n + 1) - (c + 1) : b[i] <= w
  <2>. TAKE i \in 1 .. (n + 1) - (c + 1)
  <2>1. i \in 1 .. n - c /\ i \in 1 .. n
    BY <1>1
  <2>. QED
    BY <1>1, <1>7, <2>1 DEF WindowOf
<1>5. \A i \in 1 .. (n + 1) - (c + 1) - MaxRate : b[i] + OneSecond <= w
  <2>. TAKE i \in 1 .. (n + 1) - (c + 1) - MaxRate
  <2>1. i \in 1 .. n - c - MaxRate /\ i \in 1 .. n
    BY <1>1, RatePositive
  <2>. QED
    BY <1>1, <1>7, <2>1 DEF WindowOf
<1>6. \A i \in 1 .. (n + 1) - 2 * MaxRate : b[i] + OneSecond <= b[i + 2 * MaxRate]
  <2>. TAKE i \in 1 .. (n + 1) - 2 * MaxRate
  <2>1. CASE i \in 1 .. n - 2 * MaxRate
    <3>1. i \in 1 .. n /\ i + 2 * MaxRate \in 1 .. n
      BY <1>1, <2>1, RatePositive
    <3>2. a[i] + OneSecond <= a[i + 2 * MaxRate]
      BY <1>7, <2>1 DEF WindowOf
    <3>. QED
      BY <1>1, <3>1, <3>2
  <2>2. CASE i = (n + 1) - 2 * MaxRate
    <3>1. i \in 1 .. n - c - MaxRate /\ i \in 1 .. n /\ i + 2 * MaxRate = n + 1
      BY <1>1, <2>2, RatePositive
    <3>2. a[i] + OneSecond <= w /\ w <= now
      BY <1>7, <3>1 DEF WindowOf
    <3>3. a[i] + OneSecond <= now
      BY <1>1, <3>1, <3>2, RatePositive
    <3>. QED
      BY <1>1, <3>1, <3>3
  <2>. QED
    BY <1>1, <2>1, <2>2, RatePositive
<1>8. /\ w <= now /\ (w = 0 => n + 1 = 0)
      /\ c + 1 <= n + 1 /\ c + 1 <= MaxRate
  BY <1>1, <1>7, RatePositive DEF WindowOf
<1>9. WindowOf(b, n + 1, c + 1, w, now)
  BY <1>2, <1>3, <1>4, <1>5, <1>6, <1>8 DEF WindowOf
<1>. QED
  BY <1>1, <1>9 DEF b

\* A signal keeps the invariant.
LEMMA SignalWindow ==
  ASSUME RateInv, NEW sig \in Offers, NEW exposure \in Exposures, SignalArrives(sig, exposure)
  PROVE  WindowInv'
<1>. DEFINE r == risk_engine
            w == RateWindow(r, risk_now)
            ok == Verdict(r, sig, exposure, risk_now) = "approved"
<1>1. /\ r \in RiskEngine /\ risk_now \in Nat \ {0} /\ approvals \in Seq(Nat)
      /\ WindowOf(approvals, Len(approvals), r.orders_in_sec, r.window_start, risk_now)
  BY DEF RateInv, RiskTypeOK, WindowInv, WindowOf
<1>2. /\ risk_now' = risk_now
      /\ risk_engine'.window_start = w.window_start
      /\ risk_engine'.orders_in_sec = IF ok THEN w.orders_in_sec + 1 ELSE w.orders_in_sec
      /\ approvals' = IF ok THEN Append(approvals, risk_now) ELSE approvals
      /\ w.orders_in_sec \in Nat /\ w.window_start \in Nat
  <2>1. w \in RiskEngine
    BY <1>1 DEF RateWindow, RiskEngine
  <2>2. risk_engine' = Evaluated(r, sig, exposure, risk_now)
    BY DEF SignalArrives
  <2>. HIDE DEF w, ok
  <2>. QED
    BY <2>1, <2>2 DEF SignalArrives, Evaluated, RiskEngine, w, ok
<1>3. WindowOf(approvals, Len(approvals), w.orders_in_sec, w.window_start, risk_now)
  <2>1. CASE ~r.tripped /\ (r.window_start = 0 \/ risk_now >= r.window_start + OneSecond)
    <3>1. w.orders_in_sec = 0 /\ w.window_start = risk_now
      BY <1>1, <2>1 DEF RateWindow, RiskEngine
    <3>2. r.orders_in_sec \in Nat /\ r.window_start \in Nat
      BY <1>1 DEF RiskEngine
    <3>. QED
      BY <1>1, <2>1, <3>1, <3>2, NewWindow
  <2>2. CASE ~(~r.tripped /\ (r.window_start = 0 \/ risk_now >= r.window_start + OneSecond))
    BY <1>1, <2>2 DEF RateWindow
  <2>. QED
    BY <2>1, <2>2
<1>4. CASE ok
  <2>1. w.orders_in_sec < MaxRate /\ r.tripped # TRUE
    <3>1. ~RateExceeded(w) /\ r.tripped # TRUE
      BY <1>4, ApprovedMeans, Zenon
    <3>2. ~(w.orders_in_sec >= MaxRate)
      BY <3>1, Zenon DEF RateExceeded, MaxRate
    <3>3. w.orders_in_sec < MaxRate
      <4>. HIDE DEF w
      <4>. QED
        BY <1>2, <3>2, RatePositive
    <3>. QED
      BY <3>1, <3>3, Zenon
  <2>2. w.window_start # 0
    BY <1>1, <2>1 DEF RateWindow, RiskEngine
  <2>3. WindowOf(Append(approvals, risk_now), Len(Append(approvals, risk_now)),
                 w.orders_in_sec + 1, w.window_start, risk_now)
    <3>. HIDE DEF w
    <3>. QED
      BY <1>1, <1>2, <1>3, <2>1, <2>2, JoinsWindow
  <2>. HIDE DEF w, ok
  <2>. QED
    BY <1>2, <1>4, <2>3 DEF WindowInv, WindowOf
<1>5. CASE ~ok
  <2>. HIDE DEF w, ok
  <2>. QED
    BY <1>2, <1>3, <1>5 DEF WindowInv, WindowOf
<1>. QED
  BY <1>4, <1>5

\* A call that changes neither the count nor the window keeps it.
LEMMA OtherWindow ==
  ASSUME RateInv, NEW r, risk_engine' = r,
         r.window_start = risk_engine.window_start, r.orders_in_sec = risk_engine.orders_in_sec,
         UNCHANGED <<risk_now, approvals>>
  PROVE  WindowInv'
BY DEF RateInv, WindowInv

\* Every step keeps it.
LEMMA RateNext == RateInv /\ [RiskNext]_risk_vars => RateInv'
<1>. SUFFICES ASSUME RateInv, [RiskNext]_risk_vars
              PROVE  WindowInv'
  BY RiskNextType DEF RateInv
<1>0. risk_engine \in RiskEngine
  BY DEF RateInv, RiskTypeOK
<1>1. ASSUME NEW sig \in Offers, NEW exposure \in Exposures, SignalArrives(sig, exposure)
      PROVE  WindowInv'
  BY <1>1, SignalWindow
<1>2. CASE PolyTouched
  BY <1>0, <1>2, OtherWindow DEF PolyTouched, Called, feed_touch_poly, RiskEngine
<1>3. CASE BinanceTouched
  BY <1>0, <1>3, OtherWindow DEF BinanceTouched, Called, feed_touch_binance, RiskEngine
<1>4. CASE Killed
  BY <1>0, <1>4, OtherWindow DEF Killed, Called, trip_kill, RiskEngine
<1>5. CASE Resumed
  BY <1>0, <1>5, OtherWindow DEF Resumed, Called, reset_kill, RiskEngine
<1>6. ASSUME NEW n \in Notionals, FillReported(n)
      PROVE  WindowInv'
  BY <1>0, <1>6, OtherWindow DEF FillReported, Reported, Called, pt_risk_on_fill, RiskEngine
<1>7. ASSUME NEW p \in Results, ResultReported(p)
      PROVE  WindowInv'
  <2>. DEFINE r == pt_risk_on_trade_pnl(risk_engine, p)
  <2>1. /\ r.window_start = risk_engine.window_start
        /\ r.orders_in_sec = risk_engine.orders_in_sec
    BY <1>0 DEF pt_risk_on_trade_pnl, RiskEngine
  <2>2. risk_engine' = r /\ UNCHANGED <<risk_now, approvals>>
    BY <1>7 DEF ResultReported, Reported, Called
  <2>. HIDE DEF r
  <2>. QED
    BY <2>1, <2>2, OtherWindow
<1>8. CASE RiskAdvance
  <2>1. /\ approvals' = approvals /\ risk_engine' = risk_engine
        /\ risk_now' = risk_now + 1 /\ risk_now \in Nat /\ approvals \in Seq(Nat)
        /\ risk_engine.window_start \in Nat
    BY <1>0, <1>8 DEF RiskAdvance, RateInv, RiskTypeOK, RiskEngine
  <2>2. \A i \in 1 .. Len(approvals) : approvals[i] \in Nat
    BY <2>1
  <2>3. /\ risk_engine.window_start <= risk_now + 1
        /\ \A i \in 1 .. Len(approvals) : approvals[i] <= risk_now + 1
    BY <2>1, <2>2 DEF RateInv, WindowInv
  <2>. QED
    BY <2>1, <2>3 DEF RateInv, WindowInv
<1>9. CASE UNCHANGED risk_vars
  BY <1>9, OtherWindow DEF risk_vars
<1>. QED
  BY <1>1, <1>2, <1>3, <1>4, <1>5, <1>6, <1>7, <1>8, <1>9 DEF RiskNext

\* It holds in every state.
THEOREM RateInvariant == RiskSpec => []RateInv
<1>1. RiskInit => RateInv
  <2>. SUFFICES ASSUME RiskInit PROVE WindowInv
    BY RiskInitType DEF RateInv
  <2>1. approvals = <<>> /\ risk_now = 1 /\ Len(approvals) = 0
    BY DEF RiskInit
  <2>2. risk_engine.window_start = 0 /\ risk_engine.orders_in_sec = 0
    BY DEF RiskInit, pt_risk_init
  <2>. QED
    BY <2>1, <2>2, RatePositive DEF WindowInv
<1>. QED
  BY <1>1, RateNext, PTL DEF RiskSpec

\* However the signals are timed, no second has more than two windows' worth of approvals.
THEOREM SlidingRateHolds == RiskSpec => []SlidingRate
<1>1. ASSUME RateInv, NEW t \in 1 .. RiskEnd
      PROVE  Cardinality({i \in DOMAIN approvals : approvals[i] \in t .. t + OneSecond - 1})
               <= 2 * RiskCfg.max_orders_per_sec
  <2>. DEFINE T == {i \in DOMAIN approvals : approvals[i] \in t .. t + OneSecond - 1}
  <2>1. /\ approvals \in Seq(Nat) /\ DOMAIN approvals = 1 .. Len(approvals)
        /\ t \in Nat
    BY <1>1, RiskDeskAssumption DEF RateInv, RiskTypeOK
  <2>2. ASSUME T = {}
        PROVE  Cardinality(T) <= 2 * RiskCfg.max_orders_per_sec
    <3>1. Cardinality(T) = 0
      BY <2>2, FS_EmptySet, Zenon
    <3>. HIDE DEF T
    <3>. QED
      BY <3>1, RatePositive DEF MaxRate
  <2>3. ASSUME T # {}
        PROVE  Cardinality(T) <= 2 * RiskCfg.max_orders_per_sec
    <3>0. T \subseteq Nat
      BY <2>1
    <3>1. PICK x \in T : \A y \in T : x <= y
      <4>. HIDE DEF T
      <4>. QED
        BY <2>3, <3>0, LeastNumber
    <3>2. ASSUME NEW y \in T
          PROVE  y < x + 2 * MaxRate
      <4>1. /\ approvals[x] \in t .. t + OneSecond - 1 /\ approvals[y] \in t .. t + OneSecond - 1
            /\ x \in 1 .. Len(approvals) /\ y \in 1 .. Len(approvals)
        BY <2>1, Zenon
      <4>. HIDE DEF T
      <4>2. t <= approvals[x] /\ approvals[y] < t + OneSecond
        BY <2>1, <4>1, RatePositive
      <4>3. x \in Nat /\ y \in Nat /\ approvals[x] \in Nat /\ approvals[y] \in Nat
        BY <2>1, <4>1
      <4>4. ASSUME y >= x + 2 * MaxRate
            PROVE  FALSE
        <5>1. /\ x \in 1 .. Len(approvals) - 2 * MaxRate
              /\ x + 2 * MaxRate \in 1 .. Len(approvals)
          BY <2>1, <4>1, <4>3, <4>4, RatePositive
        <5>2. approvals[x] + OneSecond <= approvals[x + 2 * MaxRate]
          BY <1>1, <5>1 DEF RateInv, WindowInv
        <5>3. approvals[x + 2 * MaxRate] <= approvals[y]
          BY <1>1, <4>1, <4>4, <5>1 DEF RateInv, WindowInv
        <5>4. approvals[x + 2 * MaxRate] \in Nat
          BY <2>1, <5>1
        <5>. DEFINE first == approvals[x]
                    later == approvals[x + 2 * MaxRate]
                    last == approvals[y]
        <5>5. first \in Nat /\ later \in Nat /\ last \in Nat /\ t \in Nat /\ OneSecond \in Nat
          BY <2>1, <4>3, <5>4, RatePositive
        <5>6. t <= first /\ last < t + OneSecond /\ first + OneSecond <= later /\ later <= last
          BY <4>2, <5>2, <5>3
        <5>. HIDE DEF first, later, last
        <5>. QED
          BY <5>5, <5>6
      <4>. QED
        BY <4>3, <4>4, RatePositive
    <3>. DEFINE S == x .. x + (2 * MaxRate - 1)
    <3>. HIDE DEF T
    <3>3. x \in Nat
      BY <3>0
    <3>4. T \in SUBSET S
      BY <3>0, <3>1, <3>2, <3>3, RatePositive
    <3>5. IsFiniteSet(S) /\ Cardinality(S) = 2 * MaxRate
      BY <3>3, FS_Interval, RatePositive
    <3>. HIDE DEF S
    <3>6. Cardinality(T) <= Cardinality(S)
      BY <3>4, <3>5, FS_Subset, Zenon
    <3>. QED
      BY <3>5, <3>6 DEF MaxRate
  <2>. QED
    BY <2>2, <2>3
<1>2. RateInv => SlidingRate
  BY <1>1 DEF SlidingRate
<1>. QED
  BY <1>2, RateInvariant, PTL

-----------------------------------------------------------------------------
(***************************************************************************)
(* The components side by side.                                            *)
(***************************************************************************)

\* A behaviour of them all is one of each: what is proved of a component by itself holds of it
\* beside the others.
THEOREM EachPartIsItself ==
  PartsSpec => /\ RingSpec /\ ArbSpec /\ RiskSpec /\ AdvSpec /\ RecSpec
               /\ FeedInit /\ [][FeedNext]_feed_vars
<1>1. PartsInit => RingInit /\ ArbInit /\ RiskInit /\ AdvInit /\ RecInit /\ FeedInit
  BY DEF PartsInit
<1>2. ASSUME [PartsNext]_parts_vars
      PROVE  /\ [RingNext]_ring_vars /\ [ArbNext]_arb_vars /\ [RiskNext]_risk_vars
             /\ [AdvNext]_adv_vars /\ [RecNext]_rec_vars /\ [FeedNext]_feed_vars
  BY <1>2 DEF PartsNext, Only, parts_vars
<1>. QED
  BY <1>1, <1>2, PTL DEF PartsSpec, RingSpec, ArbSpec, RiskSpec, AdvSpec, RecSpec

\* Every component keeps its types and its limits: the levels of a book, the pieces in the
\* engine's buffer, the places of the rings, the operations of the table, a writer or a task
\* that connects.
THEOREM PartsTypeCorrect == PartsSpec => []PartsTypeOK
<1>1. FeedInv => FeedTypeOK
  BY DEF FeedInv
<1>2. /\ RingTypeOK /\ ArbTypeOK /\ RiskTypeOK /\ AdvTypeOK /\ RecTypeOK /\ FeedTypeOK
        => PartsTypeOK
  BY DEF PartsTypeOK
<1>. QED
  BY <1>1, <1>2, EachPartIsItself, RingTypeCorrect, ArbTypeCorrect, RiskTypeCorrect,
     AdverseTypeCorrect, RecTypeCorrect, FeedAlways, PTL

=============================================================================
