---------------------------- MODULE RuntimeProofs ----------------------------
(***************************************************************************)
(* Proofs about RingBuffer for every capacity and every set of values: the *)
(* inductive invariant of its indices, and that it implements the bounded  *)
(* queue of module BoundedQueue.  Then proofs about AppRuntime, whose      *)
(* event queue is such a ring, for every queue capacity, drain budget,     *)
(* tick period, wrap, list of capabilities and bound.                      *)
(***************************************************************************)
EXTENDS RingBuffer, AppRuntime, SequenceTheorems,
        WellFoundedInduction, TLAPS

(* A slot index plus an offset below the capacity wraps at most once: the  *)
(* only case % meets in push_back and pop_front.                           *)
LEMMA WrapOnce ==
  ASSUME NEW n \in Nat \ {0}, NEW h \in 0 .. n - 1, NEW i \in 0 .. n
  PROVE  /\ (h + i) % n = IF h + i < n THEN h + i ELSE h + i - n
         /\ (h + i) % n \in 0 .. n - 1
<1> DEFINE k == h + i
<1>1. k \in 0 .. 2 * n - 1
  OBVIOUS
<1> HIDE DEF k
<1>2. CASE k < n
  BY <1>1, <1>2 DEF k
<1>3. CASE k >= n
  BY <1>1, <1>3 DEF k
<1> QED BY <1>1, <1>2, <1>3 DEF k

(* Two occupied positions never share a slot.                              *)
LEMMA SlotsDistinct ==
  ASSUME NEW n \in Nat \ {0}, NEW h \in 0 .. n - 1,
         NEW i \in 0 .. n - 1, NEW j \in 0 .. n - 1,
         (h + i) % n = (h + j) % n
  PROVE  i = j
<1>1. (h + i) % n = IF h + i < n THEN h + i ELSE h + i - n
  OBVIOUS
<1>2. (h + j) % n = IF h + j < n THEN h + j ELSE h + j - n
  OBVIOUS
<1> QED BY <1>1, <1>2

(* Advancing the oldest slot by one shifts every position by one.          *)
LEMMA SuccShifts ==
  ASSUME NEW n \in Nat \ {0}, NEW h \in 0 .. n - 1, NEW i \in 0 .. n - 1
  PROVE  (((h + 1) % n) + i) % n = (h + (i + 1)) % n
<1>1. CASE h + 1 < n
  <2>1. (h + 1) % n = h + 1
    BY <1>1
  <2> QED BY <2>1
<1>2. CASE h + 1 = n
  <2>1. (h + 1) % n = 0
    BY <1>2
  <2>2. (h + (i + 1)) % n = i
    BY <1>2, WrapOnce
  <2>3. i % n = i
    OBVIOUS
  <2> QED BY <2>1, <2>2, <2>3
<1> QED BY <1>1, <1>2

(* Advancing the free slot by one counts one more element.                 *)
LEMMA SuccOfSum ==
  ASSUME NEW n \in Nat \ {0}, NEW h \in 0 .. n - 1, NEW s \in 0 .. n - 1
  PROVE  (((h + s) % n) + 1) % n = (h + (s + 1)) % n
<1> DEFINE m == (h + s) % n
<1>1. m = IF h + s < n THEN h + s ELSE h + s - n
  OBVIOUS
<1>2. m \in 0 .. n - 1
  BY <1>1
<1>3. (m + 1) % n = IF m + 1 < n THEN m + 1 ELSE m + 1 - n
  <2> HIDE DEF m
  <2> QED BY <1>2
<1>4. (h + (s + 1)) % n = IF h + (s + 1) < n THEN h + (s + 1) ELSE h + (s + 1) - n
  <2> DEFINE j == s + 1
  <2>1. j \in 0 .. n
    OBVIOUS
  <2> HIDE DEF j
  <2>2. (h + j) % n = IF h + j < n THEN h + j ELSE h + j - n
    BY <2>1, WrapOnce
  <2> QED BY <2>2 DEF j
<1>5. (m + 1) % n = (h + (s + 1)) % n
  <2> HIDE DEF m
  <2>1. CASE h + s < n
    BY <1>1, <1>2, <1>3, <1>4, <2>1
  <2>2. CASE h + s >= n
    BY <1>1, <1>2, <1>3, <1>4, <2>2
  <2> QED BY <2>1, <2>2
<1> QED BY <1>5

(* The slots a rejected or accepted call touches lie inside the array.     *)
LEMMA SlotOfInRange ==
  ASSUME RingTypeOK
  PROVE  \A k \in 1 .. Capacity : SlotOf(k) \in Slot
BY RingAssumption DEF RingTypeOK, SlotOf, Slot

(* The empty ring of the constructor satisfies the invariant.             *)
LEMMA RingInvInit == RingInit => RingInv
<1> SUFFICES ASSUME RingInit PROVE RingInv
  OBVIOUS
<1>1. RingTypeOK
  BY RingAssumption DEF RingInit, RingTypeOK, Slot, Reply, Abstract!Replies
<1>2. IndicesAgree
  BY RingAssumption DEF RingInit, IndicesAgree
<1>3. OccupiedSlotsWritten
  BY DEF RingInit, OccupiedSlotsWritten
<1> QED BY <1>1, <1>2, <1>3 DEF RingInv

(* push_back writes the slot IndicesAgree names, which no occupied         *)
(* position maps to.                                                       *)
LEMMA PushBackInv ==
  ASSUME RingInv, NEW v \in Value, PushBack(v)
  PROVE  RingInv'
<1> USE RingAssumption
<1>1. /\ size \in 0 .. Capacity - 1
      /\ head \in 0 .. Capacity - 1
      /\ tail = (head + size) % Capacity
      /\ tail \in 0 .. Capacity - 1
      /\ size' = size + 1
      /\ head' = head
      /\ tail' = (tail + 1) % Capacity
      /\ storage \in [0 .. Capacity - 1 -> Value \cup {NoValue}]
      /\ storage' = [storage EXCEPT ![tail] = v]
  BY DEF RingInv, RingTypeOK, IndicesAgree, PushBack, Succ, Slot
<1>2. RingTypeOK'
  <2>1. storage' \in [Slot -> Value \cup {NoValue}]
    BY <1>1 DEF Slot
  <2>2. head' \in Slot /\ tail' \in Slot /\ size' \in 0 .. Capacity
    BY <1>1 DEF Slot
  <2>3. reply' \in Abstract!Replies
    BY DEF PushBack, Reply, Abstract!Replies
  <2> QED BY <2>1, <2>2, <2>3 DEF RingTypeOK
<1>3. IndicesAgree'
  BY <1>1, SuccOfSum DEF IndicesAgree
<1>4. OccupiedSlotsWritten'
  <2> SUFFICES ASSUME NEW k \in 1 .. size + 1
               PROVE  storage'[(head + (k - 1)) % Capacity] \in Value
    BY <1>1 DEF OccupiedSlotsWritten, SlotOf
  <2>1. (head + (k - 1)) % Capacity \in 0 .. Capacity - 1
    BY <1>1, WrapOnce
  <2>2. CASE k = size + 1
    BY <1>1, <2>2
  <2>3. CASE k \in 1 .. size
    <3>1. (head + (k - 1)) % Capacity # tail
      <4> DEFINE i == k - 1
      <4>1. i \in 0 .. Capacity - 1 /\ i # size
        BY <1>1, <2>3
      <4> HIDE DEF i
      <4>2. (head + i) % Capacity # (head + size) % Capacity
        BY <1>1, <4>1, SlotsDistinct
      <4> QED BY <1>1, <4>2 DEF i
    <3>2. storage[(head + (k - 1)) % Capacity] \in Value
      BY <2>3 DEF RingInv, OccupiedSlotsWritten, SlotOf
    <3> QED BY <1>1, <2>1, <3>1, <3>2
  <2> QED BY <1>1, <2>2, <2>3
<1> QED BY <1>2, <1>3, <1>4 DEF RingInv

(* pop_front shifts every position down by one.                            *)
LEMMA PopFrontInv ==
  ASSUME RingInv, PopFront
  PROVE  RingInv'
<1> USE RingAssumption
<1>1. /\ size \in 1 .. Capacity
      /\ head \in 0 .. Capacity - 1
      /\ tail = (head + size) % Capacity
      /\ tail \in 0 .. Capacity - 1
      /\ size' = size - 1
      /\ head' = (head + 1) % Capacity
      /\ tail' = tail
      /\ storage' = storage
      /\ storage \in [0 .. Capacity - 1 -> Value \cup {NoValue}]
  BY DEF RingInv, RingTypeOK, IndicesAgree, PopFront, Succ, Slot
<1>2. \A i \in 0 .. Capacity - 1 :
        (head' + i) % Capacity = (head + (i + 1)) % Capacity
  BY <1>1, SuccShifts
<1>3. RingTypeOK'
  <2>1. head' \in Slot /\ tail' \in Slot /\ size' \in 0 .. Capacity
    BY <1>1 DEF Slot
  <2>2. reply' \in Abstract!Replies
    BY <1>1 DEF PopFront, Reply, Abstract!Replies
  <2> QED BY <1>1, <2>1, <2>2 DEF RingTypeOK, Slot
<1>4. IndicesAgree'
  <2> DEFINE i == size - 1
  <2>1. i \in 0 .. Capacity - 1 /\ i + 1 = size
    BY <1>1
  <2> HIDE DEF i
  <2>2. (head' + i) % Capacity = (head + size) % Capacity
    BY <1>2, <2>1
  <2> QED BY <1>1, <2>2 DEF IndicesAgree, i
<1>5. OccupiedSlotsWritten'
  <2> SUFFICES ASSUME NEW k \in 1 .. size - 1
               PROVE  storage[(head' + (k - 1)) % Capacity] \in Value
    BY <1>1 DEF OccupiedSlotsWritten, SlotOf
  <2> DEFINE i == k - 1
  <2>1. i \in 0 .. Capacity - 1 /\ i + 2 \in 1 .. size /\ (i + 2) - 1 = i + 1
    BY <1>1
  <2> HIDE DEF i
  <2>2. (head' + i) % Capacity = (head + (i + 1)) % Capacity
    BY <1>2, <2>1
  <2>3. storage[(head + ((i + 2) - 1)) % Capacity] \in Value
    BY <2>1 DEF RingInv, OccupiedSlotsWritten, SlotOf
  <2> QED BY <2>1, <2>2, <2>3 DEF i
<1> QED BY <1>3, <1>4, <1>5 DEF RingInv

(* Every call of the ring preserves the invariant.                         *)
LEMMA RingInvNext == RingInv /\ [RingNext]_ringVars => RingInv'
<1> SUFFICES ASSUME RingInv, [RingNext]_ringVars PROVE RingInv'
  OBVIOUS
<1> USE RingAssumption
<1>1. ASSUME NEW v \in Value, PushBack(v) PROVE RingInv'
  BY <1>1, PushBackInv
<1>2. ASSUME NEW v \in Value, PushBackFull(v) PROVE RingInv'
  <2>1. reply' \in Abstract!Replies
    BY <1>2 DEF PushBackFull, Reply, Abstract!Replies
  <2> QED BY <1>2, <2>1 DEF RingInv, RingTypeOK, IndicesAgree,
                           OccupiedSlotsWritten, SlotOf, PushBackFull
<1>3. CASE PopFront
  BY <1>3, PopFrontInv
<1>4. CASE PopFrontEmpty
  <2>1. reply' \in Abstract!Replies
    BY <1>4 DEF PopFrontEmpty, Reply, Abstract!Replies
  <2> QED BY <1>4, <2>1 DEF RingInv, RingTypeOK, IndicesAgree,
                           OccupiedSlotsWritten, SlotOf, PopFrontEmpty
<1>5. CASE ClearRing
  <2>1. reply' \in Abstract!Replies
    BY <1>5 DEF ClearRing, Reply, Abstract!Replies
  <2>2. head' \in Slot /\ tail' \in Slot /\ size' \in 0 .. Capacity
    BY <1>5 DEF ClearRing, Slot
  <2>3. storage' \in [Slot -> Value \cup {NoValue}]
    BY <1>5 DEF ClearRing, RingInv, RingTypeOK
  <2>4. RingTypeOK'
    BY <2>1, <2>2, <2>3 DEF RingTypeOK
  <2>5. IndicesAgree' /\ OccupiedSlotsWritten'
    BY <1>5 DEF ClearRing, IndicesAgree, OccupiedSlotsWritten
  <2> QED BY <2>4, <2>5 DEF RingInv
<1>6. CASE UNCHANGED ringVars
  BY <1>6 DEF ringVars, RingInv, RingTypeOK, IndicesAgree,
              OccupiedSlotsWritten, SlotOf
<1> QED BY <1>1, <1>2, <1>3, <1>4, <1>5, <1>6 DEF RingNext

(* head_, tail_ and size_ never disagree, and no reader is ever handed a   *)
(* slot that was not written, for every capacity.                          *)
THEOREM RingCorrect == RingSpec => []RingInv
<1> QED BY RingInvInit, RingInvNext, PTL DEF RingSpec

-----------------------------------------------------------------------------
(* Each call of the ring is the same call of the abstract queue.           *)
LEMMA ContentsSeq ==
  ASSUME RingInv
  PROVE  /\ Contents \in Seq(Value)
         /\ Len(Contents) = size
         /\ \A k \in 1 .. size : Contents[k] = storage[SlotOf(k)]
<1>1. size \in Nat
  BY RingAssumption DEF RingInv, RingTypeOK
<1>2. \A k \in 1 .. size : storage[SlotOf(k)] \in Value
  BY DEF RingInv, OccupiedSlotsWritten
<1> QED BY <1>1, <1>2 DEF Contents

(* What the ring represents after a step is a sequence as well.            *)
LEMMA ContentsSeqNext ==
  ASSUME RingInv'
  PROVE  /\ Contents' \in Seq(Value)
         /\ Len(Contents') = size'
         /\ \A k \in 1 .. size' : Contents'[k] = storage'[SlotOf(k)']
<1>1. size' \in Nat
  BY RingAssumption DEF RingInv, RingTypeOK
<1>2. \A k \in 1 .. size' : storage'[SlotOf(k)'] \in Value
  BY DEF RingInv, OccupiedSlotsWritten
<1> QED BY <1>1, <1>2 DEF Contents

(* push_back appends to the represented queue.                             *)
LEMMA PushBackRefines ==
  ASSUME RingInv, RingInv', NEW v \in Value, PushBack(v)
  PROVE  Contents' = Append(Contents, v)
<1> USE RingAssumption
<1>1. /\ size \in 0 .. Capacity - 1
      /\ head \in 0 .. Capacity - 1
      /\ tail = (head + size) % Capacity
      /\ tail \in 0 .. Capacity - 1
      /\ size' = size + 1
      /\ head' = head
      /\ storage \in [0 .. Capacity - 1 -> Value \cup {NoValue}]
      /\ storage' = [storage EXCEPT ![tail] = v]
  BY DEF RingInv, RingTypeOK, IndicesAgree, PushBack, Slot
<1>2. \A k \in 1 .. size : storage'[(head + (k - 1)) % Capacity]
                            = storage[(head + (k - 1)) % Capacity]
  <2> SUFFICES ASSUME NEW k \in 1 .. size
               PROVE  storage'[(head + (k - 1)) % Capacity]
                      = storage[(head + (k - 1)) % Capacity]
    OBVIOUS
  <2> DEFINE i == k - 1
  <2>1. i \in 0 .. Capacity - 1 /\ i # size
    BY <1>1
  <2> HIDE DEF i
  <2>2. (head + i) % Capacity # (head + size) % Capacity
    BY <1>1, <2>1, SlotsDistinct
  <2>3. (head + i) % Capacity \in 0 .. Capacity - 1
    <3>1. i \in 0 .. Capacity
      BY <2>1
    <3> QED BY <1>1, <3>1, WrapOnce
  <2>4. storage'[(head + i) % Capacity] = storage[(head + i) % Capacity]
    BY <1>1, <2>2, <2>3
  <2> QED BY <2>4 DEF i
<1>3. storage'[(head + ((size + 1) - 1)) % Capacity] = v
  BY <1>1
<1>4. /\ Contents \in Seq(Value)
      /\ Len(Contents) = size
      /\ \A k \in 1 .. size : Contents[k] = storage[(head + (k - 1)) % Capacity]
  BY ContentsSeq DEF SlotOf
<1>5. /\ Contents' \in Seq(Value)
      /\ Len(Contents') = size + 1
      /\ \A k \in 1 .. size + 1 :
           Contents'[k] = storage'[(head + (k - 1)) % Capacity]
  BY <1>1, ContentsSeqNext DEF SlotOf
<1>6. /\ Append(Contents, v) \in Seq(Value)
      /\ Len(Append(Contents, v)) = size + 1
      /\ \A k \in 1 .. size : Append(Contents, v)[k] = Contents[k]
      /\ Append(Contents, v)[size + 1] = v
  BY <1>4, AppendProperties
<1>7. \A k \in 1 .. size + 1 : Contents'[k] = Append(Contents, v)[k]
  <2> SUFFICES ASSUME NEW k \in 1 .. size + 1
               PROVE  Contents'[k] = Append(Contents, v)[k]
    OBVIOUS
  <2>1. CASE k = size + 1
    BY <1>3, <1>5, <1>6, <2>1
  <2>2. CASE k # size + 1
    <3>1. k \in 1 .. size
      BY <1>1, <2>2
    <3> QED BY <1>2, <1>4, <1>5, <1>6, <3>1
  <2> QED BY <2>1, <2>2
<1> QED BY <1>5, <1>6, <1>7, SeqEqual

(* pop_front removes the oldest element and returns it.                    *)
LEMMA PopFrontRefines ==
  ASSUME RingInv, RingInv', PopFront
  PROVE  /\ Contents # << >>
         /\ Contents' = Tail(Contents)
         /\ Head(Contents) = storage[head]
<1> USE RingAssumption
<1>1. /\ size \in 1 .. Capacity
      /\ head \in 0 .. Capacity - 1
      /\ size' = size - 1
      /\ head' = (head + 1) % Capacity
      /\ storage' = storage
  BY DEF RingInv, RingTypeOK, PopFront, Succ, Slot
<1>2. \A i \in 0 .. Capacity - 1 :
        (head' + i) % Capacity = (head + (i + 1)) % Capacity
  BY <1>1, SuccShifts
<1>3. /\ Len(Contents) = size
      /\ Contents \in Seq(Value)
      /\ \A k \in 1 .. size : Contents[k] = storage[(head + (k - 1)) % Capacity]
  BY ContentsSeq DEF SlotOf
<1>4. Contents # << >> /\ Head(Contents) = Contents[1]
  BY <1>1, <1>3
<1>5. Contents[1] = storage[head]
  <2>1. (head + (1 - 1)) % Capacity = head
    BY <1>1
  <2> QED BY <1>1, <1>3, <2>1
<1>6. /\ Contents' \in Seq(Value)
      /\ Len(Contents') = size - 1
      /\ \A k \in 1 .. size - 1 :
           Contents'[k] = storage[(head' + (k - 1)) % Capacity]
  BY <1>1, ContentsSeqNext DEF SlotOf
<1>7. /\ Tail(Contents) \in Seq(Value)
      /\ Len(Tail(Contents)) = size - 1
      /\ \A k \in 1 .. size - 1 : Tail(Contents)[k] = Contents[k + 1]
  BY <1>3, <1>4, HeadTailProperties
<1>8. \A k \in 1 .. size - 1 :
        storage[(head' + (k - 1)) % Capacity] = Contents[k + 1]
  <2> SUFFICES ASSUME NEW k \in 1 .. size - 1
               PROVE  storage[(head' + (k - 1)) % Capacity] = Contents[k + 1]
    OBVIOUS
  <2> DEFINE i == k - 1
  <2>1. i \in 0 .. Capacity - 1 /\ i + 2 \in 1 .. size /\ (i + 2) - 1 = i + 1
        /\ k + 1 = i + 2
    BY <1>1
  <2> HIDE DEF i
  <2>2. (head' + i) % Capacity = (head + (i + 1)) % Capacity
    BY <1>2, <2>1
  <2>3. Contents[i + 2] = storage[(head + ((i + 2) - 1)) % Capacity]
    BY <1>3, <2>1
  <2>4. storage[(head' + i) % Capacity] = Contents[k + 1]
    BY <2>1, <2>2, <2>3
  <2> QED BY <2>4 DEF i
<1>9. Contents' = Tail(Contents)
  BY <1>6, <1>7, <1>8, SeqEqual
<1> QED BY <1>4, <1>5, <1>9

(* Every step of the ring is a step of the abstract queue or none.         *)
LEMMA RingStepRefines ==
  ASSUME RingInv, RingInv', [RingNext]_ringVars
  PROVE  [Abstract!QueueNext]_(Abstract!queueVars)
<1> USE RingAssumption
<1>1. Len(Contents) = size /\ Contents \in Seq(Value)
  BY ContentsSeq
<1>2. ASSUME NEW v \in Value, PushBack(v) PROVE Abstract!Push(v)
  <2>1. Contents' = Append(Contents, v)
    BY <1>2, PushBackRefines
  <2>2. size < Capacity
    BY <1>2 DEF PushBack, RingInv, RingTypeOK
  <2> QED BY <1>1, <1>2, <2>1, <2>2 DEF PushBack, Abstract!Push, Reply,
    Abstract!Reply
<1>3. ASSUME NEW v \in Value, PushBackFull(v) PROVE Abstract!RejectPush(v)
  BY <1>1, <1>3 DEF PushBackFull, Abstract!RejectPush, Reply, Abstract!Reply,
                    Contents, SlotOf
<1>4. ASSUME PopFront PROVE Abstract!Pop
  BY <1>4, PopFrontRefines DEF PopFront, Abstract!Pop, Reply, Abstract!Reply
<1>5. ASSUME PopFrontEmpty PROVE Abstract!RejectPop
  BY <1>1, <1>5 DEF PopFrontEmpty, Abstract!RejectPop, Reply, Abstract!Reply,
                    Contents, SlotOf
<1>6. ASSUME ClearRing PROVE Abstract!Clear
  <2>1. Contents' = << >>
    BY <1>6, ContentsSeqNext DEF ClearRing
  <2> QED BY <1>6, <2>1 DEF ClearRing, Abstract!Clear, Reply, Abstract!Reply
<1>7. ASSUME UNCHANGED ringVars PROVE UNCHANGED Abstract!queueVars
  BY <1>7 DEF ringVars, Abstract!queueVars, Contents, SlotOf
<1> QED BY <1>2, <1>3, <1>4, <1>5, <1>6, <1>7 DEF RingNext, Abstract!QueueNext

(* The ring implements the bounded first-in first-out queue, for every     *)
(* capacity and every set of values.                                       *)
THEOREM RingImplementsQueue == RingSpec => ImplementsQueue
<1>1. RingInit => Abstract!QueueInit
  <2> SUFFICES ASSUME RingInit PROVE Abstract!QueueInit
    OBVIOUS
  <2>1. Len(Contents) = 0 /\ Contents \in Seq(Value)
    BY RingInvInit, ContentsSeq DEF RingInit
  <2> QED BY <2>1 DEF RingInit, Abstract!QueueInit, Reply, Abstract!Reply
<1>2. RingInv /\ RingInv' /\ [RingNext]_ringVars
        => [Abstract!QueueNext]_(Abstract!queueVars)
  BY RingStepRefines
<1> QED BY <1>1, <1>2, RingInvInit, RingInvNext, PTL
        DEF RingSpec, ImplementsQueue, Abstract!QueueSpec
-----------------------------------------------------------------------------
(* What is known of the clock: `elapsed` is the distance from last_tick_ms *)
(* to now_ms on the circle of Wrap values, and it is below a period        *)
(* whenever the step in progress has no tick left to do.                   *)
TickDistance ==
  /\ now \in Nat /\ lastTick \in Nat /\ elapsed \in Nat
  /\ now < Wrap /\ lastTick < Wrap /\ elapsed < Wrap
  /\ tickStarted =>
       /\ elapsed = now - lastTick \/ elapsed = now - lastTick + Wrap
       /\ pc \in {"drain2", "idle", "stopping"} => elapsed < Period
       /\ pc = "tick" => elapsed >= Period
  /\ pc = "drain2" => tickStarted
  /\ pc \in {"down", "starting", "on_init"} => ~tickStarted

(* The inductive strengthening of LossNeedsRedispatch: a drain starts with *)
(* at most a full queue, and each iteration takes one action out.          *)
DrainBudget == Draining => iterations + Len(actions) <= ActionCap + redispatched

RuntimeInv == RuntimeTypeOK /\ ActionsInOrder /\ DrainBudget

(* Taking the oldest of consecutive numbers leaves consecutive numbers.    *)
LEMMA PopInOrder ==
  ASSUME RuntimeTypeOK, ActionsInOrder, actions # << >>
  PROVE  /\ Tail(actions) \in Seq(Nat)
         /\ Len(Tail(actions)) = Len(actions) - 1
         /\ Head(actions) = accepted - Len(Tail(actions))
         /\ Head(actions) \in Nat
         /\ \A k \in 1 .. Len(Tail(actions)) :
              Tail(actions)[k] = accepted - Len(Tail(actions)) + k
         /\ handled \cup lost \cup {Head(actions)}
              = 1 .. accepted - Len(Tail(actions))
         /\ Head(actions) \notin handled \cup lost
<1>1. /\ Tail(actions) \in Seq(Nat) /\ Head(actions) \in Nat
      /\ Len(Tail(actions)) = Len(actions) - 1
      /\ \A k \in 1 .. Len(Tail(actions)) : Tail(actions)[k] = actions[k + 1]
  BY HeadTailProperties DEF RuntimeTypeOK
<1>2. Len(actions) \in Nat /\ Len(actions) >= 1 /\ Head(actions) = actions[1]
  BY HeadTailProperties DEF RuntimeTypeOK
<1>3. accepted \in Nat
  BY RuntimeAssumption DEF RuntimeTypeOK
<1>4. Head(actions) = accepted - Len(actions) + 1
  BY <1>2 DEF ActionsInOrder
<1>5. ASSUME NEW k \in 1 .. Len(Tail(actions))
      PROVE  Tail(actions)[k] = accepted - Len(Tail(actions)) + k
  <2>1. k + 1 \in 1 .. Len(actions)
    BY <1>1, <1>2
  <2>2. actions[k + 1] = accepted - Len(actions) + (k + 1)
    BY <2>1 DEF ActionsInOrder
  <2> QED BY <1>1, <1>2, <1>3, <2>2
<1>6. handled \cup lost = 1 .. accepted - Len(actions)
  BY DEF ActionsInOrder
<1>7. ASSUME NEW n \in Int
      PROVE  n + 1 >= 1 => (1 .. n) \cup {n + 1} = 1 .. n + 1
  OBVIOUS
<1>8. accepted - Len(actions) >= 0
  BY DEF ActionsInOrder
<1>9. /\ handled \cup lost \cup {Head(actions)}
           = 1 .. accepted - Len(Tail(actions))
      /\ Head(actions) \notin handled \cup lost
  <2> DEFINE n == accepted - Len(actions)
  <2>1. n \in Int /\ n + 1 >= 1 /\ Head(actions) = n + 1
        /\ accepted - Len(Tail(actions)) = n + 1
    BY <1>1, <1>2, <1>3, <1>4, <1>8
  <2>2. handled \cup lost = 1 .. n
    BY <1>6
  <2> HIDE DEF n
  <2>3. (1 .. n) \cup {n + 1} = 1 .. n + 1
    BY <2>1, <1>7
  <2>4. n + 1 \notin 1 .. n
    BY <2>1
  <2> QED BY <2>1, <2>2, <2>3, <2>4
<1> QED BY <1>1, <1>2, <1>3, <1>4, <1>5, <1>9

(* The flags stay Boolean: kept apart from the arithmetic, for the provers. *)
LEMMA FlagsInv ==
  /\ RuntimeInit => FlagsOK
  /\ FlagsOK /\ [Next]_vars => FlagsOK'
<1>1. RuntimeInit => FlagsOK
  BY Zenon DEF RuntimeInit, FlagsOK
<1>2. ASSUME FlagsOK, [Next]_vars PROVE FlagsOK'
  <2>1. CASE Dispatch \/ PostEvent \/ Return
    BY <1>2, <2>1, Zenon
    DEF Dispatch, PostEvent, Return, lifeVars, tickVars, FlagsOK
  <2>2. CASE Initialize \/ Deinit
    BY <1>2, <2>2, Zenon DEF Initialize, Deinit, tickVars, FlagsOK
  <2>3. CASE StartNext
    BY <1>2, <2>3, Zenon DEF StartNext, tickVars, FlagsOK
  <2>4. CASE CallOnInit \/ InitDone \/ StopNext \/ RuntimeDeinit
    BY <1>2, <2>4, Zenon
    DEF CallOnInit, InitDone, StopNext, RuntimeDeinit, lifeVars, tickVars,
      FlagsOK
  <2>5. CASE \E d \in Gaps : Step(d)
    BY <1>2, <2>5, Zenon DEF Step, FlagsOK
  <2>6. CASE UpdateNext \/ DrainExhausted \/ DrainEmpty
    BY <1>2, <2>6, Zenon
    DEF UpdateNext, DrainExhausted, DrainEmpty, lifeVars, tickVars, FlagsOK
  <2>7. CASE PollNext \/ PollDone \/ HandleEvent
    BY <1>2, <2>7, Zenon
    DEF PollNext, PollDone, HandleEvent, lifeVars, tickVars, FlagsOK
  <2>8. CASE Tick \/ TickDone \/ NoTick
    BY <1>2, <2>8, Zenon DEF Tick, TickDone, NoTick, lifeVars, tickVars,
      FlagsOK
  <2>9. CASE UNCHANGED vars
    BY <1>2, <2>9, Zenon DEF vars, lifeVars, tickVars, FlagsOK
  <2> QED
    BY <1>2, <2>1, <2>2, <2>3, <2>4, <2>5, <2>6, <2>7, <2>8, <2>9, Zenon
    DEF Next, RuntimeThread
<1> QED BY <1>1, <1>2

(* The initial state satisfies the invariant.                              *)
LEMMA RuntimeInvInit == RuntimeInit => RuntimeInv
<1> SUFFICES ASSUME RuntimeInit PROVE RuntimeInv
  OBVIOUS
<1>1. RuntimeTypeOK
  BY RuntimeAssumption, FlagsInv DEF RuntimeInit, RuntimeTypeOK, Phases
<1>2. ActionsInOrder
  BY DEF RuntimeInit, ActionsInOrder
<1>3. DrainBudget
  BY DEF RuntimeInit, DrainBudget, Draining
<1> QED BY <1>1, <1>2, <1>3 DEF RuntimeInv

(* post_action preserves the order and the budget, accepted or dropped.    *)
LEMMA PostActionInv ==
  ASSUME RuntimeInv, PostAction \/ UNCHANGED actionVars,
         UNCHANGED <<handled, lost, iterations>>,
         Draining' => Draining
  PROVE  /\ accepted' \in 0 .. MaxActions /\ drops' \in 0 .. MaxDrops
         /\ redispatched' \in Nat
         /\ actions' \in Seq(Nat) /\ Len(actions') <= ActionCap
         /\ ActionsInOrder' /\ DrainBudget'
<1> USE RuntimeAssumption
<1>1. CASE ActionAccepted
  <2>1. /\ actions' \in Seq(Nat) /\ Len(actions') = Len(actions) + 1
        /\ \A k \in 1 .. Len(actions) : actions'[k] = actions[k]
        /\ actions'[Len(actions) + 1] = accepted + 1
    BY <1>1, AppendProperties DEF RuntimeInv, RuntimeTypeOK, ActionAccepted
  <2>2. Len(actions) \in Nat /\ accepted \in Nat
    BY DEF RuntimeInv, RuntimeTypeOK
  <2>3. ActionsInOrder'
    <3>1. ASSUME NEW k \in 1 .. Len(actions')
          PROVE  actions'[k] = accepted' - Len(actions') + k
      <4>1. CASE k = Len(actions) + 1
        BY <1>1, <2>1, <2>2, <4>1 DEF ActionAccepted
      <4>2. CASE k \in 1 .. Len(actions)
        BY <1>1, <2>1, <2>2, <4>2
        DEF ActionAccepted, RuntimeInv, ActionsInOrder
      <4> QED BY <2>1, <2>2, <4>1, <4>2
    <3>2. accepted' - Len(actions') = accepted - Len(actions)
      BY <1>1, <2>1, <2>2 DEF ActionAccepted
    <3> QED BY <3>1, <3>2 DEF RuntimeInv, ActionsInOrder
  <2>4. DrainBudget'
    BY <1>1, <2>1, <2>2
    DEF ActionAccepted, RuntimeInv, DrainBudget, RuntimeTypeOK
  <2> QED
    BY <1>1, <2>1, <2>2, <2>3, <2>4
    DEF ActionAccepted, RuntimeInv, RuntimeTypeOK
<1>2. CASE ActionDropped
  BY <1>2
  DEF ActionDropped, RuntimeInv, RuntimeTypeOK, ActionsInOrder, DrainBudget
<1>3. CASE UNCHANGED actionVars
  BY <1>3
  DEF actionVars, RuntimeInv, RuntimeTypeOK, ActionsInOrder, DrainBudget
<1> QED BY <1>1, <1>2, <1>3 DEF PostAction

(* Every step of the runtime and of the code it calls preserves it.        *)
LEMMA RuntimeInvNext == RuntimeInv /\ [Next]_vars => RuntimeInv'
<1> SUFFICES ASSUME RuntimeInv, [Next]_vars PROVE RuntimeInv'
  OBVIOUS
<1> USE RuntimeAssumption
<1> USE DEF Phases
<1>0. FlagsOK'
  BY FlagsInv DEF RuntimeInv, RuntimeTypeOK
<1>1. CASE Dispatch
  <2>1. /\ accepted' \in 0 .. MaxActions /\ drops' \in 0 .. MaxDrops
        /\ redispatched' \in Nat
        /\ actions' \in Seq(Nat) /\ Len(actions') <= ActionCap
        /\ ActionsInOrder' /\ DrainBudget'
    BY <1>1, PostActionInv DEF Dispatch, drainVars, Draining
  <2> QED
    BY <1>0, <1>1, <2>1 DEF Dispatch, drainVars, eventVars, lifeVars, tickVars,
       RuntimeInv, RuntimeTypeOK
<1>2. CASE HandleEvent
  <2>1. /\ accepted' \in 0 .. MaxActions /\ drops' \in 0 .. MaxDrops
        /\ redispatched' \in Nat
        /\ actions' \in Seq(Nat) /\ Len(actions') <= ActionCap
        /\ ActionsInOrder' /\ DrainBudget'
    BY <1>2, PostActionInv DEF HandleEvent, drainVars, Draining
  <2>2. events' \in Seq(Nat) /\ Len(events') <= EventCap
    BY <1>2, HeadTailProperties DEF HandleEvent, RuntimeInv, RuntimeTypeOK
  <2> QED
    BY <1>0, <1>2, <2>1, <2>2 DEF HandleEvent, drainVars, lifeVars, tickVars,
       RuntimeInv, RuntimeTypeOK
<1>3. CASE UpdateNext
  <2>1. /\ Tail(actions) \in Seq(Nat) /\ Len(Tail(actions)) = Len(actions) - 1
        /\ Head(actions) = accepted - Len(Tail(actions)) /\ Head(actions) \in Nat
        /\ \A k \in 1 .. Len(Tail(actions)) :
             Tail(actions)[k] = accepted - Len(Tail(actions)) + k
        /\ handled \cup lost \cup {Head(actions)}
             = 1 .. accepted - Len(Tail(actions))
        /\ Head(actions) \notin handled \cup lost
    BY <1>3, PopInOrder DEF UpdateNext, RuntimeInv
  <2>2. Len(actions) \in Nat /\ accepted \in Nat
    BY DEF RuntimeInv, RuntimeTypeOK
  <2>3. RuntimeTypeOK'
    BY <1>0, <1>3, <2>1, <2>2 DEF UpdateNext, eventVars, lifeVars, tickVars,
       RuntimeInv, RuntimeTypeOK
  <2>4. ActionsInOrder'
    BY <1>3, <2>1, <2>2 DEF UpdateNext, RuntimeInv, ActionsInOrder
  <2>5. DrainBudget'
    BY <1>3, <2>1, <2>2
    DEF UpdateNext, RuntimeInv, RuntimeTypeOK, DrainBudget, Draining
  <2> QED BY <2>3, <2>4, <2>5 DEF RuntimeInv
<1>4. CASE DrainExhausted
  <2>1. /\ Tail(actions) \in Seq(Nat) /\ Len(Tail(actions)) = Len(actions) - 1
        /\ Head(actions) = accepted - Len(Tail(actions)) /\ Head(actions) \in Nat
        /\ \A k \in 1 .. Len(Tail(actions)) :
             Tail(actions)[k] = accepted - Len(Tail(actions)) + k
        /\ handled \cup lost \cup {Head(actions)}
             = 1 .. accepted - Len(Tail(actions))
        /\ Head(actions) \notin handled \cup lost
    BY <1>4, PopInOrder DEF DrainExhausted, RuntimeInv
  <2>2. Len(actions) \in Nat /\ accepted \in Nat
    BY DEF RuntimeInv, RuntimeTypeOK
  <2>3. RuntimeTypeOK'
    BY <1>0, <1>4, <2>1, <2>2 DEF DrainExhausted, AfterDrain, eventVars,
      lifeVars,
       tickVars, RuntimeInv, RuntimeTypeOK
  <2>4. ActionsInOrder'
    BY <1>4, <2>1, <2>2 DEF DrainExhausted, RuntimeInv, ActionsInOrder
  <2>5. DrainBudget'
    BY <1>4 DEF DrainExhausted, AfterDrain, DrainBudget, Draining
  <2> QED BY <2>3, <2>4, <2>5 DEF RuntimeInv
<1>5. CASE \E d \in Gaps : Step(d)
  <2> PICK d \in Gaps : Step(d)
    BY <1>5
  <2>1. RuntimeTypeOK'
    <3>1. now' \in Nat /\ elapsed' \in Nat
      <4>1. d \in Nat /\ now \in Nat /\ elapsed \in Nat /\ Wrap \in Nat \ {0}
        BY DEF RuntimeInv, RuntimeTypeOK
      <4>2. (now + d) % Wrap \in Nat
        BY <4>1
      <4> QED BY <4>1, <4>2 DEF Step
    <3> QED BY <1>0, <3>1 DEF Step, BeginDrain, eventVars, RuntimeInv,
      RuntimeTypeOK
  <2>2. ActionsInOrder' /\ DrainBudget'
    BY DEF Step, BeginDrain, RuntimeInv, RuntimeTypeOK, ActionsInOrder,
      DrainBudget
  <2> QED BY <2>1, <2>2 DEF RuntimeInv
<1>6. CASE TickDone
  <2>1. RuntimeTypeOK'
    BY <1>0, <1>6 DEF TickDone, BeginDrain, eventVars, lifeVars, tickVars,
      RuntimeInv, RuntimeTypeOK
  <2>2. ActionsInOrder'
    BY <1>6 DEF TickDone, BeginDrain, eventVars, lifeVars, tickVars,
      RuntimeInv, ActionsInOrder
  <2>3. DrainBudget'
    BY <1>6 DEF TickDone, BeginDrain, eventVars, lifeVars, tickVars,
      RuntimeInv, RuntimeTypeOK, DrainBudget,
       Draining
  <2> QED BY <2>1, <2>2, <2>3 DEF RuntimeInv
<1>13. CASE NoTick
  <2>1. RuntimeTypeOK'
    BY <1>0, <1>13 DEF NoTick, BeginDrain, eventVars, lifeVars, tickVars,
      RuntimeInv, RuntimeTypeOK
  <2>2. ActionsInOrder'
    BY <1>13 DEF NoTick, BeginDrain, eventVars, lifeVars, tickVars,
      RuntimeInv, ActionsInOrder
  <2>3. DrainBudget'
    BY <1>13 DEF NoTick, BeginDrain, eventVars, lifeVars, tickVars,
      RuntimeInv, RuntimeTypeOK, DrainBudget,
       Draining
  <2> QED BY <2>1, <2>2, <2>3 DEF RuntimeInv
<1>7. CASE PostEvent
  <2>1. events' \in Seq(Nat) /\ Len(events') <= EventCap
    BY <1>7, AppendProperties DEF PostEvent, RuntimeInv, RuntimeTypeOK
  <2> QED
    BY <1>0, <1>7, <2>1 DEF PostEvent, actionVars, drainVars, lifeVars,
      tickVars,
       RuntimeInv, RuntimeTypeOK, ActionsInOrder, DrainBudget, Draining
<1>8. CASE Initialize
  <2>1. RuntimeTypeOK'
    BY <1>0, <1>8 DEF Initialize, actionVars, drainVars, RuntimeInv,
      RuntimeTypeOK
  <2>2. ActionsInOrder'
    BY <1>8 DEF Initialize, actionVars, drainVars, RuntimeInv, ActionsInOrder
  <2>3. DrainBudget'
    BY <1>8 DEF Initialize, actionVars, drainVars, RuntimeInv, RuntimeTypeOK,
      DrainBudget,
       Draining
  <2> QED BY <2>1, <2>2, <2>3 DEF RuntimeInv
<1>14. CASE RuntimeDeinit
  <2>1. RuntimeTypeOK'
    BY <1>0, <1>14 DEF RuntimeDeinit, actionVars, drainVars, RuntimeInv,
      RuntimeTypeOK
  <2>2. ActionsInOrder'
    BY <1>14 DEF RuntimeDeinit, actionVars, drainVars, RuntimeInv,
      ActionsInOrder
  <2>3. DrainBudget'
    BY <1>14 DEF RuntimeDeinit, actionVars, drainVars, RuntimeInv,
      RuntimeTypeOK, DrainBudget,
       Draining
  <2> QED BY <2>1, <2>2, <2>3 DEF RuntimeInv
<1>9. CASE StartNext \/ CallOnInit \/ InitDone
  BY <1>0, <1>9 DEF StartNext, CallOnInit, InitDone, actionVars, drainVars,
     eventVars, lifeVars, tickVars, RuntimeInv, RuntimeTypeOK, ActionsInOrder,
     DrainBudget, Draining
<1>10. CASE DrainEmpty
  <2>1. RuntimeTypeOK'
    BY <1>0, <1>10 DEF DrainEmpty, AfterDrain, actionVars, drainVars,
      eventVars, lifeVars, tickVars, RuntimeInv, RuntimeTypeOK
  <2>2. ActionsInOrder'
    BY <1>10 DEF DrainEmpty, AfterDrain, actionVars, drainVars, eventVars,
      lifeVars, tickVars, RuntimeInv, ActionsInOrder
  <2>3. DrainBudget'
    BY <1>10 DEF DrainEmpty, AfterDrain, actionVars, drainVars, eventVars,
      lifeVars, tickVars, RuntimeInv, RuntimeTypeOK, DrainBudget,
       Draining
  <2> QED BY <2>1, <2>2, <2>3 DEF RuntimeInv
<1>15. CASE PollNext
  <2>1. RuntimeTypeOK'
    BY <1>0, <1>15 DEF PollNext, actionVars, drainVars, eventVars, lifeVars,
      tickVars, RuntimeInv, RuntimeTypeOK
  <2>2. ActionsInOrder'
    BY <1>15 DEF PollNext, actionVars, drainVars, eventVars, lifeVars,
      tickVars, RuntimeInv, ActionsInOrder
  <2>3. DrainBudget'
    BY <1>15 DEF PollNext, actionVars, drainVars, eventVars, lifeVars,
      tickVars, RuntimeInv, RuntimeTypeOK, DrainBudget,
       Draining
  <2> QED BY <2>1, <2>2, <2>3 DEF RuntimeInv
<1>16. CASE PollDone
  <2>1. RuntimeTypeOK'
    BY <1>0, <1>16 DEF PollDone, actionVars, drainVars, eventVars, lifeVars,
      tickVars, RuntimeInv, RuntimeTypeOK
  <2>2. ActionsInOrder'
    BY <1>16 DEF PollDone, actionVars, drainVars, eventVars, lifeVars,
      tickVars, RuntimeInv, ActionsInOrder
  <2>3. DrainBudget'
    BY <1>16 DEF PollDone, actionVars, drainVars, eventVars, lifeVars,
      tickVars, RuntimeInv, RuntimeTypeOK, DrainBudget,
       Draining
  <2> QED BY <2>1, <2>2, <2>3 DEF RuntimeInv
<1>11. CASE Tick
  <2>1. RuntimeTypeOK'
    BY <1>0, <1>11 DEF Tick, actionVars, drainVars, eventVars, lifeVars,
      tickVars, RuntimeInv, RuntimeTypeOK
  <2>2. ActionsInOrder'
    BY <1>11 DEF Tick, actionVars, drainVars, eventVars, lifeVars, tickVars,
      RuntimeInv, ActionsInOrder
  <2>3. DrainBudget'
    BY <1>11 DEF Tick, actionVars, drainVars, eventVars, lifeVars, tickVars,
      RuntimeInv, RuntimeTypeOK, DrainBudget,
       Draining
  <2> QED BY <2>1, <2>2, <2>3 DEF RuntimeInv
<1>17. CASE Return
  <2>1. RuntimeTypeOK'
    BY <1>0, <1>17 DEF Return, actionVars, drainVars, eventVars, lifeVars,
      tickVars, RuntimeInv, RuntimeTypeOK
  <2>2. ActionsInOrder'
    BY <1>17 DEF Return, actionVars, drainVars, eventVars, lifeVars,
      tickVars, RuntimeInv, ActionsInOrder
  <2>3. DrainBudget'
    BY <1>17 DEF Return, actionVars, drainVars, eventVars, lifeVars,
      tickVars, RuntimeInv, RuntimeTypeOK, DrainBudget,
       Draining
  <2> QED BY <2>1, <2>2, <2>3 DEF RuntimeInv
<1>18. CASE Deinit
  <2>1. RuntimeTypeOK'
    BY <1>0, <1>18 DEF Deinit, actionVars, drainVars, eventVars, lifeVars,
      tickVars, RuntimeInv, RuntimeTypeOK
  <2>2. ActionsInOrder'
    BY <1>18 DEF Deinit, actionVars, drainVars, eventVars, lifeVars,
      tickVars, RuntimeInv, ActionsInOrder
  <2>3. DrainBudget'
    BY <1>18 DEF Deinit, actionVars, drainVars, eventVars, lifeVars,
      tickVars, RuntimeInv, RuntimeTypeOK, DrainBudget,
       Draining
  <2> QED BY <2>1, <2>2, <2>3 DEF RuntimeInv
<1>19. CASE StopNext
  <2>1. RuntimeTypeOK'
    BY <1>0, <1>19 DEF StopNext, actionVars, drainVars, eventVars, lifeVars,
      tickVars, RuntimeInv, RuntimeTypeOK
  <2>2. ActionsInOrder'
    BY <1>19 DEF StopNext, actionVars, drainVars, eventVars, lifeVars,
      tickVars, RuntimeInv, ActionsInOrder
  <2>3. DrainBudget'
    BY <1>19 DEF StopNext, actionVars, drainVars, eventVars, lifeVars,
      tickVars, RuntimeInv, RuntimeTypeOK, DrainBudget,
       Draining
  <2> QED BY <2>1, <2>2, <2>3 DEF RuntimeInv
<1>12. CASE UNCHANGED vars
  BY <1>0, <1>12 DEF vars, actionVars, drainVars, eventVars, lifeVars,
    tickVars,
     RuntimeInv, RuntimeTypeOK, ActionsInOrder, DrainBudget, Draining
<1> QED
  BY <1>1, <1>2, <1>3, <1>4, <1>5, <1>6, <1>7, <1>8, <1>9, <1>10, <1>11, <1>12,
     <1>13, <1>14, <1>15, <1>16, <1>17, <1>18, <1>19
  DEF Next, RuntimeThread

(* The fields of the runtime keep their ranges, drain_actions never runs   *)
(* more than its budget, and the queues never exceed their capacity.       *)
THEOREM RuntimeTypeCorrect == RuntimeSpec => []RuntimeTypeOK
<1>1. RuntimeInv => RuntimeTypeOK
  BY DEF RuntimeInv
<1> QED BY <1>1, RuntimeInvInit, RuntimeInvNext, PTL DEF RuntimeSpec

(* Actions reach update in the order they were accepted, each at most      *)
(* once, and only a drain that ran out of budget can lose one.             *)
THEOREM RuntimeActionsInOrder == RuntimeSpec => []ActionsInOrder
<1>1. RuntimeInv => ActionsInOrder
  BY DEF RuntimeInv
<1> QED BY <1>1, RuntimeInvInit, RuntimeInvNext, PTL DEF RuntimeSpec

(* drain_actions loses an action only after update itself accepted more    *)
(* than MaxDrain - ActionCap new ones during the same call: with the       *)
(* budgets of the code, more than 16.                                      *)
THEOREM RuntimeLossNeedsRedispatch == RuntimeSpec => LossNeedsRedispatch
<1>1. RuntimeInv /\ [Next]_vars
        => [lost' # lost => redispatched > MaxDrain - ActionCap]_vars
  <2> SUFFICES ASSUME RuntimeInv, Next, lost' # lost
               PROVE  redispatched > MaxDrain - ActionCap
    OBVIOUS
  <2>1. DrainExhausted
    BY DEF Next, RuntimeThread, StartNext, CallOnInit, InitDone, Step,
       UpdateNext, DrainEmpty, PollNext, PollDone, HandleEvent, Tick, TickDone,
       NoTick, StopNext, RuntimeDeinit, Return, Initialize, Deinit, Dispatch,
       PostEvent, drainVars
  <2>2. Len(actions) \in Nat /\ Len(actions) >= 1
    BY <2>1, HeadTailProperties DEF DrainExhausted, RuntimeInv, RuntimeTypeOK
  <2>3. MaxDrain + Len(actions) <= ActionCap + redispatched
    BY <2>1 DEF DrainExhausted, RuntimeInv, DrainBudget
  <2> QED BY <2>2, <2>3, RuntimeAssumption DEF RuntimeInv, RuntimeTypeOK
<1> QED
  BY <1>1, RuntimeInvInit, RuntimeInvNext, PTL DEF RuntimeSpec,
    LossNeedsRedispatch

-----------------------------------------------------------------------------
(* The run is a number and the events of the queue carry it.               *)
LEMMA EventsInvNext ==
  ASSUME RuntimeInv, EventsOfThisRun, [Next]_vars
  PROVE  EventsOfThisRun'
<1> USE DEF EventsOfThisRun
<1>1. CASE PostEvent
  <2>1. /\ Len(events') = Len(events) + 1 /\ Len(events) \in Nat
        /\ \A k \in 1 .. Len(events) : events'[k] = events[k]
        /\ events'[Len(events) + 1] = run
    BY <1>1, AppendProperties DEF PostEvent, RuntimeInv, RuntimeTypeOK
  <2>2. \A k \in 1 .. Len(events') : events'[k] = run
    <3> TAKE k \in 1 .. Len(events')
    <3>1. k = Len(events) + 1 \/ k \in 1 .. Len(events)
      BY <2>1
    <3> QED BY <2>1, <3>1
  <2> QED BY <1>1, <2>2 DEF PostEvent, lifeVars
<1>2. CASE HandleEvent
  <2>1. /\ Len(events') = Len(events) - 1 /\ Len(events) \in Nat
        /\ \A k \in 1 .. Len(events') : events'[k] = events[k + 1]
    BY <1>2, HeadTailProperties DEF HandleEvent, RuntimeInv, RuntimeTypeOK
  <2>2. \A k \in 1 .. Len(events') : events'[k] = run
    <3> TAKE k \in 1 .. Len(events')
    <3>1. k + 1 \in 1 .. Len(events)
      BY <2>1
    <3> QED BY <2>1, <3>1
  <2> QED BY <1>2, <2>2 DEF HandleEvent, lifeVars
<1>3. CASE Initialize \/ RuntimeDeinit
  <2>1. events' = << >>
    BY <1>3 DEF Initialize, RuntimeDeinit
  <2> QED BY <2>1
<1>4. CASE UNCHANGED <<events, run, initialized>>
  BY <1>4
<1> QED
  BY <1>1, <1>2, <1>3, <1>4
  DEF Next, RuntimeThread, StartNext, CallOnInit, InitDone, Step, UpdateNext,
      DrainExhausted, DrainEmpty, PollNext, PollDone, Tick, TickDone, NoTick,
      StopNext, Return, Deinit, Dispatch, vars, eventVars, lifeVars

(* An event is handled in the run it was posted in: none crosses a deinit. *)
THEOREM RuntimeEventsOfThisRun == RuntimeSpec => []EventsOfThisRun
<1>1. RuntimeInit => EventsOfThisRun
  BY DEF RuntimeInit, EventsOfThisRun
<1>2. RuntimeInv /\ EventsOfThisRun /\ [Next]_vars => EventsOfThisRun'
  BY EventsInvNext
<1> QED BY <1>1, <1>2, RuntimeInvInit, RuntimeInvNext, PTL DEF RuntimeSpec

-----------------------------------------------------------------------------
(* The subtraction of two uint32_t times is their distance on the circle.  *)
LEMMA WrappedDistance ==
  ASSUME NEW w \in Nat, NEW a \in 0 .. w - 1, NEW b \in 0 .. w - 1
  PROVE  (a - b) % w = IF a >= b THEN a - b ELSE a - b + w
<1> DEFINE k == a - b
<1>1. k \in -(w - 1) .. w - 1 /\ w >= 1
  OBVIOUS
<1> HIDE DEF k
<1>2. CASE k >= 0
  BY <1>1, <1>2 DEF k
<1>3. CASE k < 0
  BY <1>1, <1>3 DEF k
<1> QED BY <1>1, <1>2, <1>3 DEF k

(* Advancing the clock by less than Wrap wraps at most once.               *)
LEMMA WrappedSum ==
  ASSUME NEW w \in Nat, NEW a \in 0 .. w - 1, NEW d \in 0 .. w - 1
  PROVE  (a + d) % w = IF a + d < w THEN a + d ELSE a + d - w
<1> DEFINE k == a + d
<1>1. k \in 0 .. 2 * w - 2 /\ w >= 1
  OBVIOUS
<1> HIDE DEF k
<1>2. CASE k < w
  BY <1>1, <1>2 DEF k
<1>3. CASE k >= w
  BY <1>1, <1>3 DEF k
<1> QED BY <1>1, <1>2, <1>3 DEF k

(* The distance is preserved by every step: the wrapped comparison of      *)
(* runtime::step decides exactly as the real elapsed time would.           *)
LEMMA TickDistanceNext == TickDistance /\ [Next]_vars => TickDistance'
<1> SUFFICES ASSUME TickDistance, [Next]_vars PROVE TickDistance'
  OBVIOUS
<1> USE RuntimeAssumption
<1>1. CASE \E d \in Gaps : Step(d)
  <2> PICK d \in Gaps : Step(d)
    BY <1>1
  <2>1. d \in 0 .. Wrap - 1 /\ d + Period <= Wrap /\ Wrap \in Nat
    OBVIOUS
  <2>2. now \in 0 .. Wrap - 1
    BY DEF TickDistance
  <2>3. now' = IF now + d < Wrap THEN now + d ELSE now + d - Wrap
    BY <2>1, <2>2, WrappedSum DEF Step
  <2>4. CASE tickStarted
    <3>1. elapsed < Period /\ elapsed' = elapsed + d
      BY <2>4 DEF TickDistance, Step
    <3>2. tickStarted' /\ lastTick' = lastTick /\ pc' = "drain1"
      BY <2>4 DEF Step
    <3> QED BY <2>1, <2>3, <2>4, <3>1, <3>2 DEF TickDistance
  <2>5. CASE ~tickStarted
    <3>1. ~tickStarted' /\ lastTick' = lastTick /\ pc' = "drain1" /\ elapsed' = 0
      BY <2>5 DEF Step
    <3> QED BY <2>1, <2>2, <2>3, <3>1 DEF TickDistance
  <2> QED BY <2>4, <2>5
<1>2. CASE Tick \/ NoTick
  <2>1. tickStarted => (now - lastTick) % Wrap = elapsed
    <3>1. now \in 0 .. Wrap - 1 /\ lastTick \in 0 .. Wrap - 1
      BY DEF TickDistance
    <3> QED BY <3>1, WrappedDistance DEF TickDistance
  <2>2. CASE Tick
    BY <2>1, <2>2 DEF Tick, TickDue, TickDistance, tickVars
  <2>3. CASE NoTick
    BY <2>1, <2>3 DEF NoTick, TickDue, TickDistance, tickVars
  <2> QED BY <1>2, <2>2, <2>3
<1>3. CASE TickDone
  BY <1>3 DEF TickDone, TickDistance
<1>4. CASE Initialize \/ RuntimeDeinit
  BY <1>4 DEF Initialize, RuntimeDeinit, TickDistance
<1>5. CASE UNCHANGED <<pc, tickVars>>
  BY <1>5 DEF TickDistance, tickVars
<1>6. CASE StartNext \/ PollNext \/ StopNext \/ UpdateNext \/ HandleEvent
           \/ Return \/ Dispatch \/ PostEvent \/ UNCHANGED vars
  BY <1>5, <1>6 DEF StartNext, PollNext, StopNext, UpdateNext, HandleEvent,
     Return, Dispatch, PostEvent, vars
<1>7. CASE CallOnInit \/ PollDone \/ Deinit
  BY <1>7 DEF CallOnInit, PollDone, Deinit, TickDistance, tickVars
<1>8. CASE DrainExhausted \/ DrainEmpty
  BY <1>8 DEF DrainExhausted, DrainEmpty, AfterDrain, Draining, TickDistance,
     tickVars
<1>9. CASE InitDone
  BY <1>9 DEF InitDone, TickDistance, tickVars
<1> QED
  BY <1>1, <1>2, <1>3, <1>4, <1>6, <1>7, <1>8, <1>9 DEF Next, RuntimeThread

(* Across any number of wraps of now_ms, ticks are at least a period apart *)
(* and no step leaves one overdue, as long as step is called at least once *)
(* in every Wrap - Period milliseconds.                                    *)
THEOREM RuntimeTickOnTime == RuntimeSpec => []TickOnTime
<1>1. RuntimeInit => TickDistance
  BY RuntimeAssumption DEF RuntimeInit, TickDistance
<1>2. TickDistance => TickOnTime
  BY DEF TickDistance, TickOnTime
<1> QED BY <1>1, <1>2, TickDistanceNext, PTL DEF RuntimeSpec
-----------------------------------------------------------------------------
(* A nonempty set of numbers has a least element: what the inductions      *)
(* below use, with Less as the relation of the library's theorem.          *)
Less == {ss \in Nat \X Nat : ss[1] < ss[2]}

LEMMA LeastNat ==
  ASSUME NEW T, T \subseteq Nat, T # {}
  PROVE  \E n \in T : \A m \in T : n <= m
<1>1. IsWellFoundedOn(Less, Nat)
  BY NatLessThanWellFounded, Zenon DEF OpToRel, Less
<1>2. PICK n \in T : \A m \in T : <<m, n>> \notin Less
  BY <1>1, WFMin, Zenon
<1>3. \A x, y \in Nat : <<x, y>> \in Less <=> x < y
  BY DEF Less
<1>4. ASSUME NEW m \in T PROVE n <= m
  <2>1. m \in Nat /\ n \in Nat
    BY <1>2
  <2>2. ~ (m < n)
    BY <1>2, <1>3, <2>1, Zenon
  <2> QED BY <2>1, <2>2
<1> QED BY <1>2, <1>4

(* The loop over the product's list, as a step from one entry to the next. *)
LoopStep(g, i) ==
  IF i = 0 THEN << >>
  ELSE IF Capabilities[i] = Persistence THEN g[i - 1]
  ELSE Append(g[i - 1], Capabilities[i])

LEMMA OthersUpToDefined ==
  OthersUpTo = [i \in 0 .. Len(Capabilities) |-> LoopStep(OthersUpTo, i)]
<1> DEFINE Defined(n) == \E g : g = [i \in 0 .. n |-> LoopStep(g, i)]
           Bad == {n \in Nat : ~Defined(n)}
<1>1. Len(Capabilities) \in Nat
  BY RuntimeAssumption
<1>2. Defined(0)
  <2> DEFINE g == [i \in 0 .. 0 |-> << >>]
  <2>1. g = [i \in 0 .. 0 |-> LoopStep(g, i)]
    BY DEF LoopStep
  <2> QED BY <2>1
<1>3. ASSUME NEW n \in Nat, Defined(n) PROVE Defined(n + 1)
  <2>1. PICK g : g = [i \in 0 .. n |-> LoopStep(g, i)]
    BY <1>3
  <2> DEFINE h == [i \in 0 .. n + 1 |->
                     IF i = n + 1 THEN LoopStep(g, n + 1) ELSE g[i]]
  <2>2. ASSUME NEW i \in 0 .. n + 1 PROVE h[i] = LoopStep(h, i)
    <3>1. \A j \in 0 .. n : h[j] = g[j]
      OBVIOUS
    <3>2. LoopStep(h, i) = LoopStep(g, i)
      <4> HIDE DEF h
      <4> QED BY <3>1 DEF LoopStep
    <3>3. CASE i = n + 1
      BY <3>2, <3>3
    <3>4. CASE i # n + 1
      <4>1. i \in 0 .. n
        BY <3>4
      <4>2. g[i] = LoopStep(g, i)
        BY <2>1, <4>1
      <4> QED BY <3>1, <3>2, <4>1, <4>2
    <3> QED BY <3>3, <3>4
  <2>3. h = [i \in 0 .. n + 1 |-> LoopStep(h, i)]
    <3>1. h = [i \in 0 .. n + 1 |-> h[i]]
      OBVIOUS
    <3> HIDE DEF h
    <3> QED BY <2>2, <3>1
  <2> HIDE DEF h
  <2> QED BY <2>3
<1> HIDE DEF Defined
<1>4. Bad = {}
  <2> SUFFICES ASSUME Bad # {} PROVE FALSE
    OBVIOUS
  <2>1. PICK n \in Bad : \A m \in Bad : n <= m
    BY LeastNat
  <2>2. n # 0
    BY <1>2, <2>1
  <2>3. n - 1 \in Nat /\ n - 1 \notin Bad
    BY <2>1, <2>2
  <2> QED BY <1>3, <2>1, <2>2, <2>3
<1>5. Defined(Len(Capabilities))
  BY <1>1, <1>4
<1> QED
  BY <1>5, Zenon DEF Defined, OthersUpTo, LoopStep

(* What starts after persistence is a list of capabilities.                *)
LEMMA OthersSeq == Others \in Seq(STRING)
<1> DEFINE Bad == {n \in Nat : /\ n <= Len(Capabilities)
                               /\ OthersUpTo[n] \notin Seq(STRING)}
<1>1. Len(Capabilities) \in Nat /\ Capabilities \in Seq(STRING)
  BY RuntimeAssumption
<1>2. \A i \in 0 .. Len(Capabilities) : OthersUpTo[i] = LoopStep(OthersUpTo, i)
  BY OthersUpToDefined
<1>3. Bad = {}
  <2> SUFFICES ASSUME Bad # {} PROVE FALSE
    OBVIOUS
  <2>1. PICK n \in Bad : \A m \in Bad : n <= m
    BY LeastNat
  <2>2. OthersUpTo[n] = LoopStep(OthersUpTo, n)
    BY <1>1, <1>2
  <2>3. n # 0
    <3>1. << >> \in Seq(STRING)
      OBVIOUS
    <3> QED BY <2>1, <2>2, <3>1 DEF LoopStep
  <2>4. n - 1 \in Nat /\ OthersUpTo[n - 1] \in Seq(STRING)
    BY <1>1, <2>1, <2>3
  <2>5. Capabilities[n] \in STRING
    BY <1>1, <2>3
  <2>6. OthersUpTo[n] \in Seq(STRING)
    <3> DEFINE before == OthersUpTo[n - 1]
    <3>1. OthersUpTo[n] \in {before, Append(before, Capabilities[n])}
      BY <2>2, <2>3 DEF LoopStep
    <3>2. before \in Seq(STRING)
      BY <2>4
    <3> HIDE DEF before
    <3>3. Append(before, Capabilities[n]) \in Seq(STRING)
      BY <2>5, <3>2
    <3> QED BY <3>1, <3>2, <3>3
  <2> QED BY <2>1, <2>6
<1> QED BY <1>1, <1>3 DEF Others

(* Three lists after one another, and the same backwards: the first has at *)
(* most one entry and is its own reverse.                                  *)
LEMMA ThreeBackwards ==
  ASSUME NEW a \in Seq(STRING), NEW b \in Seq(STRING), NEW c \in Seq(STRING),
         Len(a) <= 1
  PROVE  LET s == a \o b \o c
             r == Reverse(c) \o Reverse(b) \o a
         IN  /\ s \in Seq(STRING) /\ Len(r) = Len(s)
             /\ \A k \in 1 .. Len(s) : r[k] = s[Len(s) + 1 - k]
<1> DEFINE rb == Reverse(b)  rc == Reverse(c)
           s == (a \o b) \o c  r == (rc \o rb) \o a
           i == Len(a)  j == Len(b)  l == Len(c)
<1>1. ASSUME NEW t \in Seq(STRING)
      PROVE  /\ Reverse(t) \in Seq(STRING) /\ Len(Reverse(t)) = Len(t)
             /\ \A k \in 1 .. Len(t) : Reverse(t)[k] = t[Len(t) + 1 - k]
  BY DEF Reverse
<1>2. /\ rb \in Seq(STRING) /\ Len(rb) = j
      /\ \A k \in 1 .. j : rb[k] = b[j + 1 - k]
  BY <1>1
<1>3. /\ rc \in Seq(STRING) /\ Len(rc) = l
      /\ \A k \in 1 .. l : rc[k] = c[l + 1 - k]
  BY <1>1
<1>4. i \in Nat /\ i <= 1 /\ j \in Nat /\ l \in Nat
  BY LenProperties
<1> HIDE DEF rb, rc
<1>5. /\ s \in Seq(STRING) /\ Len(s) = i + j + l
      /\ \A k \in 1 .. i + j + l :
           s[k] = IF k <= i THEN a[k]
                  ELSE IF k <= i + j THEN b[k - i] ELSE c[k - (i + j)]
  <2>1. /\ a \o b \in Seq(STRING) /\ Len(a \o b) = i + j
        /\ \A k \in 1 .. i + j :
             (a \o b)[k] = IF k <= i THEN a[k] ELSE b[k - i]
    BY ConcatProperties
  <2> DEFINE ab == a \o b
  <2> HIDE DEF ab
  <2>2. /\ ab \o c \in Seq(STRING) /\ Len(ab \o c) = i + j + l
        /\ \A k \in 1 .. i + j + l :
             (ab \o c)[k] = IF k <= i + j THEN ab[k] ELSE c[k - (i + j)]
    BY <2>1, ConcatProperties DEF ab
  <2> QED BY <1>4, <2>1, <2>2 DEF ab
<1>6. /\ Len(r) = i + j + l
      /\ \A k \in 1 .. i + j + l :
           r[k] = IF k <= l THEN rc[k]
                  ELSE IF k <= l + j THEN rb[k - l] ELSE a[k - (l + j)]
  <2>1. /\ rc \o rb \in Seq(STRING) /\ Len(rc \o rb) = l + j
        /\ \A k \in 1 .. l + j :
             (rc \o rb)[k] = IF k <= l THEN rc[k] ELSE rb[k - l]
    <3>1. /\ rc \o rb \in Seq(STRING) /\ Len(rc \o rb) = Len(rc) + Len(rb)
          /\ \A k \in 1 .. Len(rc) + Len(rb) :
               (rc \o rb)[k] = IF k <= Len(rc) THEN rc[k] ELSE rb[k - Len(rc)]
      <4>1. rb \in Seq(STRING) /\ rc \in Seq(STRING)
        BY <1>2, <1>3
      <4> QED BY <4>1, ConcatProperties
    <3> QED BY <1>2, <1>3, <3>1
  <2> DEFINE cb == rc \o rb
  <2> HIDE DEF cb
  <2>2. /\ Len(cb \o a) = i + j + l
        /\ \A k \in 1 .. i + j + l :
             (cb \o a)[k] = IF k <= l + j THEN cb[k] ELSE a[k - (l + j)]
    <3>1. /\ Len(cb \o a) = Len(cb) + i
          /\ \A k \in 1 .. Len(cb) + i :
               (cb \o a)[k] = IF k <= Len(cb) THEN cb[k] ELSE a[k - Len(cb)]
      BY <2>1, ConcatProperties DEF cb
    <3>2. Len(cb) = l + j
      BY <2>1 DEF cb
    <3>3. Len(cb) + i = i + j + l
      BY <1>4, <3>2
    <3> QED BY <3>1, <3>2, <3>3
  <2> QED BY <1>4, <2>1, <2>2 DEF cb
<1> HIDE DEF s, r, i, j, l
<1>7. ASSUME NEW k \in 1 .. i + j + l PROVE r[k] = s[i + j + l + 1 - k]
  <2> DEFINE m == i + j + l + 1 - k
  <2>1. /\ m \in 1 .. i + j + l /\ k \in Int /\ m \in Int
        /\ m = i + j + l + 1 - k
    BY <1>4
  <2> HIDE DEF m
  <2>2. CASE k <= l
    <3>1. r[k] = c[l + 1 - k]
      BY <1>3, <1>4, <1>6, <2>1, <2>2
    <3>2. s[m] = c[m - (i + j)] /\ m - (i + j) = l + 1 - k
      BY <1>4, <1>5, <2>1, <2>2
    <3> QED BY <3>1, <3>2 DEF m
  <2>3. CASE l < k /\ k <= l + j
    <3>1. r[k] = b[j + 1 - (k - l)]
      BY <1>2, <1>4, <1>6, <2>1, <2>3
    <3>2. s[m] = b[m - i] /\ m - i = j + 1 - (k - l)
      BY <1>4, <1>5, <2>1, <2>3
    <3> QED BY <3>1, <3>2 DEF m
  <2>4. CASE l + j < k
    <3>1. r[k] = a[k - (l + j)] /\ k - (l + j) = 1
      BY <1>4, <1>6, <2>1, <2>4
    <3>2. s[m] = a[m] /\ m = 1
      BY <1>4, <1>5, <2>1, <2>4
    <3> QED BY <3>1, <3>2 DEF m
  <2> QED BY <1>4, <2>1, <2>2, <2>3, <2>4
<1>8. s \in Seq(STRING) /\ Len(r) = Len(s)
      /\ \A k \in 1 .. Len(s) : r[k] = s[Len(s) + 1 - k]
  BY <1>5, <1>6, <1>7
<1> QED BY <1>8 DEF s, r, rb, rc

(* The stopping loops visit what the starting loops did, backwards.        *)
LEMMA StopsBackwards ==
  /\ StartOrder \in Seq(STRING) /\ Len(StopOrder) = Len(StartOrder)
  /\ \A k \in 1 .. Len(StartOrder) :
       StopOrder[k] = StartOrder[Len(StartOrder) + 1 - k]
<1>1. Owner \in Seq(STRING) /\ Len(Owner) <= 1
  <2>1. CASE Persistence \in ToSet(Capabilities)
    <3>1. Persistence \in STRING
      BY <2>1, RuntimeAssumption DEF ToSet
    <3>2. ASSUME NEW S, NEW x \in S
          PROVE  <<x>> \in Seq(S) /\ Len(<<x>>) = 1
      OBVIOUS
    <3>3. <<Persistence>> \in Seq(STRING) /\ Len(<<Persistence>>) = 1
      BY <3>1, <3>2, Zenon
    <3>4. Owner = <<Persistence>>
      BY <2>1 DEF Owner
    <3> QED BY <3>3, <3>4
  <2>2. CASE Persistence \notin ToSet(Capabilities)
    BY <2>2 DEF Owner
  <2> QED BY <2>1, <2>2
<1> QED
  BY <1>1, OthersSeq, ThreeBackwards, RuntimeAssumption
  DEF StartOrder, StopOrder

-----------------------------------------------------------------------------
(* What has started and not stopped is a prefix of the start order, whole  *)
(* while the application runs; while it stops, what the loop has visited   *)
(* is missing at its end.                                                  *)
OrderInv ==
  /\ started \in Seq(STRING) /\ Len(started) <= Len(StartOrder)
  /\ \A k \in 1 .. Len(started) : started[k] = StartOrder[k]
  /\ pc = "down" => started = << >>
  /\ pc = "stopping" =>
       visited \in Nat /\ Len(started) = Len(StartOrder) - visited
  /\ pc \notin {"down", "starting", "stopping"}
       => Len(started) = Len(StartOrder)

(* The entry that stops is the last one that started, so that taking it    *)
(* away leaves what started before it.                                     *)
LEMMA StopsLast ==
  ASSUME OrderInv, StopNext
  PROVE  /\ Len(started) > 0 /\ Len(started) = Len(StartOrder) - visited
         /\ started' = SubSeq(started, 1, Len(started) - 1)
<1>1. /\ visited \in Nat /\ visited < Len(StartOrder)
      /\ Len(started) = Len(StartOrder) - visited
      /\ started \in Seq(STRING) /\ StartOrder \in Seq(STRING)
  BY StopsBackwards DEF OrderInv, StopNext
<1>2. StopOrder[visited + 1] = StartOrder[Len(started)]
  BY <1>1, StopsBackwards
<1>3. started[Len(started)] = StopOrder[visited + 1]
  BY <1>1, <1>2 DEF OrderInv
<1>4. PICK i \in 1 .. Len(started) :
        /\ \A j \in i + 1 .. Len(started) : started[j] # StopOrder[visited + 1]
        /\ started' = RemoveAt(started, i)
  BY <1>1 DEF StopNext, Undo
<1>5. i = Len(started)
  BY <1>1, <1>3, <1>4
<1>6. started' = SubSeq(started, 1, Len(started) - 1) \o << >>
  <2>1. SubSeq(started, Len(started) + 1, Len(started)) = << >>
    BY <1>1, SubSeqEmpty
  <2> QED BY <1>4, <1>5, <2>1 DEF RemoveAt
<1> QED BY <1>1, <1>6

LEMMA OrderInvNext == OrderInv /\ [Next]_vars => OrderInv'
<1> SUFFICES ASSUME OrderInv, [Next]_vars PROVE OrderInv'
  OBVIOUS
<1>0. /\ StartOrder \in Seq(STRING) /\ Len(StartOrder) \in Nat
      /\ Len(StopOrder) = Len(StartOrder)
  BY StopsBackwards
<1> USE <1>0 DEF OrderInv, lifeVars
<1>1. CASE StartNext
  <2>1. /\ Len(started) < Len(StartOrder)
        /\ started' = Append(started, StartOrder[Len(started) + 1])
        /\ pc' = "starting" /\ pc = "starting"
    BY <1>1 DEF StartNext
  <2>2. StartOrder[Len(started) + 1] \in STRING
    BY <2>1
  <2> QED BY <2>1, <2>2
<1>2. CASE StopNext
  <2>1. started' = SubSeq(started, 1, Len(started) - 1)
        /\ Len(started) > 0 /\ Len(started) = Len(StartOrder) - visited
    BY <1>2, StopsLast
  <2>2. /\ pc' = "stopping" /\ visited' = visited + 1 /\ pc = "stopping"
    BY <1>2 DEF StopNext
  <2>3. /\ started' \in Seq(STRING) /\ Len(started') = Len(started) - 1
        /\ \A k \in 1 .. Len(started') : started'[k] = started[k]
    BY <2>1
  <2> QED BY <2>1, <2>2, <2>3
<1>3. CASE RuntimeDeinit
  BY <1>3 DEF RuntimeDeinit
<1>4. CASE Initialize \/ Deinit
  BY <1>4 DEF Initialize, Deinit
<1>5. CASE CallOnInit \/ InitDone \/ Return
  BY <1>5 DEF CallOnInit, InitDone, Return
<1>6. CASE Dispatch \/ PostEvent
  BY <1>6 DEF Dispatch, PostEvent
<1>7. CASE \E d \in Gaps : Step(d)
  BY <1>7 DEF Step
<1>8. CASE UpdateNext \/ DrainExhausted \/ DrainEmpty
  BY <1>8 DEF UpdateNext, DrainExhausted, DrainEmpty, AfterDrain, Draining
<1>9. CASE PollNext \/ PollDone \/ HandleEvent
  BY <1>9 DEF PollNext, PollDone, HandleEvent
<1>10. CASE Tick \/ TickDone \/ NoTick
  BY <1>10 DEF Tick, TickDone, NoTick
<1>11. CASE UNCHANGED vars
  BY <1>11 DEF vars
<1> QED
  BY <1>1, <1>2, <1>3, <1>4, <1>5, <1>6, <1>7, <1>8, <1>9, <1>10, <1>11
  DEF Next, RuntimeThread

(* stop_flows and stop_capabilities stop in the exact reverse of the order *)
(* of starts, for every product's list, persistence being anywhere in it.  *)
THEOREM RuntimeStopsInReverse == RuntimeSpec => StopsInReverse
<1>1. RuntimeInit => OrderInv
  BY StopsBackwards DEF RuntimeInit, OrderInv
<1>2. OrderInv /\ [Next]_vars
        => [Len(started') < Len(started)
              => started' = SubSeq(started, 1, Len(started) - 1)]_vars
  <2> SUFFICES ASSUME OrderInv, Next, Len(started') < Len(started)
               PROVE  started' = SubSeq(started, 1, Len(started) - 1)
    OBVIOUS
  <2>1. Len(started) \in Nat /\ started \in Seq(STRING)
    BY DEF OrderInv
  <2>2. started' # started /\ ~StartNext
    <3>1. ASSUME StartNext PROVE FALSE
      <4>1. /\ started' = Append(started, StartOrder[Len(started) + 1])
            /\ Len(started) < Len(StartOrder) /\ StartOrder \in Seq(STRING)
        BY <3>1, StopsBackwards DEF StartNext
      <4>2. StartOrder[Len(started) + 1] \in STRING
        BY <2>1, <4>1
      <4> QED BY <2>1, <4>1, <4>2
    <3> QED BY <2>1, <3>1
  <2>3. StopNext
    BY <2>2
    DEF Next, RuntimeThread, CallOnInit, InitDone, Step, UpdateNext,
        DrainExhausted, DrainEmpty, PollNext, PollDone, HandleEvent, Tick,
        TickDone, NoTick, RuntimeDeinit, Return, Initialize, Deinit, Dispatch,
        PostEvent, lifeVars
  <2> QED BY <2>3, StopsLast
<1> QED BY <1>1, <1>2, OrderInvNext, PTL DEF RuntimeSpec, StopsInReverse
=============================================================================
