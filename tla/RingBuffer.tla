----------------------------- MODULE RingBuffer -----------------------------
(***************************************************************************)
(* blusys::ring_buffer<T, N> (framework/containers.hpp), called from one   *)
(* thread: a fixed array, the index of the oldest element, the index of    *)
(* the next free slot and a count.  Popped slots keep their old value.     *)
(* The module EventRing breaks the same two operations into their memory   *)
(* accesses, for callers on several threads.                               *)
(***************************************************************************)
EXTENDS Naturals, Sequences

CONSTANTS Value, NoValue, Capacity

ASSUME RingAssumption ==
  /\ Capacity \in Nat \ {0}
  /\ NoValue \notin Value

VARIABLES
  storage,   \* storage_[0 .. N-1]
  head,      \* head_, the oldest element
  tail,      \* tail_, the next free slot
  size,      \* size_
  reply      \* the result of the last call

ringVars == <<storage, head, tail, size, reply>>

Slot == 0 .. Capacity - 1

\* Fault: the index wraps one slot late.
SuccLate(i) == (i + 1) % (Capacity + 1)

\* The ring's successor of a slot index.
Succ(i) == (i + 1) % Capacity

Reply(op, ok, value) == [op |-> op, ok |-> ok, value |-> value]

RingInit ==
  /\ storage = [i \in Slot |-> NoValue]
  /\ head = 0
  /\ tail = 0
  /\ size = 0
  /\ reply = Reply("none", TRUE, NoValue)

PushBackFull(v) ==
  /\ size = Capacity
  /\ reply' = Reply("push", FALSE, v)
  /\ UNCHANGED <<storage, head, tail, size>>

PushBack(v) ==
  /\ size # Capacity
  /\ storage' = [storage EXCEPT ![tail] = v]
  /\ tail' = Succ(tail)
  /\ size' = size + 1
  /\ reply' = Reply("push", TRUE, v)
  /\ UNCHANGED head

PopFrontEmpty ==
  /\ size = 0
  /\ reply' = Reply("pop", FALSE, NoValue)
  /\ UNCHANGED <<storage, head, tail, size>>

\* Fault: the popped element is read after the head has moved.
PopFrontMovesFirst ==
  /\ size # 0
  /\ reply' = Reply("pop", TRUE, storage[Succ(head)])
  /\ head' = Succ(head)
  /\ size' = size - 1
  /\ UNCHANGED <<storage, tail>>

PopFront ==
  /\ size # 0
  /\ reply' = Reply("pop", TRUE, storage[head])
  /\ head' = Succ(head)
  /\ size' = size - 1
  /\ UNCHANGED <<storage, tail>>

ClearRing ==
  /\ head' = 0
  /\ tail' = 0
  /\ size' = 0
  /\ reply' = Reply("clear", TRUE, NoValue)
  /\ UNCHANGED storage

RingNext ==
  \/ \E v \in Value : PushBack(v) \/ PushBackFull(v)
  \/ PopFront
  \/ PopFrontEmpty
  \/ ClearRing

RingSpec == RingInit /\ [][RingNext]_ringVars

-----------------------------------------------------------------------------
(* The slot that holds the k-th oldest element, and the queue the ring     *)
(* represents: the refinement mapping to BoundedQueue.                     *)
SlotOf(k) == (head + (k - 1)) % Capacity

Contents == [k \in 1 .. size |-> storage[SlotOf(k)]]

Abstract == INSTANCE BoundedQueue WITH queue <- Contents

(* Type invariant of the four fields and the reply.                        *)
RingTypeOK ==
  /\ storage \in [Slot -> Value \cup {NoValue}]
  /\ head \in Slot
  /\ tail \in Slot
  /\ size \in 0 .. Capacity
  /\ reply \in Abstract!Replies

(* The redundant count never disagrees with the two indices: the next free *)
(* slot is always size places after the oldest element, which is what lets *)
(* push_back write without looking at head_.                               *)
IndicesAgree == tail = (head + size) % Capacity

(* No slot that the ring counts as occupied still holds its default value, *)
(* so a consumer never receives an action or event nobody pushed.          *)
OccupiedSlotsWritten == \A k \in 1 .. size : storage[SlotOf(k)] \in Value

(* The fields of the ring agree with each other in every state.            *)
RingInv == RingTypeOK /\ IndicesAgree /\ OccupiedSlotsWritten

(* push_back, pop_front and clear implement the bounded first-in first-out *)
(* queue: same replies, same order, nothing overwritten while queued.      *)
ImplementsQueue == Abstract!QueueSpec
=============================================================================
