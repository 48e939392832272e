------------------------------ MODULE EventRing ------------------------------
(***************************************************************************)
(* The event queue of blusys::runtime as several threads see it.           *)
(* post_integration_event and post_intent reach ring_buffer::push_back on  *)
(* the caller's thread (a service callback, the esp_timer task of a        *)
(* button), while step pops on the runtime's: no lock is taken on either   *)
(* side, so the memory accesses of the two interleave.                     *)
(*                                                                         *)
(* A thread reads size_, then the index, touches the slot, stores the      *)
(* index and stores size_; the compiler may use the size_ it has already   *)
(* read or read it again for the last store, and both are allowed here.    *)
(***************************************************************************)
EXTENDS Naturals, SequencesExt

CONSTANTS
  Posters,    \* threads that post events
  Runtime,    \* the thread that runs step, and may post as well
  Capacity,   \* kMaxQueuedEvents
  NoEvent,    \* an app_event never posted
  MaxPosts    \* bound: calls of post_event, numbered 1 .. MaxPosts

Threads == Posters \cup {Runtime}
Event == 1 .. MaxPosts

VARIABLES
  storage, head, tail, size,  \* the fields of ring_buffer
  pc,         \* where each thread is in push_back or pop_front
  local,      \* its registers: the size read, the index read, the event
  posts,      \* how many calls of post_event have begun
  accepted,   \* the events for which push_back returned true
  delivered   \* what pop_front handed to handle_event, in order

shared == <<storage, head, tail, size>>
vars == <<shared, pc, local, posts, accepted, delivered>>

Idle == [size |-> 0, index |-> 0, event |-> NoEvent]

Succ(i) == (i + 1) % Capacity

EventInit ==
  /\ storage = [i \in 0 .. Capacity - 1 |-> NoEvent]
  /\ head = 0 /\ tail = 0 /\ size = 0
  /\ pc = [t \in Threads |-> "idle"]
  /\ local = [t \in Threads |-> Idle]
  /\ posts = 0 /\ accepted = << >> /\ delivered = << >>

Go(t, from, to) == pc[t] = from /\ pc' = [pc EXCEPT ![t] = to]

Return(t) == local' = [local EXCEPT ![t] = Idle]

-----------------------------------------------------------------------------
(* push_back, one memory access at a time.                                 *)
PushFull(t) ==
  /\ t \in Posters /\ posts < MaxPosts /\ size = Capacity
  /\ pc[t] = "idle"
  /\ posts' = posts + 1
  /\ UNCHANGED <<shared, pc, local, accepted, delivered>>

PushBegin(t) ==
  /\ t \in Posters /\ posts < MaxPosts /\ size # Capacity
  /\ Go(t, "idle", "push_slot")
  /\ posts' = posts + 1
  /\ local' = [local EXCEPT ![t].size = size, ![t].event = posts + 1]
  /\ UNCHANGED <<shared, accepted, delivered>>

PushSlot(t) ==
  /\ Go(t, "push_slot", "push_tail")
  /\ storage' = [storage EXCEPT ![tail] = local[t].event]
  /\ local' = [local EXCEPT ![t].index = tail]
  /\ UNCHANGED <<head, tail, size, posts, accepted, delivered>>

PushTail(t) ==
  /\ Go(t, "push_tail", "push_size")
  /\ tail' = Succ(local[t].index)
  /\ UNCHANGED <<storage, head, size, local, posts, accepted, delivered>>

PushSize(t) ==
  /\ Go(t, "push_size", "idle")
  /\ size' = local[t].size + 1
  /\ accepted' = Append(accepted, local[t].event)
  /\ Return(t)
  /\ UNCHANGED <<storage, head, tail, posts, delivered>>

(* size_ is read again before it is incremented or decremented.            *)
ReloadSize(t) ==
  /\ pc[t] \in {"push_size", "pop_size"}
  /\ local' = [local EXCEPT ![t].size = size]
  /\ UNCHANGED <<shared, pc, posts, accepted, delivered>>

-----------------------------------------------------------------------------
(* pop_front inside step.                                                  *)
PopBegin ==
  /\ Go(Runtime, "idle", "pop_slot") /\ size # 0
  /\ local' = [local EXCEPT ![Runtime].size = size]
  /\ UNCHANGED <<shared, posts, accepted, delivered>>

PopSlot ==
  /\ Go(Runtime, "pop_slot", "pop_head")
  /\ local' = [local EXCEPT ![Runtime].index = head,
                            ![Runtime].event = storage[head]]
  /\ UNCHANGED <<shared, posts, accepted, delivered>>

PopHead ==
  /\ Go(Runtime, "pop_head", "pop_size")
  /\ head' = Succ(local[Runtime].index)
  /\ UNCHANGED <<storage, tail, size, local, posts, accepted, delivered>>

PopSize ==
  /\ Go(Runtime, "pop_size", "idle")
  /\ size' = local[Runtime].size - 1
  /\ delivered' = Append(delivered, local[Runtime].event)
  /\ Return(Runtime)
  /\ UNCHANGED <<storage, head, tail, posts, accepted>>

Next ==
  \/ \E t \in Threads :
       PushFull(t) \/ PushBegin(t) \/ PushSlot(t) \/ PushTail(t) \/ PushSize(t)
         \/ ReloadSize(t)
  \/ PopBegin \/ PopSlot \/ PopHead \/ PopSize

EventSpec == EventInit /\ [][Next]_vars

-----------------------------------------------------------------------------
(* The events ring_buffer counts as queued.                                *)
Contents == [k \in 1 .. size |-> storage[(head + (k - 1)) % Capacity]]

(* "post_integration_event() is the ONLY cross-thread-safe entry into the  *)
(* runtime" (capability.hpp): when no call is under way, the events whose  *)
(* post was accepted are those delivered so far, then those still queued,  *)
(* each once.                                                              *)
AcceptedEventsDelivered ==
  (\A t \in Threads : pc[t] = "idle")
    => /\ size <= Capacity
       /\ ToSet(accepted) = ToSet(delivered) \cup ToSet(Contents)
       /\ Len(accepted) = Len(delivered) + Len(Contents)
=============================================================================
