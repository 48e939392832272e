---------------------------- MODULE BoundedQueue ----------------------------
(***************************************************************************)
(* What blusys::ring_buffer promises its two users, the action queue of    *)
(* app_runtime and the event queue of runtime: a first-in first-out queue  *)
(* of at most Capacity values that rejects a push when it is full and a    *)
(* pop when it is empty, and changes nothing when it rejects.              *)
(*                                                                         *)
(* `reply` is what the last call returned: its operation, its bool result  *)
(* and, for a successful pop, the value written through out_value.         *)
(***************************************************************************)
EXTENDS Naturals, Sequences

CONSTANTS
  Value,      \* what the queue carries: actions or events
  NoValue,    \* the default-constructed T of an untouched slot
  Capacity    \* the template parameter N of ring_buffer

VARIABLES queue, reply

queueVars == <<queue, reply>>

Replies == [op : {"none", "push", "pop", "clear"}, ok : BOOLEAN,
            value : Value \cup {NoValue}]

Reply(op, ok, value) == [op |-> op, ok |-> ok, value |-> value]

QueueInit ==
  /\ queue = << >>
  /\ reply = Reply("none", TRUE, NoValue)

Push(v) ==
  /\ Len(queue) < Capacity
  /\ queue' = Append(queue, v)
  /\ reply' = Reply("push", TRUE, v)

RejectPush(v) ==
  /\ Len(queue) = Capacity
  /\ reply' = Reply("push", FALSE, v)
  /\ UNCHANGED queue

Pop ==
  /\ queue # << >>
  /\ queue' = Tail(queue)
  /\ reply' = Reply("pop", TRUE, Head(queue))

RejectPop ==
  /\ queue = << >>
  /\ reply' = Reply("pop", FALSE, NoValue)
  /\ UNCHANGED queue

Clear ==
  /\ queue' = << >>
  /\ reply' = Reply("clear", TRUE, NoValue)

QueueNext ==
  \/ \E v \in Value : Push(v) \/ RejectPush(v)
  \/ Pop
  \/ RejectPop
  \/ Clear

QueueSpec == QueueInit /\ [][QueueNext]_queueVars
=============================================================================
