----------------------------- MODULE AppRuntime -----------------------------
(***************************************************************************)
(* blusys::app_runtime (framework/app/internal/app_runtime.hpp) over the   *)
(* event loop of blusys::runtime (framework/events/event_queue.cpp): the   *)
(* one thread that calls init, step and deinit, the bounded action and     *)
(* event queues, the drain budget, the tick, and the order in which        *)
(* capabilities and flows are started and stopped.                         *)
(*                                                                         *)
(* The two queues are the sequences of BoundedQueue, which RingBuffer is   *)
(* proved to implement.  Actions are numbered in the order post_action     *)
(* accepted them.  Product and capability code is arbitrary: while `call`  *)
(* says that it runs, it may dispatch actions and post events, any number  *)
(* of each, and then return.                                               *)
(***************************************************************************)
EXTENDS Integers, SequencesExt

CONSTANTS
  ActionCap,     \* budget::action_queue_depth, 16
  EventCap,      \* budget::event_queue_depth
  MaxDrain,      \* app_runtime::kMaxDrainIterations, 32
  Period,        \* spec.tick_period_ms
  Wrap,          \* now_ms is counted modulo Wrap, 2^32
  Gaps,          \* milliseconds that may pass between two calls of step
  Capabilities,  \* spec.capabilities, the order of the product's list
  Flows,         \* spec.flows
  Persistence,   \* the entry of Capabilities that ctx.get finds for NVS
  MaxActions,    \* bound: actions accepted over a behaviour
  MaxDrops,      \* bound: dispatches rejected over a behaviour
  MaxEvents,     \* bound: events accepted over a behaviour
  MaxRuns        \* bound: runs are numbered 1 .. MaxRuns, then from 1 again

\* A gap between two steps leaves the distance from the last tick below Wrap.
ASSUME RuntimeAssumption ==
  /\ ActionCap \in Nat \ {0} /\ EventCap \in Nat \ {0}
  /\ MaxDrain \in Nat /\ ActionCap <= MaxDrain
  /\ Period \in Nat \ {0} /\ Wrap \in Nat
  /\ Gaps \subseteq Nat /\ \A d \in Gaps : d + Period <= Wrap
  /\ Period <= Wrap
  /\ Capabilities \in Seq(STRING) /\ Flows \in Seq(STRING)
  /\ MaxActions \in Nat /\ MaxDrops \in Nat /\ MaxEvents \in Nat
  /\ MaxRuns \in Nat \ {0}

VARIABLES
  pc,           \* where the runtime thread is
  call,         \* whose code the runtime is calling
  actions,      \* action_queue_, the numbers of the queued actions
  accepted,     \* how many actions post_action has accepted
  handled,      \* the actions given to update so far
  lost,         \* the accepted actions that were popped and not given to it
  drops,        \* ctx.action_queue_drop_count_
  iterations,   \* the local of drain_actions
  redispatched, \* actions accepted since this drain_actions began
  events,       \* event_queue_, the run in which each event was posted
  posted,       \* how many events post_event has accepted
  run,          \* the number of the current or last run, 0 before the first
  initialized,  \* runtime::initialized_
  started,      \* capabilities and flows started and not stopped, in order
  bound,        \* ctx.product_state_ is not null
  visited,      \* how far the polling or the stopping loop has come
  now,          \* the now_ms of the current step
  lastTick,     \* last_tick_ms_
  tickStarted,  \* tick_started_
  elapsed       \* real milliseconds from the last tick to `now`

actionVars == <<actions, accepted, drops, redispatched>>
drainVars  == <<handled, lost, iterations>>
eventVars  == <<events, posted>>
lifeVars   == <<run, initialized, started, bound, visited>>
tickVars   == <<now, lastTick, tickStarted, elapsed>>
vars == <<pc, call, actionVars, drainVars, eventVars, lifeVars, tickVars>>

Phases == {"down", "starting", "on_init", "idle", "drain1", "poll", "events",
           "tick", "drain2", "stopping"}

(* start_capabilities and stop_capabilities over the product's list:      *)
(* persistence first and last, the rest in list order and in reverse.     *)
OthersUpTo[i \in 0 .. Len(Capabilities)] ==
  IF i = 0 THEN << >>
  ELSE IF Capabilities[i] = Persistence THEN OthersUpTo[i - 1]
  ELSE Append(OthersUpTo[i - 1], Capabilities[i])

Others == OthersUpTo[Len(Capabilities)]

Owner == IF Persistence \in ToSet(Capabilities) THEN <<Persistence>> ELSE << >>

StartOrder == Owner \o Others \o Flows

\* Fault: capabilities stop in list order.
StopOrderAsStarted == Reverse(Flows) \o Others \o Owner

StopOrder == Reverse(Flows) \o Reverse(Others) \o Owner

Draining == pc \in {"drain1", "drain2"}

RuntimeInit ==
  /\ pc = "down" /\ call = "none"
  /\ actions = << >> /\ accepted = 0 /\ drops = 0 /\ redispatched = 0
  /\ handled = {} /\ lost = {} /\ iterations = 0
  /\ events = << >> /\ posted = 0
  /\ run = 0 /\ initialized = FALSE /\ started = << >>
  /\ bound = FALSE /\ visited = 0
  /\ now = 0 /\ lastTick = 0 /\ tickStarted = FALSE /\ elapsed = 0

-----------------------------------------------------------------------------
(* post_action: accepted at the tail, or counted as dropped.               *)
ActionAccepted ==
  /\ Len(actions) < ActionCap
  /\ accepted < MaxActions
  /\ accepted' = accepted + 1
  /\ actions' = Append(actions, accepted + 1)
  /\ redispatched' = redispatched + 1
  /\ UNCHANGED drops

ActionDropped ==
  /\ Len(actions) = ActionCap
  /\ drops < MaxDrops
  /\ drops' = drops + 1
  /\ UNCHANGED <<actions, accepted, redispatched>>

PostAction == ActionAccepted \/ ActionDropped

(* ctx.dispatch from product code: inside update, on_tick, on_init and     *)
(* flow start, from a widget or task of the same thread between two steps, *)
(* and after deinit, which leaves ctx bound to the runtime.                *)
Dispatch ==
  /\ \/ call = "product"
     \/ pc = "idle"
     \/ pc = "down" /\ run > 0
  /\ PostAction
  /\ UNCHANGED <<pc, call, drainVars, eventVars, lifeVars, tickVars>>

(* runtime::post_event, from capabilities and from post_intent.  A full    *)
(* queue answers BUSY and an uninitialised runtime INVALID_STATE: both     *)
(* change nothing.                                                         *)
PostEvent ==
  /\ call # "none" \/ pc \in {"idle", "down"}
  /\ initialized
  /\ Len(events) < EventCap
  /\ posted < MaxEvents
  /\ events' = Append(events, run)
  /\ posted' = posted + 1
  /\ UNCHANGED <<pc, call, actionVars, drainVars, lifeVars, tickVars>>

(* The called capability or product code returns to the runtime.           *)
Return ==
  /\ call # "none"
  /\ call' = "none"
  /\ UNCHANGED <<pc, actionVars, drainVars, eventVars, lifeVars, tickVars>>

-----------------------------------------------------------------------------
(* init: runtime::init resets the tick and the event queue, then           *)
(* start_capabilities, start_flows and the product's on_init.              *)
Initialize ==
  /\ pc = "down"
  /\ pc' = "starting"
  /\ run' = IF run = MaxRuns THEN 1 ELSE run + 1
  /\ initialized' = TRUE
  /\ events' = << >>
  /\ lastTick' = 0 /\ tickStarted' = FALSE /\ elapsed' = 0
  /\ UNCHANGED <<call, actionVars, drainVars, posted, started, bound, visited, now>>

(* The next capability or flow starts.  A start that fails is only logged: *)
(* the capability is polled and stopped like the others.                   *)
StartNext ==
  /\ pc = "starting" /\ call = "none"
  /\ Len(started) < Len(StartOrder)
  /\ LET next == StartOrder[Len(started) + 1]
         flow == Len(started) >= Len(Owner) + Len(Others)
     IN  /\ started' = Append(started, next)
         /\ call' = IF flow THEN "product" ELSE "capability"
         /\ bound' = (bound \/ flow)
  /\ UNCHANGED <<pc, actionVars, drainVars, eventVars, run, initialized,
                 visited, tickVars>>

CallOnInit ==
  /\ pc = "starting" /\ call = "none"
  /\ Len(started) = Len(StartOrder)
  /\ pc' = "on_init" /\ call' = "product"
  /\ bound' = TRUE
  /\ UNCHANGED <<actionVars, drainVars, eventVars, run, initialized, started,
                 visited, tickVars>>

InitDone ==
  /\ pc = "on_init" /\ call = "none"
  /\ pc' = "idle"
  /\ UNCHANGED <<call, actionVars, drainVars, eventVars, lifeVars, tickVars>>

-----------------------------------------------------------------------------
(* step(now_ms): drain, poll, deliver every event, tick, drain.            *)
\* Fault: the iteration count is not a fresh local.
BeginDrainKeepsCount == iterations' = iterations /\ redispatched' = 0

BeginDrain == iterations' = 0 /\ redispatched' = 0

Step(d) ==
  /\ pc = "idle"
  /\ pc' = "drain1"
  /\ BeginDrain
  /\ visited' = 0
  /\ now' = (now + d) % Wrap
  /\ elapsed' = IF tickStarted THEN elapsed + d ELSE 0
  /\ UNCHANGED <<call, actions, accepted, drops, handled, lost, eventVars,
                 run, initialized, started, bound, lastTick, tickStarted>>

AfterDrain == pc' = IF pc = "drain1" THEN "poll" ELSE "idle"

\* Fault: the budget is off by one.
UpdateNextOnceMore ==
  /\ Draining /\ call = "none"
  /\ actions # << >> /\ iterations <= MaxDrain
  /\ actions' = Tail(actions)
  /\ handled' = handled \cup {Head(actions)}
  /\ iterations' = iterations + 1
  /\ call' = "product"
  /\ UNCHANGED <<pc, accepted, drops, redispatched, lost, eventVars, lifeVars,
                 tickVars>>

(* drain_actions: pop_front happens before the budget is looked at.        *)
UpdateNext ==
  /\ Draining /\ call = "none"
  /\ actions # << >> /\ iterations < MaxDrain
  /\ actions' = Tail(actions)
  /\ handled' = handled \cup {Head(actions)}
  /\ iterations' = iterations + 1
  /\ call' = "product"
  /\ UNCHANGED <<pc, accepted, drops, redispatched, lost, eventVars, lifeVars,
                 tickVars>>

\* Fault: the action popped beyond the budget goes back to the tail.
DrainExhaustedPushesBack ==
  /\ Draining /\ call = "none"
  /\ actions # << >> /\ iterations = MaxDrain
  /\ actions' = Append(Tail(actions), Head(actions))
  /\ AfterDrain
  /\ UNCHANGED <<call, accepted, drops, redispatched, drainVars, eventVars,
                 lifeVars, tickVars>>

DrainExhausted ==
  /\ Draining /\ call = "none"
  /\ actions # << >> /\ iterations = MaxDrain
  /\ actions' = Tail(actions)
  /\ lost' = lost \cup {Head(actions)}
  /\ AfterDrain
  /\ UNCHANGED <<call, accepted, drops, redispatched, handled, iterations,
                 eventVars, lifeVars, tickVars>>

DrainEmpty ==
  /\ Draining /\ call = "none"
  /\ actions = << >>
  /\ AfterDrain
  /\ UNCHANGED <<call, actionVars, drainVars, eventVars, lifeVars, tickVars>>

(* poll_capabilities visits the product's list.                            *)
PollNext ==
  /\ pc = "poll" /\ call = "none"
  /\ visited < Len(Capabilities)
  /\ visited' = visited + 1
  /\ call' = "capability"
  /\ UNCHANGED <<pc, actionVars, drainVars, eventVars, run, initialized,
                 started, bound, tickVars>>

PollDone ==
  /\ pc = "poll" /\ call = "none"
  /\ visited = Len(Capabilities)
  /\ pc' = "events"
  /\ UNCHANGED <<call, actionVars, drainVars, eventVars, lifeVars, tickVars>>

\* Fault: the event is looked at, not popped.
HandleEventPeeks ==
  /\ pc = "events" /\ events # << >>
  /\ UNCHANGED events
  /\ PostAction \/ UNCHANGED actionVars
  /\ UNCHANGED <<pc, call, drainVars, posted, lifeVars, tickVars>>

(* handle_event: on_event maps the event to at most one action.            *)
HandleEvent ==
  /\ pc = "events" /\ events # << >>
  /\ events' = Tail(events)
  /\ PostAction \/ UNCHANGED actionVars
  /\ UNCHANGED <<pc, call, drainVars, posted, lifeVars, tickVars>>

\* Fault: the tick compares milliseconds that do not wrap.
TickDueUnwrapped == ~tickStarted \/ now - lastTick >= Period

TickDue == ~tickStarted \/ (now - lastTick) % Wrap >= Period

Tick ==
  /\ pc = "events" /\ events = << >> /\ TickDue
  /\ pc' = "tick" /\ call' = "product"
  /\ UNCHANGED <<actionVars, drainVars, eventVars, lifeVars, tickVars>>

TickDone ==
  /\ pc = "tick" /\ call = "none"
  /\ pc' = "drain2"
  /\ BeginDrain
  /\ tickStarted' = TRUE /\ lastTick' = now /\ elapsed' = 0
  /\ UNCHANGED <<call, actions, accepted, drops, handled, lost, eventVars,
                 lifeVars, now>>

NoTick ==
  /\ pc = "events" /\ events = << >> /\ ~TickDue
  /\ pc' = "drain2"
  /\ BeginDrain
  /\ UNCHANGED <<call, actions, accepted, drops, handled, lost, eventVars,
                 lifeVars, tickVars>>

-----------------------------------------------------------------------------
(* deinit: flows and capabilities in reverse, then runtime::deinit.  The   *)
(* action queue is left as it is.                                          *)
Deinit ==
  /\ pc = "idle"
  /\ pc' = "stopping"
  /\ bound' = FALSE
  /\ visited' = 0
  /\ UNCHANGED <<call, actionVars, drainVars, eventVars, run, initialized,
                 started, tickVars>>

\* The last start of c not undone yet is undone.
Undo(c) ==
  \E i \in DOMAIN started :
    /\ started[i] = c /\ \A j \in i + 1 .. Len(started) : started[j] # c
    /\ started' = RemoveAt(started, i)

StopNext ==
  /\ pc = "stopping" /\ call = "none"
  /\ visited < Len(StopOrder)
  /\ visited' = visited + 1
  /\ Undo(StopOrder[visited + 1])
  /\ call' = "capability"
  /\ UNCHANGED <<pc, actionVars, drainVars, eventVars, run, initialized,
                 bound, tickVars>>

\* Fault: runtime::deinit does not clear the event queue.
RuntimeDeinitKeepsEvents ==
  /\ pc = "stopping" /\ call = "none"
  /\ visited = Len(StopOrder)
  /\ pc' = "down"
  /\ initialized' = FALSE
  /\ tickStarted' = FALSE /\ elapsed' = 0
  /\ UNCHANGED <<call, actionVars, drainVars, eventVars, run, started, bound,
                 visited, now, lastTick>>

RuntimeDeinit ==
  /\ pc = "stopping" /\ call = "none"
  /\ visited = Len(StopOrder)
  /\ pc' = "down"
  /\ events' = << >>
  /\ initialized' = FALSE
  /\ tickStarted' = FALSE /\ elapsed' = 0
  /\ UNCHANGED <<call, actionVars, drainVars, posted, run, started, bound,
                 visited, now, lastTick>>

RuntimeThread ==
  \/ StartNext \/ CallOnInit \/ InitDone
  \/ \E d \in Gaps : Step(d)
  \/ UpdateNext \/ DrainExhausted \/ DrainEmpty
  \/ PollNext \/ PollDone
  \/ HandleEvent \/ Tick \/ TickDone \/ NoTick
  \/ StopNext \/ RuntimeDeinit

Next ==
  \/ RuntimeThread
  \/ Return
  \/ Initialize
  \/ Deinit
  \/ Dispatch
  \/ PostEvent

RuntimeSpec == RuntimeInit /\ [][Next]_vars

(* The application loop calls step forever and callbacks return.           *)
FairRuntimeSpec ==
  RuntimeSpec /\ WF_vars(RuntimeThread) /\ WF_vars(Return)

-----------------------------------------------------------------------------
(* Type invariant: no queue exceeds its capacity, no drain its budget.     *)
FlagsOK ==
  /\ initialized \in BOOLEAN
  /\ bound \in BOOLEAN
  /\ tickStarted \in BOOLEAN

RuntimeTypeOK ==
  /\ pc \in Phases /\ call \in {"none", "product", "capability"}
  /\ accepted \in 0 .. MaxActions /\ drops \in 0 .. MaxDrops
  /\ redispatched \in Nat /\ iterations \in 0 .. MaxDrain
  /\ actions \in Seq(Nat) /\ Len(actions) <= ActionCap
  /\ handled \subseteq Nat /\ lost \subseteq Nat
  /\ events \in Seq(Nat) /\ Len(events) <= EventCap
  /\ posted \in 0 .. MaxEvents /\ run \in 0 .. MaxRuns /\ visited \in Nat
  /\ now \in Nat /\ lastTick \in Nat /\ elapsed \in Nat
  /\ FlagsOK

(* First in, first out, each at most once, none forgotten: the queue holds *)
(* exactly the newest accepted actions in order, and every older one was   *)
(* given to update or lost by a drain, never both, across ticks, events,   *)
(* re-dispatch from update and even a deinit followed by an init.          *)
ActionsInOrder ==
  LET out == accepted - Len(actions)
  IN  /\ out >= 0
      /\ \A k \in 1 .. Len(actions) : actions[k] = out + k
      /\ handled \cup lost = 1 .. out
      /\ handled \cap lost = {}

(* drain_actions pops before it looks at its budget, so it can lose an     *)
(* action, but only when the reducer kept the queue busy: while this very  *)
(* drain ran, update accepted more than MaxDrain - ActionCap actions.      *)
LossNeedsRedispatch ==
  [][lost' # lost => redispatched > MaxDrain - ActionCap]_vars

(* No event outlives the run it was posted in: not one posted by a         *)
(* capability's stop(), nor by a callback that still holds the runtime.    *)
EventsOfThisRun ==
  /\ \A k \in 1 .. Len(events) : events[k] = run
  /\ ~initialized => events = << >>

(* Across the wrap of now_ms, on_tick never runs earlier than a period     *)
(* after the last one, and no step ends with a tick overdue.               *)
TickOnTime ==
  /\ pc = "tick" /\ tickStarted => elapsed >= Period
  /\ pc = "drain2" => tickStarted /\ elapsed < Period

(* Whatever the order of the product's list, what stops is always what     *)
(* was started last: stop_flows and stop_capabilities undo the starts.     *)
StopsInReverse ==
  [][Len(started') < Len(started)
       => started' = SubSeq(started, 1, Len(started) - 1)]_vars

(* An accepted action leaves the queue, however much work update, on_event *)
(* and on_tick add behind it, unless the application is shut down.         *)
QueuedActionsLeave ==
  \A k \in 1 .. MaxActions :
    k \in ToSet(actions) ~> k \notin ToSet(actions) \/ pc = "down"
=============================================================================
