-------------------------- MODULE CallbackLifecycle --------------------------
(***************************************************************************)
(* What a user of callback_lifecycle.h promises the owner of a callback:   *)
(* one callback runs at a time and it is the registered one when it        *)
(* starts, none starts on a handle that is closing, and a call that        *)
(* changes the callback, or frees the handle, ends only when the callback  *)
(* it took away has returned.  Button and Uart (for each direction) are    *)
(* shown to implement it.                                                  *)
(***************************************************************************)
CONSTANTS
  Callbacks,
  NoCallback    \* NULL

VARIABLES
  callback,   \* the registered callback
  running,    \* the callback in progress
  changing,   \* set_callback has begun and not returned
  phase       \* of the handle: "open", "closing" or "freed"

lifecycleVars == <<callback, running, changing, phase>>

LifecycleInit ==
  /\ callback = NoCallback /\ running = NoCallback
  /\ changing = FALSE /\ phase = "open"

(* try_enter succeeds and the callback is called; leave follows it.        *)
Enter ==
  /\ phase = "open" /\ running = NoCallback /\ callback # NoCallback
  /\ running' = callback
  /\ UNCHANGED <<callback, changing, phase>>

Leave ==
  /\ running # NoCallback /\ running' = NoCallback
  /\ UNCHANGED <<callback, changing, phase>>

(* set_callback may unregister the old callback first.                     *)
BeginChange ==
  /\ phase = "open" /\ ~changing
  /\ changing' = TRUE /\ callback' \in {callback, NoCallback}
  /\ UNCHANGED <<running, phase>>

Change ==
  /\ changing /\ callback' \in Callbacks \cup {NoCallback}
  /\ UNCHANGED <<running, changing, phase>>

(* It returns when wait_for_idle has; the new callback may be stored after *)
(* the wait.                                                               *)
EndChange ==
  /\ changing /\ running = NoCallback
  /\ changing' = FALSE /\ callback' \in Callbacks \cup {NoCallback}
  /\ UNCHANGED <<running, phase>>

(* set_closing, then wait_for_idle.                                        *)
BeginClose ==
  /\ phase = "open" /\ phase' = "closing"
  /\ callback' \in {callback, NoCallback}
  /\ UNCHANGED <<running, changing>>

Unregister ==
  /\ phase = "closing" /\ callback' = NoCallback
  /\ UNCHANGED <<running, changing, phase>>

Free ==
  /\ phase = "closing" /\ ~changing /\ running = NoCallback
  /\ phase' = "freed"
  /\ UNCHANGED <<callback, running, changing>>

Reopen ==
  /\ phase = "freed" /\ phase' = "open"
  /\ callback' = NoCallback
  /\ UNCHANGED <<running, changing>>

LifecycleNext ==
  \/ Enter \/ Leave
  \/ BeginChange \/ Change \/ EndChange
  \/ BeginClose \/ Unregister \/ Free \/ Reopen

LifecycleSpec == LifecycleInit /\ [][LifecycleNext]_lifecycleVars
=============================================================================
