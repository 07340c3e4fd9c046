------------------------------- MODULE HookSet -------------------------------
(***************************************************************************)
(* What Dice promises of its hooks (dice/hook_registry.go, the run*Hooks   *)
(* functions of dice/dice.go): a run calls the hooks registered when it    *)
(* began, each once, the higher priority first and the earlier registered  *)
(* first among equals, until one of them says stop or abort.               *)
(***************************************************************************)
EXTENDS Integers

CONSTANTS
  Runners,     \* goroutines running the hooks for a message, a reply or an event
  Handles,     \* hook handles
  Priorities

VARIABLES
  hooks,    \* the registered hooks: id, priority and when they were registered
  time,     \* counts registrations
  left,     \* for each run, the hooks it has still to call; {} when there is none
  aborted,  \* what the last run of each runner returned
  removed   \* what the last unregister returned

vars == <<hooks, time, left, aborted, removed>>

Before(e, f) == e.priority > f.priority \/ (e.priority = f.priority /\ e.at < f.at)

Init ==
  /\ hooks = {}
  /\ time = 0
  /\ left = [r \in Runners |-> {}]
  /\ aborted = [r \in Runners |-> FALSE]
  /\ removed = FALSE

Register(id, p) ==
  /\ \A e \in hooks : e.id # id
  /\ hooks' = hooks \cup {[id |-> id, priority |-> p, at |-> time]}
  /\ time' = time + 1
  /\ UNCHANGED <<left, aborted, removed>>

Unregister(id) ==
  /\ hooks' = {e \in hooks : e.id # id}
  /\ removed' = (hooks' # hooks)
  /\ UNCHANGED <<time, left, aborted>>

Begin(r) ==
  /\ left[r] = {}
  /\ left' = [left EXCEPT ![r] = hooks]
  /\ aborted' = [aborted EXCEPT ![r] = FALSE]
  /\ UNCHANGED <<hooks, time, removed>>

Call(r, e, result) ==
  /\ e \in left[r] /\ \A f \in left[r] \ {e} : Before(e, f)
  /\ left' = [left EXCEPT ![r] = IF result = "continue" THEN @ \ {e} ELSE {}]
  /\ aborted' = [aborted EXCEPT ![r] = (result = "abort")]
  /\ UNCHANGED <<hooks, time, removed>>

Next ==
  \/ \E id \in Handles : Unregister(id) \/ \E p \in Priorities : Register(id, p)
  \/ \E r \in Runners : Begin(r)
  \/ \E r \in Runners, result \in {"continue", "stop", "abort"} : \E e \in left[r] : Call(r, e, result)

Spec == Init /\ [][Next]_vars
=============================================================================
