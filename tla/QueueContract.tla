--------------------------- MODULE QueueContract ---------------------------
(***************************************************************************)
(* What internal/queue promises the gateway, without threads, channels or  *)
(* wait groups: an envelope whose Enqueue returned true is handed to the   *)
(* worker function exactly once, and Close returns only when nothing that  *)
(* was accepted is still waiting and nothing more can be accepted.         *)
(***************************************************************************)
EXTENDS Naturals

CONSTANT Envs       \* the envelopes that may be offered to the queue

VARIABLES
  pending,          \* accepted and not yet handed to the worker function
  handled,          \* how often each envelope reached the worker function
  open              \* FALSE once Close has returned

cvars == <<pending, handled, open>>

CInit ==
  /\ pending = {}
  /\ handled = [e \in Envs |-> 0]
  /\ open = TRUE

Accept(e) ==
  /\ open
  /\ e \notin pending
  /\ handled[e] = 0
  /\ pending' = pending \union {e}
  /\ UNCHANGED <<handled, open>>

Handle(e) ==
  /\ e \in pending
  /\ pending' = pending \ {e}
  /\ handled' = [handled EXCEPT ![e] = @ + 1]
  /\ UNCHANGED open

Shut ==
  /\ open
  /\ pending = {}
  /\ open' = FALSE
  /\ UNCHANGED <<pending, handled>>

CNext ==
  \/ \E e \in Envs : Accept(e) \/ Handle(e)
  \/ Shut

CSafeSpec == CInit /\ [][CNext]_cvars

\* Every accepted envelope is eventually handed over.
CSpec == CSafeSpec /\ \A e \in Envs : WF_cvars(Handle(e))
=============================================================================
