----------------------------- MODULE IrqChannel -----------------------------
(***************************************************************************)
(* What the interrupt ioctls of the kernel helper promise their callers: a *)
(* coalescing event channel per interrupt line.  An event on an active     *)
(* line becomes pending; events that come while one is pending join it; a  *)
(* pending event is taken once.                                            *)
(***************************************************************************)
EXTENDS Naturals

CONSTANT Irqs

VARIABLES
  active,       \* the line has an owner
  pending,      \* an event nobody took
  seen,         \* events since the line was last set up
  taken         \* answers given since then

chanVars == <<active, pending, seen, taken>>

ChanInit ==
  /\ active = [i \in Irqs |-> FALSE]
  /\ pending = [i \in Irqs |-> FALSE]
  /\ seen = [i \in Irqs |-> 0]
  /\ taken = [i \in Irqs |-> 0]

\* A line without owner is prepared for a new one.
Prepare(i) ==
  /\ ~active[i]
  /\ pending' = [pending EXCEPT ![i] = FALSE]
  /\ seen' = [seen EXCEPT ![i] = 0]
  /\ taken' = [taken EXCEPT ![i] = 0]
  /\ UNCHANGED active

Activate(i) ==
  /\ ~active[i] /\ ~pending[i] /\ seen[i] = 0 /\ taken[i] = 0
  /\ active' = [active EXCEPT ![i] = TRUE]
  /\ UNCHANGED <<pending, seen, taken>>

Deactivate(i) ==
  /\ active[i]
  /\ active' = [active EXCEPT ![i] = FALSE]
  /\ UNCHANGED <<pending, seen, taken>>

Event(i) ==
  /\ active[i]
  /\ pending' = [pending EXCEPT ![i] = TRUE]
  /\ seen' = [seen EXCEPT ![i] = @ + 1]
  /\ UNCHANGED <<active, taken>>

\* A waiter of an earlier owner may still take what is pending.
Take(i) ==
  /\ pending[i]
  /\ pending' = [pending EXCEPT ![i] = FALSE]
  /\ taken' = [taken EXCEPT ![i] = @ + 1]
  /\ UNCHANGED <<active, seen>>

\* The helper is loaded anew.
Restart ==
  /\ active' = [i \in Irqs |-> FALSE]
  /\ pending' = [i \in Irqs |-> FALSE]
  /\ seen' = [i \in Irqs |-> 0]
  /\ taken' = [i \in Irqs |-> 0]

ChanNext ==
  \/ \E i \in Irqs : Prepare(i) \/ Activate(i) \/ Deactivate(i) \/ Event(i) \/ Take(i)
  \/ Restart

ChanSpec == ChanInit /\ [][ChanNext]_chanVars
=============================================================================
