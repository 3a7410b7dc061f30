--------------------------- MODULE DurableTraining ---------------------------
(***************************************************************************)
(* What a training run promises of its progress, whatever interrupts it:   *)
(* iterations become durable one at a time and in order, no durable        *)
(* iteration is lost, and a crash costs at most the iteration that was not *)
(* durable yet.                                                            *)
(***************************************************************************)
EXTENDS Naturals

CONSTANT TotalIterations

VARIABLES
  durable,   \* iterations a restart would find
  trained    \* iterations the running trainer has taken its gradient steps for

vars == <<durable, trained>>

Init == durable = 0 /\ trained = 0

\* The trainer runs at most one iteration ahead of its durable state.
Train ==
  /\ trained = durable
  /\ trained < TotalIterations
  /\ trained' = trained + 1
  /\ UNCHANGED durable

Persist ==
  /\ durable' = trained
  /\ UNCHANGED trained

Crash ==
  /\ trained' = durable
  /\ UNCHANGED durable

Next == Train \/ Persist \/ Crash

Spec == Init /\ [][Next]_vars
=============================================================================
