------------------------------- MODULE Clock --------------------------------
(* Date.now() in whole seconds, as the access services read it. *)
EXTENDS Naturals

CONSTANT MaxTime    \* bound: the last second

ASSUME MaxTimeAssumption == MaxTime \in Nat

VARIABLE now

ClockInit == now = 0
Tick == now < MaxTime /\ now' = now + 1

=============================================================================
