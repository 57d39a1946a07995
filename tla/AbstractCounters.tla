-------------------------- MODULE AbstractCounters --------------------------
(***************************************************************************)
(* What read-copy-update/rcu.cc promises: a pair of counters to which      *)
(* every write() adds both of its arguments in one step.                   *)
(***************************************************************************)
EXTENDS Naturals

CONSTANT Argument  \* the pairs write() is called with
VARIABLE pair

Init == pair = <<0, 0>>

Write == \E a \in Argument : pair' = <<pair[1] + a[1], pair[2] + a[2]>>

Spec == Init /\ [][Write]_pair
=============================================================================
