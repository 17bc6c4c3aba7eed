-------------------------- MODULE MCBoundedBuffer --------------------------
(* Instances of BoundedBuffer for TLC. *)
EXTENDS BoundedBuffer
\* main() creates five threads of each kind: what is produced is consumed.
ASSUME BalancedAssumption == Cardinality(Producers) = Cardinality(Consumers)
=============================================================================
