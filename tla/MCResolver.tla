------------------------------ MODULE MCResolver ------------------------------
(* Instances of Resolver for TLC. *)
EXTENDS Resolver, TLC

\* Hashes and callbacks are interchangeable.
Symmetry == Permutations(Hashes) \cup Permutations(Callbacks)

\* What happens once a running list is forgotten is explored within two seconds
\* and one event or publish() under way.
AfterForgot == forgot => clock <= 2 /\ Cardinality(events \cup unsent) + Cardinality(encrypting) <= 1
===============================================================================
