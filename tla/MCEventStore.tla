--------------------------- MODULE MCEventStore ---------------------------
(* Small instances of EventStore for TLC. *)
EXTENDS EventStore, TLC

CONSTANTS a, b, c, w1, w2, r1

EmptyChain == <<>>
RepeatedChain == <<a, a, a>>

\* Every property is conditioned on ~stolen: nothing is learned past it.
Unstolen == ~stolen

Symmetry == Permutations(Keys) \union Permutations(Writers)

\* Every started call returns or its process dies, and a dead process's lock does not outlive the next wait.
EveryCallEnds == CallsReturn /\ DeadLockCleared
=============================================================================
