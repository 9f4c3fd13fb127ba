---------------------------- MODULE MCLifecycle ----------------------------
(* Small instances of Lifecycle for TLC. *)
EXTENDS Lifecycle, TLC

CONSTANTS h1, h2, a, b, x

\* One session prompts, the other begins and ends.
KindsOfTwo == [s \in {a, b} |-> IF s = a THEN {"prompt"} ELSE {"start", "end"}]

HookSymmetry == Permutations(Hooks)
=============================================================================
