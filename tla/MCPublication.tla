--------------------------- MODULE MCPublication ---------------------------
(* Two attempts, one observation repeats one of the other attempt but for whitespace. *)
EXTENDS Publication, TLC

CONSTANTS r1, r2, v1, v2, a1, a2

OneAttempt == <<a1>>
TwoAttempts == <<a1, a2>>
MCObservations == {<<a1, 0>>, <<a1, 1>>}
MCTwinOf == [o \in MCObservations |-> IF o = <<a1, 1>> THEN <<a1, 0>> ELSE None]
OneObservation == {<<a1, 0>>, <<a2, 0>>}
OneTwin == [o \in OneObservation |-> IF o = <<a2, 0>> THEN <<a1, 0>> ELSE None]

Symmetry == Permutations(Runs) \union Permutations(Reviewers)
=============================================================================
