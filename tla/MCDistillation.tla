--------------------------- MODULE MCDistillation ---------------------------
(***************************************************************************)
(* Two small instances of Distillation in one run.  A behaviour belongs to *)
(* one of them, `part`: "lease" has the constants of the configuration, a  *)
(* job of two slices and deaths; "lanes" has a transcript and a document,  *)
(* a live probe, two days, a daily limit that changes, and no Codex.       *)
(***************************************************************************)
EXTENDS Distillation, TLC

CONSTANTS w1, w2, w3, w4, s1, s2, s3, s4, j1, j2, j3, p1

VARIABLE part
all == <<part, vars>>

\* A transcript of two slices; a transcript and a document of one slice each.
MCJobOf == s1 :> j1 @@ s2 :> j1 @@ s3 :> j2 @@ s4 :> j3
Pair == <<s1, s2>>

Lanes == INSTANCE Distillation WITH
  Workers <- {w3, w4}, Slices <- {s3, s4}, Queue <- <<s3, s4>>, Jobs <- {j2, j3}, Documents <- {j3},
  PilotSeconds <- 1, LaneCap <- 3,
  Limits <- {4, 5}, PilotLimit <- 4, Approvals <- {p1}, MaxDay <- 1, MaxCrashes <- 0,
  CodexAvailable <- FALSE

AllInit ==
  \/ part = "lease" /\ Init
  \/ part = "lanes" /\ Lanes!Init
AllNext ==
  \/ part = "lease" /\ Next /\ UNCHANGED part
  \/ part = "lanes" /\ Lanes!Next /\ UNCHANGED part

\* The fairness of FairSpec, for the behaviours of "lease".
Leasing(step) == part = "lease" /\ step /\ UNCHANGED part
AllSpec ==
  /\ AllInit /\ [][AllNext]_all
  /\ \A v \in Workers : WF_all(Leasing(StartDaily(v))) /\ WF_all(Leasing(Proceed(v)))
  /\ \A t \in 1..MaxTokens : WF_all(Leasing(t \in Tokens /\ TreeEnds(t)))

\* The workers of "lanes" are interchangeable.  Those of "lease", the only part that fairness and LeasesDoEnd
\* speak of, are not in the symmetry set: TLC takes the behaviours of that part as they are.
Symmetry == Permutations({w3, w4})

-----------------------------------------------------------------------------
(* Properties that speak of the constants of one part; the others are those of Distillation *)

\* A lease that recovery may release is released by a later run.
LeasesDoEnd ==
  \A n \in 1..MaxTokens : (part = "lease" /\ n \in Tokens /\ Recoverable(n)) ~> Released(n)

\* The ledger of a day agrees with its attempts, and workers that reserve at the same time overdraw neither the
\* day nor the document lane.
BudgetHolds == []LedgerAgrees /\ [][part = "lanes" => Lanes!StayWithin]_all
=============================================================================
