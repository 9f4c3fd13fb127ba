-------------------------- MODULE MCReconciliation --------------------------
(***************************************************************************)
(* Claims, written and read.  A behaviour belongs to one part, `part`:    *)
(* "recovery" is one caller w0 that may die, with the constants of the     *)
(* configuration; "readers" is two callers and a query, who share the      *)
(* variables with constants of their own; "answers", which shares nothing  *)
(* with the two, is what queries and exports answer.                       *)
(***************************************************************************)
EXTENDS Reconciliation, TLC

CONSTANTS b1, b2, b3, s1, s2, k1, k2, w0, w1, w2, r1,
          me, other, work, parent, project, rules   \* answers

VARIABLES
  part,
  claims, listed, pending, time, links, rule, lifted, changes, reader, readers

answers == <<claims, listed, pending, time, links, rule, lifted, changes, reader, readers>>
all == <<part, vars, answers>>

\* b2 replaces the value of b1 and adds a key; b3 has the value of b1 in another
\* scope, where it can be the same claim content.
SharedClaim == [b \in {b1, b2, b3} |->
  [scope  |-> IF b = b3 THEN s2 ELSE s1,
   claims |-> IF b = b2 THEN k1 :> "y" @@ k2 :> "x" ELSE k1 :> "x"]]

\* Two batches of one claim: whichever comes second conflicts or has nothing new.
SameClaim == [b \in {b1, b2} |-> [scope |-> s1, claims |-> k1 :> "x"]]

Reading == INSTANCE Reconciliation WITH
  Callers <- {w1, w2}, Readers <- {r1}, BatchIds <- {b1, b2}, Content <- SameClaim, MaxTime <- 1, MaxCrashes <- 0

\* Answers: a ticket, another one, their project and the global rules.
MCKinds == work :> "ticket" @@ parent :> "ticket" @@ project :> "project" @@ rules :> "global"
Offer(scope, owner, shared, hit, words, fresh, ref) ==
  [scope |-> scope, owner |-> owner, shared |-> shared, hit |-> hit,
   words |-> words, fresh |-> fresh, ref |-> ref]
MCOffers == {
  Offer(work, me, TRUE, FALSE, 0, TRUE, FALSE), Offer(work, other, FALSE, TRUE, 0, TRUE, FALSE),
  Offer(parent, other, TRUE, TRUE, 0, TRUE, TRUE), Offer(project, me, FALSE, FALSE, 1, TRUE, FALSE),
  Offer(rules, other, TRUE, FALSE, 4, TRUE, FALSE)}
Rule(isolated, restricted, readable) == [isolated |-> isolated, restricted |-> restricted, readable |-> readable]
NoRule == Rule(FALSE, FALSE, DOMAIN MCKinds)
MCRules == {NoRule, Rule(TRUE, TRUE, DOMAIN MCKinds), Rule(FALSE, TRUE, {work, project})}

Asked == INSTANCE Answers WITH
  state <- claims, clock <- time, Provider <- me, Kinds <- MCKinds, Ambient <- project, Offers <- MCOffers,
  Askable <- {work, project}, Exports <- {{}, {work, project}}, Rules <- MCRules,
  MaxSnapshots <- 1, MaxClaims <- 1, ReadFactor <- 1, PageSize <- 1,
  MaxClaimsEver <- 2, MaxChanges <- 1, MaxReaders <- 1

\* What a part may begin with is open only in its own behaviours.
AllInit ==
  /\ \/ part = "recovery" /\ Init
     \/ part = "readers" /\ Reading!Init
     \/ part = "answers" /\ Init
  /\ Asked!Init /\ (part # "answers" => rule = NoRule)

\* The queries that the bound allows are over.
AskedAll == reader.pc \in {"answered", "failed", "paged"} /\ readers = 1 /\ UNCHANGED answers

AllNext ==
  \/ part = "recovery" /\ Next /\ UNCHANGED <<part, answers>>
  \/ part = "readers" /\ Reading!Next /\ UNCHANGED <<part, answers>>
  \/ part = "answers" /\ (Asked!Next \/ AskedAll) /\ UNCHANGED <<part, vars>>
AllSpec == AllInit /\ [][AllNext]_all

\* The two callers of "readers" are interchangeable.
Symmetry == Permutations({w1, w2})

\* Every property is void once a live holder's lock was removed.
Unstolen == ~stolen

\* An answer misses nothing it should have, shows nothing the provider may not see, and its pages make up the
\* whole.
AnswersHold == Asked!AnswerIsComplete /\ Asked!AnswerIsAllowed /\ Asked!PagesMissNothing
=============================================================================
