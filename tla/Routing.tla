------------------------------- MODULE Routing -------------------------------
(***************************************************************************)
(* The work a prompt is about: the scope the consumer's prompt hook routes *)
(* one session's peer progress by (safeScopeFromHookEvent), the evidence   *)
(* it wants before it believes a key the prompt names, and the routes the  *)
(* session remembers.                                                      *)
(*                                                                         *)
(* The evidence is the current provider's: what another provider accepted  *)
(* or published is not in `accepted` or `published`.                       *)
(***************************************************************************)
EXTENDS Naturals, Sequences, FiniteSets, SequencesExt

CONSTANTS
  Tickets, Reviews,   \* the scopes a prompt can name by key; reviews of different projects with one number
  Workstreams,
  Project,            \* the configured default project
  None,
  StateLimit,         \* bound of the code: routes a session remembers
  MaxPrompts          \* bound: prompts

VARIABLES
  branch,             \* the tickets the checked-out branch names
  packages,           \* tickets with a package on this machine
  ledger,             \* the ledger directory of the reviews: the review its metadata names, if any, and
                      \* whether a summary in it mentions the number of a review
  accepted,           \* tickets with an accepted claim that can be read
  published,          \* tickets that peer progress was published for
  routed,             \* state.routedScopes, oldest first
  answer,             \* the scope of the last prompt
  prompts,            \* prompts so far
  known               \* history: the tickets and reviews that ever had evidence here
evidence == <<branch, packages, ledger, accepted, published>>
vars == <<branch, packages, ledger, accepted, published, routed, answer, prompts, known>>

Init ==
  /\ branch = {} /\ packages = {} /\ ledger = [json |-> None, summary |-> FALSE] /\ accepted = {} /\ published = {}
  /\ routed = <<>> /\ answer = None /\ prompts = 0 /\ known = {}

-----------------------------------------------------------------------------
(* The evidence *)

\* A branch that names two tickets is as ambiguous as a prompt that does.
BranchScope == IF Cardinality(branch) = 1 THEN CHOOSE t \in branch : TRUE ELSE None

\* Reviews here are of different projects and have one number.  A directory is named for the number alone;
\* metadata must name the review, project and number, but a summary that mentions the number is taken to
\* be about the review that is asked for, whatever metadata lies beside it.
JsonIdentity == ledger.json
SummaryIdentity(m) == IF ledger.summary THEN m ELSE None
HasLedger(m) == JsonIdentity = m \/ SummaryIdentity(m) = m

AcceptedTickets == accepted
PeerTickets == published

HasEvidence(scope) ==
  \/ scope \in ToSet(routed)
  \/ scope \in Reviews /\ HasLedger(scope)
  \/ scope \in Tickets /\ \/ scope = BranchScope \/ scope \in packages
                          \/ scope \in AcceptedTickets \/ scope \in PeerTickets

-----------------------------------------------------------------------------
(* A prompt *)

Fallback == IF BranchScope # None THEN BranchScope ELSE Project

\* Mutant: a lone key is believed.
ByCandidates_Lone(candidates) ==
  IF Cardinality(candidates) = 1 THEN CHOOSE scope \in candidates : TRUE ELSE BranchScope

ByCandidates(candidates) ==
  LET evidenced == {scope \in candidates : HasEvidence(scope)} IN
  CASE Cardinality(evidenced) = 1 -> CHOOSE scope \in evidenced : TRUE
    [] Cardinality(evidenced) # 1 /\ Cardinality(candidates) > 1 -> BranchScope
    [] OTHER -> Fallback

ByWorkstreams(named) ==
  CASE Cardinality(named) = 1 -> CHOOSE scope \in named : TRUE
    [] Cardinality(named) > 1 -> BranchScope
    [] OTHER -> Fallback

\* A blank prompt names nothing, and does not get the default project either.
ScopeOf(candidates, named, blank) ==
  CASE candidates # {} -> ByCandidates(candidates)
    [] candidates = {} /\ blank -> BranchScope
    [] OTHER -> ByWorkstreams(named)

Remembered(scope) ==
  LET routes == IF scope \in Tickets \union Reviews
                THEN Append(SelectSeq(routed, LAMBDA r : r # scope), scope) ELSE routed IN
  IF Len(routes) > StateLimit THEN SubSeq(routes, Len(routes) - StateLimit + 1, Len(routes)) ELSE routes

\* The hook may fail after the scope is found: nothing is answered and nothing remembered.
Prompt(candidates, named, blank) ==
  /\ prompts < MaxPrompts /\ prompts' = prompts + 1
  /\ \/ /\ answer' = ScopeOf(candidates, named, blank)
        /\ routed' = Remembered(answer')
     \/ answer' = None /\ UNCHANGED routed
  /\ UNCHANGED <<evidence, known>>

-----------------------------------------------------------------------------
(* The machine around the session.  Published progress is evidence for good, even replaced or *)
(* expired; the rest comes and goes. *)

Witnessed ==
  {t \in Tickets : branch' = {t}} \union packages' \union {m \in Reviews : HasLedger(m)'} \union accepted' \union published'

CheckOut(named) == branch # named /\ branch' = named /\ UNCHANGED <<packages, ledger, accepted, published>>
Package(t) ==
  /\ packages' = IF t \in packages THEN packages \ {t} ELSE packages \union {t}
  /\ UNCHANGED <<branch, ledger, accepted, published>>
Ledger(json, summary) ==
  /\ ledger' = [json |-> json, summary |-> summary] /\ ledger' # ledger
  /\ UNCHANGED <<branch, packages, accepted, published>>
Accept(t) ==
  /\ accepted' = IF t \in accepted THEN accepted \ {t} ELSE accepted \union {t}
  /\ UNCHANGED <<branch, packages, ledger, published>>
Publish(t) ==
  /\ t \notin published /\ published' = published \union {t}
  /\ UNCHANGED <<branch, packages, ledger, accepted>>

Surroundings ==
  /\ \/ \E named \in SUBSET Tickets : CheckOut(named)
     \/ \E t \in Tickets : Package(t) \/ Accept(t) \/ Publish(t)
     \/ \E json \in Reviews \union {None}, summary \in BOOLEAN : Ledger(json, summary)
  /\ known' = known \union Witnessed
  /\ UNCHANGED <<routed, answer, prompts>>

\* Workstreams matter only to a prompt that names no key.  Bound: after the last prompt the machine stands still.
Next ==
  \/ Prompt({}, {}, TRUE)
  \/ \E named \in SUBSET Workstreams : Prompt({}, named, FALSE)
  \/ \E candidates \in (SUBSET (Tickets \union Reviews)) \ {{}} : Prompt(candidates, {}, FALSE)
  \/ prompts < MaxPrompts /\ Surroundings

Spec == Init /\ [][Next]_vars

-----------------------------------------------------------------------------
(* Properties *)

\* Evidence starts every route.  A key that a prompt names never becomes the session's scope, and never
\* enters its routes, unless at some time something on this machine spoke for it, however often it was
\* named; and the memory of a route cannot start itself (lifecycle-consumer.mjs:359, "Only ticket and
\* review routes established by evidence reach this point").
RoutesHaveEvidence == (ToSet(routed) \union ({answer} \intersect (Tickets \union Reviews))) \subseteq known

\* A review is routed to by its own ledger: a directory whose metadata names another project's review of the
\* same number is not evidence (context-trace.test.mjs:498, "MR references require their ledger identity").
\* The code does not have it: a summary beside that metadata that mentions the number is enough.
LedgersAreTheirOwn == \A m \in Reviews : HasLedger(m) => JsonIdentity \in {m, None}
=============================================================================
