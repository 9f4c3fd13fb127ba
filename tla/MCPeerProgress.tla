--------------------------- MODULE MCPeerProgress ---------------------------
(***************************************************************************)
(* The peer progress of a small team: the grants and publications of       *)
(* PeerProgress, which this module extends; what a query shows of them to  *)
(* others; and the scope that a prompt is routed to, by which it is shown. *)
(* The three share no state, so a behaviour belongs to one of them,        *)
(* `part`.                                                                 *)
(***************************************************************************)
EXTENDS PeerProgress, TLC

CONSTANTS p1, p2, p3, codex, claude, x, y, s, t,
          agent, one, two, epic, mr, project, stream   \* reading and routing

VARIABLES
  part,
  package, relations, artifact, publishes, edits,
  branch, packages, review, accepted, published, routed, answer, prompts, known

reading == <<package, relations, artifact, publishes, edits>>
routing == <<branch, packages, review, accepted, published, routed, answer, prompts, known>>
all == <<part, vars, reading, routing>>

\* Two proposals of one restricted actor, or of two.
OneActor == [i \in Items |-> s]
AllCodex == [i \in Items |-> codex]

Read == INSTANCE PeerReading WITH
  ledger <- relations, Actors <- {agent}, Tickets <- {epic, one, two}, Epic <- epic, Review <- mr, Project <- project,
  MaxPublishes <- 1, MaxEdits <- 2

Routed == INSTANCE Routing WITH
  ledger <- review, Tickets <- {one, two}, Reviews <- {mr}, Workstreams <- {stream, epic}, Project <- project,
  StateLimit <- 1, MaxPrompts <- 2

AllInit == part \in {"ledger", "reading", "routing"} /\ Init /\ Read!Init /\ Routed!Init

AllNext ==
  \/ part = "ledger" /\ Next /\ UNCHANGED <<part, reading, routing>>
  \/ part = "reading" /\ Read!Next /\ UNCHANGED <<part, vars, routing>>
  \/ part = "routing" /\ Routed!Next /\ UNCHANGED <<part, vars, reading>>

AllSpec == AllInit /\ [][AllNext]_all

ProcSymmetry == Permutations(Procs) \union Permutations(Items)

-----------------------------------------------------------------------------
(* Properties, each stated in the module of its part; LedgerHolds and ReplacesTheLast are those of PeerProgress *)

\* A ticket shows work on itself and its neighbours of today, and siblings see nothing of each other.
TicketsSeeTheirNeighbours == Read!TicketsSeeTheirNeighbours

\* No key that a prompt names becomes the session's scope before something on the machine spoke for it.
RoutesHaveEvidence == Routed!RoutesHaveEvidence
=============================================================================
