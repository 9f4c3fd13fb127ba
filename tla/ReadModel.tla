----------------------------- MODULE ReadModel ------------------------------
(***************************************************************************)
(* The projection of the event store into nodes, edges, indexes and a      *)
(* manifest: four files, replaced one after the other, without a lock.     *)
(* The manifest has the head it was made from and the hashes of the other  *)
(* three; a hash is the content itself.                                    *)
(***************************************************************************)
EXTENDS Naturals, Sequences, FiniteSets, SequencesExt

CONSTANTS
  Refs,          \* references that are subjects of events
  Types,         \* event types
  Projectors,    \* processes that project
  None,
  MaxEvents,     \* bound: events of the store
  MaxDeaths      \* bound: projections that die

VARIABLES
  log,           \* the verified events: subject, type, and what they cite: sources, evidence, what they replace
  nodes, edges, indexes, manifest,     \* the files
  projector,     \* per process: where it is, and what it has read
  busy,          \* history: the projectors that have met another projector or an append
  deaths
files == <<nodes, edges, indexes, manifest>>
vars == <<log, files, projector, busy, deaths>>

-----------------------------------------------------------------------------
(* The projection of a sequence of events *)

Node(status, n) == [status |-> status, sequence |-> n]

\* A node has the status of the last event about it; until then a reference that was cited
\* is observed.  Mutant: whatever an event cites becomes observed again.
ProjectOne_Always(known, n) ==
  [ref \in Refs |->
     IF ref \in log[n].cites THEN Node("observed", n)
     ELSE IF ref = log[n].subject THEN Node(log[n].type, n) ELSE known[ref]]
ProjectOne(known, n) ==
  [ref \in Refs |->
     IF ref = log[n].subject THEN Node(log[n].type, n)
     ELSE IF ref \in log[n].cites /\ known[ref] = None THEN Node("observed", n) ELSE known[ref]]

NodesOf(head) == FoldLeft(ProjectOne, [ref \in Refs |-> None], [n \in 1..head |-> n])
EdgesOf(head) == UNION {{<<n, log[n].subject, ref>> : ref \in log[n].cites} : n \in 1..head}

IndexOf(known) ==
  [status \in Types \union {"observed"} |-> {ref \in Refs : known[ref] # None /\ known[ref].status = status}]

ManifestOf(head) ==
  [head |-> head, nodes |-> NodesOf(head), edges |-> EdgesOf(head), indexes |-> IndexOf(NodesOf(head))]

-----------------------------------------------------------------------------
(* Projectors *)

Init ==
  /\ log = <<>> /\ deaths = 0 /\ busy = {}
  /\ nodes = None /\ edges = None /\ indexes = None /\ manifest = None
  /\ projector = [p \in Projectors |-> [pc |-> "idle", head |-> 0, manifest |-> None]]

At(p, label) == projector[p].pc = label
Goes(p, label) == projector' = [projector EXCEPT ![p].pc = label]
Active == {p \in Projectors : ~At(p, "idle")}

\* An event of some component.
AppendEvent ==
  /\ Len(log) < MaxEvents
  /\ \E subject \in Refs, type \in Types : \E cites \in SUBSET (Refs \ {subject}) :
       log' = Append(log, [subject |-> subject, type |-> type, cites |-> cites])
  /\ busy' = busy \union Active
  /\ UNCHANGED <<files, projector, deaths>>

ReadStore(p) ==
  /\ At(p, "idle")
  /\ projector' = [projector EXCEPT ![p] = [@ EXCEPT !.pc = "manifest", !.head = Len(log)]]
  /\ busy' = IF Active = {} THEN busy \ {p} ELSE busy \union Active \union {p}
  /\ UNCHANGED <<log, files, deaths>>

ReadManifest(p) ==
  /\ At(p, "manifest")
  /\ projector' = [projector EXCEPT ![p] = [@ EXCEPT !.pc = "verify", !.manifest = manifest]]
  /\ UNCHANGED <<log, files, busy, deaths>>

\* The model is kept if its manifest is of this head and its files are those of the manifest.
\* Mutant: the manifest is taken at its word.
Verified_ByHead(p) == projector[p].manifest # None /\ projector[p].manifest.head = projector[p].head
Verified(p) ==
  LET read == projector[p].manifest IN
  /\ read # None
  /\ read.head = projector[p].head
  /\ read.nodes = nodes /\ read.edges = edges /\ read.indexes = indexes

Verify(p) ==
  /\ At(p, "verify")
  /\ Goes(p, IF Verified(p) THEN "idle" ELSE "nodes")
  /\ UNCHANGED <<log, files, busy, deaths>>

WriteNodes(p) ==
  /\ At(p, "nodes") /\ nodes' = NodesOf(projector[p].head) /\ Goes(p, "edges")
  /\ UNCHANGED <<log, edges, indexes, manifest, busy, deaths>>

WriteEdges(p) ==
  /\ At(p, "edges") /\ edges' = EdgesOf(projector[p].head) /\ Goes(p, "indexes")
  /\ UNCHANGED <<log, nodes, indexes, manifest, busy, deaths>>

WriteIndexes(p) ==
  /\ At(p, "indexes") /\ indexes' = IndexOf(NodesOf(projector[p].head)) /\ Goes(p, "publish")
  /\ UNCHANGED <<log, nodes, edges, manifest, busy, deaths>>

WriteManifest(p) ==
  /\ At(p, "publish") /\ manifest' = ManifestOf(projector[p].head) /\ Goes(p, "idle")
  /\ UNCHANGED <<log, nodes, edges, indexes, busy, deaths>>

Die(p) ==
  /\ deaths < MaxDeaths /\ ~At(p, "idle")
  /\ deaths' = deaths + 1
  /\ Goes(p, "idle") /\ busy' = busy \union {p}
  /\ UNCHANGED <<log, files>>

Next ==
  \/ AppendEvent
  \/ \E p \in Projectors :
       \/ ReadStore(p) \/ ReadManifest(p) \/ Verify(p) \/ WriteNodes(p) \/ WriteEdges(p)
       \/ WriteIndexes(p) \/ WriteManifest(p) \/ Die(p)

Spec == Init /\ [][Next]_vars

-----------------------------------------------------------------------------

\* What the model says of a reference: the last event about it, or the first that cites it.
Said(ref) ==
  LET about == {n \in DOMAIN log : log[n].subject = ref}
      citing == {n \in DOMAIN log : ref \in log[n].cites} IN
  IF about # {} THEN LET last == CHOOSE n \in about : \A m \in about : m <= n IN Node(log[last].type, last)
  ELSE IF citing # {} THEN Node("observed", CHOOSE n \in citing : \A m \in citing : n <= m)
  ELSE None

\* A projection that ran to its end and met no other and no append leaves all four files
\* complete and of the head, whatever overlapping or dead projections left there before;
\* and what they say of a reference is what the store says.
AloneIsCurrent ==
  [][\A p \in Projectors \ busy :
       ~At(p, "idle") /\ projector'[p].pc = "idle" /\ p \notin busy' =>
         /\ <<nodes, edges, indexes, manifest>>' =
              <<[ref \in Refs |-> Said(ref)], EdgesOf(Len(log)), IndexOf([ref \in Refs |-> Said(ref)]), ManifestOf(Len(log))>>]_vars
=============================================================================
