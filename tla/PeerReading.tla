---------------------------- MODULE PeerReading -----------------------------
(***************************************************************************)
(* What a query shows of the progress of other agents.  A publication      *)
(* records the relations of its scope as the ticket packages and the       *)
(* review ledger had them then; a query has relations of its own; both are *)
(* compared with what the packages and the ledger say when it reads.       *)
(*                                                                         *)
(* A query is a pure function of the files, so it is an operator, and the  *)
(* property looks at every query in every state.                           *)
(***************************************************************************)
EXTENDS Naturals, FiniteSets, FiniteSetsExt

CONSTANTS
  Actors,          \* agents, each with one piece of work
  Tickets,
  Epic,            \* the ticket that may be a parent
  Review, Project, \* a merge request and the project it belongs to
  None,
  MaxPublishes,    \* bound: publications
  MaxEdits         \* bound: changes of packages and ledger

VARIABLES
  package,         \* per ticket: its parent, subtasks and links
  ledger,          \* the tickets in the ledger of the review, or None
  artifact,        \* per actor: its last publication, or None
  publishes, edits
vars == <<package, ledger, artifact, publishes, edits>>

Scope(kind, key) == [kind |-> kind, key |-> key]
Scopes == {Scope("ticket", t) : t \in Tickets}
            \union {Scope("merge-request", Review), Scope("project", Project)}
Relation(scope, relationship) == [scope |-> scope, relationship |-> relationship]

Init ==
  /\ package = [t \in Tickets |-> [parent |-> None, subtasks |-> {}, links |-> {}]]
  /\ ledger = None
  /\ artifact = [a \in Actors |-> None]
  /\ publishes = 0 /\ edits = 0

-----------------------------------------------------------------------------
(* Packages, ledger and what they relate *)

TicketRelations(t) ==
  {Relation(Scope(kind, package[t].parent), "jira-parent")
     : kind \in IF package[t].parent = None THEN {} ELSE {"ticket", "workstream"}}
  \union {Relation(Scope("ticket", u), "jira-subtask") : u \in package[t].subtasks}
  \union {Relation(Scope("ticket", u), "jira-link") : u \in package[t].links}

ReviewRelations ==
  IF ledger = None THEN {}
  ELSE {Relation(Scope("project", Project), "review-project")}
         \union {Relation(Scope("ticket", t), "review-ticket") : t \in ledger}

RelationsForScope(scope) ==
  IF scope.kind = "ticket" THEN TicketRelations(scope.key)
  ELSE IF scope.kind = "merge-request" THEN ReviewRelations ELSE {}

\* Of several relations to one scope the first in an order is kept.
FirstPerScope(relations, order) ==
  LET Rank(relation) == CHOOSE n \in DOMAIN order : order[n] = relation.relationship IN
  {r \in relations : \A q \in relations : q.scope = r.scope => Rank(r) <= Rank(q)}

\* A publication lets everything replace a parent; a query keeps what comes first.
PublishOrder == <<"primary", "explicit", "jira-subtask", "jira-link", "review-project", "review-ticket", "jira-parent">>
ReadOrder == <<"jira-parent", "jira-subtask", "jira-link", "review-project", "review-ticket">>

-----------------------------------------------------------------------------
(* Publication, and what happens to the files *)

\* A review needs its ledger to be published about.
Publish(a) ==
  /\ publishes < MaxPublishes
  /\ \E scope \in Scopes, explicit \in SUBSET Scopes, mentions, thread \in BOOLEAN :
       /\ Cardinality(explicit) <= 1 /\ (thread => scope.kind = "project")
       /\ scope.kind = "merge-request" => ledger # None
       /\ artifact' = [artifact EXCEPT ![a] =
            [scope |-> scope, mentions |-> mentions, thread |-> thread, expired |-> FALSE,
             related |-> FirstPerScope({Relation(scope, "primary")}
                                       \union {Relation(s, "explicit") : s \in explicit}
                                       \union RelationsForScope(scope), PublishOrder)]]
  /\ publishes' = publishes + 1
  /\ UNCHANGED <<package, ledger, edits>>

Expire(a) ==
  /\ artifact[a] # None /\ ~artifact[a].expired
  /\ artifact' = [artifact EXCEPT ![a].expired = TRUE]
  /\ UNCHANGED <<package, ledger, publishes, edits>>

Toggle(set, x) == (set \ {x}) \union ({x} \ set)

EditPackage(t) ==
  /\ edits < MaxEdits /\ edits' = edits + 1
  /\ \/ package' = [package EXCEPT ![t].parent = IF @ = None THEN Epic ELSE None] /\ t # Epic
     \/ \E u \in Tickets \ {t} : package' = [package EXCEPT ![t].links = Toggle(@, u)]
     \/ \E u \in Tickets \ {t} : package' = [package EXCEPT ![t].subtasks = Toggle(@, u)] /\ t = Epic
  /\ UNCHANGED <<ledger, artifact, publishes>>

EditLedger ==
  /\ edits < MaxEdits /\ edits' = edits + 1
  /\ ledger' \in {None} \union {{}} \union {{t} : t \in Tickets}
  /\ ledger' # ledger
  /\ UNCHANGED <<package, artifact, publishes>>

Next ==
  \/ EditLedger
  \/ \E a \in Actors : Publish(a) \/ Expire(a)
  \/ \E t \in Tickets : EditPackage(t)

Spec == Init /\ [][Next]_vars

-----------------------------------------------------------------------------
(* A query: a scope, whether it has a term, and the scopes its policy does not let it read *)

Queries == [scope : Scopes \union {Scope("workstream", Epic)}, term : BOOLEAN, denied : SUBSET Scopes]
Readable(query, scope) == scope \notin query.denied

QueryRelations(query) ==
  {Relation(query.scope, "primary")} \union RelationsForScope(query.scope)
  \union IF query.scope.kind # "project" /\ Readable(query, Scope("project", Project))
           THEN {Relation(Scope("project", Project), "ambient-project")} ELSE {}

\* Mutant: a common parent relates as much as a link does.
RelationshipWeight_Parent(relationship) ==
  IF relationship = "primary" THEN 20 ELSE IF relationship = "ambient-project" THEN 4 ELSE 12
RelationshipWeight(relationship) ==
  IF relationship = "primary" THEN 20
  ELSE IF relationship \in {"explicit", "jira-link", "jira-subtask", "review-ticket", "review-project"} THEN 12
  ELSE 4
DirectHierarchyWeight(relationship) ==
  IF relationship = "jira-parent" THEN 10 ELSE RelationshipWeight(relationship)

\* What the artifact relates to now: derived relations that are gone are dropped, new ones are
\* added, unless there is nothing to derive them from.
LedgerRelations(art) ==
  RelationsForScope(art.scope)
  \union IF \E r \in art.related : r.scope.kind = "merge-request" THEN ReviewRelations ELSE {}

CurrentRelations(art) ==
  LET ledgerRelations == LedgerRelations(art)
      kept == {r \in art.related : r.relationship \in {"primary", "explicit"} \/ r \in ledgerRelations}
      added == {r \in ledgerRelations : \A q \in kept : q.scope # r.scope} IN
  IF ledgerRelations = {} /\ art.scope.kind # "ticket" THEN art.related
  ELSE kept \union FirstPerScope(added, ReadOrder)

\* One score per way in which artifact and query meet.  A project that two scopes share does
\* not relate a review to anything.
Scores(art, related, query) ==
  LET relations == {q \in QueryRelations(query) :
                      ~(query.scope.kind = "merge-request" /\ q.scope.kind = "project")}
      Least(r, q) == Min({RelationshipWeight(r.relationship), RelationshipWeight(q.relationship)}) IN
  (IF art.scope = query.scope THEN {20} ELSE {})
  \union {DirectHierarchyWeight(r.relationship) : r \in {r \in related : r.scope = query.scope}}
  \union {Least(r, q) : <<r, q>> \in {pair \in related \X relations : pair[1].scope = pair[2].scope}}
  \union {DirectHierarchyWeight(q.relationship) : q \in {q \in relations : q.scope = art.scope}}

Matches(art, query) == query.term /\ art.mentions

\* Whether the artifact is relevant, with these relations.
Relevant(art, related, query) ==
  LET scores == Scores(art, related, query) IN
  /\ query.scope.kind \in {"ticket", "merge-request"} => scores # {}
  /\ Matches(art, query) \/ (/\ scores # {} /\ Max(scores) >= 8
                             /\ ~(art.thread /\ art.scope = query.scope))

Shown(query) ==
  {a \in {b \in Actors : artifact[b] # None} :
     /\ Readable(query, query.scope) /\ Readable(query, artifact[a].scope)
     /\ ~artifact[a].expired
     /\ Relevant(artifact[a], CurrentRelations(artifact[a]), query)}

-----------------------------------------------------------------------------

\* What the tracker says today of a ticket and what the ledger says of the review: closely
\* related scopes, and with the parent.
Close(scope) == {r.scope : r \in {r \in RelationsForScope(scope) : r.relationship # "jira-parent"}}
Near(scope) == {r.scope : r \in RelationsForScope(scope)}
Declared(art) == {r.scope : r \in {r \in art.related : r.relationship \in {"primary", "explicit"}}}
CloseTo(art) ==
  Declared(art) \union Close(art.scope)
  \union IF Scope("merge-request", Review) \in Declared(art) THEN Close(Scope("merge-request", Review)) ELSE {}

\* The review of the artifact lost its ledger: what was recorded stays.
Orphaned(art) == art.scope.kind = "merge-request" /\ ledger = None

\* Without a term, a ticket shows work on itself and on what is its neighbour today, on
\* either side, whatever the tracker said when the work was published; beyond that only work
\* that is close to something it is close to itself.  Siblings have no more than a parent in
\* common, and see nothing of each other.
TicketsSeeTheirNeighbours ==
  \A query \in [scope : {Scope("ticket", t) : t \in Tickets}, term : {FALSE},
                denied : {{}} \union {{s} : s \in Scopes}], a \in Actors :
    artifact[a] # None /\ ~Orphaned(artifact[a]) =>
      LET art == artifact[a]
          direct == \/ query.scope \in CloseTo(art) \union Near(art.scope)
                    \/ art.scope \in Near(query.scope)
          shared == CloseTo(art) \intersect Close(query.scope) # {} IN
      /\ a \in Shown(query) => direct \/ shared
      /\ direct /\ ~art.expired /\ query.denied \intersect {query.scope, art.scope} = {} => a \in Shown(query)
=============================================================================
