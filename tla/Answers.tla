------------------------------ MODULE Answers ------------------------------
(***************************************************************************)
(* What a reader is told: a context query over the snapshots related to    *)
(* its scope, and an export in pages, while claims are published, tickets  *)
(* are linked and the operator changes the read rules of the provider.     *)
(*                                                                         *)
(* state[s] is the claim index of scope s in state.json, listed[s] the     *)
(* snapshot the registry names; a publication commits the first and then   *)
(* writes the second.  The file of a listed snapshot never changes.        *)
(***************************************************************************)
EXTENDS Naturals, Sequences, FiniteSets, FiniteSetsExt

CONSTANTS
  Provider,        \* the provider that asks
  Kinds,           \* scope |-> kind
  Ambient,         \* the configured project scope
  Offers,          \* claims there are to publish
  Askable, Exports,  \* scopes asked for, and sets of scopes exported
  Rules,           \* read rules: [isolated, restricted, readable]
  MaxSnapshots, MaxClaims,  \* of the profile
  ReadFactor,      \* claims read per snapshot, over MaxClaims: 4
  PageSize,        \* of the export
  MaxClaimsEver,   \* bound: publications
  MaxChanges,      \* bound: rules, grants and links changed
  MaxReaders       \* bound: queries and exports

VARIABLES
  state, listed, pending,   \* pending: the scope whose registry entry is behind, or none
  clock, links, rule, lifted, changes, reader, readers

vars == <<state, listed, pending, clock, links, rule, lifted, changes, reader, readers>>
world == <<state, listed, pending, clock, links, rule, lifted, changes>>

AllScopes == DOMAIN Kinds
NoSnapshot == [claims |-> {}, relations |-> {}, created |-> 0]
NoRule == [isolated |-> FALSE, restricted |-> FALSE, readable |-> AllScopes]
Idle == [pc |-> "idle"]

Init ==
  /\ state = [s \in AllScopes |-> {}]
  /\ listed = [s \in AllScopes |-> NoSnapshot]
  /\ pending = {} /\ clock = 0
  /\ links = {} /\ lifted = FALSE /\ changes = 0
  /\ rule \in Rules
  /\ reader = Idle /\ readers = 0

----------------------------------------------------------------------------
(* Policy *)

\* A grant in force lifts every rule of its provider.
PolicyEntry == IF lifted THEN NoRule ELSE rule

----------------------------------------------------------------------------
(* Publication, as far as readers see it *)

Claim(offer) == [id |-> clock', of |-> offer]

\* A claim joins its scope, or replaces one there; related scopes are those of now.
Publish(offer, replaced) ==
  /\ pending = {} /\ clock < MaxClaimsEver
  /\ clock' = clock + 1
  /\ state' = [state EXCEPT ![offer.scope] = (@ \ replaced) \union {Claim(offer)}]
  /\ pending' = {[scope |-> offer.scope,
                  relations |-> {offer.scope} \union {t \in AllScopes : <<offer.scope, t>> \in links}]}
  /\ UNCHANGED <<listed, links, rule, lifted, changes, reader, readers>>

SynchronizeRegistry == \E p \in pending :
  /\ listed' = [listed EXCEPT ![p.scope] =
       [claims |-> state[p.scope], relations |-> p.relations, created |-> clock]]
  /\ pending' = {}
  /\ UNCHANGED <<state, clock, links, rule, lifted, changes, reader, readers>>

Change ==
  /\ changes < MaxChanges /\ changes' = changes + 1
  /\ \/ \E s, t \in AllScopes :
          /\ s # t /\ Kinds[s] = "ticket" /\ Kinds[t] = "ticket" /\ <<s, t>> \notin links
          /\ links' = links \union {<<s, t>>}
          /\ UNCHANGED <<rule, lifted>>
     \/ \E r \in Rules \ {rule} : rule' = r /\ UNCHANGED <<links, lifted>>
     \/ lifted' = ~lifted /\ UNCHANGED <<links, rule>>
  /\ reader' = IF UNCHANGED links /\ reader.pc = "paging" THEN [reader EXCEPT !.steady = FALSE] ELSE reader
  /\ UNCHANGED <<state, listed, pending, clock, readers>>

----------------------------------------------------------------------------
(* The context query *)

Goes(pc) == reader' = [reader EXCEPT !.pc = pc]

Narrower(s) == Kinds[s] \in {"ticket", "merge-request", "workstream"}
Narrow(s) == Kinds[s] \in {"ticket", "merge-request"}

\* Roles of scopes in a query, as snapshotRank orders them; 4 is no role.
Primary == 0  AmbientProject == 1  AmbientGlobal == 2  Related == 3  NoRelation == 4

AcceptedScopeRelations(scope, entry) == [s \in AllScopes |->
  CASE s = scope -> Primary
    [] s # scope /\ s = Ambient /\ Narrower(scope) /\ s \in entry.readable -> AmbientProject
    [] s # scope /\ s # Ambient /\ ~entry.restricted /\ <<scope, s>> \in links -> Related
    [] OTHER -> NoRelation]

Asked(scope, terms, cross) ==
  [scope |-> scope, terms |-> terms, cross |-> cross, entry |-> PolicyEntry,
   roles |-> AcceptedScopeRelations(scope, PolicyEntry)]

Denied(scope, entry) == entry.isolated \/ scope \notin entry.readable

Fresh(pc, asked) ==
  [pc |-> pc, asked |-> asked, todo |-> {}, found |-> {}, warnings |-> {},
   due |-> {}, answer |-> {}, audited |-> {}]

Ask(scope, terms, cross) ==
  /\ reader.pc \in {"idle", "answered", "failed", "paged"} /\ readers < MaxReaders
  /\ readers' = readers + 1
  /\ reader' = LET asked == Asked(scope, terms, cross) IN
       IF Denied(scope, asked.entry)
         THEN [Fresh("audit", asked) EXCEPT !.warnings = {"provider-policy-denied"}]
         ELSE Fresh("list", asked)
  /\ UNCHANGED world

\* Global scopes the registry lists join; a rule may take them out again.
AmbientGlobalRelations(asked) == {s \in AllScopes :
  /\ Kinds[s] = "global" /\ Kinds[asked.scope] # "global" /\ listed[s] # NoSnapshot
  /\ s \in asked.entry.readable /\ asked.roles[s] = NoRelation}

WithGlobals(asked) == [asked EXCEPT !.roles = [s \in AllScopes |->
  IF s \in AmbientGlobalRelations(asked) THEN AmbientGlobal ELSE @[s]]]

Matches(snapshot, roles) == \E r \in snapshot.relations : roles[r] # NoRelation

\* Mutant: newest first, whatever the scope is to the query.
RanksBefore_Newest(s, t, roles) == listed[s].created > listed[t].created
RanksBefore(s, t, roles) ==
  \/ roles[s] < roles[t]
  \/ roles[s] = roles[t] /\ listed[s].created > listed[t].created

List ==
  /\ reader.pc = "list"
  /\ reader' = LET asked == WithGlobals(reader.asked)
                   related == {s \in AllScopes : Matches(listed[s], asked.roles)}
                   todo == {s \in related :
                     Cardinality({t \in related : RanksBefore(t, s, asked.roles)}) < MaxSnapshots}
               IN [reader EXCEPT !.pc = "open", !.asked = asked,
                     !.todo = {[scope |-> s, file |-> listed[s]] : s \in todo},
                     !.due = UNION {listed[s].claims \intersect state[s] : s \in related},
                     !.warnings = IF related = todo THEN @ ELSE @ \union {"snapshot-limit"}]
  /\ UNCHANGED <<world, readers>>

ClaimReadLimit == Min({Max({MaxClaims * ReadFactor, MaxClaims}), 100})

\* Only what the state still lists, and of that so many, in the order of hashes.
Open(entry, read) ==
  LET allowed == entry.file.claims \intersect state[entry.scope] IN
  /\ reader.pc = "open"
  /\ read \in kSubset(Min({Cardinality(allowed), ClaimReadLimit}), allowed)
  /\ reader' = [reader EXCEPT
       !.todo = @ \ {entry},
       !.found = @ \union read,
       !.warnings = IF read = allowed THEN @ ELSE @ \union {"claim-read-limit"}]
  /\ UNCHANGED <<world, readers>>

----------------------------------------------------------------------------
(* Relevance *)

Own(claim) == claim.of.owner = Provider

\* Mutant: the sensitivity of another provider's claim is not looked at.
Visible_Any(claim, asked) == asked.cross \/ Own(claim)
\* Another provider's claim: when the profile crosses, and it is shared.
Visible(claim, asked) == Own(claim) \/ (asked.cross /\ claim.of.shared)

\* Mutant: terms filter the requested scope like any other.
TermMiss_NoFloor(claim, asked) ==
  asked.terms /\ ~claim.of.hit /\ Kinds[claim.of.scope] # "global"
\* Terms that match nothing leave a narrow scope's own claims and global rules.
TermMiss(claim, asked) ==
  /\ asked.terms /\ ~claim.of.hit
  /\ ~(Narrow(asked.scope) /\ claim.of.scope = asked.scope)
  /\ ~(Kinds[claim.of.scope] = "global" /\ Kinds[asked.scope] # "global")

Score(claim, asked) ==
  (IF asked.terms /\ claim.of.hit THEN 8 ELSE 0) + 2 * claim.of.words
  + (IF claim.of.scope = asked.scope THEN 4 ELSE 2) + (IF Own(claim) THEN 0 ELSE 1)

ScoresBefore(c, d, asked) ==
  \/ Score(c, asked) > Score(d, asked)
  \/ Score(c, asked) = Score(d, asked) /\ c.id > d.id

Answer ==
  LET asked == reader.asked
      current == {c \in reader.found : c.of.fresh /\ Visible(c, asked) /\ ~TermMiss(c, asked)}
      best == {c \in current : Cardinality({d \in current : ScoresBefore(d, c, asked)}) < MaxClaims}
  IN /\ reader.pc = "open" /\ reader.todo = {}
     /\ reader' = [reader EXCEPT !.pc = "audit", !.answer = best,
          !.warnings = @ \union (IF best = current THEN {} ELSE {"claim-limit"})
                         \union (IF \A c \in reader.found : c.of.fresh THEN {} ELSE {"stale-excluded"})]
     /\ UNCHANGED <<world, readers>>

\* The audit record and the injection, then the ledgers of ticket, review and thread.
Audit ==
  /\ reader.pc = "audit"
  /\ reader' = [reader EXCEPT !.pc = "ledgers", !.audited = reader.answer]
  /\ UNCHANGED <<world, readers>>

\* A ledger's lock may stay taken for too long: the query fails, its audit stays.
AppendLedgers ==
  /\ reader.pc = "ledgers"
  /\ Goes("answered") \/ Goes("failed")
  /\ UNCHANGED <<world, readers>>

----------------------------------------------------------------------------
(* The export, one call per page *)

\* What a page may hold: claims of scopes asked for, or that carry the reference.
Exportable(asked) == IF PolicyEntry.isolated THEN {} ELSE
  UNION {LET snapshot == listed[s]
             allowed == snapshot.claims \intersect state[s]
             inScope == snapshot.relations \intersect asked.scopes \intersect PolicyEntry.readable # {}
         IN {c \in allowed : (Own(c) \/ c.of.shared)
                             /\ (inScope \/ (asked.refs /\ s \in PolicyEntry.readable /\ c.of.ref))}
         : s \in AllScopes}

StartExport(scopes, refs) ==
  /\ reader.pc \in {"idle", "answered", "failed", "paged"} /\ readers < MaxReaders
  /\ scopes # {} \/ refs
  /\ readers' = readers + 1
  /\ reader' = LET asked == [scopes |-> scopes, refs |-> refs] IN
       [pc |-> "paging", asked |-> asked, after |-> 0, got |-> <<>>,
        due |-> Exportable(asked), steady |-> TRUE]
  /\ UNCHANGED world

\* Mutant: the cursor keeps its own claim.
After_Inclusive(claims, after) == {c \in claims : c.id >= after}
After(claims, after) == {c \in claims : c.id > after}

Page ==
  /\ reader.pc = "paging"
  /\ LET current == After(Exportable(reader.asked), reader.after)
         page == {c \in current : Cardinality({d \in current : d.id < c.id}) < PageSize}
     IN reader' = [reader EXCEPT
          !.pc = IF page = current THEN "paged" ELSE "paging",
          !.after = IF page = {} THEN @ ELSE Max({c.id : c \in page}),
          !.got = Append(@, page)]
  /\ UNCHANGED <<world, readers>>

Next ==
  \/ \E o \in Offers : \E replaced \in {{}} \union {{c} : c \in state[o.scope]} : Publish(o, replaced)
  \/ SynchronizeRegistry \/ Change
  \/ \E s \in Askable, terms, cross \in BOOLEAN : Ask(s, terms, cross)
  \/ List
  \/ reader.pc = "open" /\ \E e \in reader.todo : \E read \in SUBSET e.file.claims : Open(e, read)
  \/ Answer \/ Audit \/ AppendLedgers
  \/ \E scopes \in Exports, refs \in BOOLEAN : StartExport(scopes, refs)
  \/ Page

Spec == Init /\ [][Next]_vars

----------------------------------------------------------------------------
(* Properties *)

Decided == reader.pc \in {"audit", "ledgers", "answered", "failed"}
           /\ "provider-policy-denied" \notin reader.warnings
Warned(w) == w \in reader.warnings
StillCurrent(c) == c \in state[c.of.scope]

\* What the reader may have and asked for.
Wanted(c, asked) ==
  /\ c.of.fresh
  /\ Own(c) \/ (asked.cross /\ c.of.shared)
  /\ \/ ~asked.terms \/ c.of.hit
     \/ Narrow(asked.scope) /\ c.of.scope = asked.scope
     \/ Kinds[c.of.scope] = "global" /\ Kinds[asked.scope] # "global"

\* No silent gap: a claim wanted and listed when the query looked, and current to
\* the end, is in the answer or a warning names the limit that cut it; and the limit
\* on snapshots never costs the scope that was asked for.
AnswerIsComplete == Decided =>
  \A c \in reader.due : StillCurrent(c) /\ Wanted(c, reader.asked) =>
    \/ c \in reader.answer
    \/ Warned("claim-limit") \/ Warned("claim-read-limit")
    \/ Warned("snapshot-limit") /\ c.of.scope # reader.asked.scope

\* Nothing private of the other provider, nothing across when the profile does not
\* cross, and what is handed out is on record.
AnswerIsAllowed == Decided =>
  /\ \A c \in reader.answer : c.of.owner # Provider => c.of.shared /\ reader.asked.cross
  /\ reader.pc = "answered" => reader.audited = reader.answer

\* An export read to its end, the rules unchanged, holds every claim that was due at
\* its start and stayed current; and no export holds a claim twice.
PagesMissNothing == reader.pc \in {"paging", "paged"} =>
  /\ \A i, j \in DOMAIN reader.got : i # j => reader.got[i] \intersect reader.got[j] = {}
  /\ reader.pc = "paged" /\ reader.steady =>
       \A c \in reader.due : StillCurrent(c) => \E i \in DOMAIN reader.got : c \in reader.got[i]

\* docs/architecture.md:194: a claim of the ambient project surfaces without a term
\* match.  The code lets only the scope asked for and global rules pass the terms.
StandingPracticeSurfaces == Decided =>
  \A c \in reader.due :
    /\ StillCurrent(c) /\ c.of.fresh /\ Own(c) /\ reader.asked.roles[c.of.scope] = AmbientProject
    => c \in reader.answer \/ reader.warnings \intersect {"claim-limit", "claim-read-limit", "snapshot-limit"} # {}

\* context-query.mjs:87: a provider with read rules sees only the scopes it asked for
\* (and may read).  A snapshot of another scope comes along when it was published as related.
RestrictedSeesItsScopes == Decided /\ reader.asked.entry.restricted =>
  \A c \in reader.answer : c.of.scope \in reader.asked.entry.readable

\* context-query.mjs:451: global rules rank below every claim that matched a term.
\* Four words of the profile outweigh a term.
GlobalsRankBelow == Decided =>
  \A c, d \in reader.due : /\ StillCurrent(d) /\ Wanted(d, reader.asked) /\ d.of.hit /\ d \in reader.found
                           /\ reader.asked.terms /\ ~c.of.hit
                           /\ reader.asked.roles[c.of.scope] = AmbientGlobal /\ c \in reader.answer
                           => d \in reader.answer
=============================================================================
