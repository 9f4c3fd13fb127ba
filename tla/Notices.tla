------------------------------ MODULE Notices ------------------------------
(***************************************************************************)
(* Team notices: committed in a shared repository, approved by receipts of *)
(* its protected branch that a host caches, guarded, matched against the   *)
(* reader's acknowledgements, and injected into a context query within a   *)
(* byte budget.  The repository, the host's cache, the operator's switch   *)
(* and another reader's acknowledgement change while a listing runs.       *)
(*                                                                         *)
(* History is linear: commit i is an ancestor of commit j when i <= j.     *)
(***************************************************************************)
EXTENDS Naturals, Sequences, FiniteSets, SequencesExt

CONSTANTS
  Ids,             \* notice ids
  Contents,        \* the bytes of a record: [author, supersedes, defect, level, dated]
  People,          \* who may approve
  Absent,          \* no record under an id
  Broken,          \* receipts that do not parse or are not bound to their commit
  Budget,          \* envelopes the lane has room for
  First,           \* trees the history may begin with
  MaxCommits,      \* bound: commits
  MaxCached,       \* bound: commits whose receipts are cached
  MaxAcks,         \* bound: acknowledgements
  MaxListings      \* bound: listings

VARIABLES
  commits,         \* the trees committed, in order
  tip,             \* the commit refs/remotes/<remote>/<protectedBranch> is at
  head,            \* the commit the checkout is at
  receipts,        \* per commit: approvals cached for it, or Broken
  acks,            \* acknowledged <<id, content>>
  allowed,         \* the provider's teamShared switch, or an emergency grant
  late,            \* the dated notices have expired
  listing,         \* the running listing
  listed

vars == <<commits, tip, head, receipts, acks, allowed, late, listing, listed>>

NoListing == [pc |-> "idle", state |-> "none", commit |-> 0, tree |-> [i \in Ids |-> Absent],
              approved |-> {}, clean |-> {}, acked |-> {}, lane |-> <<>>, omitted |-> {}]

Init ==
  /\ commits \in {<<t>> : t \in First}
  /\ tip = 1 /\ head = 1 /\ receipts = <<{}>>
  /\ acks = {} /\ allowed = TRUE /\ late = FALSE
  /\ listing = NoListing /\ listed = 0

----------------------------------------------------------------------------
(* The guard *)

\* Records a guard lets through, of one tree, as functions of the ids they have.
Passing(tree) == {i \in Ids : tree[i] # Absent /\ tree[i].defect # "lint"}

\* What an id leads to by supersession, through records that pass.
Reach(tree, ids) ==
  LET passing == Passing(tree)
      step(S) == S \union UNION {tree[i].supersedes : i \in S \intersect passing}
      reach[n \in 0..Cardinality(Ids)] == IF n = 0 THEN ids ELSE step(reach[n - 1])
  IN reach[Cardinality(Ids)]

\* Superseding what is not there, or itself in the end.
IllLinked(tree) == {i \in Passing(tree) :
  LET after == Reach(tree, tree[i].supersedes) IN i \in after \/ ~(after \subseteq Passing(tree))}

\* An approver who is the author; no receipts at all for a broken container.
Approval(receipt, id, content) ==
  UNION {r.approvers : r \in {r \in receipt : r.id = id /\ r.content = content}}
SelfApproved(tree, receipt) ==
  IF receipt = Broken THEN Passing(tree)
  ELSE {i \in Passing(tree) : tree[i].author \in Approval(receipt, i, tree[i])}

\* Mutant: only what is bad itself goes, not what supersedes it.
GuardSupersedes_Once(tree, bad) == Passing(tree) \ bad
\* A record that supersedes a bad one is bad.
GuardSupersedes(tree, bad) ==
  LET worse(S) == S \union {i \in Passing(tree) : tree[i].supersedes \intersect S # {}}
      spread[n \in 0..Cardinality(Ids)] == IF n = 0 THEN bad ELSE worse(spread[n - 1])
  IN Passing(tree) \ spread[Cardinality(Ids)]

\* The read of the shared context, and then the roles of the audience policy.
Clean(tree, receipt) ==
  LET read == GuardSupersedes(tree, IllLinked(tree) \union SelfApproved(tree, receipt))
      foreign == {i \in read : tree[i].defect = "roles"}
  IN GuardSupersedes([i \in Ids |-> IF i \in read THEN tree[i] ELSE Absent], foreign)

Approved(tree, receipt) == IF receipt = Broken THEN {} ELSE {i \in Passing(tree) :
  LET by == Approval(receipt, i, tree[i]) IN by # {} /\ tree[i].author \notin by}

Superseded(tree, clean) == UNION {tree[i].supersedes : i \in clean}

----------------------------------------------------------------------------
(* A listing for injection *)

\* The operator's switch comes first.
ReadPolicy ==
  /\ listing.pc = "idle" /\ listed < MaxListings
  /\ listed' = listed + 1
  /\ listing' = IF allowed THEN [NoListing EXCEPT !.pc = "commit"]
                           ELSE [NoListing EXCEPT !.pc = "done", !.state = "disabled"]
  /\ UNCHANGED <<commits, tip, head, receipts, acks, allowed, late>>

\* HEAD, which has to be on the protected branch, and the tree of that very commit.
ReadCommit ==
  /\ listing.pc = "commit"
  /\ listing' = IF head > tip
       THEN [NoListing EXCEPT !.pc = "done", !.state = "untrusted"]
       ELSE [listing EXCEPT !.pc = "receipts", !.commit = head, !.tree = commits[head]]
  /\ UNCHANGED <<commits, tip, head, receipts, acks, allowed, late, listed>>

\* The receipts the host has for that commit by now, and the guards.
ReadReceipts ==
  /\ listing.pc = "receipts"
  /\ LET receipt == receipts[listing.commit] IN
     listing' = [listing EXCEPT !.pc = "read", !.state = "ready",
                                !.approved = Approved(listing.tree, receipt),
                                !.clean = Clean(listing.tree, receipt)]
  /\ UNCHANGED <<commits, tip, head, receipts, acks, allowed, late, listed>>

Rank(level) == CASE level = "primary" -> 2 [] level = "visible" -> 1 [] OTHER -> 0
\* The clean notices, the reader's own first.
Order(tree, ids) == CHOOSE s \in SetToSeqs(ids) :
  \A i, j \in DOMAIN s : i < j => Rank(tree[s[i]].level) >= Rank(tree[s[j]].level)

\* Mutant: an acknowledgement counts for the id, whatever it says now.
Acknowledged_ById(id, content) == \E a \in acks : a[1] = id
Acknowledged(id, content) == <<id, content>> \in acks

\* Neither superseded, expired, read, unapproved nor for somebody else.
Injectable(id) ==
  LET c == listing.tree[id] IN
    /\ id \notin Superseded(listing.tree, listing.clean)
    /\ ~(c.dated /\ late)
    /\ ~Acknowledged(id, c)
    /\ id \in listing.approved
    /\ c.level \in {"primary", "visible"}

\* Whole envelopes, as many as fit.
Compose ==
  /\ listing.pc = "read"
  /\ LET lane == Order(listing.tree, {i \in listing.clean : Injectable(i)}) IN
       \E room \in 0..Budget :     \* what the claims leave of the context
         LET kept == SubSeq(lane, 1, IF Len(lane) < room THEN Len(lane) ELSE room) IN
         listing' = [listing EXCEPT !.pc = "done", !.lane = kept, !.acked = acks,
                                    !.omitted = ToSet(lane) \ ToSet(kept)]
  /\ UNCHANGED <<commits, tip, head, receipts, acks, allowed, late, listed>>

Close ==
  /\ listing.pc = "done"
  /\ listing' = NoListing
  /\ UNCHANGED <<commits, tip, head, receipts, acks, allowed, late, listed>>

\* context-notices ack: only what the source still says, under the same guard.
Ack(id) ==
  /\ allowed /\ head <= tip /\ Cardinality(acks) < MaxAcks
  /\ id \in Clean(commits[head], receipts[head])
  /\ acks' = acks \union {<<id, commits[head][id]>>}
  /\ UNCHANGED <<commits, tip, head, receipts, allowed, late, listing, listed>>

----------------------------------------------------------------------------
(* The team, the host and the operator *)

Commit(id) ==
  /\ Len(commits) < MaxCommits
  /\ \E c \in Contents \union {Absent} :
       /\ c # Last(commits)[id]
       /\ commits' = Append(commits, [Last(commits) EXCEPT ![id] = c])
  /\ receipts' = Append(receipts, {})
  /\ UNCHANGED <<tip, head, acks, allowed, late, listing, listed>>

\* The branch is merged and fetched, the checkout moved.
Fetch == tip < Len(commits) /\ tip' = tip + 1
         /\ UNCHANGED <<commits, head, receipts, acks, allowed, late, listing, listed>>
Checkout == head < Len(commits) /\ head' = head + 1
            /\ UNCHANGED <<commits, tip, receipts, acks, allowed, late, listing, listed>>

\* The host caches the receipts of a commit, for two contents at most, of what was approved in it or before.
Cache(i) ==
  /\ i <= tip /\ receipts[i] = {} /\ Cardinality({j \in DOMAIN receipts : receipts[j] # {}}) < MaxCached
  /\ LET History == {e \in Ids \X Contents : \E j \in 1..i : commits[j][e[1]] = e[2]}
         said == {e[2] : e \in History}
     IN \E cs \in kSubset(1, said) \union kSubset(2, said), by \in (SUBSET People) \ {{}} :
        \E receipt \in {Broken, {[id |-> e[1], content |-> e[2], approvers |-> by] :
                                   e \in {h \in History : h[2] \in cs}}} :
          receipts' = [receipts EXCEPT ![i] = receipt]
  /\ UNCHANGED <<commits, tip, head, acks, allowed, late, listing, listed>>

Switch == allowed /\ allowed' = FALSE /\ UNCHANGED <<commits, tip, head, receipts, acks, late, listing, listed>>
Expire == ~late /\ late' = TRUE /\ UNCHANGED <<commits, tip, head, receipts, acks, allowed, listing, listed>>

World ==
  \/ \E i \in Ids : Ack(i) \/ Commit(i)
  \/ Fetch \/ Checkout \/ (\E i \in DOMAIN commits : Cache(i)) \/ Switch \/ Expire

\* Bound: the world stands still between an answer and its being closed, and after the last listing.
Next ==
  \/ ReadPolicy \/ ReadCommit \/ ReadReceipts \/ Compose \/ Close
  \/ listing.pc # "done" /\ (listing.pc = "idle" => listed < MaxListings) /\ World

Spec == Init /\ [][Next]_vars

----------------------------------------------------------------------------
(* Properties *)

Sound(tree, receipt, id) ==
  /\ tree[id] # Absent /\ tree[id].defect = "none"
  /\ receipt # Broken /\ tree[id].author \notin Approval(receipt, id, tree[id])

\* The notice and all it supersedes can be put in an order in which every one is
\* sound and only supersedes earlier ones: no gap, no circle, nothing quarantined.
Trustworthy(tree, receipt, id) ==
  \E ids \in SUBSET Ids : \E s \in SetToSeqs(ids) :
    /\ id \in ids
    /\ \A n \in DOMAIN s : Sound(tree, receipt, s[n])
         /\ tree[s[n]].supersedes \subseteq {s[m] : m \in 1..(n - 1)}

\* What a query injects is on the protected branch, was approved for exactly these
\* bytes by somebody who did not write them, hangs together with all that it
\* supersedes, and is not what this reader has read ("Normal context queries inject
\* only approved, unread notices", docs/provider-policy.md:198).
InjectedWasApproved ==
  listing.pc = "done" => \A id \in ToSet(listing.lane) :
    LET content == listing.tree[id] IN
      \E i \in 1..tip :
        /\ commits[i] = listing.tree
        /\ Trustworthy(commits[i], receipts[i], id)
        /\ \E r \in receipts[i] : r.id = id /\ r.content = content /\ r.approvers \ {content.author} # {}
        /\ <<id, content>> \notin listing.acked

\* Nothing that should be injected is missing: an acknowledgement, an approval or a
\* supersession of other bytes, or by a record that is quarantined, hides nothing
\* ("quarantined records cannot supersede anything", docs/provider-policy.md:196),
\* and what the budget leaves out never outranks what it lets in.
NewsComesThrough ==
  (listing.pc = "done" /\ listing.state = "ready") =>
    LET tree == listing.tree
        trusted == {i \in Ids : \E c \in 1..tip : commits[c] = tree /\ Trustworthy(tree, receipts[c], i)}
        due == {i \in listing.clean \intersect listing.approved :
                  /\ tree[i].level \in {"primary", "visible"} /\ ~tree[i].dated
                  /\ \A j \in trusted : i \notin tree[j].supersedes
                  /\ <<i, tree[i]>> \notin listing.acked}
    IN /\ due \subseteq ToSet(listing.lane) \union listing.omitted
       /\ \A i \in ToSet(listing.lane), j \in listing.omitted : Rank(tree[i].level) >= Rank(tree[j].level)
=============================================================================
