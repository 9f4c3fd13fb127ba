---------------------------- MODULE Corrections -----------------------------
(***************************************************************************)
(* Corrections as events: a proposal names the revision it replaces and    *)
(* what it puts there, a decision accepts or rejects it after the decider  *)
(* looked at the target.  Both are appends to the event store, which       *)
(* answers a key it has with the event it has; the store is read without   *)
(* its lock.                                                               *)
(***************************************************************************)
EXTENDS Naturals, Sequences, FiniteSets

CONSTANTS
  Clients,       \* processes that propose or decide
  Keys,          \* proposal keys, chosen by the caller
  Revisions,     \* revisions of the target
  None,          \* no revision (a withdrawal), no answer
  MaxCalls       \* bound: calls of a client

VARIABLES
  log,           \* the events of corrections, in the order of the store
  client         \* per client: its call and where it is
vars == <<log, client>>

Decisions == {"accept", "reject"}

\* A correction is identified by what was proposed under which key.
Proposals == [key : Keys, old : Revisions, new : Revisions \union {None}]
Idle(calls) == [pc |-> "idle", calls |-> calls, proposal |-> None, decision |-> None,
                observed |-> None, seen |-> 0, answer |-> None]

Init ==
  /\ log = <<>>
  /\ client = [c \in Clients |-> Idle(0)]

At(c, label) == client[c].pc = label
EventsOf(proposal) == {n \in DOMAIN log : log[n].proposal = proposal}
Proposed(proposal) == \E n \in EventsOf(proposal) : log[n].decision = None
Terminal(proposal) == \E n \in EventsOf(proposal) : log[n].decision \in Decisions

\* appendBrokerEvent: the event that has this key, or a new one.
Position(event) == {n \in DOMAIN log : log[n].idempotencyKey = event.idempotencyKey}
AppendOnce(event) == log' = IF Position(event) # {} THEN log ELSE Append(log, event)
Stored(event) == IF Position(event) # {} THEN CHOOSE n \in Position(event) : TRUE ELSE Len(log) + 1

Answers(c, answer) == client' = [client EXCEPT ![c] = [Idle(@.calls + 1) EXCEPT !.answer = answer]]
Fails(c) == Answers(c, None) /\ UNCHANGED log

ProposalEvent(c, proposal) ==
  [idempotencyKey |-> proposal.key, proposal |-> proposal, decision |-> None, observed |-> None,
   by |-> c, seen |-> 0]

\* The answer is the correction of the stored event, which another proposal with this key made.
Propose(c) ==
  /\ At(c, "idle") /\ client[c].calls < MaxCalls
  /\ \E proposal \in Proposals :
       LET event == ProposalEvent(c, proposal) IN
       /\ AppendOnce(event)
       /\ Answers(c, IF Position(event) # {} THEN log[Stored(event)].proposal ELSE proposal)

\* Someone who knows a proposal decides it.  A decision carries the revision that was observed.
Decide(c) ==
  /\ At(c, "idle") /\ client[c].calls < MaxCalls
  /\ \E n \in DOMAIN log, decision \in Decisions, observed \in Revisions :
       /\ log[n].decision = None
       /\ client' = [client EXCEPT ![c] = [@ EXCEPT !.pc = "plan", !.proposal = log[n].proposal,
                                           !.decision = decision, !.observed = observed]]
  /\ UNCHANGED log

\* findProposal.  Mutant: a correction that was decided is found again.
Open_Always(proposal) == Proposed(proposal)
Open(proposal) == Proposed(proposal) /\ ~Terminal(proposal)

\* The revision a decision has to see: the new one if it accepts, the old one if it rejects.
Expected(c) ==
  IF client[c].decision = "accept" THEN client[c].proposal.new ELSE client[c].proposal.old

Plan(c) ==
  /\ At(c, "plan")
  /\ IF Open(client[c].proposal) /\ client[c].observed = Expected(c)
       THEN client' = [client EXCEPT ![c].pc = "find"] /\ UNCHANGED log
       ELSE Fails(c)

\* The proposal is looked for again, before the lock of the store is taken.
Find(c) ==
  /\ At(c, "find")
  /\ IF Open(client[c].proposal)
       THEN client' = [client EXCEPT ![c].pc = "append", ![c].seen = Len(log)] /\ UNCHANGED log
       ELSE Fails(c)

\* Mutant: the key of a decision has its author.
DecisionKey_ByAuthor(c) == <<client[c].proposal, client[c].decision, c>>
DecisionKey(c) == <<client[c].proposal, client[c].decision>>

AppendDecision(c) ==
  /\ At(c, "append")
  /\ LET event == [idempotencyKey |-> DecisionKey(c), proposal |-> client[c].proposal,
                   decision |-> client[c].decision, observed |-> client[c].observed,
                   by |-> c, seen |-> client[c].seen] IN
     AppendOnce(event) /\ Answers(c, Stored(event))

Die(c) == ~At(c, "idle") /\ Fails(c)

Next ==
  \E c \in Clients :
    Propose(c) \/ Decide(c) \/ Plan(c) \/ Find(c) \/ AppendDecision(c) \/ Die(c)

Spec == Init /\ [][Next]_vars

-----------------------------------------------------------------------------

Decided == {n \in DOMAIN log : log[n].decision \in Decisions}

\* What deciding promises although the store is read before its lock is taken: a correction
\* is accepted at most once and rejected at most once, always against the revision its
\* proposal names, and whoever looked after the first decision adds no other.
DecisionsSettle ==
  \A n \in Decided :
    LET event == log[n] IN
    /\ event.observed = IF event.decision = "accept" THEN event.proposal.new ELSE event.proposal.old
    /\ \E m \in 1..n : log[m].proposal = event.proposal /\ log[m].decision = None
    /\ \A m \in Decided : m < n /\ log[m].proposal = event.proposal =>
         log[m].decision # event.decision /\ event.seen < m

\* "Correction already has a terminal decision.": a correction has one decision.
OneDecision ==
  \A n, m \in Decided : log[n].proposal = log[m].proposal => n = m
=============================================================================
