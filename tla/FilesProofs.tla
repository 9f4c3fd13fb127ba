----------------------------- MODULE FilesProofs -----------------------------
(***************************************************************************)
(* What TLAPS proves of the files that processes of the broker share, each *)
(* part a section of its own: decisions of corrections settle; the notice  *)
(* secret is made once; recorded sweeps are spaced; the archive restores   *)
(* what its manifest calls verified, and the quarantine keeps what was     *)
(* pruned; an installation is whole or gone, and no user edit is lost.     *)
(***************************************************************************)
EXTENDS MCFiles, SequenceTheorems, TLAPS

----------------------------------------------------------------------------
(* Corrections: for any number of clients and calls, and whatever keys the callers choose, among *)
(* them keys that look like those of decisions                                                   *)

\* No decision is the absence of one.
NoneDecidesNothing == None \notin Decisions

Event == [idempotencyKey : Keys \union (Proposals \X Decisions), proposal : Proposals,
          decision : Decisions \union {None}, observed : Revisions \union {None},
          by : Clients, seen : Nat]
Call == [pc : {"idle", "plan", "find", "append"}, calls : Nat, proposal : Proposals \union {None},
         decision : Decisions \union {None}, observed : Revisions \union {None}, seen : Nat,
         answer : Proposals \union Nat \union {None}]

TypeOK ==
  /\ log \in Seq(Event)
  /\ client \in [Clients -> Call]

\* An idempotency key is in the log once, and that of a decision is what is decided, and how.
OneByKey ==
  /\ \A n, m \in DOMAIN log : log[n].idempotencyKey = log[m].idempotencyKey => n = m
  /\ \A n \in Decided : log[n].idempotencyKey = <<log[n].proposal, log[n].decision>>

\* What a client has looked at before it appends: the revision it decides on, and a log in which
\* the correction was proposed and not yet decided.
Looked(c) ==
  /\ client[c].pc \in {"plan", "find", "append"} =>
       client[c].proposal \in Proposals /\ client[c].decision \in Decisions
  /\ client[c].pc \in {"find", "append"} => client[c].observed = Expected(c)
  /\ client[c].pc = "append" =>
       /\ Proposed(client[c].proposal)
       /\ client[c].seen <= Len(log)
       /\ \A m \in Decided : log[m].proposal = client[c].proposal => client[c].seen < m

Inv == TypeOK /\ OneByKey /\ (\A c \in Clients : Looked(c)) /\ DecisionsSettle

\* The log changes by one event of a new key at its end, or not at all.
Appends(event) == log' = Append(log, event) /\ Position(event) = {}

\* What an event at the end changes, and what it leaves.
LEMMA OneMore ==
  ASSUME TypeOK, NEW event \in Event, Appends(event)
  PROVE  /\ log' \in Seq(Event) /\ Len(log) \in Nat /\ Len(log)' = Len(log) + 1
         /\ DOMAIN log = 1..Len(log) /\ DOMAIN log' = 1..(Len(log) + 1)
         /\ \A n \in 1..Len(log) : log'[n] = log[n]
         /\ log'[Len(log) + 1] = event
         /\ Decided' = Decided \union (IF event.decision \in Decisions THEN {Len(log) + 1} ELSE {})
<1>1. /\ log' \in Seq(Event) /\ Len(log) \in Nat /\ Len(log)' = Len(log) + 1
      /\ DOMAIN log = 1..Len(log) /\ DOMAIN log' = 1..(Len(log) + 1)
      /\ \A n \in 1..Len(log) : log'[n] = log[n]
      /\ log'[Len(log) + 1] = event
  BY AppendProperties, LenProperties DEF TypeOK, Appends
<1>2. \A n \in 1..Len(log) : n # Len(log) + 1
  BY <1>1
<1>3. 1..(Len(log) + 1) = 1..Len(log) \union {Len(log) + 1}
  BY <1>1
<1>. QED
  BY <1>1, <1>2, <1>3 DEF Decided

\* A new event disturbs neither the keys nor what others have looked at.
LEMMA LogStep ==
  ASSUME NoneDecidesNothing, Inv, NEW event \in Event, Appends(event),
         event.decision \in Decisions => event.idempotencyKey = <<event.proposal, event.decision>>
  PROVE  /\ OneByKey'
         /\ \A proposal : Proposed(proposal) => Proposed(proposal)'
<1>1. \A n \in DOMAIN log : log[n].idempotencyKey # event.idempotencyKey
  BY DEF Appends, Position
<1>2. OneByKey'
  <2>1. \A n \in DOMAIN log' : (n \in DOMAIN log /\ log'[n] = log[n]) \/ (n = Len(log) + 1 /\ log'[n] = event)
    BY OneMore DEF Inv
  <2>2. \A n, m \in DOMAIN log' : log'[n].idempotencyKey = log'[m].idempotencyKey => n = m
    BY <1>1, <2>1 DEF Inv, OneByKey
  <2>3. \A n \in Decided' : log'[n].idempotencyKey = <<log'[n].proposal, log'[n].decision>>
    BY <2>1 DEF Inv, OneByKey, Decided
  <2>. QED
    BY <2>2, <2>3 DEF OneByKey
<1>3. ASSUME NEW proposal, Proposed(proposal) PROVE Proposed(proposal)'
  <2>1. PICK n \in DOMAIN log : log[n].proposal = proposal /\ log[n].decision = None
    BY <1>3 DEF Proposed, EventsOf
  <2>2. n \in DOMAIN log' /\ log'[n] = log[n]
    BY <2>1, OneMore DEF Inv
  <2>. QED
    BY <2>1, <2>2 DEF Proposed, EventsOf
<1>. QED
  BY <1>2, <1>3

\* Decisions that are in the log stay settled; only the new event has to be looked at.
LEMMA SettledStep ==
  ASSUME NoneDecidesNothing, Inv, NEW event \in Event, Appends(event),
         event.decision \in Decisions =>
           /\ event.idempotencyKey = <<event.proposal, event.decision>>
           /\ event.observed = IF event.decision = "accept" THEN event.proposal.new ELSE event.proposal.old
           /\ Proposed(event.proposal)
           /\ \A m \in Decided : log[m].proposal = event.proposal => event.seen < m
  PROVE  DecisionsSettle'
<1>. DEFINE N == Len(log) + 1
<1>1. OneByKey'
  BY LogStep
<1>2. ASSUME NEW n \in Decided
      PROVE  /\ log'[n].observed = IF log'[n].decision = "accept" THEN log'[n].proposal.new ELSE log'[n].proposal.old
             /\ \E m \in 1..n : log'[m].proposal = log'[n].proposal /\ log'[m].decision = None
             /\ \A m \in Decided' : m < n /\ log'[m].proposal = log'[n].proposal =>
                  log'[m].decision # log'[n].decision /\ log'[n].seen < m
  <2>1. n \in 1..Len(log) /\ Len(log) \in Nat
    BY OneMore DEF Decided, Inv
  <2>2. \A m \in 1..n : m \in 1..Len(log) /\ log'[m] = log[m]
    BY <2>1, OneMore DEF Inv
  <2>3. n \in 1..n
    BY <2>1
  <2>4. \A m \in Decided' : m < n => m \in Decided /\ m \in 1..n
    BY <2>1, OneMore DEF Inv, Decided
  <2>. QED
    BY <2>2, <2>3, <2>4 DEF Inv, DecisionsSettle
<1>3. ASSUME event.decision \in Decisions
      PROVE  /\ log'[N].observed = IF log'[N].decision = "accept" THEN log'[N].proposal.new ELSE log'[N].proposal.old
             /\ \E m \in 1..N : log'[m].proposal = log'[N].proposal /\ log'[m].decision = None
             /\ \A m \in Decided' : m < N /\ log'[m].proposal = log'[N].proposal =>
                  log'[m].decision # log'[N].decision /\ log'[N].seen < m
  <2>1. log'[N] = event /\ N \in Decided' /\ Len(log) \in Nat
    BY <1>3, OneMore DEF Inv
  <2>2. PICK k \in 1..Len(log) : log[k].proposal = event.proposal /\ log[k].decision = None
    BY <1>3, OneMore DEF Inv, Proposed, EventsOf
  <2>3. k \in 1..N /\ log'[k] = log[k]
    BY <2>1, <2>2, OneMore DEF Inv
  <2>4. ASSUME NEW m \in Decided', m < N, log'[m].proposal = event.proposal
        PROVE  log'[m].decision # event.decision /\ event.seen < m
    <3>1. m \in Decided /\ log'[m] = log[m] /\ m # N
      BY <2>1, <2>4, OneMore DEF Inv, Decided
    <3>2. log'[m].idempotencyKey = <<log'[m].proposal, log'[m].decision>>
      BY <1>1, <2>4 DEF OneByKey
    <3>3. m \in DOMAIN log' /\ N \in DOMAIN log'
      BY <2>1, <2>4 DEF Decided
    <3>4. log'[m].idempotencyKey # event.idempotencyKey
      BY <1>1, <2>1, <3>1, <3>3 DEF OneByKey
    <3>. QED
      BY <1>3, <2>4, <3>1, <3>2, <3>4
  <2>5. event.observed = IF event.decision = "accept" THEN event.proposal.new ELSE event.proposal.old
    BY <1>3
  <2>6. \E m \in 1..N : log'[m].proposal = event.proposal /\ log'[m].decision = None
    BY <2>2, <2>3
  <2>. HIDE DEF N
  <2>. QED
    BY <2>1, <2>4, <2>5, <2>6
<1>4. \A n \in Decided' : n \in Decided \/ (n = N /\ event.decision \in Decisions)
  BY OneMore DEF Inv
<1>. QED
  BY <1>2, <1>3, <1>4 DEF DecisionsSettle

\* An answer changes one client, which is idle then.
LEMMA AnswersType ==
  ASSUME TypeOK, NEW c \in Clients, NEW answer \in Proposals \union Nat \union {None}, Answers(c, answer)
  PROVE  /\ client' \in [Clients -> Call] /\ client'[c].pc = "idle"
         /\ \A d \in Clients : d # c => client'[d] = client[d]
<1>1. client[c].calls + 1 \in Nat
  BY DEF TypeOK, Call
<1>2. [Idle(client[c].calls + 1) EXCEPT !.answer = answer] \in Call
  BY <1>1 DEF Idle, Call
<1>3. [Idle(client[c].calls + 1) EXCEPT !.answer = answer].pc = "idle"
  BY DEF Idle
<1>. QED
  BY <1>2, <1>3 DEF TypeOK, Answers

\* Who has looked need not look again when the log grows: its event is either of another
\* correction, or comes after all that was seen.
LEMMA LookedStays ==
  ASSUME NoneDecidesNothing, Inv, NEW event \in Event, Appends(event),
         event.decision \in Decisions => event.idempotencyKey = <<event.proposal, event.decision>>,
         NEW c \in Clients, client'[c] = client[c]
  PROVE  Looked(c)'
<1>1. Looked(c) /\ client[c] \in Call
  BY DEF Inv, TypeOK
<1>2. CASE client[c].pc = "append"
  <2>1. Proposed(client[c].proposal)'
    BY <1>1, <1>2, LogStep DEF Looked
  <2>2. client[c].seen <= Len(log) /\ client[c].seen \in Nat /\ Len(log) \in Nat
    BY <1>1, <1>2, OneMore DEF Looked, Call, Inv
  <2>3. \A m \in Decided' : log'[m].proposal = client[c].proposal => client[c].seen < m
    <3>1. \A m \in Decided' : (m \in Decided /\ log'[m] = log[m]) \/ m = Len(log) + 1
      BY OneMore DEF Inv, Decided
    <3>. QED
      BY <1>1, <1>2, <2>2, <3>1 DEF Looked
  <2>4. client[c].seen <= Len(log)'
    BY <2>2, OneMore DEF Inv
  <2>5. client'[c].pc = "append" /\ client'[c].observed = Expected(c)' /\ client'[c].proposal \in Proposals
        /\ client'[c].decision \in Decisions
    BY <1>1, <1>2 DEF Looked, Expected
  <2>. QED
    BY <2>1, <2>3, <2>4, <2>5 DEF Looked
<1>3. CASE client[c].pc # "append"
  BY <1>1, <1>3 DEF Looked, Expected
<1>. QED
  BY <1>2, <1>3

\* A step that leaves the log alone keeps to what holds of the log and of the other clients.
LEMMA LogAlone ==
  ASSUME Inv, log' = log, NEW c \in Clients, client' \in [Clients -> Call],
         \A d \in Clients : d # c => client'[d] = client[d],
         Looked(c)'
  PROVE  Inv'
<1>1. ASSUME NEW d \in Clients, d # c PROVE Looked(d)'
  BY <1>1 DEF Inv, Looked, Expected, Proposed, EventsOf, Decided
<1>. QED
  BY <1>1 DEF Inv, TypeOK, OneByKey, DecisionsSettle, Decided

\* The answer that comes with a stored event, found or new.
LEMMA StoredType ==
  ASSUME TypeOK, NEW event
  PROVE  /\ Stored(event) \in Nat
         /\ Position(event) # {} => log[Stored(event)].proposal \in Proposals
<1>1. Len(log) \in Nat /\ DOMAIN log = 1..Len(log) /\ \A n \in 1..Len(log) : log[n] \in Event
  BY LenProperties, ElementOfSeq DEF TypeOK
<1>2. ASSUME Position(event) # {} PROVE Stored(event) \in 1..Len(log)
  BY <1>1, <1>2 DEF Stored, Position
<1>. QED
  BY <1>1, <1>2 DEF Stored, Event

LEMMA Step ==
  ASSUME NoneDecidesNothing, Inv, [Next]_vars
  PROVE  Inv'
<1>. TypeOK /\ \A c \in Clients : client[c] \in Call /\ Looked(c)
  BY DEF Inv, TypeOK
<1>1. ASSUME NEW c \in Clients, Propose(c) PROVE Inv'
  <2>1. PICK proposal \in Proposals :
          LET event == ProposalEvent(c, proposal) IN
          /\ AppendOnce(event)
          /\ Answers(c, IF Position(event) # {} THEN log[Stored(event)].proposal ELSE proposal)
    BY <1>1 DEF Propose
  <2>. DEFINE event == ProposalEvent(c, proposal)
  <2>2. event \in Event /\ event.decision = None
    BY DEF ProposalEvent, Event, Proposals
  <2>3. PICK answer \in Proposals : Answers(c, answer)
    BY <2>1, StoredType
  <2>. HIDE DEF event
  <2>4. /\ client' \in [Clients -> Call] /\ client'[c].pc = "idle"
        /\ \A d \in Clients : d # c => client'[d] = client[d]
    BY <2>3, AnswersType
  <2>5. Looked(c)'
    BY <2>4 DEF Looked
  <2>6. CASE Position(event) # {}
    <3>1. log' = log
      BY <2>1, <2>6 DEF AppendOnce, event
    <3>. QED
      BY <2>4, <2>5, <3>1, LogAlone
  <2>7. CASE Position(event) = {}
    <3>1. Appends(event)
      BY <2>1, <2>7 DEF AppendOnce, Appends, event
    <3>2. event.decision \notin Decisions
      BY <2>2 DEF NoneDecidesNothing
    <3>3. OneByKey' /\ DecisionsSettle' /\ log' \in Seq(Event)
      BY <2>2, <3>1, <3>2, LogStep, SettledStep, OneMore
    <3>4. \A d \in Clients : Looked(d)'
      BY <2>2, <2>4, <2>5, <3>1, <3>2, LookedStays
    <3>. QED
      BY <2>4, <3>3, <3>4 DEF Inv, TypeOK
  <2>. QED
    BY <2>6, <2>7
<1>2. ASSUME NEW c \in Clients, AppendDecision(c) PROVE Inv'
  <2>. DEFINE event == [idempotencyKey |-> DecisionKey(c), proposal |-> client[c].proposal,
                        decision |-> client[c].decision, observed |-> client[c].observed,
                        by |-> c, seen |-> client[c].seen]
  <2>1. client[c].proposal \in Proposals /\ client[c].decision \in Decisions
        /\ client[c].observed = Expected(c) /\ Proposed(client[c].proposal)
        /\ \A m \in Decided : log[m].proposal = client[c].proposal => client[c].seen < m
    BY <1>2 DEF AppendDecision, At, Looked
  <2>2. event \in Event
    BY <2>1 DEF Event, Call, DecisionKey
  <2>3. /\ event.idempotencyKey = <<event.proposal, event.decision>>
        /\ event.observed = IF event.decision = "accept" THEN event.proposal.new ELSE event.proposal.old
        /\ Proposed(event.proposal)
        /\ \A m \in Decided : log[m].proposal = event.proposal => event.seen < m
    BY <2>1 DEF DecisionKey, Expected
  <2>4. AppendOnce(event) /\ Answers(c, Stored(event))
    BY <1>2 DEF AppendDecision
  <2>. HIDE DEF event
  <2>5. /\ client' \in [Clients -> Call] /\ client'[c].pc = "idle"
        /\ \A d \in Clients : d # c => client'[d] = client[d]
    BY <2>4, StoredType, AnswersType
  <2>6. Looked(c)'
    BY <2>5 DEF Looked
  <2>7. CASE Position(event) # {}
    <3>1. log' = log
      BY <2>4, <2>7 DEF AppendOnce
    <3>. QED
      BY <2>5, <2>6, <3>1, LogAlone
  <2>8. CASE Position(event) = {}
    <3>1. Appends(event)
      BY <2>4, <2>8 DEF AppendOnce, Appends
    <3>2. OneByKey' /\ DecisionsSettle' /\ log' \in Seq(Event)
      BY <2>2, <2>3, <3>1, LogStep, SettledStep, OneMore
    <3>3. \A d \in Clients : Looked(d)'
      BY <2>2, <2>3, <2>5, <2>6, <3>1, LookedStays
    <3>. QED
      BY <2>5, <3>2, <3>3 DEF Inv, TypeOK
  <2>. QED
    BY <2>7, <2>8
<1>3. ASSUME NEW c \in Clients, Fails(c) PROVE Inv'
  <2>1. /\ client' \in [Clients -> Call] /\ client'[c].pc = "idle"
        /\ \A d \in Clients : d # c => client'[d] = client[d]
    BY <1>3, AnswersType DEF Fails
  <2>. QED
    BY <1>3, <2>1, LogAlone DEF Fails, Looked
<1>4. ASSUME NEW c \in Clients, Decide(c) PROVE Inv'
  <2>1. PICK n \in DOMAIN log, decision \in Decisions, observed \in Revisions :
          client' = [client EXCEPT ![c] = [@ EXCEPT !.pc = "plan", !.proposal = log[n].proposal,
                                           !.decision = decision, !.observed = observed]]
    BY <1>4 DEF Decide
  <2>2. log[n].proposal \in Proposals
    <3>1. Len(log) \in Nat /\ DOMAIN log = 1..Len(log) /\ \A k \in 1..Len(log) : log[k] \in Event
      BY LenProperties, ElementOfSeq DEF TypeOK
    <3>2. log[n] \in Event
      BY <3>1
    <3>. QED
      BY <3>2 DEF Event
  <2>a. client[c] \in Call /\ [client[c] EXCEPT !.pc = "plan", !.proposal = log[n].proposal,
                                               !.decision = decision, !.observed = observed] \in Call
    BY <2>2 DEF TypeOK, Call
  <2>3. client' \in [Clients -> Call]
    BY <2>1, <2>a DEF TypeOK
  <2>4. /\ client'[c].pc = "plan" /\ client'[c].proposal \in Proposals /\ client'[c].decision \in Decisions
        /\ \A d \in Clients : d # c => client'[d] = client[d]
    BY <2>1, <2>2 DEF TypeOK, Call
  <2>. QED
    BY <1>4, <2>3, <2>4, LogAlone DEF Decide, Looked
<1>5. ASSUME NEW c \in Clients, Plan(c) PROVE Inv'
  <2>1. CASE Fails(c)
    BY <2>1, <1>3
  <2>2. CASE client' = [client EXCEPT ![c].pc = "find"] /\ log' = log /\ client[c].observed = Expected(c)
    <3>1. client' \in [Clients -> Call] /\ \A d \in Clients : d # c => client'[d] = client[d]
      BY <2>2 DEF TypeOK, Call
    <3>2. Looked(c)'
      BY <1>5, <2>2 DEF Plan, At, Looked, Expected, Call, TypeOK
    <3>. QED
      BY <2>2, <3>1, <3>2, LogAlone
  <2>. QED
    BY <1>5, <2>1, <2>2 DEF Plan
<1>6. ASSUME NEW c \in Clients, Find(c) PROVE Inv'
  <2>1. CASE Fails(c)
    BY <2>1, <1>3
  <2>2. CASE /\ client' = [client EXCEPT ![c].pc = "append", ![c].seen = Len(log)] /\ log' = log
             /\ Open(client[c].proposal)
    <3>1. Len(log) \in Nat
      BY LenProperties DEF TypeOK
    <3>2. /\ client' = [client EXCEPT ![c] = [client[c] EXCEPT !.pc = "append", !.seen = Len(log)]]
          /\ [client[c] EXCEPT !.pc = "append", !.seen = Len(log)] \in Call
      BY <2>2, <3>1 DEF TypeOK, Call
    <3>6. client' \in [Clients -> Call] /\ \A d \in Clients : d # c => client'[d] = client[d]
      BY <3>2 DEF TypeOK
    <3>3. /\ client'[c].pc = "append" /\ client'[c].seen = Len(log)
          /\ client'[c].proposal = client[c].proposal /\ client'[c].decision = client[c].decision
          /\ client'[c].observed = client[c].observed
      BY <3>2 DEF TypeOK, Call
    <3>4. \A m \in Decided : log[m].proposal # client[c].proposal
      BY <2>2 DEF Open, Terminal, EventsOf, Decided
    <3>7. Looked(c) /\ client[c].pc = "find"
      BY <1>6 DEF Find, At
    <3>8. Expected(c)' = Expected(c)
      BY <3>3 DEF Expected
    <3>9. Proposed(client[c].proposal)'
      BY <2>2, <3>3 DEF Open, Proposed, EventsOf
    <3>10. Decided' = Decided /\ Len(log)' = Len(log)
      BY <2>2 DEF Decided
    <3>11. /\ client'[c].proposal \in Proposals /\ client'[c].decision \in Decisions
           /\ client'[c].observed = Expected(c)'
      BY <3>3, <3>7, <3>8 DEF Looked
    <3>12. client'[c].seen <= Len(log')
      BY <3>1, <3>3, <2>2
    <3>13. \A m \in Decided' : log'[m].proposal # client'[c].proposal
      <4>1. log' = log /\ client'[c].proposal = client[c].proposal
        BY <2>2, <3>3
      <4>. QED
        BY <3>4, <3>10, <4>1, Zenon
    <3>5. Looked(c)'
      BY <3>9, <3>11, <3>12, <3>13, Zenon DEF Looked
    <3>. QED
      BY <2>2, <3>5, <3>6, LogAlone
  <2>. QED
    BY <1>6, <2>1, <2>2 DEF Find
<1>7. CASE UNCHANGED vars
  BY <1>7 DEF vars, Inv, TypeOK, OneByKey, Looked, Expected, Proposed, EventsOf, Decided, DecisionsSettle
<1>. QED
  BY <1>1, <1>2, <1>3, <1>4, <1>5, <1>6, <1>7 DEF Next, Die

\* Decisions settle: a correction is accepted at most once and rejected at most once, against the
\* revision its proposal names, and who looked after the first decision adds no other.
THEOREM Settled ==
  ASSUME NoneDecidesNothing
  PROVE  Spec => []DecisionsSettle
<1>1. Init => Inv
  <2>. SUFFICES ASSUME Init PROVE Inv
    OBVIOUS
  <2>1. log = <<>> /\ log \in Seq(Event) /\ DOMAIN log = {}
    BY EmptySeq DEF Init
  <2>2. \A c \in Clients : client[c] = Idle(0) /\ Idle(0) \in Call
    BY DEF Init, Idle, Call
  <2>3. client \in [Clients -> Call]
    BY <2>2 DEF Init
  <2>4. \A c \in Clients : Looked(c)
    BY <2>2 DEF Idle, Looked
  <2>. QED
    BY <2>1, <2>3, <2>4 DEF Inv, TypeOK, OneByKey, Decided, DecisionsSettle
<1>2. Inv /\ [Next]_vars => Inv'
  BY Step
<1>. QED
  BY <1>1, <1>2, PTL DEF Spec, Inv

----------------------------------------------------------------------------
(* The notice secret: for any number of processes and deaths, where files can be linked, no holder  *)
(* of the lock sleeps for a minute, and one process at a time is between comparing a stale lock and *)
(* removing it                                                                                      *)

SealerLabels == {"start", "lock", "recheck", "remove", "inspect", "unlink", "create", "fill", "release", "fail", "read",
           "sealed", "ephemeral", "dead"}
Sealing(s) == sealer[s].pc \in {"inspect", "unlink", "create", "fill", "release", "fail"}

\* Processes can be told from what is not one, and one at a time removes a stale lock: without that
\* two get through, as the run secret_race shows.
SealersAssumption ==
  None \notin Sealers /\ Empty \notin Sealers \union {None} /\ OneReclaims = TRUE

SealersOK ==
  /\ place \in Sealers \union {None}
  /\ files \in [Sealers -> Sealers \union {None, Empty}]
  /\ secretLock \in [by : Sealers \union {None}, old : BOOLEAN]
  /\ sealer \in [Sealers -> [pc : SealerLabels, saw : Sealers \union {None}, secret : Sealers \union {None}]]
  /\ suspensions = 0

Dead(s) == s \in Sealers /\ Secret!At(s, "dead")

\* Who is inside has the lock, the lock grows old over a dead process only, and the one who removes a
\* lock removes that of a dead process, which is still there.
SealerLocked ==
  /\ \A s \in Sealers : Sealing(s) => secretLock.by = s
  /\ secretLock.old => Dead(secretLock.by)
  /\ \A s \in Sealers : /\ Secret!At(s, "recheck") => Dead(sealer[s].saw)
                        /\ Secret!At(s, "remove") => Dead(secretLock.by)
  /\ \A s, t \in Sealers : Secret!At(s, "remove") /\ Secret!At(t, "remove") => s = t

\* What is linked has bytes or is empty; who is about to remove it or to fill it knows it to be
\* empty; and who has a secret has the one that is linked.
SecretMade ==
  /\ place # None => files[place] # None
  /\ \A s \in Sealers :
       /\ Secret!At(s, "unlink") => place # None /\ files[place] = Empty
       /\ Secret!At(s, "fill") => place = s /\ files[s] = Empty
       /\ sealer[s].secret # None => Secret!Complete /\ sealer[s].secret = files[place]

SecretInv == SealersOK /\ SealerLocked /\ SecretMade

\* A complete secret stays as it is.
SecretKeptNow == Secret!Complete => Secret!Complete' /\ files'[place] = files[place]

LEMMA SealerGoes ==
  ASSUME SealersOK, NEW s, NEW label \in SealerLabels, Secret!Goes(s, label)
  PROVE  sealer' \in [Sealers -> [pc : SealerLabels, saw : Sealers \union {None}, secret : Sealers \union {None}]]
  BY DEF SealersOK, Secret!Goes

LEMMA SealersStep ==
  ASSUME SealersAssumption, MaxSuspensions = 0, SecretInv, [Secret!Next]_(Secret!vars)
  PROVE  SealersOK'
<1>. USE DEF SecretInv, SealersOK
<1>1. /\ "recheck" \in SealerLabels /\ "remove" \in SealerLabels
      /\ "start" \in SealerLabels /\ "lock" \in SealerLabels /\ "inspect" \in SealerLabels /\ "unlink" \in SealerLabels
      /\ "create" \in SealerLabels /\ "fill" \in SealerLabels /\ "release" \in SealerLabels /\ "fail" \in SealerLabels
      /\ "read" \in SealerLabels /\ "sealed" \in SealerLabels /\ "ephemeral" \in SealerLabels /\ "dead" \in SealerLabels
  BY DEF SealerLabels
<1>2. ASSUME NEW s \in Sealers, Secret!Start(s) \/ Secret!GiveUp(s) PROVE SealersOK'
  <2>1. \E label \in SealerLabels : Secret!Goes(s, label)
    BY <1>1, <1>2 DEF Secret!Start, Secret!GiveUp
  <2>. QED
    BY <1>2, <2>1, SealerGoes DEF Secret!Start, Secret!GiveUp
<1>3. Secret!NoLock \in [by : Sealers \union {None}, old : BOOLEAN]
  BY DEF Secret!NoLock
<1>4. ASSUME NEW s \in Sealers, Secret!Lock(s) PROVE SealersOK'
  BY <1>1, <1>4, SealerGoes DEF Secret!Lock
<1>5. ASSUME NEW s \in Sealers, Secret!Judge(s) \/ Secret!Recheck(s) PROVE SealersOK'
  BY <1>1, <1>5 DEF Secret!Judge, Secret!Recheck
<1>12. ASSUME NEW s \in Sealers, Secret!Remove(s) PROVE SealersOK'
  BY <1>1, <1>3, <1>12, SealerGoes DEF Secret!Remove
<1>6. ASSUME NEW s \in Sealers, Secret!Inspect(s) \/ Secret!Unlink(s) PROVE SealersOK'
  BY <1>1, <1>6, SealerGoes DEF Secret!Inspect, Secret!Unlink
<1>7. ASSUME NEW s \in Sealers, Secret!Create(s) \/ Secret!Fill(s) PROVE SealersOK'
  BY <1>1, <1>7, SealerGoes DEF Secret!Create, Secret!Fill, SecretMade
<1>8. ASSUME NEW s \in Sealers, Secret!Release(s) \/ Secret!Die(s) PROVE SealersOK'
  <2>1. \E label \in SealerLabels : Secret!Goes(s, label)
    BY <1>1, <1>8 DEF Secret!Release, Secret!Die
  <2>. QED
    BY <1>8, <1>3, <2>1, SealerGoes DEF Secret!Release, Secret!Die
<1>9. ASSUME NEW s \in Sealers, Secret!Read(s) PROVE SealersOK'
  <2>1. Secret!Complete => files[place] \in Sealers \union {None}
    BY DEF Secret!Complete
  <2>2. PICK label \in SealerLabels, got \in Sealers \union {None} :
           sealer' = [sealer EXCEPT ![s].pc = label, ![s].secret = got]
    <3>1. CASE Secret!Complete
      <4>1. files[place] \in Sealers \union {None} /\ "sealed" \in SealerLabels
        BY <1>1, <2>1, <3>1
      <4>2. sealer' = [sealer EXCEPT ![s].pc = "sealed", ![s].secret = files[place]]
        BY <1>9, <3>1 DEF Secret!Read
      <4>. QED
        BY <4>1, <4>2
    <3>2. CASE ~Secret!Complete
      <4>1. sealer' = [sealer EXCEPT ![s].pc = "ephemeral", ![s].secret = None]
        BY <1>9, <3>2 DEF Secret!Read
      <4>. QED
        BY <1>1, <4>1
    <3>. QED
      BY <3>1, <3>2
  <2>3. sealer' \in [Sealers -> [pc : SealerLabels, saw : Sealers \union {None}, secret : Sealers \union {None}]]
    BY <2>2
  <2>4. UNCHANGED <<place, files, secretLock, suspensions>>
    BY <1>9 DEF Secret!Read
  <2>. QED
    BY <2>3, <2>4
<1>10. CASE Secret!Age
  <2>1. secretLock' \in [by : Sealers \union {None}, old : BOOLEAN]
    BY <1>10 DEF Secret!Age
  <2>. QED
    BY <1>10, <2>1 DEF Secret!Age
<1>11. CASE UNCHANGED Secret!vars
  BY <1>11 DEF Secret!vars
<1>. QED
  BY <1>2, <1>4, <1>5, <1>6, <1>7, <1>8, <1>9, <1>10, <1>11, <1>12 DEF Secret!Next

\* The lock excludes: it is taken when it is free, and removed by its holder or over a dead one.
LEMMA SealerLockStep ==
  ASSUME SealersAssumption, MaxSuspensions = 0, SecretInv, [Secret!Next]_(Secret!vars)
  PROVE  SealerLocked'
<1>. USE DEF SecretInv, SealersOK, Secret!Goes, Secret!At, Sealing, SealerLocked, Dead
<1>1. ASSUME NEW s \in Sealers, Secret!Start(s) \/ Secret!GiveUp(s) PROVE SealerLocked'
  BY <1>1 DEF Secret!Start, Secret!GiveUp
<1>2. ASSUME NEW s \in Sealers, Secret!Lock(s) PROVE SealerLocked'
  BY <1>2 DEF Secret!Lock, SealersAssumption
<1>3. ASSUME NEW s \in Sealers, Secret!Judge(s) \/ Secret!Recheck(s) \/ Secret!Remove(s) PROVE SealerLocked'
  <2>1. CASE Secret!Judge(s)
    BY <2>1 DEF Secret!Judge, Secret!Stale
  <2>2. CASE Secret!Recheck(s)
    BY <2>2 DEF Secret!Recheck, SealersAssumption
  <2>3. CASE Secret!Remove(s)
    BY <2>3 DEF Secret!Remove, Secret!NoLock
  <2>. QED
    BY <1>3, <2>1, <2>2, <2>3
<1>4. ASSUME NEW s \in Sealers, Secret!Inspect(s) \/ Secret!Unlink(s) \/ Secret!Create(s) \/ Secret!Fill(s)
      PROVE  SealerLocked'
  BY <1>4 DEF Secret!Inspect, Secret!Unlink, Secret!Create, Secret!Fill
<1>5. ASSUME NEW s \in Sealers, Secret!Release(s) PROVE SealerLocked'
  BY <1>5 DEF Secret!Release, Secret!NoLock
<1>6. ASSUME NEW s \in Sealers, Secret!Read(s) \/ Secret!Die(s) PROVE SealerLocked'
  BY <1>6 DEF Secret!Read, Secret!Die
<1>7. CASE Secret!Age
  BY <1>7, SealersStep DEF Secret!Age
<1>. QED
  BY <1>1, <1>2, <1>3, <1>4, <1>5, <1>6, <1>7 DEF Secret!Next, Secret!vars

\* No step touches a complete secret: to be unlinked or filled a file has to be empty.
LEMMA SecretKept ==
  ASSUME SealersAssumption, SecretInv, [Secret!Next]_(Secret!vars)
  PROVE  SecretKeptNow
<1>. USE DEF SecretInv, SealersOK, SecretMade, Secret!Complete, SecretKeptNow
<1>1. ASSUME NEW s \in Sealers, Secret!Unlink(s) \/ Secret!Create(s) \/ Secret!Fill(s) PROVE SecretKeptNow
  BY <1>1 DEF Secret!Unlink, Secret!Create, Secret!Fill, Secret!At
<1>2. ASSUME \/ Secret!Age \/ UNCHANGED Secret!vars
             \/ \E s \in Sealers :
                  \/ Secret!Start(s) \/ Secret!Lock(s) \/ Secret!Judge(s) \/ Secret!Recheck(s) \/ Secret!Remove(s) \/ Secret!GiveUp(s)
                  \/ Secret!Inspect(s) \/ Secret!Release(s) \/ Secret!Read(s) \/ Secret!Die(s)
      PROVE  UNCHANGED <<place, files>>
  BY <1>2 DEF Secret!Start, Secret!Lock, Secret!Judge, Secret!Recheck, Secret!Remove, Secret!GiveUp, Secret!Inspect, Secret!Release, Secret!Read,
     Secret!Die, Secret!Age, Secret!vars
<1>. QED
  BY <1>1, <1>2 DEF Secret!Next

LEMMA SecretMadeStep ==
  ASSUME SealersAssumption, MaxSuspensions = 0, SecretInv, [Secret!Next]_(Secret!vars)
  PROVE  SecretMade'
<1>. USE DEF SecretInv, SealersOK, Secret!Goes, Secret!At, Sealing, SealerLocked, SecretMade, Secret!Complete
<1>1. SecretKeptNow
  BY SecretKept
<1>2. ASSUME NEW s \in Sealers,
             \/ Secret!Start(s) \/ Secret!Lock(s) \/ Secret!Judge(s) \/ Secret!Recheck(s) \/ Secret!Remove(s) \/ Secret!GiveUp(s)
             \/ Secret!Release(s) \/ Secret!Die(s)
      PROVE  SecretMade'
  BY <1>2 DEF Secret!Start, Secret!Lock, Secret!Judge, Secret!Recheck, Secret!Remove, Secret!GiveUp, Secret!Release, Secret!Die
<1>3. ASSUME NEW s \in Sealers, Secret!Inspect(s) PROVE SecretMade'
  BY <1>3 DEF Secret!Inspect
<1>4. ASSUME NEW s \in Sealers, Secret!Unlink(s) PROVE SecretMade'
  BY <1>4 DEF Secret!Unlink
<1>5. ASSUME NEW s \in Sealers, Secret!Create(s) PROVE SecretMade'
  BY <1>5 DEF Secret!Create, SealersAssumption
<1>6. ASSUME NEW s \in Sealers, Secret!Fill(s) PROVE SecretMade'
  BY <1>6 DEF Secret!Fill, SealersAssumption
<1>7. ASSUME NEW s \in Sealers, Secret!Read(s) PROVE SecretMade'
  BY <1>7 DEF Secret!Read
<1>8. CASE Secret!Age \/ UNCHANGED Secret!vars
  BY <1>8 DEF Secret!Age, Secret!vars
<1>. QED
  BY <1>2, <1>3, <1>4, <1>5, <1>6, <1>7, <1>8 DEF Secret!Next

\* The notice secret is one: once complete it never changes, and whoever seals, seals with it, as long
\* as no two are between comparing a stale lock and removing it.
THEOREM OneSecret ==
  ASSUME SealersAssumption, Links = TRUE, MaxSuspensions = 0
  PROVE  Secret!Spec => SecretIsOne
<1>1. Secret!Init => SecretInv
  <2>. SUFFICES ASSUME Secret!Init PROVE SecretInv
    OBVIOUS
  <2>1. PICK f \in {None} \union Sealers :
           place = f /\ files = [s \in Sealers |-> IF s = f THEN Empty ELSE None]
    BY DEF Secret!Init
  <2>2. SealersOK
    BY <2>1 DEF Secret!Init, SealersOK, SealerLabels, Secret!NoLock
  <2>3. SealerLocked
    BY DEF Secret!Init, SealerLocked, Sealing, Secret!NoLock, Secret!At
  <2>4. SecretMade
    BY <2>1 DEF Secret!Init, SecretMade, Secret!At, SealersAssumption
  <2>. QED
    BY <2>2, <2>3, <2>4 DEF SecretInv
<1>2. SecretInv /\ [Secret!Next]_(Secret!vars) => SecretInv'
  BY SealersStep, SealerLockStep, SecretMadeStep DEF SecretInv
<1>3. SecretInv /\ SecretInv' /\ [Secret!Next]_(Secret!vars) => [Secret!Keeps]_(Secret!vars)
  BY SecretKept DEF SecretInv, SecretMade, SecretKeptNow, Secret!Keeps
<1>. QED
  BY <1>1, <1>2, <1>3, PTL DEF Secret!Spec, SecretIsOne, Secret!SecretIsOne
----------------------------------------------------------------------------
(* The archive: for any transcripts, any number of runs, deaths and damaged packs, and agents that *)
(* rewrite their transcripts at any moment                                                        *)

Content == Nat \union {Gone, Torn, Mixed}
ScriptLabels == {"idle", "pack", "packing", "packed", "hash", "prove", "moved", "restore", "held"}
Ready == [path : Paths, sha : Content, stamp : Content]
Scripts == [pc : ScriptLabels, todo : SUBSET Paths, path : Paths \union {Gone}, read : Content,
            ready : SUBSET Ready]

ArchiveOK ==
  /\ live \in [Paths -> Content] /\ packed \in [Paths -> Content] /\ quarantine \in [Paths -> Content]
  /\ Archived!Named(manifest) \subseteq Paths /\ Archived!Named(ledger) \subseteq Paths
  /\ last \in Nat
  /\ script \in Scripts
  /\ script.pc \in {"packing", "packed", "prove", "moved", "held"} => script.path \in Paths

\* The archive script works on paths that no entry of the manifest names: so a pack that the
\* manifest calls verified is not written again.
PacksNew ==
  /\ script.pc \in {"pack", "packing", "packed"} => script.todo \intersect Archived!Named(manifest) = {}
  /\ script.pc \in {"packing", "packed"} => script.path \in script.todo

ArchiveInv == ArchiveOK /\ PacksNew /\ Archived!VerifiedRestores

\* The scripts' own steps, and those around them.
Archiving == Archived!BeginPack \/ Archived!EndPack \/ Archived!RoundTrip
Pruning == Archived!HashLive \/ Archived!ProveRestorable \/ Archived!Move \/ Archived!EnterLedger
Restoring == Archived!CheckHeld \/ Archived!PutBack
Starting == Archived!StartArchive \/ Archived!StartPrune \/ Archived!StartRestore
Ending == Archived!Finish \/ Archived!Die
Around == \E p \in Paths : \/ Archived!Rewrite(p) \/ Archived!CopyBack(p) \/ Archived!Age(p)
                           \/ Archived!Damage(p)

LEMMA ArchiveSteps ==
  ASSUME Archived!Next
  PROVE  Archiving \/ Pruning \/ Restoring \/ Starting \/ Ending \/ Around
  BY DEF Archived!Next, Archiving, Pruning, Restoring, Starting, Ending, Around

LEMMA ArchiveTypeStep ==
  ASSUME ArchiveOK, [Archived!Next]_(Archived!vars)
  PROVE  ArchiveOK'
<1>. USE DEF ArchiveOK
<1>a. Archived!Idle \in Scripts /\ Archived!Idle.pc = "idle"
  BY DEF Archived!Idle, Scripts, ScriptLabels, Content
<1>b. /\ script.pc \in ScriptLabels /\ script.todo \in SUBSET Paths /\ script.path \in Paths \union {Gone}
      /\ script.read \in Content /\ script.ready \in SUBSET Ready
      /\ Gone \in Content /\ Torn \in Content /\ Mixed \in Content
  BY DEF Scripts, Content
<1>1. ASSUME Archived!BeginPack PROVE ArchiveOK'
  <2>1. PICK p \in script.todo :
          /\ packed' = [packed EXCEPT ![p] = Torn]
          /\ script' = [script EXCEPT !.pc = "packing", !.path = p, !.read = live[p]]
    BY <1>1 DEF Archived!BeginPack
  <2>2. p \in Paths /\ live[p] \in Content
    BY <1>b
  <2>3. script' \in Scripts /\ script'.path = p
    BY <2>1, <2>2 DEF ScriptLabels, Scripts
  <2>. QED
    BY <1>1, <1>b, <2>1, <2>2, <2>3 DEF Archived!BeginPack
<1>2. ASSUME Archived!EndPack PROVE ArchiveOK'
  <2>1. PICK read \in Content : /\ packed' = [packed EXCEPT ![script.path] = read]
                                /\ script' = [script EXCEPT !.pc = "packed", !.read = read]
    BY <1>2, <1>b DEF Archived!EndPack
  <2>2. script' \in Scripts /\ script'.path = script.path
    BY <2>1 DEF Scripts, ScriptLabels
  <2>. QED
    BY <1>2, <2>1, <2>2 DEF Archived!EndPack, Archived!At
<1>3. ASSUME Archived!RoundTrip PROVE ArchiveOK'
  <2>1. script' \in Scripts /\ script'.pc \in {"pack", "idle"}
    <3>1. CASE script' = [script EXCEPT !.pc = "pack", !.todo = @ \ {script.path}, !.path = Gone, !.read = Gone]
      BY <1>b, <3>1 DEF ScriptLabels, Scripts
    <3>. QED
      BY <1>3, <1>a, <3>1 DEF Archived!RoundTrip
  <2>2. script.path \in Paths
    BY <1>3 DEF Archived!RoundTrip, Archived!At
  <2>3. Archived!Named(manifest') \subseteq Paths
    <3>1. CASE manifest' = manifest \union {[path |-> script.path, original |-> script.read,
                                            verified |-> packed[script.path] = script.read]}
      BY <2>2, <3>1 DEF Archived!Named
    <3>. QED
      BY <1>3, <3>1 DEF Archived!RoundTrip
  <2>. QED
    BY <1>3, <2>1, <2>3 DEF Archived!RoundTrip, Archived!Named
<1>4. ASSUME Archived!HashLive PROVE ArchiveOK'
  <2>1. PICK p \in script.todo : \/ script' = [script EXCEPT !.pc = "prove", !.path = p, !.read = live[p]]
                                 \/ script' = [script EXCEPT !.todo = @ \ {p}, !.path = Gone, !.read = Gone]
    BY <1>4 DEF Archived!HashLive, Archived!Drops
  <2>2. p \in Paths /\ live[p] \in Content /\ script.pc = "hash"
    BY <1>4, <1>b DEF Archived!HashLive, Archived!At
  <2>3. script' \in Scripts /\ ((script'.pc = "prove" /\ script'.path = p) \/ script'.pc = "hash")
    <3>1. CASE script' = [script EXCEPT !.pc = "prove", !.path = p, !.read = live[p]]
      BY <2>2, <3>1 DEF ScriptLabels, Scripts
    <3>2. CASE script' = [script EXCEPT !.todo = @ \ {p}, !.path = Gone, !.read = Gone]
      BY <1>b, <2>2, <3>2 DEF Scripts
    <3>. QED
      BY <2>1, <3>1, <3>2
  <2>. QED
    BY <1>4, <2>2, <2>3 DEF Archived!HashLive, Archived!files
<1>5. ASSUME Archived!ProveRestorable PROVE ArchiveOK'
  <2>1. [path |-> script.path, sha |-> script.read, stamp |-> live[script.path]] \in Ready
    BY <1>5, <1>b DEF Archived!ProveRestorable, Archived!At, Ready
  <2>2. PICK ready \in SUBSET Ready :
          script' = [script EXCEPT !.pc = "hash", !.todo = @ \ {script.path}, !.path = Gone, !.read = Gone,
                                   !.ready = ready]
    BY <1>5, <1>b, <2>1 DEF Archived!ProveRestorable
  <2>3. script' \in Scripts /\ script'.pc = "hash"
    BY <1>b, <2>2 DEF Scripts, ScriptLabels
  <2>. QED
    BY <1>5, <2>3 DEF Archived!ProveRestorable, Archived!files
<1>6. ASSUME Archived!Move PROVE ArchiveOK'
  <2>1. PICK r \in script.ready :
          \/ /\ live' = [live EXCEPT ![r.path] = Gone]
             /\ quarantine' = [quarantine EXCEPT ![r.path] = live[r.path]]
             /\ script' = [script EXCEPT !.pc = "moved", !.ready = @ \ {r}, !.path = r.path, !.read = r.sha]
          \/ /\ script' = [script EXCEPT !.ready = @ \ {r}]
             /\ UNCHANGED <<live, quarantine>>
    BY <1>6 DEF Archived!Move
  <2>2. r \in Ready /\ r.path \in Paths /\ r.sha \in Content /\ live[r.path] \in Content
    BY <1>b DEF Ready
  <2>3. script' \in Scripts /\ ((script'.pc = "moved" /\ script'.path = r.path) \/ script'.pc = "hash")
    <3>1. CASE script' = [script EXCEPT !.pc = "moved", !.ready = @ \ {r}, !.path = r.path, !.read = r.sha]
      BY <2>2, <3>1 DEF ScriptLabels, Scripts
    <3>2. CASE script' = [script EXCEPT !.ready = @ \ {r}]
      BY <1>6, <3>2 DEF Scripts, Archived!Move, Archived!At
    <3>. QED
      BY <2>1, <3>1, <3>2
  <2>4. live' \in [Paths -> Content] /\ quarantine' \in [Paths -> Content]
    BY <1>b, <2>1, <2>2
  <2>. QED
    BY <1>6, <2>2, <2>3, <2>4 DEF Archived!Move
<1>7. ASSUME Archived!EnterLedger PROVE ArchiveOK'
  <2>1. script.path \in Paths /\ script' \in Scripts /\ script'.pc = "hash"
    BY <1>7 DEF Archived!EnterLedger, Archived!At, Archived!Goes, ScriptLabels, Scripts
  <2>2. Archived!Named(ledger') \subseteq Paths
    BY <1>7, <2>1 DEF Archived!EnterLedger, Archived!Named
  <2>. QED
    BY <1>7, <2>1, <2>2 DEF Archived!EnterLedger
<1>8. ASSUME Archived!CheckHeld PROVE ArchiveOK'
  <2>1. PICK p \in script.todo : \/ script' = [script EXCEPT !.pc = "held", !.path = p]
                                 \/ script' = [script EXCEPT !.todo = @ \ {p}, !.path = Gone, !.read = Gone]
    BY <1>8 DEF Archived!CheckHeld, Archived!Drops
  <2>2. p \in Paths /\ script.pc = "restore"
    BY <1>8, <1>b DEF Archived!CheckHeld, Archived!At
  <2>3. script' \in Scripts /\ ((script'.pc = "held" /\ script'.path = p) \/ script'.pc = "restore")
    <3>1. CASE script' = [script EXCEPT !.pc = "held", !.path = p]
      BY <2>2, <3>1 DEF ScriptLabels, Scripts
    <3>2. CASE script' = [script EXCEPT !.todo = @ \ {p}, !.path = Gone, !.read = Gone]
      BY <1>b, <2>2, <3>2 DEF Scripts
    <3>. QED
      BY <2>1, <3>1, <3>2
  <2>. QED
    BY <1>8, <2>2, <2>3 DEF Archived!CheckHeld, Archived!files
<1>9. ASSUME Archived!PutBack PROVE ArchiveOK'
  <2>1. script' = [script EXCEPT !.pc = "restore", !.todo = @ \ {script.path}, !.path = Gone]
    BY <1>9 DEF Archived!PutBack
  <2>2. script' \in Scripts /\ script'.pc = "restore"
    BY <1>b, <2>1 DEF ScriptLabels, Scripts
  <2>3. live' \in [Paths -> Content] /\ quarantine' \in [Paths -> Content]
    BY <1>9, <1>b DEF Archived!PutBack, Archived!At
  <2>. QED
    BY <1>9, <2>2, <2>3 DEF Archived!PutBack
<1>10. ASSUME NEW label \in {"pack", "hash", "restore"}, NEW todo \in SUBSET Paths, Archived!Starts(label, todo)
       PROVE  ArchiveOK'
  <2>1. script' = [Archived!Idle EXCEPT !.pc = label, !.todo = todo]
    BY <1>10 DEF Archived!Starts
  <2>2. script' \in Scripts /\ script'.pc = label
    BY <1>a, <2>1 DEF Scripts, ScriptLabels
  <2>. QED
    BY <1>10, <2>2 DEF Archived!Starts, Archived!files
<1>11. ASSUME Starting PROVE ArchiveOK'
  <2>1. CASE Archived!StartArchive
    BY <1>10, <2>1 DEF Archived!StartArchive, Archived!Candidates
  <2>2. CASE Archived!StartPrune
    BY <1>10, <2>2 DEF Archived!StartPrune, Archived!Prunable
  <2>3. CASE Archived!StartRestore
    BY <1>10, <2>3 DEF Archived!StartRestore
  <2>. QED
    BY <1>11, <2>1, <2>2, <2>3 DEF Starting
<1>12. ASSUME Ending PROVE ArchiveOK'
  BY <1>12, <1>a DEF Ending, Archived!Finish, Archived!Die, Archived!files
<1>13. ASSUME Around PROVE ArchiveOK'
  BY <1>13 DEF Around, Archived!Rewrite, Archived!CopyBack, Archived!Age, Archived!Damage, Content
<1>14. CASE UNCHANGED Archived!vars
  BY <1>14 DEF Archived!vars, Archived!files
<1>. QED
  BY <1>1, <1>2, <1>3, <1>4, <1>5, <1>6, <1>7, <1>8, <1>9, <1>11, <1>12, <1>13, <1>14, ArchiveSteps
     DEF Archiving, Pruning, Restoring

\* What is packed is new to the manifest, so what the manifest calls verified stays restorable.
LEMMA PacksStep ==
  ASSUME ArchiveInv, [Archived!Next]_(Archived!vars)
  PROVE  PacksNew' /\ Archived!VerifiedRestores'
<1>. USE DEF ArchiveInv, ArchiveOK, PacksNew, Archived!VerifiedRestores, Archived!Named, Archived!At
<1>1. ASSUME Archived!BeginPack PROVE PacksNew' /\ Archived!VerifiedRestores'
  BY <1>1 DEF Archived!BeginPack
<1>2. ASSUME Archived!EndPack PROVE PacksNew' /\ Archived!VerifiedRestores'
  BY <1>2 DEF Archived!EndPack
<1>3. ASSUME Archived!RoundTrip PROVE PacksNew' /\ Archived!VerifiedRestores'
  <2>1. script.path \in Paths /\ script.path \notin Archived!Named(manifest) /\ UNCHANGED <<packed, damaged>>
    BY <1>3 DEF Archived!RoundTrip
  <2>2. CASE /\ manifest' = manifest \union {[path |-> script.path, original |-> script.read,
                                              verified |-> packed[script.path] = script.read]}
             /\ script' = [script EXCEPT !.pc = "pack", !.todo = @ \ {script.path}, !.path = Gone, !.read = Gone]
    <3>1. script'.pc = "pack" /\ script'.todo = script.todo \ {script.path}
      BY <2>2 DEF Scripts
    <3>2. PacksNew'
      BY <1>3, <2>2, <3>1 DEF Archived!RoundTrip
    <3>3. ASSUME NEW e \in manifest', e.verified, e.path \notin damaged' PROVE packed'[e.path] = e.original
      <4>1. CASE e \in manifest
        BY <2>1, <3>3, <4>1
      <4>2. CASE e = [path |-> script.path, original |-> script.read,
                     verified |-> packed[script.path] = script.read]
        BY <2>1, <3>3, <4>2
      <4>. QED
        BY <2>2, <3>3, <4>1, <4>2
    <3>4. Archived!VerifiedRestores'
      BY <3>3
    <3>. QED
      BY <3>2, <3>4
  <2>3. CASE script' = Archived!Idle /\ UNCHANGED manifest
    BY <2>1, <2>3 DEF Archived!Idle
  <2>. QED
    BY <1>3, <2>2, <2>3 DEF Archived!RoundTrip
<1>4. ASSUME Pruning \/ Restoring \/ Ending
      PROVE  UNCHANGED <<packed, manifest, damaged>> /\ script'.pc \notin {"pack", "packing", "packed"}
  <2>. USE DEF Scripts
  <2>1. CASE Archived!HashLive \/ Archived!CheckHeld
    <3>1. UNCHANGED <<packed, manifest, damaged>> /\ script.pc \in {"hash", "restore"}
      BY <2>1 DEF Archived!HashLive, Archived!CheckHeld, Archived!files
    <3>2. PICK p : \/ script' = [script EXCEPT !.pc = "prove", !.path = p, !.read = live[p]]
                   \/ script' = [script EXCEPT !.pc = "held", !.path = p]
                   \/ script' = [script EXCEPT !.todo = @ \ {p}, !.path = Gone, !.read = Gone]
      BY <2>1 DEF Archived!HashLive, Archived!CheckHeld, Archived!Drops
    <3>. QED
      BY <3>1, <3>2
  <2>2. CASE Archived!ProveRestorable
    BY <2>2 DEF Archived!ProveRestorable, Archived!files
  <2>3. CASE Archived!Move
    <3>1. UNCHANGED <<packed, manifest, damaged>> /\ script.pc = "hash"
      BY <2>3 DEF Archived!Move
    <3>2. PICK r : \/ script' = [script EXCEPT !.pc = "moved", !.ready = @ \ {r}, !.path = r.path, !.read = r.sha]
                   \/ script' = [script EXCEPT !.ready = @ \ {r}]
      BY <2>3 DEF Archived!Move
    <3>. QED
      BY <3>1, <3>2
  <2>4. CASE Archived!EnterLedger \/ Archived!PutBack
    BY <2>4 DEF Archived!EnterLedger, Archived!Goes, Archived!PutBack
  <2>5. CASE Ending
    BY <2>5 DEF Ending, Archived!Finish, Archived!Die, Archived!Idle, Archived!files
  <2>. QED
    BY <1>4, <2>1, <2>2, <2>3, <2>4, <2>5 DEF Pruning, Restoring
<1>5. ASSUME Starting PROVE PacksNew' /\ Archived!VerifiedRestores'
  BY <1>5 DEF Starting, Archived!StartArchive, Archived!StartPrune, Archived!StartRestore, Archived!Starts,
     Archived!Candidates, Archived!Idle, Archived!files
<1>6. ASSUME Around PROVE PacksNew' /\ Archived!VerifiedRestores'
  BY <1>6 DEF Around, Archived!Rewrite, Archived!CopyBack, Archived!Age, Archived!Damage
<1>7. CASE UNCHANGED Archived!vars
  BY <1>7 DEF Archived!vars, Archived!files
<1>. QED
  BY <1>1, <1>2, <1>3, <1>4, <1>5, <1>6, <1>7, ArchiveSteps DEF Archiving

\* A file enters the quarantine where none is, and leaves it for its place.
LEMMA QuarantineStep ==
  ASSUME ArchiveOK, [Archived!Next]_(Archived!vars)
  PROVE  \A p \in Paths : quarantine[p] # Gone =>
           \/ quarantine'[p] = quarantine[p]
           \/ quarantine'[p] = Gone /\ live'[p] = quarantine[p]
<1>1. CASE Archived!Move
  BY <1>1 DEF ArchiveOK, Archived!Move, Archived!Movable
<1>2. CASE Archived!PutBack
  BY <1>2 DEF ArchiveOK, Archived!PutBack, Archived!At
<1>3. ASSUME ~Archived!Move, ~Archived!PutBack
      PROVE  UNCHANGED quarantine
  BY <1>3, ArchiveSteps DEF Archiving, Pruning, Restoring, Starting, Ending, Around, Archived!BeginPack,
     Archived!EndPack, Archived!RoundTrip, Archived!HashLive, Archived!ProveRestorable, Archived!EnterLedger,
     Archived!CheckHeld, Archived!StartArchive, Archived!StartPrune, Archived!StartRestore, Archived!Starts,
     Archived!Finish, Archived!Die, Archived!Rewrite, Archived!CopyBack, Archived!Age, Archived!Damage,
     Archived!files, Archived!vars
<1>. QED
  BY <1>1, <1>2, <1>3

\* The archive is true: what its manifest calls verified restores the transcript, and a pruned
\* transcript leaves the quarantine only for its old place.
THEOREM ArchiveIsTrue == Archived!Spec => PacksAreTrue
<1>1. ASSUME Archived!Init PROVE ArchiveInv
  <2>. USE <1>1 DEF Archived!Init
  <2>1. Archived!Idle \in Scripts /\ script.pc = "idle"
    BY DEF Archived!Idle, Scripts, ScriptLabels, Content
  <2>2. ArchiveOK
    <3>1. live \in [Paths -> Content] /\ packed \in [Paths -> Content] /\ quarantine \in [Paths -> Content]
      BY DEF Content
    <3>. QED
      BY <2>1, <3>1 DEF ArchiveOK, Archived!Named
  <2>. QED
    BY <2>1, <2>2 DEF ArchiveInv, PacksNew, Archived!VerifiedRestores
<1>2. ArchiveInv /\ [Archived!Next]_(Archived!vars) => ArchiveInv'
  BY ArchiveTypeStep, PacksStep DEF ArchiveInv
<1>3. ArchiveInv /\ [Archived!Next]_(Archived!vars) =>
        [\A p \in Paths : quarantine[p] # Gone =>
           \/ quarantine'[p] = quarantine[p]
           \/ quarantine'[p] = Gone /\ live'[p] = quarantine[p]]_(Archived!vars)
  BY QuarantineStep DEF ArchiveInv
<1>4. ArchiveInv => Archived!VerifiedRestores
  BY DEF ArchiveInv
<1>. QED
  BY <1>1, <1>2, <1>3, <1>4, PTL DEF Archived!Spec, PacksAreTrue, Archived!QuarantineKeeps

----------------------------------------------------------------------------
(* The fallback sweep: for any processes, sources and deaths, where no holder of the lock sleeps for *)
(* five minutes, and as long as no two processes are about to remove the same stale lock             *)

SweeperLabels == {"idle", "lock", "unlink", "due", "scan", "state", "unlock", "dead"}
Sweeping(s) == sweeper[s].pc \in {"due", "scan", "state", "unlock"}

\* Processes and times can be told from what is neither.
SweepersAssumption == None \notin Processes /\ None \notin Nat /\ Interval \in Nat /\ MaxSuspensions = 0

\* The age of the lock is read before it is removed: whoever judged the same lock as another and
\* comes later removes that one's new lock.
OneUnlinks == \A s, t \in Processes : Swept!At(s, "unlink") /\ Swept!At(t, "unlink") => s = t

SweepOK ==
  /\ sweepLock \in [by : Processes \union {None}, old : BOOLEAN]
  /\ sweepState \in Nat \union {None}
  /\ sweeper \in [Processes -> [pc : SweeperLabels, now : Nat, scanned : Nat]]
  /\ clock \in Nat /\ suspensions = 0

\* Who sweeps has the lock, an old lock is that of a dead process, and what is about to be removed
\* is an old lock.
SweepLocked ==
  /\ \A s \in Processes : Sweeping(s) => sweepLock.by = s
  /\ sweepLock.old => sweepLock.by \in Processes /\ Swept!At(sweepLock.by, "dead")
  /\ \A s \in Processes : Swept!At(s, "unlink") => sweepLock.old

\* Who scans or records is still due, and who records left a manifest.
SweepsAreDue ==
  \A s \in Processes :
    /\ sweeper[s].pc \in {"scan", "state"} => Swept!Due(s)
    /\ Swept!At(s, "state") => sweeper[s].now \in manifests

SweepInv == SweepOK /\ SweepLocked /\ SweepsAreDue

LEMMA SweeperGoes ==
  ASSUME SweepOK, NEW s \in Processes, NEW label \in SweeperLabels, Swept!Goes(s, label)
  PROVE  sweeper' \in [Processes -> [pc : SweeperLabels, now : Nat, scanned : Nat]]
<1>1. [sweeper[s] EXCEPT !.pc = label] \in [pc : SweeperLabels, now : Nat, scanned : Nat]
  BY DEF SweepOK
<1>. QED
  BY <1>1 DEF SweepOK, Swept!Goes

LEMMA SweepTypeStep ==
  ASSUME SweepersAssumption, SweepOK, [Swept!Next]_(Swept!vars)
  PROVE  SweepOK'
<1>. DEFINE Locks == [by : Processes \union {None}, old : BOOLEAN]
<1>a. Swept!NoLock \in Locks /\ \A s \in Processes : [by |-> s, old |-> FALSE] \in Locks
  BY DEF Swept!NoLock
<1>b. \A s \in Processes : sweeper[s] \in [pc : SweeperLabels, now : Nat, scanned : Nat]
  BY DEF SweepOK
<1>1. ASSUME NEW s \in Processes, Swept!Call(s) PROVE SweepOK'
  <2>1. [pc |-> "lock", now |-> clock, scanned |-> 0] \in [pc : SweeperLabels, now : Nat, scanned : Nat]
    BY DEF SweepOK, SweeperLabels
  <2>. QED
    BY <1>1, <2>1 DEF Swept!Call, SweepOK
<1>2. ASSUME NEW s \in Processes, NEW label \in SweeperLabels, Swept!Goes(s, label),
             sweepLock' \in Locks, sweepState' \in Nat \union {None}, UNCHANGED <<clock, suspensions>>
      PROVE  SweepOK'
  BY <1>2, SweeperGoes DEF SweepOK
<1>. HIDE DEF Locks
<1>3. ASSUME NEW s \in Processes,
             Swept!Lock(s) \/ Swept!Judge(s) \/ Swept!Unlink(s) \/ Swept!LoadState(s) \/ Swept!WriteManifest(s)
             \/ Swept!WriteState(s) \/ Swept!Unlock(s) \/ Swept!Die(s)
      PROVE  SweepOK'
  <2>1. sweepLock \in Locks /\ sweepState \in Nat \union {None} /\ sweeper[s].now \in Nat
    BY <1>b DEF SweepOK, Locks
  <2>2. /\ sweepLock' \in Locks /\ sweepState' \in Nat \union {None} /\ UNCHANGED <<clock, suspensions>>
        /\ \E label \in {"idle", "lock", "unlink", "due", "scan", "state", "unlock", "dead"} : Swept!Goes(s, label)
    BY <1>3, <1>a, <2>1 DEF Swept!Lock, Swept!Judge, Swept!Unlink, Swept!LoadState, Swept!WriteManifest,
       Swept!WriteState, Swept!Unlock, Swept!Die
  <2>. QED
    BY <1>2, <2>2 DEF SweeperLabels
<1>4. ASSUME NEW s \in Processes, Swept!Scan(s) PROVE SweepOK'
  <2>1. CASE Swept!Goes(s, "unlock")
    BY <1>2, <1>4, <2>1 DEF Swept!Scan, SweepOK, SweeperLabels, Locks
  <2>2. CASE sweeper' = [sweeper EXCEPT ![s].scanned = @ + 1]
    <3>1. [sweeper[s] EXCEPT !.scanned = @ + 1] \in [pc : SweeperLabels, now : Nat, scanned : Nat]
      BY <1>b
    <3>. QED
      BY <1>4, <2>2, <3>1 DEF Swept!Scan, SweepOK
  <2>. QED
    BY <1>4, <2>1, <2>2 DEF Swept!Scan
<1>5. CASE Swept!Tick
  BY <1>5 DEF Swept!Tick, SweepOK
<1>6. CASE Swept!Age
  <2>1. [sweepLock EXCEPT !.old = TRUE] \in Locks
    BY DEF SweepOK, Locks
  <2>2. UNCHANGED <<suspensions, sweeper, sweepState, clock>>
    BY <1>6 DEF Swept!Age, SweepersAssumption, SweepOK
  <2>. QED
    BY <1>6, <2>1, <2>2 DEF Swept!Age, SweepOK, Locks
<1>7. CASE UNCHANGED Swept!vars
  BY <1>7 DEF Swept!vars, SweepOK
<1>. QED
  BY <1>1, <1>3, <1>4, <1>5, <1>6, <1>7 DEF Swept!Next

LEMMA SweepLockStep ==
  ASSUME SweepersAssumption, OneUnlinks, SweepInv, [Swept!Next]_(Swept!vars)
  PROVE  SweepLocked'
<1>. USE DEF SweepInv, SweepOK, Swept!Goes, Swept!At, Swept!NoLock, Sweeping, SweepLocked
<1>1. ASSUME NEW s \in Processes, Swept!Call(s) PROVE SweepLocked'
  BY <1>1 DEF Swept!Call
<1>2. ASSUME NEW s \in Processes, Swept!Lock(s) PROVE SweepLocked'
  BY <1>2 DEF Swept!Lock, SweepersAssumption
<1>3. ASSUME NEW s \in Processes, Swept!Judge(s) PROVE SweepLocked'
  BY <1>3 DEF Swept!Judge, Swept!Stale
<1>4. ASSUME NEW s \in Processes, Swept!Unlink(s) PROVE SweepLocked'
  BY <1>4 DEF Swept!Unlink, OneUnlinks
<1>5. ASSUME NEW s \in Processes, Swept!LoadState(s) \/ Swept!Scan(s) \/ Swept!WriteManifest(s) \/ Swept!WriteState(s)
      PROVE  SweepLocked'
  BY <1>5 DEF Swept!LoadState, Swept!Scan, Swept!WriteManifest, Swept!WriteState
<1>6. ASSUME NEW s \in Processes, Swept!Unlock(s) PROVE SweepLocked'
  BY <1>6 DEF Swept!Unlock
<1>7. ASSUME NEW s \in Processes, Swept!Die(s) PROVE SweepLocked'
  BY <1>7 DEF Swept!Die
<1>8. CASE Swept!Tick \/ UNCHANGED Swept!vars
  BY <1>8 DEF Swept!Tick, Swept!vars
<1>9. CASE Swept!Age
  BY <1>9 DEF Swept!Age, SweepersAssumption
<1>. QED
  BY <1>1, <1>2, <1>3, <1>4, <1>5, <1>6, <1>7, <1>8, <1>9 DEF Swept!Next

\* The state is written by the one process that sweeps.
LEMMA SweepDueStep ==
  ASSUME SweepersAssumption, SweepInv, [Swept!Next]_(Swept!vars)
  PROVE  SweepsAreDue'
<1>. USE DEF SweepInv, SweepOK, Swept!Goes, Swept!At, Swept!Due, SweepsAreDue
<1>1. ASSUME NEW s \in Processes, Swept!WriteState(s) PROVE SweepsAreDue'
  BY <1>1 DEF Swept!WriteState, SweepLocked, Sweeping
<1>2. ASSUME NEW s \in Processes,
             Swept!Call(s) \/ Swept!Lock(s) \/ Swept!Judge(s) \/ Swept!Unlink(s) \/ Swept!Unlock(s) \/ Swept!Die(s)
      PROVE  SweepsAreDue'
  BY <1>2 DEF Swept!Call, Swept!Lock, Swept!Judge, Swept!Unlink, Swept!Unlock, Swept!Die
<1>3. ASSUME NEW s \in Processes, Swept!LoadState(s) PROVE SweepsAreDue'
  BY <1>3 DEF Swept!LoadState
<1>4. ASSUME NEW s \in Processes, Swept!Scan(s) PROVE SweepsAreDue'
  BY <1>4 DEF Swept!Scan
<1>5. ASSUME NEW s \in Processes, Swept!WriteManifest(s) PROVE SweepsAreDue'
  BY <1>5 DEF Swept!WriteManifest
<1>6. CASE Swept!Tick \/ Swept!Age \/ UNCHANGED Swept!vars
  BY <1>6 DEF Swept!Tick, Swept!Age, Swept!vars
<1>. QED
  BY <1>1, <1>2, <1>3, <1>4, <1>5, <1>6 DEF Swept!Next

LEMMA SweepIsSpaced ==
  ASSUME SweepInv, Swept!Next
  PROVE  sweepState' # sweepState =>
           sweepState' \in manifests /\ (sweepState # None => sweepState' >= sweepState + Interval)
<1>1. ASSUME NEW s \in Processes, Swept!WriteState(s)
      PROVE  sweepState' \in manifests /\ (sweepState # None => sweepState' >= sweepState + Interval)
  BY <1>1 DEF Swept!WriteState, SweepInv, SweepsAreDue, Swept!Due, Swept!At
<1>2. ASSUME \A s \in Processes : ~Swept!WriteState(s)
      PROVE  sweepState' = sweepState
  BY <1>2 DEF Swept!Next, Swept!Tick, Swept!Age, Swept!Call, Swept!Lock, Swept!Judge, Swept!Unlink, Swept!LoadState,
     Swept!Scan, Swept!WriteManifest, Swept!Unlock, Swept!Die
<1>. QED
  BY <1>1, <1>2

\* The sweeps that the state records are an interval apart, never go back, and each left its manifest.
THEOREM SweepsKeepApart ==
  ASSUME SweepersAssumption
  PROVE  Swept!Spec /\ []OneUnlinks => SweepsAreSpaced
<1>1. Swept!Init => SweepInv
  BY SweepersAssumption DEF Swept!Init, SweepInv, SweepOK, SweepLocked, SweepsAreDue, Swept!At, Swept!NoLock,
     Sweeping, SweeperLabels, SweepersAssumption
<1>2. SweepInv /\ OneUnlinks /\ [Swept!Next]_(Swept!vars) => SweepInv'
  BY SweepTypeStep, SweepLockStep, SweepDueStep DEF SweepInv
<1>3. SweepInv /\ [Swept!Next]_(Swept!vars) =>
        [sweepState' # sweepState =>
           sweepState' \in manifests /\ (sweepState # None => sweepState' >= sweepState + Interval)]_(Swept!vars)
  BY SweepIsSpaced
<1>. QED
  BY <1>1, <1>2, <1>3, PTL DEF Swept!Spec, SweepsAreSpaced, Swept!SweepsAreSpaced

----------------------------------------------------------------------------
(* The installation: for any installers, edits of the user, failures and deaths *)

ToolStates == {"absent", "other", "partial", "new"}
ConfigDocuments == [handlers : Nat, user : SUBSET Nat]
Configs == ConfigDocuments \union {None}
Backups == [tool : ToolStates, config : Configs]
Records == [adopted : BOOLEAN, base : ToolStates, created : BOOLEAN, tool : ToolStates, config : Configs,
            backup : Backups]
Plans == [action : Installed!Actions, state : Records \union {None}, tool : ToolStates, config : Configs]
InstallerLabels == Installed!Working \union {"idle", "planned", "lock", "check", "release"}
Locals == [pc : InstallerLabels, plan : Plans \union {None}, backup : Backups \union {None},
           written : SUBSET {"tool", "config"}, document : Configs]

\* Nothing is no process and no record, and an earlier hand left no half of a tool.
InstallersAssumption ==
  /\ None \notin Processes \union ConfigDocuments \union Records \union Plans \union Backups
  /\ Tools \subseteq ToolStates \ {"partial"}

Working(p) == proc[p].pc \in Installed!Working
BackedUp(p) == Working(p) /\ proc[p].pc # "backup"
HandlersOf(c) == IF c = None THEN 0 ELSE c.handlers
UserOf(c) == IF c = None THEN {} ELSE c.user

InstallOK ==
  /\ tool \in ToolStates /\ config \in Configs /\ state \in Records \union {None}
  /\ lock \in Processes \union {None} /\ proc \in [Processes -> Locals]
  /\ edits \in Nat /\ quiet \in SUBSET Nat /\ died \in BOOLEAN
  /\ \A p \in Processes :
       /\ proc[p].pc # "idle" => proc[p].plan \in Plans
       /\ BackedUp(p) => proc[p].backup \in Backups
       /\ proc[p].pc = "strip" => proc[p].document \in ConfigDocuments

\* Who is behind the lock has it.
InstallLocked == \A p \in Processes : Working(p) \/ proc[p].pc \in {"check", "release"} => lock = p

\* A record of an installation that was not adopted goes back to a configuration that has the user's
\* entries of its own configuration, and no handler.
Returns(r) ==
  /\ r.created => r.backup.config = None /\ ~r.adopted
  /\ ~r.adopted => UserOf(r.config) \subseteq UserOf(r.backup.config) /\ HandlersOf(r.backup.config) = 0

\* What a plan was made on, and what its digest keeps until it is executed.
PlanHolds(p) ==
  LET plan == proc[p].plan IN
  /\ plan.state # None => Returns(plan.state)
  /\ plan.action = "install" => HandlersOf(plan.config) = 0
  /\ plan.action = "adopt" => plan.tool = "new" /\ HandlersOf(plan.config) = 1
  /\ plan.action \in {"remove", "rollback"} => plan.state # None
  /\ plan.action = "rollback" => ~plan.state.adopted /\ (proc[p].pc # "planned" => plan.config = plan.state.config)

\* Which steps an action has.
Steps(p) ==
  LET action == proc[p].plan.action IN
  /\ proc[p].pc \in {"tool", "copying", "verify"} => action = "install"
  /\ proc[p].pc = "record" => action \in {"install", "adopt"}
  /\ proc[p].pc = "strip" => action = "remove"
  /\ proc[p].pc \in {"restore", "restoring", "forget"} => action \in {"remove", "rollback"}
  /\ proc[p].pc \in {"config"} \union Installed!Undoing => action # "adopt"

\* What is written over the configuration has the user's quiet edits: the plan's configuration, the
\* backup, and the document from which handlers are taken.
EditsKept(p) ==
  LET plan == proc[p].plan IN
  /\ Working(p) => quiet \subseteq UserOf(plan.config)
  /\ proc[p].pc = "backup" => /\ UserOf(plan.config) \subseteq UserOf(config)
                              /\ HandlersOf(plan.config) = HandlersOf(config)
  /\ BackedUp(p) => /\ UserOf(plan.config) \subseteq UserOf(proc[p].backup.config)
                    /\ HandlersOf(plan.config) = HandlersOf(proc[p].backup.config)
  /\ proc[p].pc = "strip" => quiet \subseteq UserOf(proc[p].document)

Whole(record, t, n) ==
  /\ record # None => t = record.tool /\ n = 1
  /\ t # "partial" /\ n <= 1 /\ (n = 1 => t = "new")

\* As long as nobody died: what has been done so far can be undone to what was whole, or be finished.
Pieces(p) ==
  LET local == proc[p]
      handlers == HandlersOf(config)
      before == HandlersOf(local.backup.config) IN
  /\ local.plan.state # None => local.plan.state.base # "partial"
  /\ local.pc = "backup" => Whole(state, tool, handlers) /\ tool = local.plan.tool
  /\ BackedUp(p) => Whole(state, local.backup.tool, before) /\ local.backup.tool = local.plan.tool
  /\ BackedUp(p) /\ local.plan.action \in {"install", "adopt"} =>
       /\ "tool" \notin local.written => tool = local.backup.tool
       /\ "config" \notin local.written => handlers = before
  /\ local.pc = "copying" => "tool" \in local.written
  /\ local.pc = "config" /\ local.plan.action = "install" => tool = "new"
  /\ local.pc \in {"verify", "record"} => tool = "new"
  /\ local.pc = "record" => handlers = 1 /\ (local.plan.action = "adopt" => handlers = before)
  /\ local.pc \in {"restore", "restoring", "forget"} => handlers = 0
  /\ local.pc = "forget" => tool # "partial"
  /\ local.pc \in {"undo tool", "undoing"} => handlers = before

Fits(p) ==
  proc[p].pc # "idle" => PlanHolds(p) /\ Steps(p) /\ EditsKept(p) /\ (~died => Pieces(p))

\* The disk, as it is beside the installers.
DiskFits ==
  /\ quiet \subseteq UserOf(config)
  /\ state # None => Returns(state) /\ (~died => state.base # "partial")
  /\ ~died /\ (\A p \in Processes : ~Working(p)) => Whole(state, tool, HandlersOf(config))

InstallInv == InstallOK /\ InstallLocked /\ DiskFits /\ \A p \in Processes : Fits(p)

\* A step of one installer leaves the others where they are.
Alone(p) == \A q \in Processes : q # p => proc'[q] = proc[q]
Same(p) == /\ proc'[p].plan = proc[p].plan /\ proc'[p].backup = proc[p].backup
           /\ proc'[p].written = proc[p].written /\ proc'[p].document = proc[p].document

LEMMA InstallerBecomes ==
  ASSUME InstallOK, NEW p \in Processes, NEW r \in Locals, Installed!Becomes(p, r)
  PROVE  proc' \in [Processes -> Locals] /\ proc'[p] = r /\ Alone(p)
  BY DEF InstallOK, Installed!Becomes, Alone

LEMMA InstallerGoes ==
  ASSUME InstallOK, NEW p \in Processes, NEW label \in InstallerLabels, Installed!Goes(p, label)
  PROVE  proc' \in [Processes -> Locals] /\ proc'[p].pc = label /\ Same(p) /\ Alone(p)
<1>1. proc[p] \in Locals
  BY DEF InstallOK
<1>2. [proc[p] EXCEPT !.pc = label] \in Locals
  BY <1>1 DEF Locals
<1>3. /\ proc' \in [Processes -> Locals] /\ Alone(p)
      /\ proc'[p] = [proc[p] EXCEPT !.pc = label]
  BY <1>2, InstallerBecomes DEF Installed!Goes
<1>. QED
  BY <1>1, <1>3 DEF Same, Locals

\* What another installer, who is not at work, is in fits whatever is done to the disk.
LEMMA OthersFit ==
  ASSUME InstallInv, NEW q \in Processes, proc'[q] = proc[q], died => died',
         Working(q) => UNCHANGED <<tool, config, state, quiet>>
  PROVE  Fits(q)'
<1>1. PlanHolds(q)' <=> PlanHolds(q)
  BY DEF PlanHolds
<1>2. Steps(q)' <=> Steps(q)
  BY DEF Steps
<1>3. Working(q)' = Working(q) /\ BackedUp(q)' = BackedUp(q)
  BY DEF Working, BackedUp
<1>4. EditsKept(q) => EditsKept(q)'
  BY <1>3 DEF EditsKept, Working, BackedUp, Installed!Working, Installed!Writing
<1>5. Pieces(q) => Pieces(q)'
  BY <1>3 DEF Pieces, Working, BackedUp, Installed!Working, Installed!Writing, Installed!Undoing
<1>. QED
  BY <1>1, <1>2, <1>4, <1>5 DEF InstallInv, Fits

\* A step under the lock is judged by what it makes of its installer and of the disk.
LEMMA LockedStep ==
  ASSUME InstallInv, NEW p \in Processes, Working(p) \/ proc[p].pc = "check",
         proc' \in [Processes -> Locals], Alone(p), UNCHANGED <<lock, edits, quiet, died>>,
         tool' \in ToolStates, config' \in Configs, state' \in Records \union {None},
         Working(p)' \/ proc'[p].pc = "release",
         proc'[p].plan \in Plans, BackedUp(p)' => proc'[p].backup \in Backups,
         proc'[p].pc = "strip" => proc'[p].document \in ConfigDocuments,
         Fits(p)', DiskFits'
  PROVE  InstallInv'
<1>1. lock = p /\ \A q \in Processes \ {p} : ~Working(q) /\ proc[q].pc \notin {"check", "release"}
  BY DEF InstallInv, InstallLocked
<1>2. \A q \in Processes \ {p} : proc'[q] = proc[q] /\ Working(q)' = Working(q) /\ BackedUp(q)' = BackedUp(q)
  BY DEF Alone, Working, BackedUp
<1>3. \A q \in Processes : Fits(q)'
  BY <1>1, <1>2, OthersFit
<1>4. InstallOK'
  BY <1>2 DEF InstallInv, InstallOK
<1>5. InstallLocked'
  BY <1>1, <1>2 DEF InstallLocked
<1>. QED
  BY <1>3, <1>4, <1>5 DEF InstallInv

\* The steps that leave the disk as it is ...
LEMMA CheckKeeps ==
  ASSUME InstallInv, NEW p \in Processes, Installed!Check(p)
  PROVE  InstallInv'
<1>. USE DEF InstallInv, Working, BackedUp, Installed!Working, Installed!Writing, Installed!Undoing
<1>1. PICK label \in {"backup", "release"} :
        /\ Installed!Goes(p, label)
        /\ label = "backup" => tool = proc[p].plan.tool /\ config = proc[p].plan.config
  BY DEF Installed!Check
<1>2. /\ proc[p].pc = "check" /\ label \in InstallerLabels
      /\ UNCHANGED <<tool, config, state, lock, edits, quiet, died>>
  BY DEF Installed!Check, Installed!At, Installed!disk, Installed!aux, InstallerLabels
<1>3. proc' \in [Processes -> Locals] /\ proc'[p].pc = label /\ Same(p) /\ Alone(p)
  BY <1>1, <1>2, InstallerGoes
<1>4. \A q \in Processes : ~Working(q)
  BY <1>2 DEF InstallLocked
<1>5. quiet \subseteq UserOf(config) /\ (~died => Whole(state, tool, HandlersOf(config)))
  BY <1>4 DEF DiskFits
<1>6. Fits(p)'
  <2>1. Fits(p) /\ proc[p].plan \in Plans
    BY <1>2 DEF InstallOK
  <2>2. PlanHolds(p)'
    BY <1>2, <1>3, <2>1 DEF Fits, PlanHolds, Same
  <2>3. Steps(p)'
    BY <1>1, <1>3 DEF Steps
  <2>4. EditsKept(p)'
    BY <1>1, <1>2, <1>3, <1>5 DEF EditsKept, Same
  <2>5. ~died => Pieces(p)'
    BY <1>1, <1>2, <1>3, <1>5, <2>1 DEF Fits, Pieces, Same
  <2>. QED
    BY <1>2, <2>2, <2>3, <2>4, <2>5 DEF Fits
<1>7. DiskFits'
  BY <1>2, <1>5 DEF DiskFits
<1>. QED
  <2>1. Working(p)' \/ proc'[p].pc = "release"
    BY <1>3
  <2>2. proc'[p].plan \in Plans /\ ~BackedUp(p)' /\ proc'[p].pc # "strip"
    BY <1>2, <1>3 DEF InstallOK, Same
  <2>3. tool' \in ToolStates /\ config' \in Configs /\ state' \in Records \union {None}
    BY <1>2 DEF InstallOK
  <2>. QED
    BY <1>2, <1>3, <1>6, <1>7, <2>1, <2>2, <2>3, LockedStep

\* A step at work leaves the plan as it is; the rest is for each action to show.
LEMMA WorkStep ==
  ASSUME InstallInv, NEW p \in Processes, Working(p),
         proc' \in [Processes -> Locals], Alone(p), proc'[p].plan = proc[p].plan,
         UNCHANGED <<lock, edits, quiet, died>>,
         tool' \in ToolStates, config' \in Configs, state' \in Records \union {None},
         Working(p)' \/ proc'[p].pc = "release",
         BackedUp(p)' => proc'[p].backup \in Backups,
         proc'[p].pc = "strip" => proc'[p].document \in ConfigDocuments,
         Steps(p)', EditsKept(p)', ~died => Pieces(p)',
         quiet \subseteq UserOf(config'),
         state' # state /\ state' # None => Returns(state') /\ (~died => state'.base # "partial"),
         proc'[p].pc = "release" /\ ~died => Whole(state', tool', HandlersOf(config'))
  PROVE  InstallInv'
<1>. USE DEF InstallInv
<1>1. proc[p].pc \notin {"idle", "planned"} /\ proc'[p].pc \notin {"idle", "planned"}
  BY DEF Working, Installed!Working, Installed!Writing, Installed!Undoing
<1>2. Fits(p) /\ proc[p].plan \in Plans
  BY <1>1 DEF InstallOK
<1>3. PlanHolds(p)'
  BY <1>1, <1>2 DEF PlanHolds, Fits
<1>4. Fits(p)'
  BY <1>3 DEF Fits
<1>5. (\A q \in Processes : ~Working(q))' => proc'[p].pc = "release"
  OBVIOUS
<1>6. DiskFits'
  <2>1. (quiet \subseteq UserOf(config))'
    OBVIOUS
  <2>2. (state # None => Returns(state) /\ (~died => state.base # "partial"))'
    BY DEF DiskFits
  <2>3. (~died /\ (\A q \in Processes : ~Working(q)) => Whole(state, tool, HandlersOf(config)))'
    BY <1>5
  <2>. QED
    BY <2>1, <2>2, <2>3 DEF DiskFits
<1>. QED
  BY <1>2, <1>4, <1>6, LockedStep

LEMMA BackupKeeps ==
  ASSUME InstallersAssumption, InstallInv, NEW p \in Processes, Installed!Backup(p)
  PROVE  InstallInv'
<1>. USE DEF InstallInv, Working, BackedUp, Installed!Working, Installed!Writing, Installed!Undoing
<1>1. PICK label \in {"tool", "record", "config"} :
        /\ Installed!Becomes(p, [proc[p] EXCEPT !.backup = [tool |-> tool, config |-> config], !.pc = label])
        /\ label = "tool" => proc[p].plan.action = "install"
        /\ label = "record" => proc[p].plan.action = "adopt"
        /\ label = "config" => proc[p].plan.action \in {"remove", "rollback"}
  <2>1. proc[p].plan \in Plans
    BY DEF Installed!Backup, Installed!At, InstallOK
  <2>2. proc[p].plan.action \in {"install", "adopt", "remove", "rollback"}
    BY <2>1 DEF Plans, Installed!Actions
  <2>. QED
    BY <2>2 DEF Installed!Backup, Installed!Does
<1>2. /\ proc[p].pc = "backup" /\ proc[p] \in Locals /\ proc[p].plan \in Plans
      /\ UNCHANGED <<tool, config, state, lock, edits, quiet, died>>
  BY DEF Installed!Backup, Installed!At, Installed!disk, Installed!aux, InstallOK
<1>3. /\ [tool |-> tool, config |-> config] \in Backups
      /\ [proc[p] EXCEPT !.backup = [tool |-> tool, config |-> config], !.pc = label] \in Locals
  BY <1>2 DEF InstallOK, Locals, Backups, InstallerLabels
<1>4. /\ proc' \in [Processes -> Locals] /\ Alone(p)
      /\ proc'[p] = [proc[p] EXCEPT !.backup = [tool |-> tool, config |-> config], !.pc = label]
  BY <1>1, <1>3, InstallerBecomes
<1>5. /\ proc'[p].pc = label /\ proc'[p].plan = proc[p].plan
      /\ proc'[p].backup = [tool |-> tool, config |-> config]
  BY <1>2, <1>4 DEF Locals
<1>a. proc'[p].backup.tool = tool /\ proc'[p].backup.config = config
  BY <1>5
<1>6. PlanHolds(p) /\ EditsKept(p) /\ (~died => Pieces(p)) /\ quiet \subseteq UserOf(config)
  BY <1>2 DEF Fits, DiskFits
<1>7. Steps(p)'
  BY <1>1, <1>5 DEF Steps
<1>8. EditsKept(p)'
  <2>1. proc'[p].pc = label /\ proc'[p].plan = proc[p].plan /\ proc'[p].pc \notin {"backup", "strip"}
    BY <1>5
  <2>. QED
    BY <1>2, <1>a, <1>6, <2>1 DEF EditsKept
<1>9. ~died => Pieces(p)'
  <2>1. /\ proc'[p].pc = label /\ proc'[p].plan = proc[p].plan
        /\ label \in {"tool", "record", "config"} /\ (label = "config" => proc[p].plan.action # "install")
    BY <1>1, <1>5
  <2>2. label = "record" => proc[p].plan.tool = "new" /\ HandlersOf(proc[p].plan.config) = 1
    BY <1>1, <1>6 DEF PlanHolds
  <2>3. HandlersOf(proc[p].plan.config) = HandlersOf(config)
    BY <1>2, <1>6 DEF EditsKept
  <2>4. ~died => /\ Whole(state, tool, HandlersOf(config)) /\ tool = proc[p].plan.tool
                 /\ proc[p].plan.state # None => proc[p].plan.state.base # "partial"
    BY <1>2, <1>6 DEF Pieces
  <2>. QED
    BY <1>2, <1>a, <2>1, <2>2, <2>3, <2>4 DEF Pieces
<1>10. tool' \in ToolStates /\ config' \in Configs /\ state' \in Records \union {None}
  BY <1>2 DEF InstallOK
<1>. QED
  BY <1>2, <1>3, <1>4, <1>5, <1>6, <1>7, <1>8, <1>9, <1>10, WorkStep

\* What holds before a step at work, in one place.
LEMMA AtWork ==
  ASSUME InstallInv, NEW p \in Processes, Working(p)
  PROVE  /\ proc[p] \in Locals /\ proc[p].plan \in Plans /\ (BackedUp(p) => proc[p].backup \in Backups)
         /\ tool \in ToolStates /\ config \in Configs /\ state \in Records \union {None}
         /\ PlanHolds(p) /\ Steps(p) /\ EditsKept(p) /\ (~died => Pieces(p)) /\ quiet \subseteq UserOf(config)
         /\ proc[p].plan.action \in {"install", "adopt", "remove", "rollback"}
         /\ state # None => Returns(state)
<1>1. proc[p].pc # "idle" /\ proc[p] \in Locals /\ proc[p].plan \in Plans
  BY DEF Working, Installed!Working, Installed!Writing, Installed!Undoing, InstallInv, InstallOK
<1>2. proc[p].plan.action \in {"install", "adopt", "remove", "rollback"}
  BY <1>1 DEF Plans, Installed!Actions
<1>. QED
  BY <1>1, <1>2 DEF InstallInv, InstallOK, DiskFits, Fits

LEMMA CopyToolKeeps ==
  ASSUME InstallersAssumption, InstallInv, NEW p \in Processes, Installed!CopyTool(p)
  PROVE  InstallInv'
<1>. USE DEF Working, BackedUp, Installed!Working, Installed!Writing, Installed!Undoing
<1>1. Working(p) /\ BackedUp(p) /\ UNCHANGED <<config, state, lock, edits, quiet, died>>
  BY DEF Installed!CopyTool, Installed!At, Installed!aux
<1>2. proc[p] \in Locals /\ proc[p].plan.action = "install"
  BY <1>1, AtWork DEF Installed!CopyTool, Installed!At, Steps
<1>3. CASE proc[p].pc = "tool"
  <2>1. /\ tool' = "partial"
        /\ Installed!Becomes(p, [proc[p] EXCEPT !.pc = "copying", !.written = @ \union {"tool"}])
    BY <1>3 DEF Installed!CopyTool, Installed!At
  <2>2. [proc[p] EXCEPT !.pc = "copying", !.written = @ \union {"tool"}] \in Locals
    BY <1>2 DEF Locals, InstallerLabels
  <2>a. /\ proc' \in [Processes -> Locals] /\ Alone(p)
        /\ proc'[p] = [proc[p] EXCEPT !.pc = "copying", !.written = @ \union {"tool"}]
    BY <2>1, <2>2, InstallerBecomes DEF InstallInv
  <2>3. /\ proc' \in [Processes -> Locals] /\ Alone(p) /\ proc'[p].pc = "copying" /\ proc'[p].plan = proc[p].plan
        /\ proc'[p].backup = proc[p].backup /\ proc'[p].written = proc[p].written \union {"tool"}
    BY <1>2, <2>a DEF Locals
  <2>4. Steps(p)' /\ EditsKept(p)'
    BY <1>1, <1>2, <2>3, AtWork DEF Steps, EditsKept
  <2>5. ~died => Pieces(p)'
    BY <1>1, <1>2, <1>3, <2>1, <2>3, AtWork DEF Pieces
  <2>. QED
    BY <1>1, <2>1, <2>3, <2>4, <2>5, AtWork, WorkStep DEF ToolStates
<1>4. CASE proc[p].pc = "copying"
  <2>1. tool' = "new" /\ Installed!Goes(p, "config")
    BY <1>4 DEF Installed!CopyTool, Installed!At
  <2>2. proc' \in [Processes -> Locals] /\ Alone(p) /\ proc'[p].pc = "config" /\ Same(p)
    BY <2>1, InstallerGoes DEF InstallInv, InstallerLabels
  <2>3. Steps(p)' /\ EditsKept(p)'
    BY <1>1, <1>2, <2>2, AtWork DEF Steps, EditsKept, Same
  <2>4. ~died => Pieces(p)'
    BY <1>1, <1>2, <1>4, <2>1, <2>2, AtWork DEF Pieces, Same
  <2>. QED
    BY <1>1, <2>1, <2>2, <2>3, <2>4, AtWork, WorkStep DEF ToolStates, Same
<1>. QED
  BY <1>3, <1>4 DEF Installed!CopyTool, Installed!At

\* The handler is added to what the user has.
LEMMA HandlerAdded ==
  ASSUME InstallersAssumption, NEW c \in Configs
  PROVE  /\ Installed!WithHandler(c) \in ConfigDocuments
         /\ UserOf(Installed!WithHandler(c)) = UserOf(c)
         /\ HandlersOf(Installed!WithHandler(c)) = HandlersOf(c) + 1
<1>1. CASE c = None
  <2>1. [handlers |-> 1, user |-> {}] \in ConfigDocuments
    BY DEF ConfigDocuments
  <2>. QED
    BY <1>1, <2>1, InstallersAssumption DEF Installed!WithHandler, HandlersOf, UserOf, InstallersAssumption
<1>2. CASE c # None
  <2>1. c \in ConfigDocuments
    BY <1>2 DEF Configs
  <2>2. /\ [c EXCEPT !.handlers = @ + 1] \in ConfigDocuments
        /\ [c EXCEPT !.handlers = @ + 1].handlers = c.handlers + 1
        /\ [c EXCEPT !.handlers = @ + 1].user = c.user
    BY <2>1 DEF ConfigDocuments
  <2>. QED
    BY <1>2, <2>1, <2>2, InstallersAssumption DEF Installed!WithHandler, HandlersOf, UserOf, InstallersAssumption
<1>. QED
  BY <1>1, <1>2

LEMMA WriteConfigKeeps ==
  ASSUME InstallersAssumption, InstallInv, NEW p \in Processes, Installed!WriteConfig(p)
  PROVE  InstallInv'
<1>. USE DEF Working, BackedUp, Installed!Working, Installed!Writing, Installed!Undoing
<1>1. /\ Working(p) /\ BackedUp(p) /\ UNCHANGED <<tool, state, lock, edits, quiet, died>>
      /\ proc[p].pc = "config" /\ proc[p].plan.action = "install"
      /\ config' = Installed!WithHandler(proc[p].plan.config)
      /\ Installed!Becomes(p, [proc[p] EXCEPT !.pc = "verify", !.written = @ \union {"config"}])
  BY DEF Installed!WriteConfig, Installed!At, Installed!Does, Installed!aux
<1>2. [proc[p] EXCEPT !.pc = "verify", !.written = @ \union {"config"}] \in Locals
  BY <1>1, AtWork DEF Locals, InstallerLabels
<1>a. /\ proc' \in [Processes -> Locals] /\ Alone(p) /\ proc[p] \in Locals
      /\ proc'[p] = [proc[p] EXCEPT !.pc = "verify", !.written = @ \union {"config"}]
  BY <1>1, <1>2, InstallerBecomes, AtWork DEF InstallInv
<1>3. /\ proc' \in [Processes -> Locals] /\ Alone(p) /\ proc'[p].pc = "verify" /\ proc'[p].plan = proc[p].plan
      /\ proc'[p].backup = proc[p].backup /\ proc'[p].written = proc[p].written \union {"config"}
  BY <1>a DEF Locals
<1>4. proc[p].plan.config \in Configs
  BY <1>1, AtWork DEF Plans
<1>5. config' \in Configs /\ UserOf(config') = UserOf(proc[p].plan.config)
  BY <1>1, <1>4, HandlerAdded DEF Configs
<1>6. Steps(p)' /\ EditsKept(p)'
  BY <1>1, <1>3, AtWork DEF Steps, EditsKept
<1>7. ~died => Pieces(p)'
  BY <1>1, <1>3, AtWork DEF Pieces
<1>. QED
  BY <1>1, <1>3, <1>5, <1>6, <1>7, AtWork, WorkStep DEF EditsKept

LEMMA VerifyKeeps ==
  ASSUME InstallersAssumption, InstallInv, NEW p \in Processes, Installed!Verify(p)
  PROVE  InstallInv'
<1>. USE DEF Working, BackedUp, Installed!Working, Installed!Writing, Installed!Undoing
<1>1. PICK label \in {"record", "undo config"} :
        /\ Installed!Goes(p, label)
        /\ label = "record" => config = Installed!WithHandler(proc[p].plan.config)
  BY DEF Installed!Verify
<1>2. /\ Working(p) /\ BackedUp(p) /\ UNCHANGED <<tool, config, state, lock, edits, quiet, died>>
      /\ proc[p].pc = "verify" /\ proc[p].plan.action = "install"
  BY AtWork DEF Installed!Verify, Installed!At, Installed!disk, Installed!aux, Steps
<1>3. proc' \in [Processes -> Locals] /\ Alone(p) /\ proc'[p].pc = label /\ Same(p)
  BY <1>1, InstallerGoes DEF InstallInv, InstallerLabels
<1>4. label = "record" => HandlersOf(config) = 1
  <2>1. proc[p].plan.config \in Configs /\ HandlersOf(proc[p].plan.config) = 0
    BY <1>2, AtWork DEF Plans, PlanHolds
  <2>. QED
    BY <1>1, <2>1, HandlerAdded
<1>5. Steps(p)' /\ EditsKept(p)'
  BY <1>2, <1>3, AtWork DEF Steps, EditsKept, Same
<1>6. ~died => Pieces(p)'
  BY <1>1, <1>2, <1>3, <1>4, AtWork DEF Pieces, Same
<1>. QED
  BY <1>2, <1>3, <1>5, <1>6, AtWork, WorkStep DEF Same

\* A record that is written is one of what is there: its tool and its handler, and the way back.
LEMMA RecordKeeps ==
  ASSUME InstallersAssumption, InstallInv, NEW p \in Processes, Installed!Record(p)
  PROVE  InstallInv'
<1>. USE DEF Working, BackedUp, Installed!Working, Installed!Writing, Installed!Undoing
<1>1. /\ Working(p) /\ BackedUp(p) /\ UNCHANGED <<tool, config, lock, edits, quiet, died>>
      /\ proc[p].pc = "record" /\ state' = Installed!Recorded(p) /\ Installed!Goes(p, "release")
  BY DEF Installed!Record, Installed!At, Installed!aux
<1>2. proc' \in [Processes -> Locals] /\ Alone(p) /\ proc'[p].pc = "release" /\ Same(p)
  BY <1>1, InstallerGoes DEF InstallInv, InstallerLabels
<1>3. /\ proc[p].plan \in Plans /\ proc[p].backup \in Backups /\ proc[p].plan.config \in Configs
      /\ proc[p].plan.tool \in ToolStates /\ proc[p].backup.tool \in ToolStates /\ proc[p].backup.config \in Configs
      /\ proc[p].plan.action \in {"install", "adopt"}
      /\ PlanHolds(p) /\ EditsKept(p) /\ (~died => Pieces(p))
  BY <1>1, AtWork DEF Plans, Backups, Steps
<1>4. /\ Installed!WithHandler(proc[p].plan.config) \in ConfigDocuments
      /\ UserOf(Installed!WithHandler(proc[p].plan.config)) = UserOf(proc[p].plan.config)
  BY <1>3, HandlerAdded
<1>5. CASE proc[p].plan.action = "adopt"
  <2>1. state' = [adopted |-> TRUE, base |-> "absent", created |-> FALSE, tool |-> proc[p].plan.tool,
                  config |-> proc[p].plan.config, backup |-> proc[p].backup]
    BY <1>1, <1>5 DEF Installed!Recorded
  <2>2. state' \in Records
    BY <1>3, <2>1 DEF Records, ToolStates
  <2>3. Returns(state') /\ state'.base # "partial"
    BY <2>1 DEF Returns
  <2>4. ~died => Whole(state', tool, HandlersOf(config))
    BY <1>1, <1>3, <1>5, <2>1 DEF Pieces, PlanHolds, Whole
  <2>5. Steps(p)' /\ EditsKept(p)' /\ (~died => Pieces(p)')
    BY <1>1, <1>2, <1>3 DEF Steps, EditsKept, Pieces, Same
  <2>. QED
    BY <1>1, <1>2, <2>2, <2>3, <2>4, <2>5, AtWork, WorkStep DEF Same
<1>6. CASE proc[p].plan.action = "install"
  <2>1. state' = [adopted |-> FALSE, base |-> proc[p].backup.tool, created |-> proc[p].backup.config = None,
                  tool |-> "new", config |-> Installed!WithHandler(proc[p].plan.config), backup |-> proc[p].backup]
    BY <1>1, <1>6 DEF Installed!Recorded
  <2>2. state' \in Records
    BY <1>3, <1>4, <2>1 DEF Records, ToolStates, Configs
  <2>a. /\ state'.created = (proc[p].backup.config = None) /\ state'.adopted = FALSE
        /\ state'.config = Installed!WithHandler(proc[p].plan.config) /\ state'.backup = proc[p].backup
    BY <2>1
  <2>b. /\ UserOf(proc[p].plan.config) \subseteq UserOf(proc[p].backup.config)
        /\ HandlersOf(proc[p].backup.config) = 0
    BY <1>1, <1>3, <1>6 DEF EditsKept, PlanHolds
  <2>3. Returns(state')
    BY <1>4, <2>a, <2>b DEF Returns
  <2>4. ~died => Whole(state', tool, HandlersOf(config)) /\ state'.base # "partial"
    BY <1>1, <1>3, <1>6, <2>1 DEF Pieces, Whole
  <2>5. Steps(p)' /\ EditsKept(p)' /\ (~died => Pieces(p)')
    BY <1>1, <1>2, <1>3 DEF Steps, EditsKept, Pieces, Same
  <2>. QED
    BY <1>1, <1>2, <2>2, <2>3, <2>4, <2>5, AtWork, WorkStep DEF Same
<1>. QED
  BY <1>3, <1>5, <1>6

LEMMA ReadConfigKeeps ==
  ASSUME InstallersAssumption, InstallInv, NEW p \in Processes, Installed!ReadConfig(p)
  PROVE  InstallInv'
<1>. USE DEF Working, BackedUp, Installed!Working, Installed!Writing, Installed!Undoing
<1>1. /\ Working(p) /\ BackedUp(p) /\ UNCHANGED <<tool, config, state, lock, edits, quiet, died>>
      /\ proc[p].pc = "config" /\ proc[p].plan.action = "remove"
  BY DEF Installed!ReadConfig, Installed!At, Installed!Does, Installed!disk, Installed!aux
<1>2. CASE HandlersOf(config) = 0
  <2>1. PICK label \in {"restore", "undo config"} : Installed!Goes(p, label)
    BY <1>2, InstallersAssumption DEF Installed!ReadConfig, Installed!Handlers, HandlersOf
  <2>2. proc' \in [Processes -> Locals] /\ Alone(p) /\ proc'[p].pc = label /\ Same(p)
    BY <2>1, InstallerGoes DEF InstallInv, InstallerLabels
  <2>3. Steps(p)' /\ EditsKept(p)'
    BY <1>1, <2>2, AtWork DEF Steps, EditsKept, Same
  <2>4. ~died => Pieces(p)'
    BY <1>1, <1>2, <2>2, AtWork DEF Pieces, Same
  <2>. QED
    BY <1>1, <2>2, <2>3, <2>4, AtWork, WorkStep DEF Same
<1>3. CASE HandlersOf(config) # 0
  <2>1. Installed!Becomes(p, [proc[p] EXCEPT !.pc = "strip", !.document = config]) /\ config \in ConfigDocuments
    BY <1>1, <1>3, AtWork DEF Installed!ReadConfig, Installed!Handlers, HandlersOf, Configs
  <2>2. [proc[p] EXCEPT !.pc = "strip", !.document = config] \in Locals
    BY <1>1, <2>1, AtWork DEF Locals, InstallerLabels, Configs
  <2>a. /\ proc' \in [Processes -> Locals] /\ Alone(p) /\ proc[p] \in Locals
        /\ proc'[p] = [proc[p] EXCEPT !.pc = "strip", !.document = config]
    BY <1>1, <2>1, <2>2, InstallerBecomes, AtWork DEF InstallInv
  <2>3. /\ proc' \in [Processes -> Locals] /\ Alone(p) /\ proc'[p].pc = "strip" /\ proc'[p].plan = proc[p].plan
        /\ proc'[p].backup = proc[p].backup /\ proc'[p].document = config
    BY <2>a DEF Locals
  <2>4. Steps(p)' /\ EditsKept(p)'
    BY <1>1, <2>3, AtWork DEF Steps, EditsKept
  <2>5. ~died => Pieces(p)'
    BY <1>1, <2>3, AtWork DEF Pieces
  <2>. QED
    BY <1>1, <2>1, <2>3, <2>4, <2>5, AtWork, WorkStep
<1>. QED
  BY <1>2, <1>3

\* A configuration that the installer created is removed, if it has nothing else in it.
LEMMA StripConfigKeeps ==
  ASSUME InstallersAssumption, InstallInv, NEW p \in Processes, Installed!StripConfig(p)
  PROVE  InstallInv'
<1>. USE DEF Working, BackedUp, Installed!Working, Installed!Writing, Installed!Undoing
<1>1. /\ Working(p) /\ BackedUp(p) /\ UNCHANGED <<tool, state, lock, edits, quiet, died>>
      /\ proc[p].pc = "strip" /\ proc[p].plan.action = "remove" /\ proc[p].plan.state # None
      /\ Installed!Becomes(p, [proc[p] EXCEPT !.pc = "restore", !.document = None])
  BY AtWork DEF Installed!StripConfig, Installed!At, Installed!aux, Steps, PlanHolds
<1>2. proc[p].document \in ConfigDocuments /\ quiet \subseteq UserOf(proc[p].document) /\ Returns(proc[p].plan.state)
  BY <1>1, AtWork DEF InstallInv, InstallOK, EditsKept, PlanHolds
<1>3. config' \in Configs /\ HandlersOf(config') = 0 /\ quiet \subseteq UserOf(config')
  <2>1. CASE proc[p].plan.state.created /\ proc[p].document = proc[p].plan.state.config
    <3>1. config' = None /\ quiet \subseteq UserOf(proc[p].plan.state.backup.config)
      BY <1>2, <2>1 DEF Installed!StripConfig, Returns
    <3>. QED
      BY <1>2, <2>1, <3>1 DEF Returns, UserOf, HandlersOf, Configs
  <2>2. CASE ~(proc[p].plan.state.created /\ proc[p].document = proc[p].plan.state.config)
    <3>1. config' = [proc[p].document EXCEPT !.handlers = 0] /\ config' \in ConfigDocuments
      BY <1>2, <2>2 DEF Installed!StripConfig, ConfigDocuments
    <3>2. config'.handlers = 0 /\ config'.user = proc[p].document.user
      BY <1>2, <3>1 DEF ConfigDocuments
    <3>. QED
      BY <1>2, <3>1, <3>2, InstallersAssumption DEF UserOf, HandlersOf, Configs, InstallersAssumption
  <2>. QED
    BY <2>1, <2>2
<1>4. [proc[p] EXCEPT !.pc = "restore", !.document = None] \in Locals
  BY <1>1, AtWork DEF Locals, InstallerLabels, Configs
<1>a. /\ proc' \in [Processes -> Locals] /\ Alone(p) /\ proc[p] \in Locals
      /\ proc'[p] = [proc[p] EXCEPT !.pc = "restore", !.document = None]
  <2>1. proc[p] \in Locals /\ InstallOK
    BY <1>1, AtWork DEF InstallInv
  <2>. HIDE DEF Working, BackedUp
  <2>. QED
    BY <1>1, <1>4, <2>1, InstallerBecomes
<1>5. /\ proc' \in [Processes -> Locals] /\ Alone(p) /\ proc'[p].pc = "restore" /\ proc'[p].plan = proc[p].plan
      /\ proc'[p].backup = proc[p].backup
  BY <1>a DEF Locals
<1>6. Steps(p)' /\ EditsKept(p)'
  BY <1>1, <1>5, AtWork DEF Steps, EditsKept
<1>7. ~died => Pieces(p)'
  BY <1>1, <1>3, <1>5, AtWork DEF Pieces
<1>. QED
  BY <1>1, <1>3, <1>5, <1>6, <1>7, AtWork, WorkStep

\* What a rollback puts back has no handler, and every quiet edit.
LEMMA RestoreConfigKeeps ==
  ASSUME InstallersAssumption, InstallInv, NEW p \in Processes, Installed!RestoreConfig(p)
  PROVE  InstallInv'
<1>. USE DEF Working, BackedUp, Installed!Working, Installed!Writing, Installed!Undoing
<1>1. /\ Working(p) /\ BackedUp(p) /\ UNCHANGED <<tool, state, lock, edits, quiet, died>>
      /\ proc[p].pc = "config" /\ proc[p].plan.action = "rollback" /\ proc[p].plan.state # None
      /\ config' = proc[p].plan.state.backup.config /\ Installed!Goes(p, "restore")
  BY AtWork DEF Installed!RestoreConfig, Installed!At, Installed!Does, Installed!aux, PlanHolds
<1>2. proc' \in [Processes -> Locals] /\ Alone(p) /\ proc'[p].pc = "restore" /\ Same(p)
  BY <1>1, InstallerGoes DEF InstallInv, InstallerLabels
<1>3. config' \in Configs
  BY <1>1, AtWork DEF Plans, Records, Backups
<1>4. HandlersOf(config') = 0 /\ quiet \subseteq UserOf(config')
  BY <1>1, AtWork DEF PlanHolds, EditsKept, Returns
<1>5. Steps(p)' /\ EditsKept(p)'
  BY <1>1, <1>2, AtWork DEF Steps, EditsKept, Same
<1>6. ~died => Pieces(p)'
  BY <1>1, <1>2, <1>4, AtWork DEF Pieces, Same
<1>. QED
  BY <1>1, <1>2, <1>3, <1>4, <1>5, <1>6, AtWork, WorkStep DEF Same

\* What a step leaves to show that only moves its installer to another label.
LEMMA GoesKeeps ==
  ASSUME InstallInv, NEW p \in Processes, Working(p), BackedUp(p),
         NEW label \in (Installed!Working \ {"backup", "strip"}) \union {"release"}, Installed!Goes(p, label),
         UNCHANGED <<lock, edits, quiet, died>>,
         tool' \in ToolStates, config' \in Configs, state' \in {state, None},
         quiet \subseteq UserOf(config'),
         Steps(p)', ~died => Pieces(p)',
         label = "release" /\ ~died => Whole(state', tool', HandlersOf(config'))
  PROVE  InstallInv'
<1>. USE DEF BackedUp, Working, Installed!Working, Installed!Writing, Installed!Undoing
<1>1. proc' \in [Processes -> Locals] /\ Alone(p) /\ proc'[p].pc = label /\ Same(p)
  BY InstallerGoes DEF InstallInv, InstallerLabels
<1>2. EditsKept(p)'
  BY <1>1, AtWork DEF EditsKept, Same
<1>. QED
  BY <1>1, <1>2, AtWork, WorkStep DEF Same

LEMMA RestoreToolKeeps ==
  ASSUME InstallersAssumption, InstallInv, NEW p \in Processes, Installed!RestoreTool(p)
  PROVE  InstallInv'
<1>. USE DEF Working, BackedUp, Installed!Working, Installed!Writing, Installed!Undoing
<1>1. /\ Working(p) /\ BackedUp(p) /\ UNCHANGED <<config, state, lock, edits, quiet, died>>
      /\ proc[p].pc \in {"restore", "restoring"} /\ proc[p].plan.action \in {"remove", "rollback"}
  BY AtWork DEF Installed!RestoreTool, Installed!At, Installed!aux, Steps
<1>2. /\ proc[p].plan.state \in Records /\ proc[p].plan.state # None
      /\ ~died => HandlersOf(config) = 0 /\ proc[p].plan.state.base # "partial"
  BY <1>1, AtWork DEF Plans, PlanHolds, Pieces
<1>3. PICK label \in {"restoring", "forget"} :
        /\ Installed!Goes(p, label) /\ tool' \in ToolStates
        /\ label = "forget" => tool' = proc[p].plan.state.base
  BY <1>1, <1>2 DEF Installed!RestoreTool, Installed!At, ToolStates, Records
<1>4. Same(p) /\ proc'[p].pc = label
  BY <1>3, InstallerGoes DEF InstallInv, InstallerLabels
<1>5. Steps(p)'
  BY <1>1, <1>4 DEF Steps, Same
<1>6. ~died => Pieces(p)'
  BY <1>1, <1>2, <1>3, <1>4, AtWork DEF Pieces, Same
<1>. QED
  BY <1>1, <1>3, <1>5, <1>6, AtWork, GoesKeeps

LEMMA ForgetKeeps ==
  ASSUME InstallersAssumption, InstallInv, NEW p \in Processes, Installed!Forget(p)
  PROVE  InstallInv'
<1>. USE DEF Working, BackedUp, Installed!Working, Installed!Writing, Installed!Undoing
<1>1. /\ Working(p) /\ BackedUp(p) /\ UNCHANGED <<tool, config, lock, edits, quiet, died>>
      /\ proc[p].pc = "forget" /\ state' = None /\ Installed!Goes(p, "release")
  BY DEF Installed!Forget, Installed!At, Installed!aux
<1>2. Same(p) /\ proc'[p].pc = "release"
  BY <1>1, InstallerGoes DEF InstallInv, InstallerLabels
<1>3. Steps(p)' /\ (~died => Pieces(p)')
  BY <1>1, <1>2, AtWork DEF Steps, Pieces, Same
<1>4. ~died => Whole(state', tool', HandlersOf(config'))
  <2>1. ~died => HandlersOf(config) = 0 /\ tool # "partial"
    BY <1>1, AtWork DEF Pieces
  <2>. QED
    BY <1>1, <2>1 DEF Whole
<1>. QED
  BY <1>1, <1>3, <1>4, AtWork, GoesKeeps

LEMMA UndoConfigKeeps ==
  ASSUME InstallersAssumption, InstallInv, NEW p \in Processes, Installed!UndoConfig(p)
  PROVE  InstallInv'
<1>. USE DEF Working, BackedUp, Installed!Working, Installed!Writing, Installed!Undoing
<1>1. /\ Working(p) /\ BackedUp(p) /\ UNCHANGED <<tool, state, lock, edits, quiet, died>>
      /\ proc[p].pc = "undo config" /\ Installed!Goes(p, "undo tool")
      /\ config' = IF Installed!Undoes(p, "config") THEN proc[p].backup.config ELSE config
  BY DEF Installed!UndoConfig, Installed!At, Installed!aux
<1>2. Same(p) /\ proc'[p].pc = "undo tool"
  BY <1>1, InstallerGoes DEF InstallInv, InstallerLabels
<1>3. config' \in Configs /\ quiet \subseteq UserOf(config')
  BY <1>1, AtWork DEF EditsKept, Backups
<1>4. ~died => HandlersOf(config') = HandlersOf(proc[p].backup.config)
  <2>1. CASE Installed!Undoes(p, "config")
    BY <1>1, <2>1
  <2>2. CASE ~Installed!Undoes(p, "config")
    BY <1>1, <2>2, AtWork DEF Installed!Undoes, Installed!Does, Pieces
  <2>. QED
    BY <2>1, <2>2
<1>5. Steps(p)'
  BY <1>1, <1>2, AtWork DEF Steps, Same
<1>6. ~died => Pieces(p)'
  BY <1>1, <1>2, <1>4, AtWork DEF Pieces, Same
<1>. QED
  BY <1>1, <1>3, <1>5, <1>6, AtWork, GoesKeeps

LEMMA UndoToolKeeps ==
  ASSUME InstallersAssumption, InstallInv, NEW p \in Processes, Installed!UndoTool(p)
  PROVE  InstallInv'
<1>. USE DEF Working, BackedUp, Installed!Working, Installed!Writing, Installed!Undoing
<1>1. /\ Working(p) /\ BackedUp(p) /\ UNCHANGED <<config, state, lock, edits, quiet, died>>
      /\ proc[p].pc \in {"undo tool", "undoing"}
  BY DEF Installed!UndoTool, Installed!At, Installed!aux
<1>2. PICK label \in {"undoing", "release"} :
        /\ Installed!Goes(p, label) /\ tool' \in ToolStates
        /\ label = "release" => \/ tool' = proc[p].backup.tool
                                \/ ~Installed!Undoes(p, "tool") /\ tool' = tool
        /\ label = "undoing" => Installed!Undoes(p, "tool")
  <2>1. proc[p].backup.tool \in ToolStates
    BY <1>1, AtWork DEF Backups
  <2>. QED
    BY <1>1, <2>1, AtWork DEF Installed!UndoTool, Installed!At, ToolStates
<1>3. Same(p) /\ proc'[p].pc = label
  BY <1>2, InstallerGoes DEF InstallInv, InstallerLabels
<1>4. Steps(p)'
  BY <1>1, <1>3, AtWork DEF Steps, Same
<1>5. ~died => HandlersOf(config) = HandlersOf(proc[p].backup.config)
               /\ Whole(state, proc[p].backup.tool, HandlersOf(proc[p].backup.config))
  BY <1>1, AtWork DEF Pieces
<1>6. ~died /\ label = "release" => tool' = proc[p].backup.tool
  BY <1>1, <1>2, AtWork DEF Pieces, Installed!Undoes, Installed!Does
<1>7. ~died => Pieces(p)'
  <2>1. CASE label = "release"
    BY <1>1, <1>3, <2>1, AtWork DEF Pieces, Same
  <2>2. CASE label = "undoing"
    <3>1. ~died /\ proc[p].plan.action \in {"install", "adopt"} /\ "tool" \notin proc[p].written =>
            tool' = proc[p].backup.tool
      BY <1>2, <2>2 DEF Installed!Undoes, Installed!Does
    <3>. QED
      BY <1>1, <1>3, <2>2, <3>1, AtWork DEF Pieces, Same
  <2>. QED
    BY <2>1, <2>2
<1>. QED
  BY <1>1, <1>2, <1>4, <1>5, <1>6, <1>7, AtWork, GoesKeeps

LEMMA FailKeeps ==
  ASSUME InstallersAssumption, InstallInv, NEW p \in Processes, Installed!Fail(p)
  PROVE  InstallInv'
<1>. USE DEF Working, BackedUp, Installed!Working, Installed!Writing, Installed!Undoing
<1>1. /\ Working(p) /\ BackedUp(p) /\ UNCHANGED <<tool, config, state, lock, edits, quiet, died>>
      /\ proc[p].pc \in Installed!Writing
  BY DEF Installed!Fail, Installed!disk
<1>2. PICK label \in {"release", "undo config"} :
        Installed!Goes(p, label) /\ (label = "release" <=> proc[p].plan.action = "adopt")
  BY DEF Installed!Fail, Installed!Does
<1>3. Same(p) /\ proc'[p].pc = label
  BY <1>2, InstallerGoes DEF InstallInv, InstallerLabels
<1>4. Steps(p)'
  BY <1>1, <1>2, <1>3, AtWork DEF Steps, Same
<1>5. ~died => Pieces(p)'
  BY <1>1, <1>3, AtWork DEF Pieces, Same
<1>6. label = "release" => proc[p].pc = "record"
  BY <1>1, <1>2, AtWork DEF Steps
<1>7. label = "release" /\ ~died => Whole(state, tool, HandlersOf(config))
  BY <1>1, <1>2, <1>6, AtWork DEF Pieces, PlanHolds, Whole
<1>. QED
  BY <1>1, <1>2, <1>4, <1>5, <1>7, AtWork, GoesKeeps

\* A step that leaves the disk and the lock as they are, of an installer that waits or ends.
LEMMA WaitingStep ==
  ASSUME InstallInv, NEW p \in Processes, ~Working(p), proc[p].pc # "release",
         UNCHANGED <<tool, config, state, edits, quiet, died>>,
         proc' \in [Processes -> Locals], Alone(p), ~Working(p)', proc'[p].pc # "release",
         lock' \in Processes \union {None}, \A q \in Processes : q # p /\ lock = q => lock' = q,
         proc'[p].pc = "check" => lock' = p,
         proc'[p].pc # "idle" => proc'[p].plan \in Plans,
         Fits(p)'
  PROVE  InstallInv'
<1>. USE DEF InstallInv
<1>1. \A q \in Processes \ {p} : proc'[q] = proc[q] /\ Working(q)' = Working(q) /\ BackedUp(q)' = BackedUp(q)
  BY DEF Alone, Working, BackedUp
<1>2. ~BackedUp(p)' /\ proc'[p].pc # "strip"
  BY DEF BackedUp, Working, Installed!Working, Installed!Writing
<1>3. \A q \in Processes : Fits(q)'
  BY <1>1, OthersFit
<1>4. InstallOK'
  BY <1>1, <1>2 DEF InstallOK
<1>5. InstallLocked'
  BY <1>1 DEF InstallLocked
<1>6. DiskFits'
  BY <1>1 DEF DiskFits
<1>. QED
  BY <1>3, <1>4, <1>5, <1>6

LEMMA PlanKeeps ==
  ASSUME InstallersAssumption, InstallInv, NEW p \in Processes, Installed!Plan(p)
  PROVE  InstallInv'
<1>. USE DEF Working, Installed!Working, Installed!Writing, Installed!Undoing
<1>1. /\ proc[p].pc = "idle" /\ UNCHANGED <<tool, config, state, lock, edits, quiet, died>>
  BY DEF Installed!Plan, Installed!At, Installed!disk
<1>2. PICK action \in Installed!Actions :
        /\ Installed!Plannable(action)
        /\ Installed!Becomes(p, [Installed!Idle EXCEPT !.pc = "planned", !.plan = Installed!PlanOf(action)])
  BY DEF Installed!Plan
<1>3. Installed!PlanOf(action) = [action |-> action, state |-> state, tool |-> tool, config |-> config]
  BY DEF Installed!PlanOf
<1>4. /\ [action |-> action, state |-> state, tool |-> tool, config |-> config] \in Plans
      /\ action \in {"install", "adopt", "remove", "rollback"}
  BY DEF InstallInv, InstallOK, Plans, Installed!Actions
<1>5. Installed!Idle \in Locals /\ Installed!PlanOf(action) \in Plans
  BY <1>3, <1>4 DEF Installed!Idle, Locals, Configs, InstallerLabels
<1>6. [Installed!Idle EXCEPT !.pc = "planned", !.plan = Installed!PlanOf(action)] \in Locals
  BY <1>5 DEF Locals, InstallerLabels
<1>a. /\ proc' \in [Processes -> Locals] /\ Alone(p)
      /\ proc'[p] = [Installed!Idle EXCEPT !.pc = "planned", !.plan = Installed!PlanOf(action)]
  BY <1>2, <1>6, InstallerBecomes DEF InstallInv
<1>b. proc'[p].pc = "planned" /\ proc'[p].plan = Installed!PlanOf(action)
  BY <1>5, <1>a DEF Locals
<1>7. /\ proc' \in [Processes -> Locals] /\ Alone(p) /\ proc'[p].pc = "planned" /\ proc'[p].plan \in Plans
      /\ proc'[p].plan.action = action /\ proc'[p].plan.state = state
      /\ proc'[p].plan.tool = tool /\ proc'[p].plan.config = config
  BY <1>3, <1>5, <1>a, <1>b
<1>8. HandlersOf(config) = Installed!Handlers
  BY DEF HandlersOf, Installed!Handlers
<1>9. PlanHolds(p)'
  <2>1. /\ action = "install" => HandlersOf(config) = 0
        /\ action = "adopt" => tool = "new" /\ HandlersOf(config) = 1
        /\ action \in {"remove", "rollback"} => state # None
        /\ action = "rollback" => ~state.adopted
    BY <1>2, <1>4, <1>8 DEF Installed!Plannable
  <2>2. state # None => Returns(state)
    BY DEF InstallInv, DiskFits
  <2>. QED
    BY <1>7, <2>1, <2>2 DEF PlanHolds
<1>10. Steps(p)' /\ EditsKept(p)' /\ (~died => Pieces(p)')
  <2>1. ~died => (state # None => state.base # "partial")
    BY DEF InstallInv, DiskFits
  <2>2. ~Working(p)' /\ ~BackedUp(p)'
    BY <1>7 DEF BackedUp
  <2>3. Steps(p)' /\ EditsKept(p)'
    BY <1>7, <2>2 DEF Steps, EditsKept
  <2>. QED
    BY <1>1, <1>7, <2>1, <2>2, <2>3 DEF Pieces
<1>11. Fits(p)'
  BY <1>1, <1>9, <1>10 DEF Fits
<1>. QED
  BY <1>1, <1>4, <1>7, <1>11, WaitingStep DEF InstallInv, InstallOK

LEMMA ExecuteKeeps ==
  ASSUME InstallersAssumption, InstallInv, NEW p \in Processes, Installed!Execute(p) \/ Installed!Acquire(p)
  PROVE  InstallInv'
<1>. USE DEF Working, Installed!Working, Installed!Writing, Installed!Undoing
<1>1. /\ proc[p].pc \in {"planned", "lock"} /\ UNCHANGED <<tool, config, state, edits, quiet, died>>
      /\ proc[p].plan \in Plans /\ Fits(p)
  BY DEF Installed!Execute, Installed!Acquire, Installed!At, Installed!disk, Installed!aux, InstallInv, InstallOK
<1>2. CASE Installed!Becomes(p, Installed!Idle) /\ UNCHANGED lock
  <2>1. Installed!Idle \in Locals /\ Installed!Idle.pc = "idle"
    BY DEF Installed!Idle, Locals, Configs, InstallerLabels
  <2>2. proc' \in [Processes -> Locals] /\ Alone(p) /\ proc'[p].pc = "idle"
    BY <1>2, <2>1, InstallerBecomes DEF InstallInv
  <2>. QED
    BY <1>1, <1>2, <2>2, WaitingStep DEF Fits, InstallInv, InstallOK
<1>3. CASE \/ Installed!Execute(p) /\ Installed!Goes(p, "lock")
           \/ Installed!Acquire(p) /\ Installed!Goes(p, "check")
  <2>1. PICK label \in {"lock", "check"} :
          Installed!Goes(p, label) /\ (label = "lock" <=> Installed!Execute(p) /\ Installed!Goes(p, "lock"))
    BY <1>3, Zenon
  <2>2. proc' \in [Processes -> Locals] /\ Alone(p) /\ proc'[p].pc = label /\ Same(p)
    BY <2>1, InstallerGoes DEF InstallInv, InstallerLabels
  <2>3. lock' \in Processes \union {None} /\ (\A q \in Processes : q # p /\ lock = q => lock' = q)
        /\ (label = "check" => lock' = p)
    <3>1. CASE label = "lock"
      BY <2>1, <3>1 DEF Installed!Execute, InstallInv, InstallOK
    <3>2. CASE label = "check"
      <4>1. Installed!Acquire(p)
        BY <1>3, <2>1, <2>2, <3>2, InstallerGoes DEF InstallInv, InstallerLabels
      <4>2. lock = None /\ lock' = p
        <5>1. proc'[p].pc # "idle"
          BY <2>2, <3>2
        <5>2. ~Installed!Becomes(p, Installed!Idle)
          BY <5>1 DEF Installed!Becomes, Installed!Idle, InstallInv, InstallOK
        <5>. QED
          BY <4>1, <5>2 DEF Installed!Acquire
      <4>. QED
        BY <3>2, <4>2, InstallersAssumption DEF InstallersAssumption
    <3>. QED
      BY <3>1, <3>2
  <2>4. PlanHolds(p)'
    <3>1. PlanHolds(p) /\ proc'[p].plan = proc[p].plan
      BY <1>1, <2>2 DEF Fits, Same
    <3>2. proc[p].plan.action = "rollback" => proc[p].plan.config = proc[p].plan.state.config
      <4>1. CASE proc[p].pc = "lock"
        BY <3>1, <4>1 DEF PlanHolds
      <4>2. CASE proc[p].pc = "planned"
        <5>1. Installed!Execute(p) /\ Installed!Goes(p, "lock")
          BY <1>3, <4>2 DEF Installed!Acquire, Installed!At
        <5>2. ~Installed!Becomes(p, Installed!Idle)
          <6>1. proc'[p].pc = "lock"
            BY <5>1, InstallerGoes DEF InstallInv, InstallerLabels
          <6>. QED
            BY <6>1 DEF Installed!Becomes, Installed!Idle, InstallInv, InstallOK
        <5>3. Installed!PlanOf(proc[p].plan.action) = proc[p].plan /\ ~Installed!Blocked(proc[p].plan.action)
          BY <5>1, <5>2 DEF Installed!Execute
        <5>4. proc[p].plan.config = config /\ proc[p].plan.state = state
          BY <5>3 DEF Installed!PlanOf
        <5>. QED
          BY <5>3, <5>4 DEF Installed!Blocked
      <4>. QED
        BY <1>1, <4>1, <4>2
    <3>. QED
      BY <3>1, <3>2 DEF PlanHolds
  <2>5. Steps(p)' /\ EditsKept(p)' /\ (~died => Pieces(p)')
    BY <1>1, <2>2 DEF Steps, EditsKept, Pieces, BackedUp, Fits, Same
  <2>6. Fits(p)'
    BY <1>1, <2>4, <2>5 DEF Fits
  <2>. QED
    BY <1>1, <2>2, <2>3, <2>6, WaitingStep DEF Same
<1>. QED
  BY <1>2, <1>3 DEF Installed!Execute, Installed!Acquire, Installed!aux

LEMMA ReleaseKeeps ==
  ASSUME InstallersAssumption, InstallInv, NEW p \in Processes, Installed!Release(p) \/ Installed!Die(p)
  PROVE  InstallInv'
<1>. USE DEF Working, Installed!Working, Installed!Writing, Installed!Undoing, InstallInv
<1>1. /\ UNCHANGED <<tool, config, state, edits, quiet>> /\ Installed!Becomes(p, Installed!Idle)
      /\ lock' \in {None, lock} /\ lock = p
      /\ died' \in BOOLEAN /\ (died => died') /\ (~died' => died' = died /\ proc[p].pc = "release")
  BY DEF Installed!Release, Installed!Die, Installed!At, Installed!disk, Installed!aux, InstallLocked, InstallOK
<1>2. Installed!Idle \in Locals /\ Installed!Idle.pc = "idle"
  BY DEF Installed!Idle, Locals, Configs, InstallerLabels
<1>3. proc' \in [Processes -> Locals] /\ Alone(p) /\ proc'[p].pc = "idle"
  BY <1>1, <1>2, InstallerBecomes
<1>4. \A q \in Processes \ {p} : /\ proc'[q] = proc[q] /\ ~Working(q) /\ proc[q].pc \notin {"check", "release"}
                                 /\ Working(q)' = Working(q) /\ BackedUp(q)' = BackedUp(q)
  BY <1>1, <1>3 DEF InstallLocked, Alone, BackedUp
<1>5. \A q \in Processes : Fits(q)'
  <2>1. \A q \in Processes \ {p} : Fits(q)'
    BY <1>1, <1>4, OthersFit
  <2>. QED
    BY <1>3, <2>1 DEF Fits
<1>6. InstallOK'
  BY <1>1, <1>3, <1>4 DEF InstallOK, BackedUp
<1>7. InstallLocked'
  BY <1>3, <1>4 DEF InstallLocked
<1>8. DiskFits'
  BY <1>1, <1>4 DEF DiskFits
<1>. QED
  BY <1>5, <1>6, <1>7, <1>8

\* The user adds an entry: quiet, if nobody is at work.
LEMMA EditKeeps ==
  ASSUME InstallersAssumption, InstallInv, Installed!Edit
  PROVE  InstallInv'
<1>. USE DEF InstallInv
<1>1. /\ edits' = edits + 1 /\ config' = [handlers |-> Installed!Handlers, user |-> Installed!User \union {edits'}]
      /\ quiet' = IF Installed!Busy THEN quiet ELSE quiet \union {edits'}
      /\ UNCHANGED <<tool, state, lock, proc, died>>
  BY DEF Installed!Edit
<1>2. Installed!Handlers = HandlersOf(config) /\ Installed!User = UserOf(config)
  BY DEF Installed!Handlers, HandlersOf, Installed!User, UserOf
<1>3. HandlersOf(config) \in Nat /\ UserOf(config) \in SUBSET Nat
  BY DEF InstallOK, Configs, ConfigDocuments, HandlersOf, UserOf
<1>4. config' \in ConfigDocuments /\ config' # None
  BY <1>1, <1>2, <1>3, InstallersAssumption DEF InstallOK, ConfigDocuments, InstallersAssumption
<1>5. HandlersOf(config') = HandlersOf(config) /\ UserOf(config') = UserOf(config) \union {edits'}
  BY <1>1, <1>2, <1>4 DEF HandlersOf, UserOf
<1>6. Installed!Busy <=> \E p \in Processes : Working(p)
  BY DEF Installed!Busy, Working
<1>7. InstallOK'
  BY <1>1, <1>4 DEF InstallOK, Configs, Working, BackedUp
<1>8. InstallLocked'
  BY <1>1 DEF InstallLocked, Working
<1>9. DiskFits'
  <2>1. (quiet \subseteq UserOf(config))'
    BY <1>1, <1>5 DEF DiskFits
  <2>. QED
    BY <1>1, <1>5, <2>1 DEF DiskFits, Working
<1>10. ASSUME NEW p \in Processes PROVE Fits(p)'
  <2>1. PlanHolds(p)' <=> PlanHolds(p)
    BY <1>1 DEF PlanHolds
  <2>2. Steps(p)' <=> Steps(p)
    BY <1>1 DEF Steps
  <2>3. EditsKept(p) => EditsKept(p)'
    <3>1. Working(p) => quiet' = quiet
      BY <1>1, <1>6
    <3>2. proc[p].pc = "strip" => Working(p)
      BY DEF Working, Installed!Working, Installed!Writing
    <3>. QED
      BY <1>1, <1>5, <3>1, <3>2 DEF EditsKept, Working, BackedUp
  <2>4. Pieces(p) => Pieces(p)'
    BY <1>1, <1>5 DEF Pieces, Working, BackedUp
  <2>. QED
    BY <1>1, <2>1, <2>2, <2>3, <2>4 DEF Fits
<1>. QED
  BY <1>7, <1>8, <1>9, <1>10

\* What is said of the installers and of the disk does not look at the lock.
LEMMA DiskStays ==
  ASSUME InstallInv, UNCHANGED <<tool, config, state, proc, edits, quiet, died>>
  PROVE  DiskFits' /\ \A p \in Processes : Fits(p)'
<1>1. \A q \in Processes : Fits(q)'
  BY OthersFit
<1>2. \A q \in Processes : Working(q)' = Working(q)
  BY DEF Working
<1>. QED
  BY <1>1, <1>2 DEF InstallInv, DiskFits

LEMMA ClearLockKeeps ==
  ASSUME InstallersAssumption, InstallInv, Installed!ClearLock
  PROVE  InstallInv'
<1>1. /\ lock # None /\ proc[lock].pc = "idle" /\ lock' = None
      /\ UNCHANGED <<tool, config, state, proc, edits, quiet, died>>
  BY DEF Installed!ClearLock, Installed!At, Installed!disk, Installed!aux
<1>2. InstallOK'
  BY <1>1 DEF InstallInv, InstallOK, Working, BackedUp
<1>3. InstallLocked'
  BY <1>1 DEF InstallInv, InstallLocked, Working, Installed!Working, Installed!Writing, Installed!Undoing
<1>. QED
  BY <1>1, <1>2, <1>3, DiskStays DEF InstallInv

LEMMA InstallStep ==
  ASSUME InstallersAssumption, InstallInv, [Installed!Next]_(Installed!vars)
  PROVE  InstallInv'
<1>1. CASE UNCHANGED Installed!vars
  <2>1. UNCHANGED <<tool, config, state, lock, proc, edits, quiet, died>>
    BY <1>1 DEF Installed!vars, Installed!disk, Installed!aux
  <2>2. InstallOK' /\ InstallLocked'
    BY <2>1 DEF InstallInv, InstallOK, InstallLocked, Working, BackedUp
  <2>. QED
    BY <2>1, <2>2, DiskStays DEF InstallInv
<1>2. CASE Installed!Next
  BY <1>2, PlanKeeps, ExecuteKeeps, CheckKeeps, BackupKeeps, CopyToolKeeps, WriteConfigKeeps, VerifyKeeps,
     RecordKeeps, ReadConfigKeeps, StripConfigKeeps, RestoreConfigKeeps, RestoreToolKeeps, ForgetKeeps,
     UndoConfigKeeps, UndoToolKeeps, FailKeeps, ReleaseKeeps, EditKeeps, ClearLockKeeps DEF Installed!Next
<1>. QED
  BY <1>1, <1>2

\* Whatever step fails, an installation ends whole or gone, and none writes over what the user added to
\* the configuration between two of them.
THEOREM InstallationsAreWhole ==
  ASSUME InstallersAssumption
  PROVE  Installed!Spec => []InstallsAreWhole
<1>1. Installed!Init => InstallInv
  <2>. SUFFICES ASSUME Installed!Init PROVE InstallInv
    OBVIOUS
  <2>1. Installed!Idle \in Locals /\ Installed!Idle.pc = "idle"
    BY DEF Installed!Idle, Locals, Configs, InstallerLabels
  <2>2. \A p \in Processes : proc[p] = Installed!Idle /\ ~Working(p) /\ ~BackedUp(p)
    BY <2>1 DEF Installed!Init, Working, BackedUp, Installed!Working, Installed!Writing, Installed!Undoing
  <2>3. /\ tool \in ToolStates /\ tool # "partial" /\ config \in Configs /\ quiet = {} /\ state = None
        /\ HandlersOf(config) <= 1 /\ (HandlersOf(config) = 1 => tool = "new")
    <3>1. \/ config = None
          \/ config = [handlers |-> 0, user |-> {}]
          \/ tool = "new" /\ config = [handlers |-> 1, user |-> {}]
      BY DEF Installed!Init
    <3>2. config \in Configs
      BY <3>1 DEF Configs, ConfigDocuments
    <3>. QED
      BY <3>1, <3>2, InstallersAssumption DEF Installed!Init, InstallersAssumption, HandlersOf
  <2>4. InstallOK
    BY <2>1, <2>2, <2>3 DEF Installed!Init, InstallOK
  <2>5. InstallLocked
    BY <2>1, <2>2 DEF InstallLocked
  <2>6. DiskFits
    BY <2>2, <2>3 DEF DiskFits, Whole
  <2>7. \A p \in Processes : Fits(p)
    BY <2>1, <2>2 DEF Fits
  <2>. QED
    BY <2>4, <2>5, <2>6, <2>7 DEF InstallInv
<1>2. InstallInv /\ [Installed!Next]_(Installed!vars) => InstallInv'
  BY InstallStep
<1>3. InstallInv => InstallsAreWhole
  <2>1. Installed!Handlers = HandlersOf(config) /\ Installed!User = UserOf(config)
    BY DEF Installed!Handlers, HandlersOf, Installed!User, UserOf
  <2>. QED
    BY <2>1 DEF InstallInv, DiskFits, InstallsAreWhole, Installed!WholeOrNothing, Installed!QuietEditsStay,
       Installed!Busy, Installed!Healthy, Working, Whole
<1>. QED
  BY <1>1, <1>2, <1>3, PTL DEF Installed!Spec

=============================================================================
