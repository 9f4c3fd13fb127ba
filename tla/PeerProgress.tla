---------------------------- MODULE PeerProgress ----------------------------
(***************************************************************************)
(* Peer progress (peer-progress) under emergency grants (emergency).       *)
(*                                                                         *)
(* A grant lets a restricted provider publish and read until it expires or *)
(* is closed.  Grants, what is done under them and their end are lines of  *)
(* a hash-chained ledger, written in two files: the line, then the head    *)
(* that counts the lines.  The ledger is read without a lock and appended  *)
(* to under ledger.lock.  A progress record is an artifact file and an     *)
(* event that names the event of its actor it replaces, both written under *)
(* publish.lock; the event store's append is one step (see EventStore).    *)
(*                                                                         *)
(* A call is a process.  It may die at any step; its lock files stay and   *)
(* are removed by a waiter that found their owner gone, in two steps: it   *)
(* judges the lock, then unlinks what has its name by then.                *)
(***************************************************************************)
EXTENDS Integers, Sequences, FiniteSets, SequencesExt

CONSTANTS
  Procs,
  Restricted,     \* providers the policy denies what a grant allows
  Primary,        \* the provider that is told of the others' grants
  Items,          \* proposals of progress
  ActorOf,        \* proposal |-> session and work it is about
  ProviderOf,     \* proposal |-> the provider of its source
  Free, Gone,     \* no lock file; the lock file of a process that died
  None,
  Reclaimers,     \* how many may be between judging and removing a lock
  MaxTime,        \* bound: the clock
  MaxCalls,       \* bound: calls begun
  MaxDeaths       \* bound: calls that die

ASSUME ItemsAssumption ==
  /\ Primary \notin Restricted
  /\ \A x \in Items : ProviderOf[x] \in Restricted \union {Primary}
ASSUME ProcsAssumption == IsFiniteSet(Procs) /\ Free # Gone /\ Free \notin Procs /\ Gone \notin Procs
ASSUME BoundsAssumption == MaxTime \in Nat /\ MaxCalls \in Nat /\ MaxDeaths \in Nat /\ Reclaimers \in Nat \ {0}

VARIABLES
  lines,        \* grants.jsonl: each line knows how many lines its writer had read
  head,         \* head.json: the number of lines
  summarised,   \* summarised.json: grants
  artifacts,    \* peer-progress/records
  events,       \* the events of progress in the event store
  lock,         \* "ledger", "publish" |-> holder, Free or Gone
  proc,         \* what each process is doing
  clock, calls, deaths,
  undone        \* history: lines, the last ones, whose writer died before the head

files == <<lines, head, summarised, artifacts, events>>
aux   == <<clock, calls, deaths, undone>>
vars  == <<files, lock, proc, aux>>

Providers == Restricted \union {Primary}
Idle == [pc |-> "idle", call |-> None, phase |-> "none", want |-> "none", mine |-> {}, em |-> None,
         now |-> 0, todo |-> <<>>, base |-> 0, current |-> None]

At(p, label) == proc[p].pc = label
Becomes(p, r) == proc' = [proc EXCEPT ![p] = r]

----------------------------------------------------------------------------
(* The ledger *)

\* verifyEmergency: one line may stand without its head.
Valid ==
  /\ \A i \in DOMAIN lines : lines[i].prev = i - 1
  /\ head \in {Len(lines), Len(lines) - 1}

\* openGrants of the first n lines: the last one opened for each provider, unless closed.
Opened(i) == lines[i].type = "opened"
OpenAfter(n) ==
  {i \in 1..n : /\ Opened(i)
                /\ \A j \in (i + 1)..n :
                     /\ ~(Opened(j) /\ lines[j].provider = lines[i].provider)
                     /\ ~(lines[j].type = "closed" /\ lines[j].grant = lines[i].grant)}
OpenGrants == {lines[i] : i \in OpenAfter(Len(lines))}
Expired(g, t) == g.expires <= t

\* The grant a provider acts under, or None.
GrantFor(provider, t) ==
  LET mine == {g \in OpenGrants : g.provider = provider /\ ~Expired(g, t)}
  IN  IF Valid /\ mine # {} THEN (CHOOSE g \in mine : TRUE).grant ELSE None

Record(type, g, item, t) ==
  [type |-> type, grant |-> g.grant, provider |-> g.provider, expires |-> g.expires,
   item |-> item, at |-> t]
ClosesOf(t) ==
  SetToSeq({Record("closed", g, None, t) : g \in {o \in OpenGrants : Expired(o, t)}})
NewGrant(r) ==
  Record("opened", [grant |-> r.call.id, provider |-> r.call.provider, expires |-> r.call.until],
         None, r.now)

----------------------------------------------------------------------------
(* Locks *)

Waiting(r, l, phase) == [r EXCEPT !.pc = "wait", !.want = l, !.phase = phase]
Without(r, l) == [r EXCEPT !.mine = @ \ {l}]

\* What follows the evaluation of a call.
Evaluated(r) ==
  LET g == GrantFor(r.call.provider, r.now) IN
  CASE r.call.kind = "status"  -> Idle
    [] r.call.kind = "advise"  -> Waiting(r, "ledger", "advise")
    [] r.call.kind = "query"   -> IF g = None THEN Idle
                                  ELSE Waiting([r EXCEPT !.em = g], "ledger", "use")
    [] r.call.kind = "publish" -> Waiting([r EXCEPT !.em = g], "publish", "publish")

\* The finally clauses, then the caller: a failed sweep is a warning, any other failure
\* ends the call (a query answers all the same).
Throw(p) ==
  /\ lock' = [l \in DOMAIN lock |-> IF l \in proc[p].mine THEN Free ELSE lock[l]]
  /\ Becomes(p, IF proc[p].phase = "sweep"
                  THEN [proc[p] EXCEPT !.pc = "granted", !.mine = {}, !.todo = <<>>] ELSE Idle)

Acquire_Shared(p) ==
  LET l == proc[p].want IN
  /\ At(p, "wait") /\ (lock[l] = Free \/ l = "publish")
  /\ lock' = [lock EXCEPT ![l] = p]
  /\ Becomes(p, [proc[p] EXCEPT !.pc = IF l = "ledger" THEN "held" ELSE "prepare",
                                !.mine = @ \union {l}])
  /\ UNCHANGED <<files, aux>>
Acquire(p) ==
  LET l == proc[p].want IN
  /\ At(p, "wait") /\ lock[l] = Free
  /\ lock' = [lock EXCEPT ![l] = p]
  /\ Becomes(p, [proc[p] EXCEPT !.pc = IF l = "ledger" THEN "held" ELSE "prepare",
                                !.mine = @ \union {l}])
  /\ UNCHANGED <<files, aux>>

\* lockOwnerGone, shouldReclaimLock; and, in the ledger, still the lock it looked at.
Judge(p) ==
  /\ At(p, "wait") /\ lock[proc[p].want] = Gone
  /\ Cardinality({q \in Procs : At(q, "remove")}) < Reclaimers
  /\ Becomes(p, [proc[p] EXCEPT !.pc = "remove"])
  /\ UNCHANGED <<files, lock, aux>>

Unlink(p) ==
  /\ At(p, "remove")
  /\ lock' = [lock EXCEPT ![proc[p].want] = Free]
  /\ Becomes(p, [proc[p] EXCEPT !.pc = "wait"])
  /\ UNCHANGED <<files, aux>>

\* Five seconds of waiting for a live holder, or one that died before it wrote who it is.
GiveUp(p) ==
  /\ At(p, "wait") /\ lock[proc[p].want] # Free
  /\ Throw(p)
  /\ UNCHANGED <<files, aux>>

----------------------------------------------------------------------------
(* Calls *)

CallsNow ==
  [kind : {"open"}, provider : Restricted, item : {None}, until : (clock + 1)..MaxTime]
    \union [kind : {"close"}, provider : Restricted, item : {None}, until : {0}]
    \union [kind : {"status", "query"}, provider : Restricted, item : {None}, until : {0}]
    \union [kind : {"advise"}, provider : {Primary}, item : {None}, until : {0}]
    \union {[kind |-> "publish", provider |-> ProviderOf[x], item |-> x, until |-> 0] : x \in Items}

\* validateOpen comes first; evaluateEmergency reads without the lock and takes it when
\* a grant is to be closed as expired.
Begin(p, c) ==
  LET r == [Idle EXCEPT !.call = [kind |-> c.kind, provider |-> c.provider, item |-> c.item,
                                  until |-> c.until, id |-> calls + 1],
                        !.now = clock]
  IN
  /\ At(p, "idle") /\ calls < MaxCalls
  /\ calls' = calls + 1
  /\ Becomes(p, IF c.kind \in {"open", "close"} THEN Waiting(r, "ledger", c.kind)
                 ELSE IF Valid /\ ClosesOf(clock) # <<>> THEN Waiting(r, "ledger", "sweep")
                 ELSE Evaluated(r))
  /\ UNCHANGED <<files, lock, clock, deaths, undone>>

\* evaluateEmergency reads again after its sweep.
Granted(p) ==
  /\ At(p, "granted")
  /\ Becomes(p, Evaluated(proc[p]))
  /\ UNCHANGED <<files, lock, aux>>

Tick ==
  /\ clock < MaxTime
  /\ clock' = clock + 1
  /\ UNCHANGED <<files, lock, proc, calls, deaths, undone>>

----------------------------------------------------------------------------
(* Under ledger.lock *)

Under(p, phase) == At(p, "held") /\ proc[p].phase = phase /\ UNCHANGED <<files, aux>>

\* Leaving the lock, when nothing more is to be appended.
Leave(p) ==
  LET r == Without(proc[p], "ledger") IN
  /\ lock' = [lock EXCEPT !["ledger"] = Free]
  /\ Becomes(p, CASE r.phase = "sweep" -> [r EXCEPT !.pc = "granted", !.todo = <<>>]
                  [] r.phase = "use" /\ r.call.kind = "publish" ->
                       [r EXCEPT !.pc = "artifact", !.todo = <<>>]
                  [] OTHER -> Idle)

\* What a call does under the lock, once it has read the ledger again.
Plan(p, records) ==
  IF records = <<>> THEN Leave(p)
  ELSE Becomes(p, [proc[p] EXCEPT !.pc = "verify", !.todo = records]) /\ UNCHANGED lock

SweepExpired(p) ==
  /\ Under(p, "sweep")
  /\ IF Valid THEN Plan(p, ClosesOf(proc[p].now)) ELSE Throw(p)

\* openEmergency: an active grant can only be extended, an expired one is closed first.
OpenGrant(p) ==
  LET r == proc[p]
      prior == {g \in OpenGrants : g.provider = r.call.provider /\ ~Expired(g, r.now)}
  IN
  /\ Under(p, "open")
  /\ IF Valid /\ \A g \in prior : r.call.until > g.expires
       THEN Plan(p, Append(ClosesOf(r.now), NewGrant(r)))
       ELSE Throw(p)

\* closeEmergency
CloseGrant(p) ==
  LET open == {g \in OpenGrants : g.provider = proc[p].call.provider} IN
  /\ Under(p, "close")
  /\ IF Valid THEN Plan(p, SetToSeq({Record("closed", g, None, clock) : g \in open})) ELSE Throw(p)

\* emergencyUse: the grant found when the call began must still be open.
UseGrant_Cached(p) ==
  /\ Under(p, "use")
  /\ Plan(p, SetToSeq({Record("used", lines[i], proc[p].call.item, clock) :
                i \in {j \in DOMAIN lines : Opened(j) /\ lines[j].grant = proc[p].em}}))
UseGrant(p) ==
  LET active == {g \in OpenGrants : g.grant = proc[p].em /\ ~Expired(g, clock)} IN
  /\ Under(p, "use")
  /\ IF Valid /\ active # {}
       THEN Plan(p, SetToSeq({Record("used", g, proc[p].call.item, clock) : g \in active}))
       ELSE Throw(p)

\* emergencyAdvisory: the grants of others are told once.
Summarise(p) ==
  /\ At(p, "held") /\ proc[p].phase = "advise"
  /\ IF Valid
       THEN /\ summarised' = summarised \union
                 {lines[i].grant : i \in {j \in DOMAIN lines : Opened(j) /\ lines[j].provider # Primary}}
            /\ Leave(p)
       ELSE Throw(p) /\ UNCHANGED summarised
  /\ UNCHANGED <<lines, head, artifacts, events, aux>>

\* appendUnlocked: verify, the line, the head.
Verify(p) ==
  /\ At(p, "verify")
  /\ IF Valid THEN /\ Becomes(p, [proc[p] EXCEPT !.pc = "line", !.base = Len(lines)])
                   /\ UNCHANGED lock
              ELSE Throw(p)
  /\ UNCHANGED <<files, aux>>

AppendLine(p) ==
  LET r == Head(proc[p].todo) IN
  /\ At(p, "line")
  /\ lines' = Append(lines, [type |-> r.type, grant |-> r.grant, provider |-> r.provider,
                             expires |-> r.expires, item |-> r.item, at |-> r.at,
                             prev |-> proc[p].base])
  /\ Becomes(p, [proc[p] EXCEPT !.pc = "head"])
  /\ UNCHANGED <<head, summarised, artifacts, events, lock, aux>>

WriteHead_Late(p) ==
  /\ At(p, "head")
  /\ undone' = 0
  /\ IF Len(proc[p].todo) > 1
       THEN Becomes(p, [proc[p] EXCEPT !.pc = "verify", !.todo = Tail(@)]) /\ UNCHANGED lock
       ELSE Leave(p)
  /\ head' = IF Len(proc[p].todo) > 1 THEN head ELSE proc[p].base + 1
  /\ UNCHANGED <<lines, summarised, artifacts, events, clock, calls, deaths>>
WriteHead(p) ==
  /\ At(p, "head")
  /\ head' = proc[p].base + 1
  /\ undone' = 0
  /\ IF Len(proc[p].todo) > 1
       THEN Becomes(p, [proc[p] EXCEPT !.pc = "verify", !.todo = Tail(@)]) /\ UNCHANGED lock
       ELSE Leave(p)
  /\ UNCHANGED <<lines, summarised, artifacts, events, clock, calls, deaths>>

----------------------------------------------------------------------------
(* publishPeerProgress, under publish.lock *)

Permitted(r) == r.call.provider \notin Restricted \/ r.em # None

\* currentProgressEvents
Current(actor) ==
  LET own == {i \in DOMAIN events : ActorOf[events[i].item] = actor}
  IN  IF own = {} THEN None ELSE events[CHOOSE i \in own : \A j \in own : j <= i].item

\* artifactFor goes by the grant found when the call began; emergencyUse, which will ask
\* again, comes before anything is written.
Prepare_Unasked(p) ==
  LET r == [proc[p] EXCEPT !.current = Current(ActorOf[proc[p].call.item])] IN
  /\ At(p, "prepare")
  /\ IF ~Permitted(r) THEN Throw(p)
     ELSE Becomes(p, [r EXCEPT !.pc = "artifact"]) /\ UNCHANGED lock
  /\ UNCHANGED <<files, aux>>
Prepare(p) ==
  LET r == [proc[p] EXCEPT !.current = Current(ActorOf[proc[p].call.item])] IN
  /\ At(p, "prepare")
  /\ IF ~Permitted(r) THEN Throw(p)
     ELSE /\ Becomes(p, IF r.em = None THEN [r EXCEPT !.pc = "artifact"]
                        ELSE Waiting(r, "ledger", "use"))
          /\ UNCHANGED lock
  /\ UNCHANGED <<files, aux>>

WriteArtifact(p) ==
  /\ At(p, "artifact")
  /\ artifacts' = artifacts \union {proc[p].call.item}
  /\ Becomes(p, [proc[p] EXCEPT !.pc = "event"])
  /\ UNCHANGED <<lines, head, summarised, events, lock, aux>>

\* The proposal's hash is the event's idempotency key.  The plan made for the answer may
\* throw, when the grant is over by then; either way the call ends and unlocks.
AppendEvent(p) ==
  LET its == proc[p].call.item IN
  /\ At(p, "event")
  /\ events' = IF \E i \in DOMAIN events : events[i].item = its THEN events
               ELSE Append(events, [item |-> its, replaces |-> proc[p].current])
  /\ lock' = [lock EXCEPT !["publish"] = Free]
  /\ Becomes(p, Idle)
  /\ UNCHANGED <<lines, head, summarised, artifacts, aux>>

----------------------------------------------------------------------------
(* Faults and the specification *)

Die(p) ==
  /\ ~At(p, "idle") /\ deaths < MaxDeaths
  /\ deaths' = deaths + 1
  /\ undone' = undone + (IF At(p, "head") THEN 1 ELSE 0)
  /\ lock' = [l \in DOMAIN lock |-> IF lock[l] = p THEN Gone ELSE lock[l]]
  /\ Becomes(p, Idle)
  /\ UNCHANGED <<files, clock, calls>>

Init ==
  /\ lines = <<>> /\ head = 0 /\ summarised = {} /\ artifacts = {} /\ events = <<>>
  /\ lock = [l \in {"ledger", "publish"} |-> Free]
  /\ proc = [p \in Procs |-> Idle]
  /\ clock = 0 /\ calls = 0 /\ deaths = 0 /\ undone = 0

Lock(p) == Acquire(p) \/ Judge(p) \/ Unlink(p) \/ GiveUp(p)
Ledger(p) ==
  SweepExpired(p) \/ OpenGrant(p) \/ CloseGrant(p) \/ UseGrant(p) \/ Summarise(p)
    \/ Verify(p) \/ AppendLine(p) \/ WriteHead(p)
Publish(p) == Prepare(p) \/ WriteArtifact(p) \/ AppendEvent(p)

Next ==
  \/ Tick
  \/ \E p \in Procs : (\E c \in CallsNow : Begin(p, c)) \/ Granted(p) \/ Lock(p) \/ Ledger(p)
                        \/ Publish(p) \/ Die(p)

Spec == Init /\ [][Next]_vars

----------------------------------------------------------------------------
(* Properties *)

\* Every line was written knowing what is before it: a grant that replaces an active one
\* extends it, a grant is closed once and while it is open, and it is used only while it
\* is open and not expired (openEmergency, closeEmergency, evaluateEmergency and
\* emergencyUse, in whatever order their processes get the lock).
LedgerSound ==
  \A i \in DOMAIN lines :
    LET r == lines[i]
        open == {lines[j] : j \in OpenAfter(i - 1)}
    IN  CASE r.type = "opened" ->
               \A g \in open : g.provider = r.provider => Expired(g, r.at) \/ r.expires > g.expires
          [] r.type = "closed" -> \E g \in open : g.grant = r.grant
          [] r.type = "used"   -> \E g \in open : g.grant = r.grant /\ ~Expired(g, r.at)

\* A writer that stops between the line and the head does not make the ledger invalid, and
\* the next append makes up for it; only a second stop, or an append under way, right after
\* the first does (verifyEmergency, appendUnlocked).
LedgerSurvives ==
  undone + Cardinality({p \in Procs : At(p, "head")}) < 2 => Valid

\* Writes are recorded before they happen: what a restricted provider published stands in
\* the ledger as a use (publishPeerProgress, emergencyUse).
UsesAreRecorded ==
  \A x \in artifacts : ProviderOf[x] \in Restricted =>
    \E i \in DOMAIN lines : lines[i].type = "used" /\ lines[i].item = x

\* The emergency ledger holds: its lines follow from each other, it stays valid, and it knows every use.
LedgerHolds == LedgerSound /\ LedgerSurvives /\ UsesAreRecorded

\* Each event replaces the last one of its actor, none is there twice, and the artifact of
\* each can be read, whoever died and whatever was tried again (publishPeerProgress).
ReplacesTheLast ==
  \A i \in DOMAIN events :
    LET before == {j \in 1..(i - 1) : ActorOf[events[j].item] = ActorOf[events[i].item]}
    IN  /\ events[i].item \in artifacts
        /\ \A j \in before : events[j].item # events[i].item
        /\ events[i].replaces =
             IF before = {} THEN None ELSE events[CHOOSE j \in before : \A k \in before : k <= j].item

\* A waiter removes only the lock that it judged: another waiter may already hold a new
\* one (the comment in withEmergencyLock).
RemovesOnlyTheJudged ==
  \A p \in Procs : At(p, "remove") /\ proc[p].want = "ledger" => lock["ledger"] \in {Gone, Free}
=============================================================================
