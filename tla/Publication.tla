---------------------------- MODULE Publication -----------------------------
(***************************************************************************)
(* From distilled results to pending claims: a reviewer's decisions and    *)
(* the automatic rule (review), the publication of reviewed results        *)
(* (publication, daily) and the scheduled run around it (scheduled).       *)
(*                                                                         *)
(* A decision is one file, created empty under the next free number and    *)
(* then written; the last number decides.  Reviewers, scheduled runs and   *)
(* daily runs started by hand are processes; only scheduled runs take      *)
(* scheduler.lock.  The model calls of a run are in module Distillation;   *)
(* here every result is there from the start, and the broker's answer to a *)
(* batch is one step (see Reconciliation).                                 *)
(***************************************************************************)
EXTENDS Integers, Sequences, FiniteSets, FiniteSetsExt

CONSTANTS
  Runs, Reviewers,   \* processes
  Queue,             \* attempts, in the order they finished
  Observations,      \* pairs <<attempt, index>>
  TwinOf,            \* observation |-> the one it repeats but for whitespace, or None
  Free, None,
  Reclaimers,        \* how many may be between proving a lock dead and renaming it
  Undo,              \* whether reviewers also undo decisions, a set of BOOLEAN
  MaxDay,            \* bound: UTC days
  MaxRuns,           \* bound: runs begun
  MaxDecisions,      \* bound: decision files
  MaxFaults          \* bound: deaths, failures of the transport, approvals withdrawn

ASSUME ObservationsAssumption ==
  \A o \in Observations : \E i \in DOMAIN Queue : Queue[i] = o[1]
ASSUME TwinsAssumption == TwinOf \in [Observations -> Observations \union {None}]
ASSUME LockAssumption == IsFiniteSet(Runs) /\ Free \notin Nat \ {0}
ASSUME BoundsAssumption ==
  MaxDay \in Nat /\ MaxRuns \in Nat /\ MaxDecisions \in Nat /\ MaxFaults \in Nat /\ Reclaimers \in Nat \ {0}

VARIABLES
  files,      \* observation |-> its decision files, in order: decision, written, expected
  rows,       \* broker_publications: attempt |-> claims, or None
  lock,       \* scheduler.lock: the number of the run that holds it, or Free
  started,    \* daily-runs/*.started.json: the day, and the scheduled run or 0
  approved,   \* owner record and configuration still allow the schedule
  day,
  proc,
  broker,     \* batches the broker holds, by their content: attempt, claims
  begun, faults

store == <<files, rows, lock, started, broker>>
aux   == <<approved, day, begun, faults>>
vars  == <<store, proc, aux>>

Procs == Runs \union Reviewers
Attempts == {Queue[i] : i \in DOMAIN Queue}
Of(a) == {o \in Observations : o[1] = a}
Idle == [pc |-> "idle", run |-> 0, scheduled |-> FALSE, day |-> 0, seen |-> 0, pick |-> None, claims |-> {},
         auto |-> FALSE, todo |-> {}, item |-> None, expected |-> 0, position |-> 0]

At(p, label) == proc[p].pc = label
Becomes(p, r) == proc' = [proc EXCEPT ![p] = r]
Goes(p, label) == Becomes(p, [proc[p] EXCEPT !.pc = label])

Init ==
  /\ files = [o \in Observations |-> <<>>]
  /\ rows = [a \in {Queue[i] : i \in DOMAIN Queue} |-> None]
  /\ lock = Free
  /\ started = {}
  /\ broker = {}
  /\ approved = TRUE
  /\ day = 0 /\ begun = 0 /\ faults = 0
  /\ proc = [p \in Procs |-> Idle]

----------------------------------------------------------------------------
(* Decisions *)

\* readDecisions: one file that is not written yet, or never will be, fails every read.
Readable == \A o \in Observations : \A i \in DOMAIN files[o] : files[o][i].written
Decisions == MapThenSumSet(LAMBDA o : Len(files[o]), Observations)

Latest(o) == IF files[o] = <<>> THEN "none" ELSE files[o][Len(files[o])].decision
Open(o) == Latest(o) \in {"none", "defer"}

\* reviewGate
Complete_Deferred(a) == \A o \in Of(a) : Latest(o) # "none"
Complete(a) == \A o \in Of(a) : ~Open(o)
Accepted(a) == {o \in Of(a) : Latest(o) = "accept"}

\* listForReview, applyAutomatic: open observations that repeat accepted knowledge but for whitespace.
Automatic == {o \in Observations : Open(o) /\ TwinOf[o] # None /\ Latest(TwinOf[o]) = "accept"}

----------------------------------------------------------------------------
(* Writing one decision: writeDecision, for a reviewer and for the automatic rule *)

\* An undo names the latest decision it was shown.
Review(v, o, undo) ==
  /\ v \in Reviewers /\ At(v, "idle")
  /\ undo => Readable /\ files[o] # <<>>
  /\ Becomes(v, [Idle EXCEPT !.pc = "previous", !.item = o, !.expected = IF undo THEN Len(files[o]) ELSE 0])
  /\ UNCHANGED <<store, aux>>

Stop(p) == Becomes(p, IF p \in Runs THEN [Idle EXCEPT !.pc = "release", !.run = proc[p].run] ELSE Idle)

\* After one decision: the next one of the automatic rule, or the end of the process.
Continue(p) ==
  LET rest == proc[p].todo IN
  IF rest = {} THEN Stop(p) ELSE
  \E o \in rest : Becomes(p, [proc[p] EXCEPT !.pc = "previous", !.item = o, !.todo = rest \ {o}])

\* The automatic rule lists once, then decides item by item.
ApplyAutomatic(p) ==
  /\ \/ At(p, "auto")
     \/ p \in Reviewers /\ At(p, "idle") /\ Automatic # {}
  /\ IF ~Readable \/ Automatic = {} THEN Stop(p) ELSE
     \E o \in Automatic : Becomes(p, [proc[p] EXCEPT !.pc = "previous", !.item = o, !.auto = TRUE,
                                                     !.todo = Automatic \ {o}])
  /\ UNCHANGED <<store, aux>>

Refused(p) == ~Readable \/ (proc[p].expected # 0 /\ proc[p].expected # Len(files[proc[p].item]))

ReadPrevious(p) ==
  /\ At(p, "previous")
  /\ IF Refused(p) THEN Stop(p)
     ELSE Goes(p, "create")
  /\ UNCHANGED <<store, aux>>

\* Exclusive creation takes the first free number, whatever has been read before.  The
\* reviewer's decision was made long ago; nothing has depended on it so far.
Create(p) ==
  /\ At(p, "create") /\ Decisions < MaxDecisions
  /\ \E decision \in IF proc[p].auto THEN {"accept"} ELSE {"accept", "reject", "defer"} :
       files' = [files EXCEPT ![proc[p].item] = Append(@,
         [decision |-> decision, written |-> FALSE, expected |-> proc[p].expected])]
  /\ Becomes(p, [proc[p] EXCEPT !.pc = "write", !.position = Len(files'[proc[p].item]), !.expected = 0])
  /\ UNCHANGED <<rows, lock, started, broker, aux>>

Write(p) ==
  /\ At(p, "write")
  /\ files' = [files EXCEPT ![proc[p].item][proc[p].position].written = TRUE]
  /\ Continue(p)
  /\ UNCHANGED <<rows, lock, started, broker, aux>>

----------------------------------------------------------------------------
(* A run: begin, the scheduler lock, one start a day *)

Begin(r) ==
  /\ r \in Runs /\ At(r, "idle") /\ begun < MaxRuns
  /\ approved
  /\ begun' = begun + 1
  /\ Becomes(r, [Idle EXCEPT !.pc = "lock", !.run = begun', !.scheduled = TRUE, !.day = day])
  /\ UNCHANGED <<store, approved, day, faults>>

\* A run started by hand takes no lock and asks nothing; its record counts for the day all the same.
BeginByHand(r) ==
  /\ r \in Runs /\ At(r, "idle") /\ begun < MaxRuns
  /\ begun' = begun + 1
  /\ started' = started \union {[day |-> day, run |-> 0]}
  /\ Becomes(r, [Idle EXCEPT !.pc = "select", !.run = begun'])
  /\ UNCHANGED <<files, rows, lock, broker, approved, day, faults>>

Lock(r) ==
  /\ At(r, "lock")
  /\ IF lock = Free
       THEN lock' = proc[r].run /\ Goes(r, "check")
       ELSE Becomes(r, [proc[r] EXCEPT !.pc = "judge", !.seen = lock]) /\ UNCHANGED lock
  /\ UNCHANGED <<files, rows, started, broker, aux>>

OwnerLives(run) == \E r \in Runs : proc[r].run = run /\ ~At(r, "idle")

\* lockOrReclaim: the probe is asynchronous, so the lock is read again after it.
Judge(r) ==
  /\ At(r, "judge")
  /\ IF OwnerLives(proc[r].seen) THEN Becomes(r, Idle) ELSE Goes(r, "reread")
  /\ UNCHANGED <<store, aux>>

Reread(r) ==
  /\ At(r, "reread")
  /\ Cardinality({q \in Runs : At(q, "rename")}) < Reclaimers
  /\ IF lock = proc[r].seen THEN Goes(r, "rename") ELSE Becomes(r, Idle)
  /\ UNCHANGED <<store, aux>>

\* The rename takes whatever lock is there now.
Rename(r) ==
  /\ At(r, "rename")
  /\ lock' = Free
  /\ IF lock = Free THEN Becomes(r, Idle) ELSE Goes(r, "reacquire")
  /\ UNCHANGED <<files, rows, started, broker, aux>>

Reacquire(r) ==
  /\ At(r, "reacquire")
  /\ IF lock = Free
       THEN lock' = proc[r].run /\ Becomes(r, [proc[r] EXCEPT !.pc = "check", !.seen = 0])
       ELSE Becomes(r, Idle) /\ UNCHANGED lock
  /\ UNCHANGED <<files, rows, started, broker, aux>>

RanToday_ByHand(d) == \E s \in started : s.day = d /\ s.run = 0
RanToday(d) == \E s \in started : s.day = d

Check(r) ==
  /\ At(r, "check")
  /\ IF RanToday(proc[r].day) THEN Stop(r) ELSE Goes(r, "start")
  /\ UNCHANGED <<store, aux>>

\* The record of the scheduled run carries the day the run began on.
Start(r) ==
  /\ At(r, "start")
  /\ started' = started \union {[day |-> proc[r].day, run |-> proc[r].run]}
  /\ Becomes(r, [proc[r] EXCEPT !.pc = "record", !.day = 0])
  /\ UNCHANGED <<files, rows, lock, broker, aux>>

\* runDaily writes a record of its own, as for a run by hand, with the day it is now.
Record(r) ==
  /\ At(r, "record")
  /\ started' = started \union {[day |-> day, run |-> 0]}
  /\ Goes(r, "select")
  /\ UNCHANGED <<files, rows, lock, broker, aux>>

Release(r) ==
  /\ At(r, "release")
  /\ lock' = IF lock = proc[r].run THEN Free ELSE lock
  /\ Becomes(r, Idle)
  /\ UNCHANGED <<files, rows, started, broker, aux>>

----------------------------------------------------------------------------
(* Publication: one reviewed attempt at a time *)

Unpublished == {i \in DOMAIN Queue : rows[Queue[i]] = None}
Reviewed == {i \in Unpublished : Complete(Queue[i])}

\* The oldest reviewed attempt without a row; approval and broker policy are read again before each.
Select(r) ==
  /\ At(r, "select")
  /\ IF (proc[r].scheduled /\ ~approved) \/ (Unpublished # {} /\ ~Readable) THEN Stop(r)
     ELSE IF Reviewed = {} THEN Goes(r, IF proc[r].scheduled THEN "auto" ELSE "release")
     ELSE \E i \in Reviewed :
            /\ \A j \in Reviewed : i <= j
            /\ Becomes(r, [proc[r] EXCEPT !.pc = "recheck", !.pick = Queue[i]])
  /\ UNCHANGED <<store, aux>>

\* Decisions may change while the sources are rebuilt: the gate decides a second time.
Recheck(r) ==
  /\ At(r, "recheck")
  /\ LET a == proc[r].pick IN
     IF rows[a] # None \/ ~Readable \/ ~Complete(a) THEN Stop(r)
     ELSE Becomes(r, [proc[r] EXCEPT !.claims = Accepted(a), !.pc = IF Accepted(a) = {} THEN "insert" ELSE "send"])
  /\ UNCHANGED <<store, aux>>

\* The proposal is named after the result, whatever was accepted of it, and its claims after their content: the
\* broker, which replays a batch it has, gains nothing by the same claims again.
Send(r) ==
  /\ At(r, "send")
  /\ broker' = broker \union {[attempt |-> proc[r].pick, claims |-> proc[r].claims]}
  /\ Goes(r, "insert")
  /\ UNCHANGED <<files, rows, lock, started, aux>>

Insert_Current(r) ==
  /\ At(r, "insert")
  /\ rows' = [rows EXCEPT ![proc[r].pick] = IF @ = None THEN Accepted(proc[r].pick) ELSE @]
  /\ Becomes(r, [proc[r] EXCEPT !.pc = "select", !.pick = None, !.claims = {}])
  /\ UNCHANGED <<files, lock, started, broker, aux>>
\* INSERT OR IGNORE: the row of a run that was faster stays.
Insert_Replace(r) ==
  /\ At(r, "insert")
  /\ rows' = [rows EXCEPT ![proc[r].pick] = proc[r].claims]
  /\ Becomes(r, [proc[r] EXCEPT !.pc = "select", !.pick = None, !.claims = {}])
  /\ UNCHANGED <<files, lock, started, broker, aux>>
Insert(r) ==
  /\ At(r, "insert")
  /\ rows' = [rows EXCEPT ![proc[r].pick] = IF @ = None THEN proc[r].claims ELSE @]
  /\ Becomes(r, [proc[r] EXCEPT !.pc = "select", !.pick = None, !.claims = {}])
  /\ UNCHANGED <<files, lock, started, broker, aux>>

----------------------------------------------------------------------------
(* Faults and time *)

\* The transport fails before or after the broker took the batch.
Lose(r) ==
  /\ At(r, "send") /\ faults < MaxFaults
  /\ faults' = faults + 1
  /\ broker' \in {broker, broker \union {[attempt |-> proc[r].pick, claims |-> proc[r].claims]}}
  /\ Stop(r)
  /\ UNCHANGED <<files, rows, lock, started, approved, day, begun>>

\* Elsewhere a death leaves nothing behind that a refusal or a lost batch would not.
Die(p) ==
  /\ At(p, "write") \/ (p \in Runs /\ ~At(p, "idle") /\ lock = proc[p].run)
  /\ faults < MaxFaults
  /\ faults' = faults + 1
  /\ Becomes(p, Idle)
  /\ UNCHANGED <<store, approved, day, begun>>

Revoke ==
  /\ approved /\ faults < MaxFaults
  /\ \E r \in Runs : proc[r].scheduled
  /\ approved' = FALSE /\ faults' = faults + 1
  /\ UNCHANGED <<store, proc, day, begun>>

NextDay ==
  /\ day < MaxDay
  /\ day' = day + 1
  /\ UNCHANGED <<store, proc, approved, begun, faults>>

Next ==
  \/ \E v \in Reviewers, o \in Observations, undo \in Undo : Review(v, o, undo)
  \/ \E p \in Procs : ApplyAutomatic(p) \/ ReadPrevious(p) \/ Create(p) \/ Write(p) \/ Die(p)
  \/ \E r \in Runs :
       \/ Begin(r) \/ BeginByHand(r)
       \/ Lock(r) \/ Judge(r) \/ Reread(r) \/ Rename(r) \/ Reacquire(r) \/ Release(r)
       \/ Check(r) \/ Start(r) \/ Record(r)
       \/ Select(r) \/ Recheck(r) \/ Send(r) \/ Insert(r) \/ Lose(r)
  \/ Revoke \/ NextDay

Spec == Init /\ [][Next]_vars

----------------------------------------------------------------------------
(* Properties *)

\* Only reviewed results leave the corpus (publication.mts:35): every observation of a sent
\* attempt was finally decided, and the batch holds those of them that were accepted.
SentWasReviewed ==
  \A b \in broker : \A o \in Of(b.attempt) :
    \E i \in DOMAIN files[o] : files[o][i].decision = (IF o \in b.claims THEN "accept" ELSE "reject")

\* The row that ends an attempt's publication records what the broker took: no run's row
\* names claims that were lost on the way or that another run's batch does not hold.
RowsAreSent ==
  \A a \in Attempts : rows[a] \in {None, {}} \/ [attempt |-> a, claims |-> rows[a]] \in broker

\* Broker and rows tell of the same publications, each of what a reviewer decided.
SentAndRecorded == SentWasReviewed /\ RowsAreSent

\* What a row says stays: a slower run never replaces it.
RowsStay ==
  [][\A a \in Attempts : rows[a] # None => rows'[a] = rows[a]]_vars

\* One scheduled run a UTC day, however runs, deaths and reclaimed locks interleave.
OneRunADay ==
  \A s, t \in started : s.run # 0 /\ t.run # 0 /\ s.day = t.day => s = t

\* Says the comment (review.mts:264): an undo follows directly on the decision it reverses.
UndoSeesWhatItReverses ==
  \A o \in Observations : \A i \in DOMAIN files[o] : files[o][i].expected \in {0, i - 1}
=============================================================================
