--------------------------- MODULE Distillation ---------------------------
(***************************************************************************)
(* The distillation queue: leases, budgets, dispatch and recovery          *)
(* (src/distillation/src: store, consumer, recovery, pilot-budget, and the *)
(* loop of daily).                                                         *)
(*                                                                         *)
(* A worker is a process that runs executeDaily once (first recover, then  *)
(* consumeSlice up to maxModelCalls times) or one live probe, and ends.    *)
(* Workers share a SQLite file, whose transactions are single steps, the   *)
(* result files, and the configuration an operator may edit.  Every await  *)
(* and every write is a step boundary; a worker may die at any of them.    *)
(* The processes a model runs in may outlive the worker that began them.   *)
(*                                                                         *)
(* An attempt is known by its place in the table (the code's random token).*)
(* Owner descriptors are those of Windows, the only ones recover accepts.  *)
(***************************************************************************)
EXTENDS Integers, Sequences, FiniteSets, FiniteSetsExt

CONSTANTS
  Workers,
  Slices,
  Queue,            \* the slices in the order of created_at, job and ordinal
  Jobs, JobOf,      \* the job a slice belongs to
  Documents,        \* the jobs of the document lane
  AttemptSeconds, PilotSeconds,
  LaneCap,          \* documentMaxSecondsPerDay
  PilotLimit,       \* globalBudgetSeconds of a probe
  Limits,           \* values of the daily limit; the first one is FirstLimit
  FirstLimit,
  CodexAvailable,
  Approvals,        \* live probes an operator approved
  MaxCalls,         \* maxModelCalls
  MaxDay,           \* bound: days
  MaxCrashes,       \* bound: deaths of workers and errors thrown
  MaxEdits,         \* bound: edits of the configuration
  MaxTokens,        \* bound: attempts that fairness and liveness speak of
  NoSlice

ASSUME QueueAssumption ==
  /\ Queue \in Seq(Slices) /\ \A s \in Slices : \E n \in DOMAIN Queue : Queue[n] = s
  /\ \A s \in Slices : JobOf[s] \in Jobs
  /\ \A j \in Jobs : \E s \in Slices : JobOf[s] = j
  /\ Documents \subseteq Jobs /\ NoSlice \notin Slices

ASSUME BoundsAssumption ==
  /\ AttemptSeconds \in Nat \ {0} /\ PilotSeconds \in Nat \ {0}
  /\ LaneCap \in Nat /\ PilotLimit \in Nat /\ Limits \subseteq Nat /\ FirstLimit \in Limits
  /\ CodexAvailable \in BOOLEAN
  /\ MaxCalls \in Nat /\ MaxDay \in Nat /\ MaxCrashes \in Nat /\ MaxEdits \in Nat
  /\ MaxTokens \in Nat

VARIABLES
  \* queue.sqlite3
  attempts,    \* semantic_attempts
  slices,      \* slices.state
  jobs,        \* jobs.state and document_jobs.state
  budget,      \* semantic_budget: seconds reserved per day
  limit,       \* semantic_settings: daily-limit-seconds
  quota,       \* semantic_settings: quota-paused
  probed,      \* semantic_pilot_approvals: approvals already used
  \* files and processes
  results,     \* semantic-results: attempt |-> what its file says
  trees,       \* attempt |-> its process tree: "none", "active" or "empty"
  excluded,    \* the configuration: jobs whose source is excluded or disabled
  \* workers
  pc,
  policy,      \* the exclusions the worker started with
  calls,       \* model calls begun
  picked,      \* the slice selected, and the day of the selection
  token,       \* the attempt the worker owns, 0 for none
  snap,        \* what recover read
  \* clock and bounds
  day, crashes, edits

table   == <<attempts, slices, jobs, budget, limit, quota, probed>>
locals  == <<policy, calls, picked, token, snap>>
bounds  == <<day, crashes, edits>>
vars    == <<table, results, trees, excluded, pc, locals, bounds>>

----------------------------------------------------------------------------
(* Data *)

NoPick == [slice |-> NoSlice, day |-> 0]
NoSnap == [token |-> 0, attempt |-> 0, file |-> "none"]

GoTo(w, label) == pc' = [pc EXCEPT ![w] = label]

IsPilot(a) == a.slice = NoSlice
InDocuments(a) == ~IsPilot(a) /\ JobOf[a.slice] \in Documents

Tokens  == 1..Len(attempts)
Running == {t \in Tokens : attempts[t].state = "running"}
OwnerAlive(t) == \E w \in Workers : token[w] = t

\* documentLaneSeconds and lastLane
Seconds(T) == MapThenSumSet(LAMBDA t : attempts[t].seconds, T)
On(d) == {t \in Tokens : attempts[t].day = d}
DocumentSeconds(d) == Seconds({t \in On(d) : InDocuments(attempts[t])})
LastIsTranscript(d) ==
  LET corpus == {t \in On(d) : ~IsPilot(attempts[t])}
  IN  corpus # {} /\ ~InDocuments(attempts[Max(corpus)])

\* A slice of a job that is pending itself.
Selectable(s) == slices[s] = "pending" /\ jobs[JobOf[s]] = "pending"

\* consumeSlice: the first of each lane, and which lane has the turn.
FirstOf(S) == Queue[Min({i \in 1..Len(Queue) : Queue[i] \in S})]
Candidates(lane) ==
  {s \in Slices : Selectable(s) /\ JobOf[s] \notin excluded /\ (lane = "document" <=> JobOf[s] \in Documents)}
DocumentTurn ==
  /\ Candidates("document") # {}
  /\ DocumentSeconds(day) + AttemptSeconds <= LaneCap
  /\ Candidates("transcript") = {} \/ LastIsTranscript(day)

\* Rewriting one row of the attempts table.
Update(t, state, phase) ==
  attempts' = [attempts EXCEPT ![t].state = state, ![t].phase = phase]

\* The job of slice s leaves the queue when every slice of it awaits review.
Reviewable(s, newSlices) ==
  IF \A r \in Slices : JobOf[r] = JobOf[s] => newSlices[r] = "pending-review"
    THEN [jobs EXCEPT ![JobOf[s]] = "pending-review"] ELSE jobs

----------------------------------------------------------------------------
(* A worker starts and ends *)

StartDaily_NoRecovery(w) ==
  /\ pc[w] = "down"
  /\ policy' = [policy EXCEPT ![w] = excluded]
  /\ calls'  = [calls EXCEPT ![w] = 0]
  /\ GoTo(w, "consume")
  /\ UNCHANGED <<table, results, trees, excluded, picked, token, snap, bounds>>
StartDaily(w) ==
  /\ pc[w] = "down"
  /\ policy' = [policy EXCEPT ![w] = excluded]
  /\ calls'  = [calls EXCEPT ![w] = 0]
  /\ GoTo(w, "recover")
  /\ UNCHANGED <<table, results, trees, excluded, picked, token, snap, bounds>>

\* What a process forgets when it is gone.
Forget(w) ==
  /\ policy' = [policy EXCEPT ![w] = {}]
  /\ calls'  = [calls EXCEPT ![w] = 0]
  /\ picked' = [picked EXCEPT ![w] = NoPick]
  /\ token'  = [token EXCEPT ![w] = 0]
  /\ snap'   = [snap EXCEPT ![w] = NoSnap]

\* The run is over: nothing to do, a refusal, an error thrown, or calls used up.
\* A lease that was retained stays, without its owner.
Stop(w) ==
  /\ pc[w] = "ending"
  /\ Forget(w) /\ GoTo(w, "down")
  /\ UNCHANGED <<table, results, trees, excluded, bounds>>

\* An error thrown at an await or a write: a busy database, a full disk, an
\* adapter whose evidence has changed.
Throw(w) ==
  /\ pc[w] \in {"reserve", "bind", "dispatch", "settle", "pilotSettle"}
  /\ crashes < MaxCrashes /\ crashes' = crashes + 1
  /\ GoTo(w, "ending")
  /\ UNCHANGED <<table, results, trees, excluded, locals, day, edits>>

\* A death; one in the middle of writing a result leaves a piece of the file.
Crash(w) ==
  /\ pc[w] \notin {"down", "ending"}
  /\ crashes < MaxCrashes /\ crashes' = crashes + 1
  /\ \/ UNCHANGED results
     \/ pc[w] = "write" /\ results' = [results EXCEPT ![token[w]] = "partial"]
  /\ Forget(w) /\ GoTo(w, "down")
  /\ UNCHANGED <<table, trees, excluded, day, edits>>

----------------------------------------------------------------------------
(* consumeSlice *)

After(w) == IF calls[w] < MaxCalls THEN "consume" ELSE "ending"

\* executeDaily refuses a configuration that changed since it started.
PolicyChanged(w) ==
  /\ pc[w] = "consume" /\ excluded # policy[w]
  /\ GoTo(w, "ending")
  /\ UNCHANGED <<table, results, trees, excluded, locals, bounds>>

Idle(w) ==
  /\ pc[w] = "consume" /\ excluded = policy[w]
  /\ Candidates("transcript") = {} /\ ~DocumentTurn
  /\ GoTo(w, "ending")
  /\ UNCHANGED <<table, results, trees, excluded, locals, bounds>>

\* Selection, before the awaits of the preflight and of the owner's identity.
Select(w) ==
  /\ pc[w] = "consume" /\ excluded = policy[w]
  /\ DocumentTurn \/ Candidates("transcript") # {}
  /\ picked' = [picked EXCEPT ![w] = [slice |-> FirstOf(Candidates(IF DocumentTurn THEN "document" ELSE "transcript")),
                                      day   |-> day]]
  /\ calls'  = [calls EXCEPT ![w] = @ + 1]
  /\ GoTo(w, "reserve")
  /\ UNCHANGED <<table, results, trees, excluded, policy, token, snap, bounds>>

\* The conditions of reserve; a reservation may also be refused when too little
\* of the day is left.
Leased_Dispatched == \E t \in Running : attempts[t].phase = "dispatch-intent"
Leased == Running # {}
Provider == IF quota THEN "codex" ELSE "claude"
Affordable_Strict(s) == budget[day] < limit /\ (JobOf[s] \in Documents => DocumentSeconds(day) < LaneCap)
Affordable(s) ==
  /\ budget[day] + AttemptSeconds <= limit
  /\ JobOf[s] \in Documents => DocumentSeconds(day) + AttemptSeconds <= LaneCap
Reservable(s) == ~Leased /\ (quota => CodexAvailable) /\ Affordable(s) /\ Selectable(s)

Refused(w) ==
  /\ pc[w] = "reserve"
  /\ picked' = [picked EXCEPT ![w] = NoPick]
  /\ GoTo(w, "ending")
  /\ UNCHANGED <<table, results, trees, excluded, policy, calls, token, snap, bounds>>

Attempt(slice, provider, seconds, phase, bound) ==
  [slice |-> slice, provider |-> provider, day |-> day, seconds |-> seconds,
   state |-> "running", phase |-> phase, bound |-> bound]

\* The transaction of reserve and that of a probe: a row, its owner, its seconds.
AddAttempt_Uncharged(w, a) ==
  /\ attempts' = Append(attempts, a)
  /\ results'  = Append(results, "none")
  /\ trees'    = Append(trees, "none")
  /\ token'    = [token EXCEPT ![w] = Len(attempts) + 1]
  /\ budget'   = [budget EXCEPT ![day] = a.seconds]
AddAttempt_NoRow(w, a) ==
  /\ results'  = Append(results, "none")
  /\ trees'    = Append(trees, "none")
  /\ token'    = [token EXCEPT ![w] = Len(attempts) + 1]
  /\ budget'   = [budget EXCEPT ![day] = @ + a.seconds]
  /\ UNCHANGED attempts
AddAttempt(w, a) ==
  /\ attempts' = Append(attempts, a)
  /\ results'  = Append(results, "none")
  /\ trees'    = Append(trees, "none")
  /\ token'    = [token EXCEPT ![w] = Len(attempts) + 1]
  /\ budget'   = [budget EXCEPT ![day] = @ + a.seconds]

Reserve(w) ==
  /\ pc[w] = "reserve" /\ Reservable(picked[w].slice)
  /\ picked' = [picked EXCEPT ![w] = NoPick]
  /\ AddAttempt(w, Attempt(picked[w].slice, Provider, AttemptSeconds, "reserved", FALSE))
  /\ GoTo(w, "bind")
  /\ UNCHANGED <<slices, jobs, limit, quota, probed, excluded, policy, calls, snap, bounds>>

\* The containment descriptor names the token, so it is written after it.
Bind(w) ==
  /\ pc[w] = "bind"
  /\ attempts[token[w]].state = "running" /\ attempts[token[w]].phase = "reserved"
  /\ attempts' = [attempts EXCEPT ![token[w]].bound = TRUE]
  /\ GoTo(w, "dispatch")
  /\ UNCHANGED <<slices, jobs, budget, limit, quota, probed, results, trees, excluded, locals, bounds>>

\* markDispatch
MarkDispatch(w) ==
  /\ pc[w] = "dispatch"
  /\ attempts[token[w]].state = "running" /\ attempts[token[w]].phase = "reserved"
  /\ Update(token[w], "running", "dispatch-intent")
  /\ GoTo(w, "launch")
  /\ UNCHANGED <<slices, jobs, budget, limit, quota, probed, results, trees, excluded, locals, bounds>>

----------------------------------------------------------------------------
(* The model run, as the runner's contract promises it *)

Launch(w) ==
  /\ pc[w] = "launch"
  /\ trees' = [trees EXCEPT ![token[w]] = "active"]
  /\ GoTo(w, "running")
  /\ UNCHANGED <<table, results, excluded, locals, bounds>>

\* The runner returns only with proof that the tree is empty.
Finish(w) ==
  /\ pc[w] = "running"
  /\ trees'  = [trees EXCEPT ![token[w]] = "empty"]
  /\ GoTo(w, IF IsPilot(attempts[token[w]]) THEN "pilotSettle" ELSE "write")
  /\ UNCHANGED <<table, results, excluded, locals, bounds>>

\* The runner throws, or returns without proof: the lease is retained.
Unresolved(w) ==
  /\ pc[w] \in {"launch", "running"}
  /\ GoTo(w, "ending")
  /\ UNCHANGED <<table, results, trees, excluded, locals, bounds>>

\* A tree nobody waits for any more ends by itself.
TreeEnds(t) ==
  /\ trees[t] = "active" /\ ~\E w \in Workers : token[w] = t /\ pc[w] = "running"
  /\ trees' = [trees EXCEPT ![t] = "empty"]
  /\ UNCHANGED <<table, results, excluded, pc, locals, bounds>>

----------------------------------------------------------------------------
(* What consumeSlice does with the result *)

\* The slice is checked again: an exclusion made meanwhile blocks an output, and
\* so does one that does not fit the slice.
ResultState(w, end) ==
  CASE end = "quota"  -> "quota-unavailable"
    [] end = "failed" -> "interrupted-unknown"
    [] end = "bad"    -> "invalid-output-or-source"
    [] end = "output" -> IF JobOf[attempts[token[w]].slice] \in excluded
                           THEN "invalid-output-or-source" ELSE "pending-review"

\* durable, before the transaction
WriteResult(w) ==
  /\ pc[w] = "write"
  /\ \E end \in {"output", "bad", "quota", "failed"} :
       results' = [results EXCEPT ![token[w]] = ResultState(w, end)]
  /\ GoTo(w, "settle")
  /\ UNCHANGED <<table, trees, excluded, locals, bounds>>

\* A verified rejection for quota puts the slice back for the other provider.
Retriable(t, state) == state = "quota-unavailable" /\ attempts[t].provider = "claude"

Settle(w) ==
  LET t == token[w]
      s == attempts[t].slice
      state == results[t]
  IN  /\ pc[w] = "settle"
      /\ attempts[t].state = "running" /\ attempts[t].phase = "dispatch-intent"
      /\ slices[s] = "pending"
      /\ Update(t, state, "finished")
      /\ slices' = [slices EXCEPT ![s] = IF Retriable(t, state) THEN "pending" ELSE state]
      /\ jobs'   = Reviewable(s, slices')
      /\ quota'  = (quota \/ Retriable(t, state))
      /\ token'  = [token EXCEPT ![w] = 0]
      /\ GoTo(w, IF state \in {"pending-review", "quota-unavailable"} THEN After(w) ELSE "ending")
      /\ UNCHANGED <<budget, limit, probed, results, trees, excluded, policy, calls, picked, snap, bounds>>

----------------------------------------------------------------------------
(* recover *)

\* Whether the row and the file are such that recover gets as far as its probes.
\* The row of a probe has no job; a descriptor that was never bound does not parse.
Readable(t) ==
  /\ Cardinality(Running) = 1 /\ ~IsPilot(attempts[t]) /\ attempts[t].bound
  /\ Selectable(attempts[t].slice)

RecoverRead(w) ==
  /\ pc[w] = "recover"
  /\ IF \E t \in Running : Readable(t)
       THEN LET t == CHOOSE u \in Running : Readable(u)
            IN  /\ snap' = [snap EXCEPT ![w] = [token |-> t, attempt |-> attempts[t], file |-> results[t]]]
                /\ GoTo(w, "probe")
       ELSE UNCHANGED snap /\ GoTo(w, "consume")
  /\ UNCHANGED <<table, results, trees, excluded, policy, calls, picked, token, bounds>>

\* The owner is proved dead, and its tree empty; of an attempt read as reserved
\* an unknown tree is enough.
Proof_TreeOnly(w) == trees[snap[w].token] = "empty" \/ snap[w].attempt.phase = "reserved"
Proof(w) ==
  /\ ~OwnerAlive(snap[w].token)
  /\ trees[snap[w].token] = "empty" \/ snap[w].attempt.phase = "reserved"

\* checkedSlice and checkedReceipt: an excluded transcript is not recovered; a
\* file must be the whole receipt of a result that awaits review.
Acceptable(w) ==
  LET a == snap[w].attempt
      f == snap[w].file
  IN  /\ JobOf[a.slice] \in policy[w] => InDocuments(a)
      /\ f # "none" => a.phase = "dispatch-intent" /\ f = "pending-review"

RecoverCheck(w) ==
  /\ pc[w] = "probe"
  /\ GoTo(w, IF Proof(w) /\ Acceptable(w) THEN "commit" ELSE "consume")
  /\ snap' = [snap EXCEPT ![w] = IF Proof(w) /\ Acceptable(w) THEN @ ELSE NoSnap]
  /\ UNCHANGED <<table, results, trees, excluded, policy, calls, picked, token, bounds>>

\* Row, slice and file are as they were read, however long the probes took.
Same_Any(w) == TRUE
Same(w) ==
  LET t == snap[w].token
  IN  /\ attempts[t] = snap[w].attempt /\ results[t] = snap[w].file
      /\ Selectable(attempts[t].slice)

\* The three ends: a result found, nothing sent, or nobody knows.
Recovered_Downgrade(a, file) ==
  IF a.phase = "reserved" THEN [state |-> "interrupted-before-dispatch", phase |-> "recovered"]
  ELSE [state |-> "interrupted-unknown", phase |-> "quarantined-unknown"]
Recovered(a, file) ==
  IF file # "none" THEN [state |-> "pending-review", phase |-> "recovered-result"]
  ELSE IF a.phase = "reserved" THEN [state |-> "interrupted-before-dispatch", phase |-> "recovered"]
  ELSE [state |-> "interrupted-unknown", phase |-> "quarantined-unknown"]

RecoverCommit_Release(w) ==
  LET t   == snap[w].token
      s   == attempts[t].slice
      end == Recovered(snap[w].attempt, snap[w].file)
  IN  /\ pc[w] = "commit"
      /\ IF Same(w)
           THEN /\ Update(t, end.state, end.phase)
                /\ slices' = IF end.state # "pending-review" THEN slices ELSE [slices EXCEPT ![s] = end.state]
                /\ jobs' = IF end.state = "pending-review" THEN Reviewable(s, slices') ELSE jobs
           ELSE UNCHANGED <<attempts, slices, jobs>>
      /\ snap' = [snap EXCEPT ![w] = NoSnap]
      /\ GoTo(w, "consume")
      /\ UNCHANGED <<budget, limit, quota, probed, results, trees, excluded, policy, calls, picked, token, bounds>>
RecoverCommit_SliceOnly(w) ==
  LET t   == snap[w].token
      s   == attempts[t].slice
      end == Recovered(snap[w].attempt, snap[w].file)
  IN  /\ pc[w] = "commit"
      /\ IF Same(w)
           THEN /\ Update(t, end.state, end.phase)
                /\ slices' = IF snap[w].attempt.phase = "reserved" THEN slices ELSE [slices EXCEPT ![s] = end.state]
                /\ jobs' = jobs
           ELSE UNCHANGED <<attempts, slices, jobs>>
      /\ snap' = [snap EXCEPT ![w] = NoSnap]
      /\ GoTo(w, "consume")
      /\ UNCHANGED <<budget, limit, quota, probed, results, trees, excluded, policy, calls, picked, token, bounds>>
RecoverCommit(w) ==
  LET t   == snap[w].token
      s   == attempts[t].slice
      end == Recovered(snap[w].attempt, snap[w].file)
  IN  /\ pc[w] = "commit"
      /\ IF Same(w)
           THEN /\ Update(t, end.state, end.phase)
                /\ slices' = IF snap[w].attempt.phase = "reserved" THEN slices ELSE [slices EXCEPT ![s] = end.state]
                /\ jobs' = IF end.state = "pending-review" THEN Reviewable(s, slices') ELSE jobs
           ELSE UNCHANGED <<attempts, slices, jobs>>
      /\ snap' = [snap EXCEPT ![w] = NoSnap]
      /\ GoTo(w, "consume")
      /\ UNCHANGED <<budget, limit, quota, probed, results, trees, excluded, policy, calls, picked, token, bounds>>

----------------------------------------------------------------------------
(* Live probes, on the same ledger and under the same lease *)

PilotReserve(w, approval) ==
  /\ pc[w] = "down" /\ approval \notin probed
  /\ ~Leased
  /\ budget[day] + PilotSeconds <= Min({PilotLimit, limit})
  /\ AddAttempt(w, Attempt(NoSlice, "claude", PilotSeconds, "dispatch-intent", TRUE))
  /\ probed' = probed \union {approval}
  /\ GoTo(w, "launch")
  /\ UNCHANGED <<slices, jobs, limit, quota, excluded, policy, calls, picked, snap, bounds>>

PilotSettle(w) ==
  /\ pc[w] = "pilotSettle" /\ trees[token[w]] = "empty"
  /\ attempts[token[w]].state = "running"
  /\ Update(token[w], "pilot-process-ended", "finished")
  /\ token' = [token EXCEPT ![w] = 0]
  /\ GoTo(w, "ending")
  /\ UNCHANGED <<slices, jobs, budget, limit, quota, probed, results, trees, excluded, policy, calls, picked, snap, bounds>>

----------------------------------------------------------------------------
(* The operator and the clock *)

\* configureDailyBudget
ConfigureBudget(seconds) ==
  /\ ~Leased /\ seconds # limit
  /\ edits < MaxEdits /\ edits' = edits + 1
  /\ limit' = seconds
  /\ UNCHANGED <<attempts, slices, jobs, budget, quota, probed, results, trees, excluded, pc, locals, day, crashes>>

EditPolicy(j) ==
  /\ edits < MaxEdits /\ edits' = edits + 1
  /\ excluded' = IF j \in excluded THEN excluded \ {j} ELSE excluded \union {j}
  /\ UNCHANGED <<table, results, trees, pc, locals, day, crashes>>

NextDay ==
  /\ day < MaxDay /\ day' = day + 1
  /\ UNCHANGED <<table, results, trees, excluded, pc, locals, crashes, edits>>

----------------------------------------------------------------------------

Init ==
  /\ attempts = <<>> /\ results = <<>> /\ trees = <<>>
  /\ slices = [s \in Slices |-> "pending"]
  /\ jobs = [j \in Jobs |-> "pending"]
  /\ budget = [d \in 0..MaxDay |-> 0]
  /\ limit = FirstLimit /\ quota = FALSE /\ probed = {} /\ excluded = {}
  /\ pc = [w \in Workers |-> "down"]
  /\ policy = [w \in Workers |-> {}]
  /\ calls = [w \in Workers |-> 0]
  /\ picked = [w \in Workers |-> NoPick]
  /\ token = [w \in Workers |-> 0]
  /\ snap = [w \in Workers |-> NoSnap]
  /\ day = 0 /\ crashes = 0 /\ edits = 0

\* Steps a running process takes without being asked.
Proceed(w) ==
  \/ RecoverRead(w) \/ RecoverCheck(w) \/ RecoverCommit(w)
  \/ PolicyChanged(w) \/ Idle(w) \/ Select(w)
  \/ Reserve(w) \/ Refused(w) \/ Bind(w) \/ MarkDispatch(w)
  \/ Launch(w) \/ Finish(w) \/ Unresolved(w)
  \/ WriteResult(w) \/ Settle(w) \/ PilotSettle(w) \/ Stop(w)

Next ==
  \/ \E w \in Workers : StartDaily(w) \/ Proceed(w) \/ Throw(w) \/ Crash(w)
  \/ \E w \in Workers, a \in Approvals : PilotReserve(w, a)
  \/ \E t \in Tokens : TreeEnds(t)
  \/ \E seconds \in Limits : ConfigureBudget(seconds)
  \/ \E j \in Jobs : EditPolicy(j)
  \/ NextDay

Spec == Init /\ [][Next]_vars

\* A scheduler starts a run every day, the system runs what was started, and the
\* processes of an abandoned job end.
FairSpec ==
  /\ Spec
  /\ \A w \in Workers : WF_vars(StartDaily(w)) /\ WF_vars(Proceed(w))
  /\ \A t \in 1..MaxTokens : WF_vars(t \in Tokens /\ TreeEnds(t))

----------------------------------------------------------------------------
(* Properties *)

Labels == {"down", "recover", "probe", "commit", "consume", "reserve", "bind", "dispatch",
           "launch", "running", "write", "settle", "pilotSettle", "ending"}
States == {"running", "pending-review", "quota-unavailable", "interrupted-unknown",
           "invalid-output-or-source", "interrupted-before-dispatch", "pilot-process-ended"}
SliceStates == {"pending", "pending-review", "quota-unavailable", "interrupted-unknown",
                "invalid-output-or-source"}
Phases == {"reserved", "dispatch-intent", "finished", "recovered", "recovered-result",
           "quarantined-unknown"}
AttemptType ==
  [slice : Slices \union {NoSlice}, provider : {"claude", "codex"}, day : Nat, seconds : Nat,
   state : States, phase : Phases, bound : BOOLEAN]
SnapType == {NoSnap} \union [token : Nat, attempt : AttemptType, file : States \union {"none", "partial"}]

TypeOK ==
  /\ attempts \in Seq(AttemptType) /\ slices \in [Slices -> SliceStates]
  /\ jobs \in [Jobs -> {"pending", "pending-review"}]
  /\ budget \in [0..MaxDay -> Nat] /\ limit \in Limits /\ quota \in BOOLEAN /\ probed \subseteq Approvals
  /\ results \in Seq(SliceStates \union {"none", "partial"}) /\ Len(results) = Len(attempts)
  /\ trees \in Seq({"none", "active", "empty"}) /\ Len(trees) = Len(attempts)
  /\ excluded \subseteq Jobs
  /\ pc \in [Workers -> Labels] /\ policy \in [Workers -> SUBSET Jobs] /\ calls \in [Workers -> Nat]
  /\ picked \in [Workers -> {NoPick} \union [slice : Slices, day : Nat]]
  /\ token \in [Workers -> 0..Len(attempts)] /\ snap \in [Workers -> SnapType]
  /\ day \in 0..MaxDay /\ crashes \in Nat /\ edits \in Nat

\* One model process tree at a time, whoever died and whoever recovered: no
\* lease is given up while what it paid for may still run.
OneTree == Cardinality({t \in Tokens : trees[t] = "active"}) <= 1

\* The worker that dispatched an attempt still owns it when it records the
\* result: no recovery takes a lease from a living owner, and the checks of the
\* last transaction of consumeSlice never fail.
OwnerHolds ==
  \A w \in DOMAIN token : token[w] # 0 =>
    LET a == attempts[token[w]]
    IN  /\ a.state = "running"
        /\ pc[w] \in {"bind", "dispatch"} => a.phase = "reserved"
        /\ pc[w] \in {"launch", "running", "write", "settle", "pilotSettle"} => a.phase = "dispatch-intent"
        /\ ~IsPilot(a) => slices[a.slice] = "pending"
        /\ \A v \in DOMAIN token : token[v] = token[w] => v = w

\* The lease is exclusive: no two process trees at a time, and no recovery takes a lease from
\* a worker that lives.
LeaseIsExclusive == OneTree /\ OwnerHolds

\* The ledger of a day is the sum of that day's attempts, whatever became of
\* them: nothing is refunded and nothing is charged twice.
LedgerAgrees == \A d \in DOMAIN budget : budget[d] = Seconds(On(d))

\* Two workers that reserve at the same time cannot overdraw the day or the
\* document lane.
StayWithin ==
  /\ \A d \in 0..MaxDay : budget'[d] # budget[d] => budget'[d] <= limit
  /\ DocumentSeconds(day)' # DocumentSeconds(day) /\ day' = day => DocumentSeconds(day)' <= LaneCap
WithinLimits == [][StayWithin]_vars

\* A slice is sent to a model once.  It is sent again only after Claude's
\* verified rejection for quota.
Dispatched(t) == attempts[t].phase \notin {"reserved", "recovered"} /\ ~IsPilot(attempts[t])
SentOnce ==
  \A t, u \in Tokens :
    t < u /\ Dispatched(t) /\ Dispatched(u) /\ attempts[t].slice = attempts[u].slice
      => attempts[t].state = "quota-unavailable" /\ attempts[t].provider = "claude"

\* A finished result is never written off, and what is offered for review has
\* its file (review.mts lists files, publication.mts lists rows).
ResultsKept ==
  \A t \in Tokens :
    /\ results[t] = "pending-review" => attempts[t].state \in {"running", "pending-review"}
    /\ attempts[t].state = "pending-review" => results[t] = "pending-review"

\* A job awaits review exactly when all its slices do, also when the last of
\* them was recovered.
JobsFollow ==
  \A j \in DOMAIN jobs :
    jobs[j] = "pending-review" <=> \A s \in DOMAIN slices : JobOf[s] = j => slices[s] = "pending-review"

\* What the queue owes its slices: none is sent twice, no finished result is written off, and a
\* job awaits review exactly when all its slices do.
ResultsSurvive == SentOnce /\ ResultsKept /\ JobsFollow

\* What recover may release: the owner is gone, the descriptor bound, the source
\* not excluded, and either nothing was sent, or the tree was begun and there is
\* no file or a whole result.
Recoverable(t) ==
  /\ t \in Running /\ ~OwnerAlive(t) /\ ~IsPilot(attempts[t]) /\ attempts[t].bound
  /\ JobOf[attempts[t].slice] \in excluded => InDocuments(attempts[t])
  /\ \/ attempts[t].phase = "reserved"
     \/ trees[t] # "none" /\ results[t] \in {"none", "pending-review"}

\* Such a lease is released by a later run; it does not block the queue for ever.
Released(n) == n \notin Running \/ (~IsPilot(attempts[n]) /\ JobOf[attempts[n].slice] \in excluded)
LeasesEnd == \A n \in 1..MaxTokens : (n \in Tokens /\ Recoverable(n)) ~> Released(n)

\* docs/corpus-distillation.md:74: "Quota wait until the next day".  A run turned
\* away for quota is turned away on the day of the rejection, not on later ones.
QuotaWaitsADay ==
  [][ \A w \in Workers :
        (/\ picked[w] # NoPick /\ picked[w].day = day
         /\ pc[w] = "reserve" /\ pc'[w] = "ending" /\ UNCHANGED crashes
         /\ ~Leased /\ quota /\ ~CodexAvailable)
          => \E t \in On(day) : attempts[t].state = "quota-unavailable" ]_vars
=============================================================================
