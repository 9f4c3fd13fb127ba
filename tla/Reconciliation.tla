-------------------------- MODULE Reconciliation --------------------------
(***************************************************************************)
(* Accepted context: src/src/reconciliation.mjs and claims-withdraw.mts,   *)
(* with the readers of context-query.mjs and context-refresh.mjs.          *)
(*                                                                         *)
(* Callers are calls of reconcileClaimBatch, withdrawClaims and            *)
(* reinstateClaim in separate processes, serialised by state.lock.  Every  *)
(* file they write is a step of its own, so that a death can come between  *)
(* any two of them.  state.json is the commit point.  Readers take no      *)
(* lock.  The event store is the log of module EventLog.                   *)
(*                                                                         *)
(* Content-addressed files are their place in a table: claim i is the i-th *)
(* claim content ever made (a hash determines its content), snapshot i the *)
(* i-th snapshot ever written.  0 stands for none.                         *)
(***************************************************************************)
EXTENDS Integers, Sequences, FiniteSets, SequencesExt

CONSTANTS
  Callers, Readers,
  Trusting,         \* the readers that are context refreshes
  Scopes, Keys, Values,
  BatchIds,         \* batches a client may submit, any number of times
  Content,          \* batch |-> [scope, claims : a function from keys to values]
  BatchLimit,       \* options.processedBatchLimit
  MaxTime,          \* bound: distinct values of the clock
  MaxCrashes,       \* bound: process deaths
  MaxWithdrawals,   \* bound: manifests, retries of a withdrawal not counted
  MaxReinstates,    \* bound: reinstatements started
  Free, Dead,       \* no lock file; the lock file of a process that died
  Undrafted         \* a batch no client has prepared yet

ASSUME NamesAssumption ==
  /\ Free \notin Callers /\ Dead \notin Callers /\ Free # Dead
  /\ Trusting \subseteq Readers
  /\ BatchIds \intersect Nat = {}

ASSUME ContentAssumption ==
  \A b \in BatchIds : /\ Content[b].scope \in Scopes
                      /\ DOMAIN Content[b].claims \subseteq Keys
                      /\ DOMAIN Content[b].claims # {} /\ IsFiniteSet(DOMAIN Content[b].claims)
                      /\ \A k \in DOMAIN Content[b].claims : Content[b].claims[k] \in Values

ASSUME BoundsAssumption ==
  /\ BatchLimit \in Nat \ {0} /\ MaxTime \in Nat /\ MaxCrashes \in Nat
  /\ MaxWithdrawals \in Nat /\ MaxReinstates \in Nat

VARIABLES
  \* the directory
  state,       \* state.json
  registry,    \* accepted-snapshots.json: the snapshots it lists
  made,        \* claim contents, in the order they were first made
  claimFiles,  \* claims/: the claims on disk
  snaps,       \* snapshots/: never deleted
  outbox,      \* outbox/pending: one entry per batch
  receipts,    \* outbox/delivered: batches with a receipt
  reviews,     \* review/: which keys of which scope a review has a copy of
  manifests,   \* withdrawals/*.manifest.json, in the order they were written
  log,         \* the event store
  lock,        \* state.lock
  \* clients and calls
  draft,       \* the expectations a batch was prepared with
  pc, op,      \* where a call stands, and what it was asked
  mem,         \* its local variable state
  plan,        \* what it decided to write
  rd,          \* readers
  \* clock, bounds and history
  now, crashes, reinstates,
  stolen,      \* an unlink removed the lock of a live holder
  commits,     \* events of every committed result, in commit order
  withdrawn    \* <<scope, claim>>: withdrawn and not accepted again

files   == <<registry, made, claimFiles, snaps, outbox, receipts, reviews, manifests>>
history == <<crashes, reinstates, stolen, commits, withdrawn>>
vars    == <<state, files, log, lock, draft, pc, op, mem, plan, rd, now, history>>

----------------------------------------------------------------------------
(* Data *)

\* Snapshots the state of record m lists, and the claims they index.
Ids(m, s) == IF m.cur[s] = 0 THEN {} ELSE snaps[m.cur[s]].ids
CurrentId(m, s, k) == CHOOSE i \in {0} \union Ids(m, s) :
                        IF \E j \in Ids(m, s) : made[j].key = k THEN i # 0 /\ made[i].key = k
                                                                ELSE i = 0
Surviving(m) == UNION {Ids(m, s) : s \in Scopes}

\* acceptedRegistry
View(m) == {m.cur[s] : s \in Scopes} \ {0}

\* A processed batch and its result.  A withdrawal is the batch of its number.
Stored(m, b) == \E i \in 1..Len(m.batches) : m.batches[i].batch = b
ResultOf(m, b) == m.batches[CHOOSE i \in 1..Len(m.batches) : m.batches[i].batch = b].result

\* boundedBatches: the newest results by checkedAt, which is commit order as
\* long as the clock does not go back.
Bounded(batches) ==
  SubSeq(batches, 1 + Max({0, Len(batches) - BatchLimit}), Len(batches))

\* deliverCommittedOutbox: entries of a committed result without a receipt.
Committed_AnyResult(m, e) == Stored(m, e.batch)
Committed(m, e) == Stored(m, e.batch) /\ ResultOf(m, e.batch) = e.result
Undelivered(m) == {e \in outbox : Committed(m, e) /\ e.batch \notin receipts}

Event(b, kind, ref) == [batch |-> b, kind |-> kind, ref |-> ref]

NoState == [cur |-> [s \in Scopes |-> 0], batches |-> <<>>, tombs |-> {}, pend |-> {}, hist |-> {}]
NoOp    == [kind |-> "none"]
NoWithdrawal == [claim |-> 0, scope |-> "none", key |-> "none", files |-> {}, reviews |-> {}, removed |-> {}]
NoPlan  == [verdict |-> "none", snap |-> 0, write |-> {}, ids |-> {}, events |-> <<>>,
            withdrawal |-> NoWithdrawal]

----------------------------------------------------------------------------
(* Clients *)

\* currentScopeContext: a batch is prepared from the state a client reads.
Draft(b) ==
  LET s == Content[b].scope IN
  /\ draft[b] = Undrafted
  /\ draft' = [draft EXCEPT ![b] = [snap |-> state.cur[s],
       ids |-> [k \in DOMAIN Content[b].claims |-> CurrentId(state, s, k)]]]
  /\ UNCHANGED <<state, files, log, lock, pc, op, mem, plan, rd, now, history>>

Begin(w, o) ==
  /\ pc[w] = "idle"
  /\ pc' = [pc EXCEPT ![w] = "wait"]
  /\ op' = [op EXCEPT ![w] = o]
  /\ UNCHANGED <<state, files, log, lock, draft, mem, plan, rd, now, crashes, stolen, commits, withdrawn>>

Reconcile(w, b) ==
  /\ draft[b] # Undrafted
  /\ Begin(w, [kind |-> "reconcile", batch |-> b])
  /\ UNCHANGED reinstates

\* An operator names a claim that some snapshot lists.
Withdraw(w, i) ==
  /\ \E n \in 1..Len(snaps) : i \in snaps[n].ids
  /\ Len(manifests) < MaxWithdrawals \/ \E n \in 1..Len(manifests) : manifests[n].claim = i
  /\ Begin(w, [kind |-> "withdraw", claim |-> i])
  /\ UNCHANGED reinstates

\* An operator names a key of a scope that some withdrawal names.
Reinstate(w, s, k) ==
  /\ reinstates < MaxReinstates
  /\ \E n \in 1..Len(manifests) : manifests[n].scope = s /\ manifests[n].key = k
  /\ reinstates' = reinstates + 1
  /\ Begin(w, [kind |-> "reinstate", scope |-> s, key |-> k])

----------------------------------------------------------------------------
(* withLock *)

To(w, label) == pc' = [pc EXCEPT ![w] = label]

Acquire_Shared(w) ==
  /\ pc[w] = "wait"
  /\ lock' = w
  /\ mem' = [mem EXCEPT ![w] = state]
  /\ To(w, "resume1")
  /\ UNCHANGED <<state, files, log, draft, op, plan, rd, now, history>>

\* openSync(path, 'wx'), then resumeWithdrawalDeletes loads state.json.
Acquire(w) ==
  /\ pc[w] = "wait" /\ lock = Free
  /\ lock' = w
  /\ mem' = [mem EXCEPT ![w] = state]
  /\ To(w, "resume1")
  /\ UNCHANGED <<state, files, log, draft, op, plan, rd, now, history>>

\* The lock file is older than lockStaleMs, whether its holder lives or not.
JudgeStale(w) ==
  /\ pc[w] = "wait" /\ lock # Free
  /\ To(w, "reclaim")
  /\ UNCHANGED <<state, files, log, lock, draft, op, mem, plan, rd, now, history>>

Reclaim(w) ==
  /\ pc[w] = "reclaim"
  /\ stolen' = (stolen \/ lock \in Callers)
  /\ lock' = Free
  /\ To(w, "wait")
  /\ UNCHANGED <<state, files, log, draft, op, mem, plan, rd, now, crashes, reinstates, commits, withdrawn>>

End(w) ==
  /\ op' = [op EXCEPT ![w] = NoOp]
  /\ mem' = [mem EXCEPT ![w] = NoState]
  /\ plan' = [plan EXCEPT ![w] = NoPlan]

\* 'Reconciliation state is busy.'
TimeOut(w) ==
  /\ pc[w] = "wait" /\ lock # Free
  /\ To(w, "idle") /\ End(w)
  /\ UNCHANGED <<state, files, log, lock, draft, rd, now, history>>

Release(w) ==
  /\ pc[w] \in {"ack", "fail"}
  /\ stolen' = (stolen \/ lock \in Callers \ {w})
  /\ lock' = Free
  /\ To(w, "idle") /\ End(w)
  /\ UNCHANGED <<state, files, log, draft, rd, now, crashes, reinstates, commits, withdrawn>>

----------------------------------------------------------------------------
(* The prologue of every call, which recovers what earlier calls left *)

\* The labels of each kind of call, in the order the code goes through them.
After(w) ==
  LET kind == op[w].kind IN
  CASE pc[w] = "resume1"  -> IF kind = "reinstate" THEN "decide" ELSE "sync1"
    [] pc[w] = "sync1"    -> "deliver1"
    [] pc[w] = "deliver1" -> "decide"
    [] pc[w] = "state"    -> [reconcile |-> "deliver2", withdraw |-> "sync2", reinstate |-> "ack"][kind]
    [] pc[w] = "sync2"    -> IF kind = "withdraw" THEN "resume2" ELSE "ack"
    [] pc[w] = "resume2"  -> "deliver2"
    [] pc[w] = "deliver2" -> IF kind = "withdraw" THEN "ack" ELSE "sync2"

\* resumeWithdrawalDeletes: one unlinkSync, one rewritten review.
Leftover(m, n) == (manifests[n].files \ Surviving(m)) \intersect claimFiles
LeftoverReviews(n) == manifests[n].reviews \intersect reviews

ResumeDelete(w) ==
  /\ pc[w] \in {"resume1", "resume2"}
  /\ \E n \in mem[w].pend : \E i \in Leftover(mem[w], n) : claimFiles' = claimFiles \ {i}
  /\ UNCHANGED <<state, registry, made, snaps, outbox, receipts, reviews, manifests,
                 log, lock, draft, pc, op, mem, plan, rd, now, history>>

ResumeReview(w) ==
  /\ pc[w] \in {"resume1", "resume2"}
  /\ \E n \in mem[w].pend :
       /\ Leftover(mem[w], n) = {}
       /\ \E r \in LeftoverReviews(n) :
            reviews' = (reviews \ {r}) \union {[r EXCEPT !.keys = @ \ {manifests[n].key}]}
  /\ UNCHANGED <<state, registry, made, claimFiles, snaps, outbox, receipts, manifests,
                 log, lock, draft, pc, op, mem, plan, rd, now, history>>

\* The receipt, and the withdrawal is no longer pending.
ResumeFinish(w) ==
  /\ pc[w] \in {"resume1", "resume2"}
  /\ \E n \in mem[w].pend :
       /\ Leftover(mem[w], n) = {} /\ LeftoverReviews(n) = {}
       /\ state' = [mem[w] EXCEPT !.pend = @ \ {n}]
  /\ mem' = [mem EXCEPT ![w] = state']
  /\ UNCHANGED <<files, log, lock, draft, pc, op, plan, rd, now, history>>

Resumed(w) ==
  /\ pc[w] \in {"resume1", "resume2"} /\ mem[w].pend = {}
  /\ To(w, After(w))
  /\ UNCHANGED <<state, files, log, lock, draft, op, mem, plan, rd, now, history>>

SyncRegistry_AddOnly(w) ==
  /\ pc[w] \in {"sync1", "sync2"}
  /\ registry' = registry \union View(mem[w])
  /\ To(w, After(w))
  /\ UNCHANGED <<state, made, claimFiles, snaps, outbox, receipts, reviews, manifests,
                 log, lock, draft, op, mem, plan, rd, now, history>>

\* synchronizeRegistry
SyncRegistry(w) ==
  /\ pc[w] \in {"sync1", "sync2"}
  /\ registry' = View(mem[w])
  /\ To(w, After(w))
  /\ UNCHANGED <<state, made, claimFiles, snaps, outbox, receipts, reviews, manifests,
                 log, lock, draft, op, mem, plan, rd, now, history>>

Delivering(w) == pc[w] \in {"deliver1", "deliver2"}

\* deliverCommittedOutbox: appendBrokerEvent for the next event of an entry.
DeliverEvent(w) ==
  /\ Delivering(w)
  /\ \E e \in Undelivered(mem[w]) : \E i \in 1..Len(e.events) :
       /\ e.events[i] \notin Range(log)
       /\ \A j \in 1..(i - 1) : e.events[j] \in Range(log)
       /\ log' = Append(log, e.events[i])
  /\ UNCHANGED <<state, files, lock, draft, pc, op, mem, plan, rd, now, history>>

\* The event store is busy or does not verify: the call is rejected.
DeliverFails(w) ==
  /\ Delivering(w)
  /\ \E e \in Undelivered(mem[w]) : ~(Range(e.events) \subseteq Range(log))
  /\ To(w, "fail")
  /\ UNCHANGED <<state, files, log, lock, draft, op, mem, plan, rd, now, history>>

WriteReceipt(w) ==
  /\ Delivering(w)
  /\ \E e \in Undelivered(mem[w]) :
       /\ Range(e.events) \subseteq Range(log)
       /\ receipts' = receipts \union {e.batch}
  /\ UNCHANGED <<state, registry, made, claimFiles, snaps, outbox, reviews, manifests,
                 log, lock, draft, pc, op, mem, plan, rd, now, history>>

Delivered(w) ==
  /\ Delivering(w) /\ Undelivered(mem[w]) = {}
  /\ To(w, After(w))
  /\ UNCHANGED <<state, files, log, lock, draft, op, mem, plan, rd, now, history>>

----------------------------------------------------------------------------
(* reconcileClaimBatch *)

Reconciling(w) == pc[w] = "decide" /\ op[w].kind = "reconcile"

Tombed(m, s, k) == \E t \in m.tombs : t.scope = s /\ t.key = k

\* analyze, per claim: the accepted value already stands; the expected claim
\* is not the current one.
Duplicate(m, b, k) ==
  LET i == CurrentId(m, Content[b].scope, k) IN i # 0 /\ made[i].val = Content[b].claims[k]
Mismatch(m, b, k) ==
  LET i == CurrentId(m, Content[b].scope, k) IN
  draft[b].ids[k] \notin IF Duplicate(m, b, k) THEN {0, i} ELSE {i}

\* A batch that validateBatch itself finds wanting ends as a conflicted one.
Verdict(m, b) ==
  LET s == Content[b].scope  ks == DOMAIN Content[b].claims IN
  IF \E k \in ks : Tombed(m, s, k) THEN "blocked"
  ELSE IF draft[b].snap # m.cur[s] \/ \E k \in ks : Mismatch(m, b, k) THEN "conflicted"
  ELSE "clean"

\* A batch is worked on once.
Answered_Current(m, b) == Stored(m, b) /\ b \notin m.hist
Answered(m, b) == Stored(m, b)

\* The stored result is returned.
Replay(w) ==
  /\ Reconciling(w) /\ Answered(mem[w], op[w].batch)
  /\ To(w, "ack")
  /\ UNCHANGED <<state, files, log, lock, draft, op, mem, plan, rd, now, history>>

\* options.beforePublication throws, before anything is written.
Refuse(w) ==
  /\ Reconciling(w)
  /\ To(w, "fail")
  /\ UNCHANGED <<state, files, log, lock, draft, op, mem, plan, rd, now, history>>

Reject_KeepsWithdrawn(w) ==
  LET b == op[w].batch  s == Content[b].scope IN
  /\ Reconciling(w) /\ ~Answered(mem[w], b) /\ Verdict(mem[w], b) # "clean"
  /\ reviews' = reviews \union
       {[scope |-> s, keys |-> DOMAIN Content[b].claims]}
  /\ plan' = [plan EXCEPT ![w] = [NoPlan EXCEPT !.verdict = Verdict(mem[w], b), !.snap = mem[w].cur[s]]]
  /\ To(w, "state")
  /\ UNCHANGED <<state, registry, made, claimFiles, snaps, outbox, receipts, manifests,
                 log, lock, draft, op, mem, rd, now, history>>

\* persistReview keeps the candidates that are not withdrawn.
Reject(w) ==
  LET b == op[w].batch  s == Content[b].scope IN
  /\ Reconciling(w) /\ ~Answered(mem[w], b) /\ Verdict(mem[w], b) # "clean"
  /\ reviews' = reviews \union
       {[scope |-> s, keys |-> {k \in DOMAIN Content[b].claims : ~Tombed(mem[w], s, k)}]}
  /\ plan' = [plan EXCEPT ![w] = [NoPlan EXCEPT !.verdict = Verdict(mem[w], b), !.snap = mem[w].cur[s]]]
  /\ To(w, "state")
  /\ UNCHANGED <<state, registry, made, claimFiles, snaps, outbox, receipts, manifests,
                 log, lock, draft, op, mem, rd, now, history>>

\* Every claim of the batch stands already.
AcceptNothing(w) ==
  LET b == op[w].batch  ks == DOMAIN Content[b].claims IN
  /\ Reconciling(w) /\ ~Answered(mem[w], b) /\ Verdict(mem[w], b) = "clean"
  /\ \A k \in ks : Duplicate(mem[w], b, k)
  /\ plan' = [plan EXCEPT ![w] = [NoPlan EXCEPT !.verdict = "clean",
                                                !.snap = mem[w].cur[Content[b].scope]]]
  /\ To(w, "state")
  /\ UNCHANGED <<state, files, log, lock, draft, op, mem, rd, now, history>>

\* The accepted claims get their contents; acceptedAt is the time of the call.
Accept(w) ==
  LET b == op[w].batch  s == Content[b].scope  m == mem[w]
      new == {k \in DOMAIN Content[b].claims : ~Duplicate(m, b, k)}
      old == {CurrentId(m, s, k) : k \in new} IN
  /\ Reconciling(w) /\ ~Answered(m, b) /\ Verdict(m, b) = "clean" /\ new # {}
  /\ now' \in {t \in {now, now + 1} : t <= MaxTime}
  /\ LET contents == {[key |-> k, val |-> Content[b].claims[k], at |-> now',
                       sup |-> CurrentId(m, s, k)] : k \in new} IN
       /\ made' = made \o SetToSeq(contents \ Range(made))
       /\ LET ids == {i \in 1..Len(made') : made'[i] \in contents} IN
            plan' = [plan EXCEPT ![w] = [NoPlan EXCEPT !.verdict = "clean", !.write = ids,
                                                      !.ids = (Ids(m, s) \ old) \union ids]]
  /\ To(w, "claims")
  /\ UNCHANGED <<state, registry, claimFiles, snaps, outbox, receipts, reviews, manifests,
                 log, lock, draft, op, mem, rd, history>>

WriteClaim(w) ==
  /\ pc[w] = "claims"
  /\ \E i \in plan[w].write :
       /\ claimFiles' = claimFiles \union {i}
       /\ plan' = [plan EXCEPT ![w].write = @ \ {i}]
  /\ UNCHANGED <<state, registry, made, snaps, outbox, receipts, reviews, manifests,
                 log, lock, draft, pc, op, mem, rd, now, history>>

WriteSnapshot_Early(w) ==
  LET b == op[w].batch  s == Content[b].scope  n == Len(snaps) + 1
      accepted == SetToSeq(plan[w].ids \ Ids(mem[w], s)) IN
  /\ pc[w] = "claims"
  /\ snaps' = Append(snaps, [scope |-> s, base |-> mem[w].cur[s], ids |-> plan[w].ids])
  /\ plan' = [plan EXCEPT ![w].snap = n,
       ![w].events = Append([i \in 1..Len(accepted) |-> Event(b, "accepted", accepted[i])],
                            Event(b, "published", n))]
  /\ To(w, "outbox")
  /\ UNCHANGED <<state, registry, made, claimFiles, outbox, receipts, reviews, manifests,
                 log, lock, draft, op, mem, rd, now, history>>

\* The snapshot file, and reconciliationEvents.
WriteSnapshot(w) ==
  LET b == op[w].batch  s == Content[b].scope  n == Len(snaps) + 1
      accepted == SetToSeq(plan[w].ids \ Ids(mem[w], s)) IN
  /\ pc[w] = "claims" /\ plan[w].write = {}
  /\ snaps' = Append(snaps, [scope |-> s, base |-> mem[w].cur[s], ids |-> plan[w].ids])
  /\ plan' = [plan EXCEPT ![w].snap = n,
       ![w].events = Append([i \in 1..Len(accepted) |-> Event(b, "accepted", accepted[i])],
                            Event(b, "published", n))]
  /\ To(w, "outbox")
  /\ UNCHANGED <<state, registry, made, claimFiles, outbox, receipts, reviews, manifests,
                 log, lock, draft, op, mem, rd, now, history>>

----------------------------------------------------------------------------
(* withdrawClaims and reinstateClaim *)

Withdrawing(w) == pc[w] = "decide" /\ op[w].kind = "withdraw"

\* An earlier manifest for the claim, and its tombstone stands.
Again(m, i) == \E n \in 1..Len(manifests) : manifests[n].claim = i /\ \E t \in m.tombs : t.by = n

WithdrawAgain(w) ==
  /\ Withdrawing(w) /\ Again(mem[w], op[w].claim)
  /\ To(w, "ack")
  /\ UNCHANGED <<state, files, log, lock, draft, op, mem, plan, rd, now, history>>

WithdrawUnknown(w) ==
  /\ Withdrawing(w) /\ ~Again(mem[w], op[w].claim) /\ op[w].claim \notin Surviving(mem[w])
  /\ To(w, "fail")
  /\ UNCHANGED <<state, files, log, lock, draft, op, mem, plan, rd, now, history>>

\* versionChain: the claim and the versions it supersedes, while their files exist.
Chain(i) ==
  LET Closed(C) == i \in C /\ \A j \in C : made[j].sup \in claimFiles => made[j].sup \in C
  IN  {j \in claimFiles : i \in claimFiles /\ \A C \in SUBSET claimFiles : Closed(C) => j \in C}

\* A snapshot of the scope, committed or not, lists the claim.
OwnedBy(s, i) == \E n \in 1..Len(snaps) : snaps[n].scope = s /\ i \in snaps[n].ids

\* analyse, and the snapshot of what is left in the scope.
PrepareWithdrawal(w) ==
  LET i == op[w].claim  m == mem[w]  k == made[i].key  by == Len(manifests) + 1 IN
  /\ Withdrawing(w) /\ ~Again(m, i)
  /\ \E s \in Scopes :
       LET left == Ids(m, s) \ {i}
           removed == Chain(i) \union {j \in claimFiles : made[j].key = k /\ OwnedBy(s, j)}
           kept == left \union UNION {Ids(m, t) : t \in Scopes \ {s}}
           n == IF left = {} THEN 0 ELSE Len(snaps) + 1
       IN
       /\ i \in Ids(m, s)
       /\ snaps' = IF left = {} THEN snaps
                   ELSE Append(snaps, [scope |-> s, base |-> m.cur[s], ids |-> left])
       /\ plan' = [plan EXCEPT ![w] = [NoPlan EXCEPT
            !.verdict = "withdrawn", !.snap = n,
            !.events = (IF n = 0 THEN <<>> ELSE <<Event(by, "published", n)>>)
                         \o <<Event(by, "superseded", i)>>,
            !.withdrawal = [claim |-> i, scope |-> s, key |-> k, files |-> removed \ kept,
                            reviews |-> {r \in reviews : r.scope = s /\ k \in r.keys},
                            removed |-> removed]]]
  /\ To(w, "manifest")
  /\ UNCHANGED <<state, registry, made, claimFiles, outbox, receipts, reviews, manifests,
                 log, lock, draft, op, mem, rd, now, history>>

WriteManifest_Late(w) ==
  /\ pc[w] = "manifest"
  /\ UNCHANGED manifests
  /\ To(w, "outbox")
  /\ UNCHANGED <<state, registry, made, claimFiles, snaps, outbox, receipts, reviews,
                 log, lock, draft, op, mem, plan, rd, now, history>>

WriteManifest(w) ==
  /\ pc[w] = "manifest"
  /\ manifests' = Append(manifests, plan[w].withdrawal)
  /\ To(w, "outbox")
  /\ UNCHANGED <<state, registry, made, claimFiles, snaps, outbox, receipts, reviews,
                 log, lock, draft, op, mem, plan, rd, now, history>>

DecideReinstate(w) ==
  /\ pc[w] = "decide" /\ op[w].kind = "reinstate"
  /\ To(w, IF Tombed(mem[w], op[w].scope, op[w].key) THEN "state" ELSE "fail")
  /\ UNCHANGED <<state, files, log, lock, draft, op, mem, plan, rd, now, history>>

----------------------------------------------------------------------------
(* Commit *)

Result(w) == [verdict |-> plan[w].verdict,
              snap    |-> IF plan[w].verdict = "withdrawn" THEN 0 ELSE plan[w].snap]
BatchKey(w) == IF op[w].kind = "reconcile" THEN op[w].batch ELSE plan[w].events[1].batch

\* persistOutbox, before the commit; an entry of the same batch is overwritten.
WriteOutbox(w) ==
  /\ pc[w] = "outbox"
  /\ outbox' = {e \in outbox : e.batch # BatchKey(w)}
                \union {[batch |-> BatchKey(w), result |-> Result(w), events |-> plan[w].events]}
  /\ To(w, "state")
  /\ UNCHANGED <<state, registry, made, claimFiles, snaps, receipts, reviews, manifests,
                 log, lock, draft, op, mem, plan, rd, now, history>>

Entry(w) == [batch |-> BatchKey(w), result |-> Result(w)]

Reconciled(w) ==
  LET b == op[w].batch  m == mem[w] IN
  [m EXCEPT !.batches = Bounded(Append(RemoveFirstMatch(@, LAMBDA e : e.batch = b), Entry(w))),
            !.cur[Content[b].scope] = plan[w].snap]

Withdrawn_NewestOnly(w) ==
  LET v == plan[w].withdrawal  m == mem[w] IN
  [m EXCEPT !.cur[v.scope] = plan[w].snap,
            !.tombs = {t \in @ : t.scope # v.scope \/ t.key # v.key}
                        \union {[scope |-> v.scope, key |-> v.key, by |-> BatchKey(w)]},
            !.pend = @ \union {BatchKey(w)},
            !.hist = @ \union {e.batch : e \in {x \in Range(m.batches) :
                                 /\ x.result.snap # 0 /\ snaps[x.result.snap].scope = v.scope
                                 /\ v.claim \in snaps[x.result.snap].ids}},
            !.batches = Append(@, Entry(w))]

\* Stored results whose snapshot lists a removed claim become historical.
Withdrawn(w) ==
  LET v == plan[w].withdrawal  m == mem[w] IN
  [m EXCEPT !.cur[v.scope] = plan[w].snap,
            !.tombs = {t \in @ : t.scope # v.scope \/ t.key # v.key}
                        \union {[scope |-> v.scope, key |-> v.key, by |-> BatchKey(w)]},
            !.pend = @ \union {BatchKey(w)},
            !.hist = @ \union {e.batch : e \in {x \in Range(m.batches) :
                                 /\ x.result.snap # 0 /\ snaps[x.result.snap].scope = v.scope
                                 /\ snaps[x.result.snap].ids \intersect v.removed # {}}},
            !.batches = Append(@, Entry(w))]

Reinstated(w) ==
  [mem[w] EXCEPT !.tombs = {t \in @ : t.scope # op[w].scope \/ t.key # op[w].key}]

\* writeJson(statePath, state): the commit point of every call.
WriteState(w) ==
  /\ pc[w] = "state"
  /\ state' = CASE op[w].kind = "reconcile" -> Reconciled(w)
                [] op[w].kind = "withdraw"  -> Withdrawn(w)
                [] op[w].kind = "reinstate" -> Reinstated(w)
  /\ mem' = [mem EXCEPT ![w] = state']
  /\ commits' = commits \o plan[w].events
  /\ LET v == plan[w].withdrawal
         listed == {x \in Scopes \X (1..Len(made)) : x[2] \in Ids(state', x[1])} IN
       /\ withdrawn' = (withdrawn \union ({v.scope} \X v.removed)) \ listed
       /\ rd' = [r \in Readers |-> [rd[r] EXCEPT !.since = @ \ listed]]
  /\ To(w, After(w))
  /\ UNCHANGED <<files, log, lock, draft, op, plan, now, crashes, reinstates, stolen>>

----------------------------------------------------------------------------
(* Readers: a query, or a refresh that trusts the registry *)

NoRead == [pc |-> "idle", todo |-> {}, scope |-> "none", claims |-> {}, got |-> {}, since |-> {}]

ReadRegistry(r) ==
  /\ rd[r].pc = "idle"
  /\ rd' = [rd EXCEPT ![r] = [NoRead EXCEPT !.pc = "read", !.todo = registry, !.since = withdrawn]]
  /\ UNCHANGED <<state, files, log, lock, draft, pc, op, mem, plan, now, history>>

Allowed_Registry(r, n) == snaps[n].ids

\* verifiedSnapshotFile consults state.json; a refresh takes the snapshot as it is.
Allowed(r, n) ==
  IF r \in Trusting THEN snaps[n].ids
  ELSE {i \in snaps[n].ids : /\ i \in Ids(state, snaps[n].scope)
                             /\ ~Tombed(state, snaps[n].scope, made[i].key)}

OpenSnapshot(r) ==
  /\ rd[r].pc = "read" /\ rd[r].claims = {}
  /\ \E n \in rd[r].todo :
       rd' = [rd EXCEPT ![r].todo = @ \ {n}, ![r].scope = snaps[n].scope, ![r].claims = Allowed(r, n)]
  /\ UNCHANGED <<state, files, log, lock, draft, pc, op, mem, plan, now, history>>

\* verifiedClaim throws when the file is gone.
ReadClaim(r) ==
  /\ rd[r].pc = "read"
  /\ \E i \in rd[r].claims :
       rd' = [rd EXCEPT ![r] = IF i \in claimFiles
         THEN [rd[r] EXCEPT !.claims = @ \ {i}, !.got = @ \union {<<rd[r].scope, i>>}]
         ELSE [NoRead EXCEPT !.pc = "failed"]]
  /\ UNCHANGED <<state, files, log, lock, draft, pc, op, mem, plan, now, history>>

EndRead(r) ==
  /\ rd[r].pc = "read" /\ rd[r].todo = {} /\ rd[r].claims = {}
  /\ rd' = [rd EXCEPT ![r].pc = "done", ![r].scope = "none"]
  /\ UNCHANGED <<state, files, log, lock, draft, pc, op, mem, plan, now, history>>

----------------------------------------------------------------------------

Crash(w) ==
  /\ crashes < MaxCrashes
  /\ pc[w] # "idle"
  /\ crashes' = crashes + 1
  /\ lock' = IF lock = w THEN Dead ELSE lock
  /\ To(w, "idle") /\ End(w)
  /\ UNCHANGED <<state, files, log, draft, rd, now, reinstates, stolen, commits, withdrawn>>

Init ==
  /\ state = NoState /\ registry = {} /\ made = <<>> /\ claimFiles = {} /\ snaps = <<>>
  /\ outbox = {} /\ receipts = {} /\ reviews = {} /\ manifests = <<>> /\ log = <<>> /\ lock = Free
  /\ draft = [b \in BatchIds |-> Undrafted]
  /\ pc = [w \in Callers |-> "idle"] /\ op = [w \in Callers |-> NoOp]
  /\ mem = [w \in Callers |-> NoState] /\ plan = [w \in Callers |-> NoPlan]
  /\ rd = [r \in Readers |-> NoRead]
  /\ now = 0 /\ crashes = 0 /\ reinstates = 0
  /\ stolen = FALSE /\ commits = <<>> /\ withdrawn = {}

Step(w) ==
  \/ Acquire(w) \/ JudgeStale(w) \/ Reclaim(w) \/ TimeOut(w) \/ Release(w)
  \/ ResumeDelete(w) \/ ResumeReview(w) \/ ResumeFinish(w) \/ Resumed(w) \/ SyncRegistry(w)
  \/ DeliverEvent(w) \/ DeliverFails(w) \/ WriteReceipt(w) \/ Delivered(w)
  \/ Replay(w) \/ Refuse(w) \/ Reject(w) \/ AcceptNothing(w) \/ Accept(w)
  \/ WriteClaim(w) \/ WriteSnapshot(w)
  \/ WithdrawAgain(w) \/ WithdrawUnknown(w) \/ PrepareWithdrawal(w) \/ WriteManifest(w)
  \/ DecideReinstate(w) \/ WriteOutbox(w) \/ WriteState(w)

Start(w) ==
  \/ \E b \in BatchIds : Reconcile(w, b)
  \/ \E i \in 1..Len(made) : Withdraw(w, i)
  \/ \E s \in Scopes, k \in Keys : Reinstate(w, s, k)

ReadStep(r) == ReadRegistry(r) \/ OpenSnapshot(r) \/ ReadClaim(r) \/ EndRead(r)

Next ==
  \/ \E b \in BatchIds : Draft(b)
  \/ \E w \in Callers : Step(w) \/ Start(w) \/ Crash(w)
  \/ \E r \in Readers : ReadStep(r)

Spec == Init /\ [][Next]_vars

----------------------------------------------------------------------------
(* Properties *)

Claims == 1..Len(made)
Snapshots == 1..Len(snaps)
Numbers == BatchIds \union (1..Len(manifests))

StateOK(m) ==
  /\ m.cur \in [Scopes -> {0} \union Snapshots]
  /\ \A s \in Scopes : m.cur[s] # 0 => snaps[m.cur[s]].scope = s
  /\ \A i \in 1..Len(m.batches) : /\ m.batches[i].batch \in Numbers
                                  /\ m.batches[i].result.snap \in {0} \union Snapshots
                                  /\ \A j \in 1..Len(m.batches) : m.batches[i].batch = m.batches[j].batch => i = j
  /\ m.pend \subseteq 1..Len(manifests) /\ m.hist \subseteq BatchIds
  /\ \A t \in m.tombs : t.scope \in Scopes /\ t.key \in Keys /\ t.by \in 1..Len(manifests)

\* The types, and that files refer to files that were written before them.
TypeOK ==
  ~stolen =>
    /\ StateOK(state) /\ \A w \in DOMAIN mem : StateOK(mem[w])
    /\ registry \subseteq Snapshots /\ claimFiles \subseteq Claims
    /\ \A i \in Claims : made[i].sup \in 0..(i - 1)
    /\ \A n \in Snapshots : snaps[n].base \in 0..(n - 1) /\ snaps[n].ids \subseteq Claims
    /\ \A e \in outbox : e.batch \in BatchIds \union Nat
    /\ receipts \subseteq BatchIds \union Nat
    /\ \A r \in reviews : r.scope \in Scopes /\ r.keys \subseteq Keys
    /\ lock \in DOMAIN pc \union {Free, Dead} /\ now \in Nat

\* One chain of snapshots per scope: the state moves a scope only to a snapshot
\* made from the one it lists (no lost update), or to nothing.
OneHistory ==
  [][~stolen' => \A s \in Scopes :
       state'.cur[s] \notin {0, state.cur[s]} => snaps[state'.cur[s]].base = state.cur[s]]_state

\* The result of a batch is stored once: a retried batch is answered from it,
\* whatever was accepted or withdrawn meanwhile.
ResultsStand ==
  [][~stolen' => \A b \in BatchIds :
       Stored(state, b) /\ Stored(state', b) => ResultOf(state, b) = ResultOf(state', b)]_state

\* Every claim the state lists is on disk, for its scope and any other.
ListedIsReadable == ~stolen => Surviving(state) \subseteq claimFiles

\* The event store holds the events of committed results only, in the order of
\* the commits, each once; it lags behind by at most one commit.
LogFollowsCommits == ~stolen => IsPrefix(log, commits)

\* A call that returns leaves nothing to recover: registry and state agree, all
\* committed events are in the store, no withdrawal is half done.
ReturnIsSettled ==
  \A w \in DOMAIN pc : ~stolen /\ pc[w] = "ack" /\ op[w].kind # "reinstate" =>
    registry = View(state) /\ log = commits /\ state.pend = {}

\* When a withdrawal is complete, no claim file and no review holds the key in
\* its scope any more, claims offered to another scope as well excepted.
WithdrawnIsGone ==
  ~stolen /\ state.pend = {} => \A t \in state.tombs :
    /\ \A i \in claimFiles : made[i].key = t.key /\ OwnedBy(t.scope, i) =>
         \E b \in BatchIds : /\ Content[b].scope # t.scope /\ t.key \in DOMAIN Content[b].claims
                            /\ Content[b].claims[t.key] = made[i].val
    /\ \A r \in reviews : r.scope = t.scope => t.key \notin r.keys

\* A query that begins after a withdrawal committed does not serve the claim,
\* even while registry and files still have it.
QueriesHonourWithdrawals ==
  \A r \in DOMAIN rd \ Trusting : ~stolen /\ rd[r].pc = "done" => rd[r].got \intersect rd[r].since = {}

\* A stored result that is not marked historical names a snapshot none of whose
\* claims was withdrawn.
ReplaysAreHonest ==
  ~stolen => \A e \in Range(state.batches) : e.result.snap # 0 /\ e.batch \notin state.hist =>
    \A i \in snaps[e.result.snap].ids : <<snaps[e.result.snap].scope, i>> \notin withdrawn

\* What is committed can be read and was logged, and a call that returns leaves no recovery to do, whatever
\* deaths came before it.
StoreRecovers == ListedIsReadable /\ LogFollowsCommits /\ ReturnIsSettled

\* A withdrawn value does not come back: not from a file, a review or a stored result.
WithdrawalsHold == WithdrawnIsGone /\ ReplaysAreHonest

\* Neither an accepted snapshot nor a stored result is overwritten by a call that did not see it.
HistoryStands == OneHistory /\ ResultsStand

\* docs/claims-export.md:63 "withdrawn from current reads on commit": of every
\* reader, the context refresh included.
WithdrawnFromCurrentReads ==
  \A r \in DOMAIN rd : rd[r].pc = "done" => rd[r].got \intersect rd[r].since = {}
=============================================================================
