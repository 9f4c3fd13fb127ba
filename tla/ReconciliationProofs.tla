------------------------- MODULE ReconciliationProofs -------------------------
(***************************************************************************)
(* What TLAPS proves of Reconciliation, as long as no live holder's lock   *)
(* is removed: the directory, the calls and the readers fit together       *)
(* (Sound), so that no update is lost, a withdrawn value does not come     *)
(* back, and a query does not serve it; for any callers, readers, batches, *)
(* scopes and keys, and any number of deaths, withdrawals and              *)
(* reinstatements; and that the store recovers from any death: it lags     *)
(* behind the commits by the events of one outbox entry at most, and no    *)
(* other entry is ever delivered (Logged).                                 *)
(***************************************************************************)
EXTENDS Reconciliation, SequenceTheorems, FiniteSetTheorems, TLAPS

Working == {"resume1", "sync1", "deliver1", "decide", "claims", "manifest", "outbox", "state",
            "sync2", "resume2", "deliver2", "ack", "fail"}
Labels == {"idle", "wait", "reclaim"} \union Working
Inside(w) == pc[w] \in Working

-----------------------------------------------------------------------------
(* Types *)

Names == BatchIds \union Nat
ClaimType == [key : Keys, val : Values, at : Nat, sup : Nat]
SnapshotType == [scope : Scopes, base : Nat, ids : SUBSET Nat]
ReviewType == [scope : Scopes, keys : SUBSET Keys]
ResultType == [verdict : {"none", "clean", "blocked", "conflicted", "withdrawn"}, snap : Nat]
StoredType == [batch : Names, result : ResultType]
TombType == [scope : Scopes, key : Keys, by : Nat]
StateType == [cur : [Scopes -> Nat], batches : Seq(StoredType), tombs : SUBSET TombType, pend : SUBSET Nat,
              hist : SUBSET BatchIds]
EventType == [batch : Names, kind : {"accepted", "published", "superseded"}, ref : Nat]
EntryType == [batch : Names, result : ResultType, events : Seq(EventType)]
WithdrawalType == [claim : Nat, scope : Scopes \union {"none"}, key : Keys \union {"none"},
                   files : SUBSET Nat, reviews : SUBSET ReviewType, removed : SUBSET Nat]
PlanType == [verdict : {"none", "clean", "blocked", "conflicted", "withdrawn"}, snap : Nat, write : SUBSET Nat,
             ids : SUBSET Nat, events : Seq(EventType), withdrawal : WithdrawalType]
OpType == {NoOp} \union [kind : {"reconcile"}, batch : BatchIds] \union [kind : {"withdraw"}, claim : Nat]
            \union [kind : {"reinstate"}, scope : Scopes, key : Keys]
ReadType == [pc : {"idle", "read", "done", "failed"}, todo : SUBSET Nat, scope : Scopes \union {"none"},
             claims : SUBSET Nat, got : SUBSET ((Scopes \union {"none"}) \X Nat),
             since : SUBSET ((Scopes \union {"none"}) \X Nat)]

Typed ==
  /\ state \in StateType /\ mem \in [Callers -> StateType]
  /\ op \in [Callers -> OpType] /\ plan \in [Callers -> PlanType] /\ pc \in [Callers -> Labels]
  /\ made \in Seq(ClaimType) /\ snaps \in Seq(SnapshotType) /\ manifests \in Seq(WithdrawalType)
  /\ outbox \subseteq EntryType /\ reviews \subseteq ReviewType /\ receipts \subseteq Names
  /\ log \in Seq(EventType) /\ commits \in Seq(EventType)
  /\ rd \in [Readers -> ReadType] /\ withdrawn \subseteq (Scopes \union {"none"}) \X Nat
  /\ lock \in Callers \union {Free, Dead} /\ now \in Nat

-----------------------------------------------------------------------------
(* The inductive invariant *)

\* Claims of one snapshot have keys of their own.
OneEach(ids) == \A i, j \in ids : made[i].key = made[j].key => i = j

\* A claim is content of a batch of the scope; or of another scope than this one.
Offers(b, i) == made[i].key \in DOMAIN Content[b].claims /\ Content[b].claims[made[i].key] = made[i].val
Backed(s, i) == \E b \in BatchIds : Content[b].scope = s /\ Offers(b, i)
Elsewhere(s, i) == \E b \in BatchIds : Content[b].scope # s /\ Offers(b, i)

\* A content has one place, after the content it supersedes.
Contents ==
  /\ \A i, j \in Claims : made[i] = made[j] => i = j
  /\ \A i \in Claims : made[i].sup \in 0..(i - 1)

\* A snapshot names an older one, and claims of batches of its scope.
SnapshotRows ==
  \A n \in Snapshots : /\ snaps[n].base \in 0..(n - 1) /\ snaps[n].ids \subseteq Claims
                       /\ OneEach(snaps[n].ids) /\ \A i \in snaps[n].ids : Backed(snaps[n].scope, i)

\* The state names snapshots and manifests; at most one withdrawal is pending.
StateRows ==
  /\ \A s \in Scopes : state.cur[s] # 0 => state.cur[s] \in Snapshots /\ snaps[state.cur[s]].scope = s
  /\ \A i, j \in 1..Len(state.batches) : state.batches[i].batch = state.batches[j].batch => i = j
  /\ \A i \in 1..Len(state.batches) :
       LET e == state.batches[i]
       IN  /\ e.batch \in Nat => e.batch \in 1..Len(manifests) /\ e.result.snap = 0
           /\ e.result.snap # 0 => e.result.snap \in Snapshots
  /\ state.pend \subseteq 1..Len(manifests) /\ \A m, n \in state.pend : m = n
  /\ \A t \in state.tombs : /\ t.by \in 1..Len(manifests)
                            /\ manifests[t.by].scope = t.scope /\ manifests[t.by].key = t.key

Tables == claimFiles \subseteq Claims /\ registry \subseteq Snapshots /\ Contents /\ SnapshotRows /\ StateRows

\* What the state lists is on disk and stands; what was withdrawn is marked in the stored results.
Listed ==
  /\ \A s \in Scopes : \A i \in Ids(state, s) :
       i \in claimFiles /\ ~Tombed(state, s, made[i].key) /\ <<s, i>> \notin withdrawn
  /\ \A i \in 1..Len(state.batches) :
       LET e == state.batches[i]
       IN  e.result.snap # 0 /\ e.batch \notin state.hist =>
             \A c \in snaps[e.result.snap].ids : <<snaps[e.result.snap].scope, c>> \notin withdrawn

\* What is left of a withdrawn value is named by a manifest that is not done.
Gone ==
  \A t \in state.tombs :
    /\ \A i \in claimFiles : made[i].key = t.key /\ OwnedBy(t.scope, i) =>
         Elsewhere(t.scope, i) \/ (t.by \in state.pend /\ i \in manifests[t.by].files)
    /\ \A r \in reviews : r.scope = t.scope /\ t.key \in r.keys =>
         t.by \in state.pend /\ r \in manifests[t.by].reviews

\* A reader has nothing that was withdrawn before it began and was not accepted again.
Reads ==
  \A r \in Readers :
    /\ rd[r].todo \subseteq Snapshots /\ rd[r].since \subseteq withdrawn
    /\ r \notin Trusting => /\ \A i \in rd[r].claims : <<rd[r].scope, i>> \notin rd[r].since
                            /\ rd[r].got \intersect rd[r].since = {}

\* The planned snapshot is made from the one the state lists, and can be listed.
Fresh(n, s) ==
  /\ n \in Snapshots /\ snaps[n].scope = s /\ snaps[n].base = state.cur[s]
  /\ \A i \in snaps[n].ids : i \in claimFiles /\ ~Tombed(state, s, made[i].key)

Accepting(w) ==
  LET b == op[w].batch
      s == Content[b].scope
      p == plan[w]
  IN  /\ ~Stored(state, b) /\ \A k \in DOMAIN Content[b].claims : ~Tombed(state, s, k)
      /\ p.verdict = "clean" /\ p.withdrawal = NoWithdrawal
      /\ p.ids \subseteq Claims /\ OneEach(p.ids) /\ p.ids \subseteq claimFiles \union p.write
      /\ \A i \in p.ids : Backed(s, i) /\ ~Tombed(state, s, made[i].key)
      /\ p.write \subseteq Claims /\ \A i \in p.write : Offers(b, i)

Reconciles(w) ==
  LET b == op[w].batch
      s == Content[b].scope
      p == plan[w]
  IN  /\ ~Stored(state, b) /\ p.withdrawal = NoWithdrawal /\ p.verdict # "withdrawn"
      /\ p.snap = state.cur[s] \/ Fresh(p.snap, s)

Withdraws(w) ==
  LET p == plan[w]
      v == p.withdrawal
      n == p.events[1].batch
  IN  /\ p.verdict = "withdrawn" /\ v.scope \in Scopes /\ v.key \in Keys
      /\ p.events # <<>> /\ n \in Nat /\ ~Stored(state, n)
      /\ IF pc[w] = "manifest" THEN n = Len(manifests) + 1 ELSE n \in 1..Len(manifests) /\ manifests[n] = v
      /\ p.snap = 0 \/ (Fresh(p.snap, v.scope) /\ \A i \in snaps[p.snap].ids : made[i].key # v.key)
      /\ \A i \in claimFiles : made[i].key = v.key /\ OwnedBy(v.scope, i) =>
           Elsewhere(v.scope, i) \/ i \in v.files
      /\ \A r \in reviews : r.scope = v.scope /\ v.key \in r.keys => r \in v.reviews

\* A call in the critical section: it has the lock, knows the state, and its plan fits both.
Call(w) ==
  /\ lock = w /\ mem[w] = state /\ op[w] # NoOp
  /\ pc[w] = "claims" => op[w].kind = "reconcile"
  /\ pc[w] \in {"manifest", "resume2"} => op[w].kind = "withdraw"
  /\ pc[w] \in {"sync1", "deliver1", "outbox", "sync2", "deliver2"} => op[w].kind # "reinstate"
  /\ pc[w] \in {"resume1", "sync1", "deliver1", "decide"} \/ op[w].kind = "reinstate" => plan[w] = NoPlan
  /\ pc[w] \in {"sync1", "deliver1", "decide", "claims", "manifest", "outbox", "state", "deliver2", "ack"}
       \/ (pc[w] = "sync2" /\ op[w].kind = "reconcile") => state.pend = {}
  /\ pc[w] = "claims" => Accepting(w)
  /\ pc[w] \in {"outbox", "state"} /\ op[w].kind = "reconcile" => Reconciles(w)
  /\ pc[w] \in {"manifest", "outbox", "state"} /\ op[w].kind = "withdraw" => Withdraws(w)

Calls ==
  \A w \in Callers : /\ Inside(w) => Call(w)
                     /\ pc[w] # "idle" => op[w] # NoOp
                     /\ ~Inside(w) => plan[w] = NoPlan /\ mem[w] = NoState

Sound == Typed /\ Tables /\ Listed /\ Gone /\ Reads /\ Calls

-----------------------------------------------------------------------------
(* Sequences and sets *)

\* The tables as functions of the numbers of their rows.
LEMMA Rows ==
  ASSUME Typed
  PROVE  /\ Len(made) \in Nat /\ Len(snaps) \in Nat /\ Len(manifests) \in Nat
         /\ DOMAIN made = Claims /\ DOMAIN snaps = Snapshots /\ DOMAIN manifests = 1..Len(manifests)
         /\ \A i \in Claims : made[i] \in ClaimType
         /\ \A n \in Snapshots : snaps[n] \in SnapshotType
         /\ \A n \in 1..Len(manifests) : manifests[n] \in WithdrawalType
<1>1. made \in Seq(ClaimType) /\ snaps \in Seq(SnapshotType) /\ manifests \in Seq(WithdrawalType)
  BY DEF Typed
<1>2. Len(made) \in Nat /\ DOMAIN made = Claims /\ \A i \in Claims : made[i] \in ClaimType
  BY <1>1, LenProperties, ElementOfSeq DEF Claims
<1>3. Len(snaps) \in Nat /\ DOMAIN snaps = Snapshots /\ \A n \in Snapshots : snaps[n] \in SnapshotType
  BY <1>1, LenProperties, ElementOfSeq DEF Snapshots
<1>4. Len(manifests) \in Nat /\ DOMAIN manifests = 1..Len(manifests)
      /\ \A n \in 1..Len(manifests) : manifests[n] \in WithdrawalType
  BY <1>1, LenProperties, ElementOfSeq
<1>. QED
  BY <1>2, <1>3, <1>4

\* The stored results of a state.
LEMMA Results ==
  ASSUME NEW m \in StateType
  PROVE  /\ Len(m.batches) \in Nat /\ DOMAIN m.batches = 1..Len(m.batches)
         /\ m.batches \in Seq(StoredType) /\ \A i \in 1..Len(m.batches) : m.batches[i] \in StoredType
<1>1. m.batches \in Seq(StoredType)
  BY DEF StateType
<1>. QED
  BY <1>1, LenProperties, ElementOfSeq

\* A row is added at the end.
LEMMA Added ==
  ASSUME NEW S, NEW seq \in Seq(S), NEW x \in S, NEW new, new = Append(seq, x)
  PROVE  /\ new \in Seq(S) /\ Len(new) = Len(seq) + 1 /\ Len(seq) \in Nat /\ new[Len(new)] = x
         /\ 1..Len(new) = 1..Len(seq) \union {Len(seq) + 1} /\ Len(seq) + 1 \notin 1..Len(seq)
         /\ \A i \in 1..Len(seq) : new[i] = seq[i]
<1>1. Len(seq) \in Nat
  BY LenProperties
<1>2. /\ new \in Seq(S) /\ Len(new) = Len(seq) + 1 /\ new[Len(seq) + 1] = x
      /\ \A i \in 1..Len(seq) : new[i] = seq[i]
  BY AppendProperties
<1>. QED
  BY <1>1, <1>2

\* The greater of two numbers.
LEMMA MaxOfTwo ==
  ASSUME NEW x \in Int
  PROVE  Max({0, x}) = IF x > 0 THEN x ELSE 0
<1>. DEFINE m == IF x > 0 THEN x ELSE 0
<1>1. m \in {0, x} /\ \A y \in {0, x} : m >= y
  OBVIOUS
<1>2. \A n \in {0, x} : (\A y \in {0, x} : n >= y) => n = m
  OBVIOUS
<1>. QED
  BY <1>1, <1>2 DEF Max

\* A finite set as a sequence.
LEMMA AsSequence ==
  ASSUME NEW S, IsFiniteSet(S)
  PROVE  /\ SetToSeq(S) \in Seq(S) /\ Range(SetToSeq(S)) = S
         /\ \A i, j \in 1..Len(SetToSeq(S)) : SetToSeq(S)[i] = SetToSeq(S)[j] => i = j
<1>. DEFINE n == Cardinality(S)
            f == SetToSeq(S)
<1>1. n \in Nat /\ \E g : g \in Bijection(1..n, S)
  BY FS_CardinalityType DEF ExistsBijection
<1>2. PICK g : g \in Bijection(1..n, S)
  BY <1>1
<1>3. g \in [1..n -> S] /\ IsInjective(g)
  BY <1>2 DEF Bijection, Injection, IsInjective
<1>4. f \in [1..n -> S] /\ IsInjective(f)
  BY <1>3 DEF SetToSeq
<1>. HIDE DEF f
<1>5. f \in Seq(S) /\ Len(f) = n
  BY <1>1, <1>4
<1>6. f \in Surjection(1..n, S)
  <2>1. IsFiniteSet(1..n) /\ Cardinality(1..n) = n
    BY <1>1, FS_Interval
  <2>2. f \in Injection(1..n, S)
    BY <1>4 DEF Injection
  <2>. QED
    BY <2>1, <2>2, FS_Injection
<1>7. DOMAIN f = 1..n /\ Range(f) = S
  BY <1>4, <1>6 DEF Surjection, Range
<1>8. \A i, j \in 1..n : f[i] = f[j] => i = j
  BY <1>4 DEF IsInjective
<1>9. f \in Seq(S) /\ Range(f) = S /\ \A i, j \in 1..Len(f) : f[i] = f[j] => i = j
  BY <1>5, <1>7, <1>8
<1>. QED
  BY <1>9 DEF f

-----------------------------------------------------------------------------
(* Claims, snapshots and stored results *)

\* The claims a scope lists.
LEMMA ListedIds ==
  ASSUME Typed, Tables, NEW s \in Scopes
  PROVE  /\ Ids(state, s) \subseteq Claims /\ OneEach(Ids(state, s)) /\ 0 \notin Ids(state, s)
         /\ \A i \in Ids(state, s) : Backed(s, i)
         /\ state.cur[s] \in Nat /\ (state.cur[s] # 0 => state.cur[s] \in Snapshots)
<1>1. state.cur[s] \in Nat /\ (state.cur[s] # 0 => state.cur[s] \in Snapshots /\ snaps[state.cur[s]].scope = s)
  BY DEF Typed, StateType, Tables, Contents, SnapshotRows, StateRows
<1>2. 0 \notin Claims
  BY DEF Claims
<1>3. CASE state.cur[s] = 0
  BY <1>1, <1>3 DEF Ids, OneEach
<1>4. CASE state.cur[s] # 0
  BY <1>1, <1>2, <1>4 DEF Ids, Tables, Contents, SnapshotRows, StateRows
<1>. QED
  BY <1>3, <1>4

\* CurrentId: the claim of a key that a scope lists, or none.
LEMMA CurrentClaim ==
  ASSUME Typed, Tables, NEW s \in Scopes, NEW k
  PROVE  LET i == CurrentId(state, s, k)
         IN  \/ i = 0 /\ \A j \in Ids(state, s) : made[j].key # k
             \/ i \in Ids(state, s) /\ i \in Claims /\ i # 0 /\ made[i].key = k
                 /\ \A j \in Ids(state, s) : made[j].key = k => j = i
<1>. DEFINE I == Ids(state, s)
            i == CurrentId(state, s, k)
<1>1. I \subseteq Claims /\ 0 \notin I /\ OneEach(I)
  BY ListedIds
<1>2. i = CHOOSE x \in {0} \union I : IF \E j \in I : made[j].key = k THEN x # 0 /\ made[x].key = k ELSE x = 0
  BY DEF CurrentId
<1>3. CASE \E j \in I : made[j].key = k
  <2>1. \E x \in {0} \union I : x # 0 /\ made[x].key = k
    BY <1>1, <1>3
  <2>2. i \in {0} \union I /\ i # 0 /\ made[i].key = k
    <3>. HIDE DEF I, i
    <3>. QED
      BY <1>2, <1>3, <2>1
  <2>. QED
    BY <1>1, <2>2 DEF OneEach
<1>4. CASE ~\E j \in I : made[j].key = k
  <2>1. i = 0
    <3>. HIDE DEF I, i
    <3>. QED
      BY <1>2, <1>4
  <2>. QED
    BY <1>4, <2>1
<1>. QED
  BY <1>3, <1>4

\* The result of a stored batch is the one of its only row.
LEMMA ResultFound ==
  ASSUME NEW m, NEW n \in 1..Len(m.batches),
         \A i, j \in 1..Len(m.batches) : m.batches[i].batch = m.batches[j].batch => i = j
  PROVE  Stored(m, m.batches[n].batch) /\ ResultOf(m, m.batches[n].batch) = m.batches[n].result
<1>. DEFINE b == m.batches[n].batch
            x == CHOOSE i \in 1..Len(m.batches) : m.batches[i].batch = b
<1>1. x \in 1..Len(m.batches) /\ m.batches[x].batch = b
  OBVIOUS
<1>2. x = n
  BY <1>1
<1>. QED
  BY <1>2 DEF Stored, ResultOf

\* What is withdrawn, and what of it is removed, are claims on disk.
LEMMA ChainOnDisk ==
  ASSUME NEW i
  PROVE  Chain(i) \subseteq claimFiles
BY DEF Chain

-----------------------------------------------------------------------------
(* Types of what a call computes *)

\* A step of a call moves its own program counter.
LEMMA ToType ==
  ASSUME Typed, NEW w \in Callers, NEW label, To(w, label)
  PROVE  /\ label \in Labels => pc' \in [Callers -> Labels]
         /\ pc'[w] = label /\ \A v \in Callers \ {w} : pc'[v] = pc[v]
BY DEF Typed, To

\* The next label of a call.
LEMMA AfterIs ==
  ASSUME NEW w, op[w].kind \in {"reconcile", "withdraw", "reinstate"}
  PROVE  /\ pc[w] = "resume1" => After(w) = IF op[w].kind = "reinstate" THEN "decide" ELSE "sync1"
         /\ pc[w] = "sync1" => After(w) = "deliver1"
         /\ pc[w] = "deliver1" => After(w) = "decide"
         /\ pc[w] = "state" => /\ op[w].kind = "reconcile" => After(w) = "deliver2"
                               /\ op[w].kind = "withdraw" => After(w) = "sync2"
                               /\ op[w].kind = "reinstate" => After(w) = "ack"
         /\ pc[w] = "sync2" => After(w) = IF op[w].kind = "withdraw" THEN "resume2" ELSE "ack"
         /\ pc[w] = "resume2" => After(w) = "deliver2"
         /\ pc[w] = "deliver2" => After(w) = IF op[w].kind = "withdraw" THEN "ack" ELSE "sync2"
<1>1. CASE pc[w] = "state"
  BY <1>1 DEF After
<1>2. CASE pc[w] # "state"
  BY <1>2 DEF After
<1>. QED
  BY <1>1, <1>2

\* What a call was asked, by its kind.
LEMMA OpIs ==
  ASSUME Typed, NEW w \in Callers, op[w] # NoOp
  PROVE  /\ op[w].kind \in {"reconcile", "withdraw", "reinstate"}
         /\ op[w].kind = "reconcile" => op[w].batch \in BatchIds
         /\ op[w].kind = "withdraw" => op[w].claim \in Nat
         /\ op[w].kind = "reinstate" => op[w].scope \in Scopes /\ op[w].key \in Keys
BY DEF Typed, OpType

\* What a call that ends, or dies, forgets.
LEMMA EndType ==
  ASSUME Typed, NEW w \in Callers, End(w)
  PROVE  /\ op' \in [Callers -> OpType] /\ plan' \in [Callers -> PlanType] /\ mem' \in [Callers -> StateType]
         /\ op'[w] = NoOp /\ plan'[w] = NoPlan /\ mem'[w] = NoState
         /\ \A v \in Callers \ {w} : op'[v] = op[v] /\ plan'[v] = plan[v] /\ mem'[v] = mem[v]
<1>1. <<>> \in Seq(EventType) /\ <<>> \in Seq(StoredType)
  BY EmptySeq
<1>2. NoPlan \in PlanType
  BY <1>1 DEF NoPlan, PlanType, NoWithdrawal, WithdrawalType
<1>3. NoState \in StateType
  BY <1>1 DEF NoState, StateType
<1>. QED
  BY <1>2, <1>3 DEF Typed, End, OpType

\* The results of a state are of different batches.
Distinct(m) == \A i, j \in 1..Len(m.batches) : m.batches[i].batch = m.batches[j].batch => i = j

\* The results of r are those of m but the first d, and e.
Extends(r, m, e, d) ==
  /\ d \in 0..Len(m.batches) /\ Len(r.batches) = Len(m.batches) + 1 - d
  /\ \A i \in 1..Len(r.batches) : r.batches[i] = IF i + d <= Len(m.batches) THEN m.batches[i + d] ELSE e

\* The list of results gets one more, and loses the oldest ones when it is full.
LEMMA OneMore ==
  ASSUME NEW m \in StateType, NEW r \in StateType, NEW e \in StoredType, NEW d, ~Stored(m, e.batch),
         Distinct(m), Extends(r, m, e, d)
  PROVE  /\ Distinct(r)
         /\ \A i \in 1..Len(r.batches) : r.batches[i] = e \/ \E j \in 1..Len(m.batches) : r.batches[i] = m.batches[j]
         /\ Stored(r, e.batch) /\ ResultOf(r, e.batch) = e.result
         /\ \A b : b # e.batch /\ Stored(r, b) => Stored(m, b) /\ ResultOf(r, b) = ResultOf(m, b)
         /\ d = 0 => \A b : Stored(m, b) => Stored(r, b)
<1>. DEFINE M == 1..Len(m.batches)
            R == 1..Len(r.batches)
            At(i) == /\ i + d \in M => r.batches[i] = m.batches[i + d]
                     /\ i + d \notin M => r.batches[i] = e /\ i = Len(r.batches)
<1>. /\ \A i, j \in 1..Len(m.batches) : m.batches[i].batch = m.batches[j].batch => i = j
     /\ d \in 0..Len(m.batches) /\ Len(r.batches) = Len(m.batches) + 1 - d
     /\ \A i \in 1..Len(r.batches) : r.batches[i] = IF i + d <= Len(m.batches) THEN m.batches[i + d] ELSE e
  BY DEF Distinct, Extends
<1>1. Len(m.batches) \in Nat /\ Len(r.batches) \in Nat /\ Len(r.batches) \in R
  BY Results
<1>2. \A i \in R : At(i)
  BY <1>1
<1>3. \A j \in M : m.batches[j].batch # e.batch
  BY DEF Stored
<1>4. \A i, j \in R : r.batches[i].batch = r.batches[j].batch => i = j
  <2>. SUFFICES ASSUME NEW i \in R, NEW j \in R, r.batches[i].batch = r.batches[j].batch PROVE i = j
    OBVIOUS
  <2>. PICK p : p = i + d
    OBVIOUS
  <2>. PICK q : q = j + d
    OBVIOUS
  <2>1. /\ p \in M => r.batches[i] = m.batches[p]
        /\ p \notin M => r.batches[i] = e /\ i = Len(r.batches)
        /\ q \in M => r.batches[j] = m.batches[q]
        /\ q \notin M => r.batches[j] = e /\ j = Len(r.batches)
    <3>. HIDE DEF At
    <3>1. At(i) /\ At(j)
      BY <1>2
    <3>. QED
      BY <3>1, Zenon DEF At
  <2>2. CASE p \in M /\ q \in M
    <3>1. p = q
      BY <2>1, <2>2
    <3>. QED
      BY <3>1, <1>1
  <2>3. CASE p \notin M /\ q \notin M
    BY <2>1, <2>3
  <2>4. CASE p \in M <=> q \notin M
    BY <1>3, <2>1, <2>4
  <2>. QED
    BY <2>2, <2>3, <2>4
<1>5. \A i \in R : r.batches[i] = e \/ \E j \in M : r.batches[i] = m.batches[j]
  BY <1>2
<1>6. r.batches[Len(r.batches)] = e
  <2>1. Len(r.batches) + d \notin M
    BY <1>1
  <2>. QED
    BY <1>1, <1>2, <2>1
<1>7. Stored(r, e.batch) /\ ResultOf(r, e.batch) = e.result
  BY <1>1, <1>4, <1>6, ResultFound
<1>8. ASSUME NEW b, b # e.batch, Stored(r, b) PROVE Stored(m, b) /\ ResultOf(r, b) = ResultOf(m, b)
  <2>1. PICK i \in R : r.batches[i].batch = b
    BY <1>8 DEF Stored
  <2>2. PICK j \in M : r.batches[i] = m.batches[j]
    BY <1>5, <1>8, <2>1
  <2>3. ResultOf(r, b) = r.batches[i].result
    BY <1>4, <2>1, ResultFound
  <2>4. Stored(m, b) /\ ResultOf(m, b) = m.batches[j].result
    BY <2>1, <2>2, ResultFound
  <2>. QED
    BY <2>2, <2>3, <2>4
<1>9. ASSUME d = 0, NEW b, Stored(m, b) PROVE Stored(r, b)
  <2>1. PICK j \in M : m.batches[j].batch = b
    BY <1>9 DEF Stored
  <2>2. j \in R /\ r.batches[j] = m.batches[j]
    BY <1>1, <1>2, <1>9
  <2>. QED
    BY <2>1, <2>2 DEF Stored
<1>. QED
  BY <1>4, <1>5, <1>7, <1>8, <1>9 DEF Distinct

\* boundedBatches keeps the end of the list, and all of it while there is room.
LEMMA BoundedIs ==
  ASSUME NEW l \in Seq(StoredType), l # <<>>
  PROVE  /\ Bounded(l) \in Seq(StoredType)
         /\ \E d \in 0..(Len(l) - 1) : /\ Len(Bounded(l)) = Len(l) - d
                                       /\ \A i \in 1..Len(Bounded(l)) : Bounded(l)[i] = l[i + d]
                                       /\ Len(l) <= BatchLimit => d = 0
<1>. DEFINE n == Len(l)
            d == IF n > BatchLimit THEN n - BatchLimit ELSE 0
<1>1. n \in Nat \ {0} /\ BatchLimit \in Nat \ {0} /\ \A i \in 1..n : l[i] \in StoredType
  BY EmptySeq, ElementOfSeq, BoundsAssumption
<1>2. Max({0, n - BatchLimit}) = d
  BY <1>1, MaxOfTwo
<1>3. Bounded(l) = SubSeq(l, 1 + d, n) /\ d \in 0..(n - 1) /\ (n <= BatchLimit => d = 0)
  <2>1. Bounded(l) = SubSeq(l, 1 + Max({0, n - BatchLimit}), n)
    BY DEF Bounded
  <2>2. d \in 0..(n - 1) /\ (n <= BatchLimit => d = 0)
    BY <1>1
  <2>. QED
    BY <1>2, <2>1, <2>2, Zenon
<1>. HIDE DEF d
<1>4. \A i \in (1 + d)..n : l[i] \in StoredType
  BY <1>1, <1>3
<1>5. /\ Bounded(l) \in Seq(StoredType) /\ Len(Bounded(l)) = n - d
      /\ \A i \in 1..(n - d) : Bounded(l)[i] = l[d + i]
  <2>1. 1 + d \in Int /\ n \in Int /\ 1 + d <= n /\ n - (1 + d) + 1 = n - d
    BY <1>1, <1>3
  <2>2. /\ SubSeq(l, 1 + d, n) \in Seq(StoredType) /\ Len(SubSeq(l, 1 + d, n)) = n - (1 + d) + 1
        /\ \A i \in 1..(n - (1 + d) + 1) : SubSeq(l, 1 + d, n)[i] = l[1 + d + i - 1]
    BY <1>4, <2>1, SubSeqProperties
  <2>3. \A i \in 1..(n - d) : 1 + d + i - 1 = d + i
    BY <1>1, <1>3
  <2>. QED
    BY <1>3, <2>1, <2>2, <2>3
<1>6. \A i \in 1..Len(Bounded(l)) : Bounded(l)[i] = l[i + d]
  BY <1>1, <1>3, <1>5
<1>. QED
  BY <1>3, <1>5, <1>6

\* The state a batch commits.
LEMMA ReconciledIs ==
  ASSUME Typed, Tables, NEW w \in Callers, mem[w] = state, op[w] # NoOp, op[w].kind = "reconcile",
         ~Stored(state, op[w].batch)
  PROVE  LET r == Reconciled(w)
             b == op[w].batch
         IN  /\ r \in StateType /\ r.tombs = state.tombs /\ r.pend = state.pend /\ r.hist = state.hist
             /\ r.cur = [state.cur EXCEPT ![Content[b].scope] = plan[w].snap]
             /\ Entry(w) \in StoredType /\ Entry(w).batch = b /\ Entry(w).result = Result(w)
             /\ \E d \in 0..Len(state.batches) :
                  /\ Len(r.batches) = Len(state.batches) + 1 - d /\ (Len(state.batches) < BatchLimit => d = 0)
                  /\ \A i \in 1..Len(r.batches) :
                       r.batches[i] = IF i + d <= Len(state.batches) THEN state.batches[i + d] ELSE Entry(w)
<1>. DEFINE b == op[w].batch
            e == Entry(w)
            old == state.batches
            new == Append(old, e)
            r == Reconciled(w)
<1>1. state \in StateType /\ old \in Seq(StoredType) /\ Len(old) \in Nat /\ plan[w] \in PlanType /\ b \in BatchIds
  BY Results, OpIs DEF Typed
<1>2. e \in StoredType /\ e.batch = b /\ e.result = Result(w)
  BY <1>1 DEF Entry, BatchKey, Result, StoredType, ResultType, PlanType, Names
<1>3. RemoveFirstMatch(old, LAMBDA x : x.batch = b) = old
  BY DEF RemoveFirstMatch, Stored
<1>4. r = [state EXCEPT !.batches = Bounded(new), !.cur[Content[b].scope] = plan[w].snap]
  BY <1>3 DEF Reconciled
<1>. HIDE DEF e, r
<1>5. /\ new \in Seq(StoredType) /\ Len(new) = Len(old) + 1 /\ new # <<>> /\ new[Len(old) + 1] = e
      /\ \A i \in 1..Len(old) : new[i] = old[i]
  BY <1>1, <1>2, AppendProperties
<1>. HIDE DEF new
<1>6. PICK d \in 0..(Len(new) - 1) : /\ Len(Bounded(new)) = Len(new) - d
                                     /\ \A i \in 1..Len(Bounded(new)) : Bounded(new)[i] = new[i + d]
                                     /\ Len(new) <= BatchLimit => d = 0
  BY <1>5, BoundedIs
<1>7. Bounded(new) \in Seq(StoredType)
  BY <1>5, BoundedIs
<1>8. Content[b].scope \in Scopes /\ plan[w].snap \in Nat
  BY <1>1, ContentAssumption DEF PlanType
<1>9. /\ r \in StateType /\ r.tombs = state.tombs /\ r.pend = state.pend /\ r.hist = state.hist
      /\ r.cur = [state.cur EXCEPT ![Content[b].scope] = plan[w].snap] /\ r.batches = Bounded(new)
  BY <1>1, <1>4, <1>7, <1>8 DEF StateType
<1>10. \A i \in 1..Len(r.batches) : r.batches[i] = IF i + d <= Len(old) THEN old[i + d] ELSE e
  <2>. TAKE i \in 1..Len(r.batches)
  <2>1. r.batches[i] = new[i + d] /\ i + d \in 1..(Len(old) + 1) /\ i \in Nat
    BY <1>1, <1>5, <1>6, <1>9
  <2>2. CASE i + d <= Len(old)
    BY <1>1, <1>5, <2>1, <2>2
  <2>3. CASE ~(i + d <= Len(old))
    BY <1>1, <1>5, <2>1, <2>3
  <2>. QED
    BY <2>2, <2>3
<1>11. d \in 0..Len(old) /\ Len(r.batches) = Len(old) + 1 - d /\ (Len(old) < BatchLimit => d = 0)
  BY <1>1, <1>5, <1>6, <1>9, BoundsAssumption
<1>. QED
  BY <1>2, <1>9, <1>10, <1>11 DEF e, r

\* The state a withdrawal commits.
LEMMA WithdrawnIs ==
  ASSUME Typed, Tables, NEW w \in Callers, mem[w] = state, op[w] # NoOp, op[w].kind = "withdraw",
         Withdraws(w), pc[w] # "manifest"
  PROVE  LET r == Withdrawn(w)
             v == plan[w].withdrawal
             n == plan[w].events[1].batch
         IN  /\ r \in StateType /\ r.pend = state.pend \union {n} /\ BatchKey(w) = n
             /\ r.cur = [state.cur EXCEPT ![v.scope] = plan[w].snap]
             /\ r.tombs = {t \in state.tombs : t.scope # v.scope \/ t.key # v.key}
                             \union {[scope |-> v.scope, key |-> v.key, by |-> n]}
             /\ state.hist \subseteq r.hist
             /\ \A i \in 1..Len(state.batches) :
                  state.batches[i].result.snap # 0 /\ snaps[state.batches[i].result.snap].scope = v.scope
                    /\ snaps[state.batches[i].result.snap].ids \intersect v.removed # {}
                    => state.batches[i].batch \in r.hist
             /\ Entry(w) \in StoredType /\ Entry(w).batch = n /\ Entry(w).result = Result(w) /\ Result(w).snap = 0
             /\ Len(r.batches) = Len(state.batches) + 1
             /\ \A i \in 1..Len(r.batches) :
                  r.batches[i] = IF i <= Len(state.batches) THEN state.batches[i] ELSE Entry(w)
<1>. DEFINE e == Entry(w)
            old == state.batches
            new == Append(old, e)
            v == plan[w].withdrawal
            n == plan[w].events[1].batch
            r == Withdrawn(w)
            touched == {x \in Range(old) : /\ x.result.snap # 0 /\ snaps[x.result.snap].scope = v.scope
                                           /\ snaps[x.result.snap].ids \intersect v.removed # {}}
            H == {x.batch : x \in touched}
<1>1. /\ state \in StateType /\ old \in Seq(StoredType) /\ Len(old) \in Nat /\ plan[w] \in PlanType
      /\ DOMAIN old = 1..Len(old) /\ \A i \in 1..Len(old) : old[i] \in StoredType
  BY Results DEF Typed
<1>2. BatchKey(w) = n /\ n \in Nat /\ v.scope \in Scopes /\ v.key \in Keys /\ plan[w].verdict = "withdrawn"
  BY DEF BatchKey, Withdraws
<1>3. e \in StoredType /\ e.batch = n /\ e.result = Result(w) /\ Result(w).snap = 0
  BY <1>1, <1>2 DEF Entry, Result, StoredType, ResultType, PlanType, Names
<1>4. r = [state EXCEPT !.cur[v.scope] = plan[w].snap,
                        !.tombs = {t \in @ : t.scope # v.scope \/ t.key # v.key}
                                    \union {[scope |-> v.scope, key |-> v.key, by |-> n]},
                        !.pend = @ \union {n}, !.hist = @ \union H, !.batches = new]
  BY <1>2 DEF Withdrawn
<1>5. H \subseteq BatchIds
  <2>1. \A i \in 1..Len(old) : old[i].result.snap # 0 => old[i].batch \in BatchIds
    BY <1>1 DEF Tables, StateRows, StoredType, Names
  <2>. QED
    BY <1>1, <2>1 DEF Range
<1>6. \A i \in 1..Len(old) : old[i] \in touched => old[i].batch \in H
  OBVIOUS
<1>7. \A i \in 1..Len(old) : old[i] \in Range(old)
  BY <1>1 DEF Range
<1>8. /\ new \in Seq(StoredType) /\ Len(new) = Len(old) + 1 /\ new[Len(old) + 1] = e
      /\ \A i \in 1..Len(old) : new[i] = old[i]
  BY <1>1, <1>3, AppendProperties
<1>9. \A i \in 1..Len(new) : new[i] = IF i <= Len(old) THEN old[i] ELSE e
  BY <1>1, <1>8
<1>10. /\ [scope |-> v.scope, key |-> v.key, by |-> n] \in TombType /\ plan[w].snap \in Nat
       /\ state.cur \in [Scopes -> Nat] /\ state.tombs \subseteq TombType /\ state.pend \subseteq Nat
       /\ state.hist \subseteq BatchIds
  BY <1>1, <1>2 DEF TombType, PlanType, StateType
<1>11. \A i \in 1..Len(old) :
         old[i].result.snap # 0 /\ snaps[old[i].result.snap].scope = v.scope
           /\ snaps[old[i].result.snap].ids \intersect v.removed # {} => old[i].batch \in H
  BY <1>6, <1>7
<1>. HIDE DEF e, r, new, H, n, v
<1>12. /\ r.cur = [state.cur EXCEPT ![v.scope] = plan[w].snap] /\ r.pend = state.pend \union {n}
       /\ r.tombs = {t \in state.tombs : t.scope # v.scope \/ t.key # v.key}
                       \union {[scope |-> v.scope, key |-> v.key, by |-> n]}
       /\ r.hist = state.hist \union H /\ r.batches = new
       /\ r \in StateType
  <2>1. DOMAIN state = {"cur", "batches", "tombs", "pend", "hist"}
    BY <1>1 DEF StateType
  <2>2. /\ r.cur = [state.cur EXCEPT ![v.scope] = plan[w].snap] /\ r.pend = state.pend \union {n}
        /\ r.tombs = {t \in state.tombs : t.scope # v.scope \/ t.key # v.key}
                        \union {[scope |-> v.scope, key |-> v.key, by |-> n]}
        /\ r.hist = state.hist \union H /\ r.batches = new
    BY <1>4, <2>1
  <2>3. r = [cur |-> r.cur, batches |-> r.batches, tombs |-> r.tombs, pend |-> r.pend, hist |-> r.hist]
    BY <1>1, <1>4 DEF StateType
  <2>4. r.cur \in [Scopes -> Nat] /\ r.tombs \subseteq TombType /\ r.pend \subseteq Nat /\ r.hist \subseteq BatchIds
        /\ r.batches \in Seq(StoredType)
    BY <1>2, <1>5, <1>8, <1>10, <2>2
  <2>. QED
    BY <2>2, <2>3, <2>4 DEF StateType
<1>13. /\ r \in StateType /\ r.pend = state.pend \union {n} /\ BatchKey(w) = n
       /\ r.cur = [state.cur EXCEPT ![v.scope] = plan[w].snap]
       /\ r.tombs = {t \in state.tombs : t.scope # v.scope \/ t.key # v.key}
                       \union {[scope |-> v.scope, key |-> v.key, by |-> n]}
       /\ state.hist \subseteq r.hist
  BY <1>2, <1>12
<1>14. \A i \in 1..Len(state.batches) :
         state.batches[i].result.snap # 0 /\ snaps[state.batches[i].result.snap].scope = v.scope
           /\ snaps[state.batches[i].result.snap].ids \intersect v.removed # {}
           => state.batches[i].batch \in r.hist
  BY <1>11, <1>12
<1>15. /\ Len(r.batches) = Len(state.batches) + 1
       /\ \A i \in 1..Len(r.batches) : r.batches[i] = IF i <= Len(state.batches) THEN state.batches[i] ELSE e
  BY <1>8, <1>9, <1>12
<1>. QED
  BY <1>3, <1>13, <1>14, <1>15, Zenon DEF e, r, n, v

-----------------------------------------------------------------------------
(* Every step keeps the types *)

\* The values that stand for none have their types.
LEMMA NoneTyped == NoPlan \in PlanType /\ NoState \in StateType /\ NoOp \in OpType
<1>1. <<>> \in Seq(EventType) /\ <<>> \in Seq(StoredType)
  BY EmptySeq
<1>. QED
  BY <1>1 DEF NoPlan, PlanType, NoWithdrawal, WithdrawalType, NoState, StateType, OpType

\* A call in the critical section knows its operation.
LEMMA Knows ==
  ASSUME Typed, Calls, NEW w \in Callers, Inside(w)
  PROVE  /\ op[w] # NoOp /\ op[w].kind \in {"reconcile", "withdraw", "reinstate"}
         /\ op[w].kind = "reconcile" => op[w].batch \in BatchIds
         /\ op[w].kind = "withdraw" => op[w].claim \in Nat
         /\ op[w].kind = "reinstate" => op[w].scope \in Scopes /\ op[w].key \in Keys
         /\ mem[w] = state /\ lock = w /\ Call(w)
  BY OpIs DEF Calls, Call

\* The state after a commit.
LEMMA CommittedType ==
  ASSUME Typed, Tables, Calls, NEW w \in Callers, WriteState(w)
  PROVE  state' \in StateType
<1>1. pc[w] = "state" /\ Inside(w)
  BY DEF WriteState, Inside, Working
<1>2. Call(w) /\ op[w] # NoOp /\ mem[w] = state /\ op[w].kind \in {"reconcile", "withdraw", "reinstate"}
  BY <1>1, Knows
<1>3. CASE op[w].kind = "reconcile"
  <2>1. ~Stored(state, op[w].batch)
    BY <1>1, <1>2, <1>3 DEF Call, Reconciles
  <2>2. state' = Reconciled(w)
    BY <1>3 DEF WriteState
  <2>. QED
    BY <1>2, <1>3, <2>1, <2>2, ReconciledIs
<1>4. CASE op[w].kind = "withdraw"
  <2>1. Withdraws(w)
    BY <1>1, <1>2, <1>4 DEF Call
  <2>2. state' = Withdrawn(w)
    BY <1>4 DEF WriteState
  <2>. QED
    BY <1>1, <1>2, <1>4, <2>1, <2>2, WithdrawnIs
<1>5. CASE op[w].kind = "reinstate"
  BY <1>2, <1>5 DEF WriteState, Reinstated, Typed, StateType
<1>. QED
  BY <1>2, <1>3, <1>4, <1>5

\* The claims of a batch get their contents: those that exist keep their number, the others follow.
LEMMA NewClaims ==
  ASSUME Typed, Tables, NEW X \in SUBSET ClaimType, IsFiniteSet(X), made' = made \o SetToSeq(X \ Range(made))
  PROVE  /\ made' \in Seq(ClaimType) /\ Len(made') \in Nat /\ Len(made) <= Len(made')
         /\ \A i \in Claims : i \in 1..Len(made') /\ made'[i] = made[i]
         /\ \A i \in 1..Len(made') : i \notin Claims => made'[i] \in X /\ i > Len(made)
         /\ \A i, j \in 1..Len(made') : made'[i] = made'[j] => i = j
<1>. DEFINE Y == X \ Range(made)
            f == SetToSeq(Y)
            new == made \o f
<1>1. IsFiniteSet(Y)
  BY FS_Subset
<1>2. f \in Seq(Y) /\ \A i, j \in 1..Len(f) : f[i] = f[j] => i = j
  BY <1>1, AsSequence
<1>3. f \in Seq(ClaimType) /\ made \in Seq(ClaimType)
  <2>1. Y \subseteq ClaimType
    OBVIOUS
  <2>. QED
    BY <1>2, <2>1, SeqMonotonic DEF Typed
<1>. HIDE DEF f
<1>4. /\ new \in Seq(ClaimType) /\ Len(new) = Len(made) + Len(f)
      /\ \A i \in 1..Len(made) + Len(f) : new[i] = IF i <= Len(made) THEN made[i] ELSE f[i - Len(made)]
  BY <1>3, ConcatProperties
<1>5. Len(made) \in Nat /\ Len(f) \in Nat /\ Claims = 1..Len(made) /\ DOMAIN made = Claims
  BY <1>3, Rows, LenProperties DEF Claims
<1>. HIDE DEF new
<1>6. \A i \in Claims : i \in 1..Len(new) /\ new[i] = made[i]
  BY <1>4, <1>5
<1>7. \A i \in 1..Len(new) : i \notin Claims => /\ i - Len(made) \in 1..Len(f) /\ new[i] = f[i - Len(made)]
                                              /\ i > Len(made)
  BY <1>4, <1>5
<1>8. \A i \in 1..Len(f) : f[i] \in Y
  BY <1>2, ElementOfSeq
<1>9. \A i \in Claims : made[i] \in Range(made)
  BY <1>5 DEF Range
<1>10. \A i \in 1..Len(new) : i \notin Claims => new[i] \in Y
  BY <1>7, <1>8
<1>11. ASSUME NEW i \in 1..Len(new), NEW j \in 1..Len(new), new[i] = new[j] PROVE i = j
  <2>1. CASE i \in Claims /\ j \in Claims
    BY <1>6, <1>11, <2>1 DEF Tables, Contents, SnapshotRows, StateRows
  <2>2. CASE i \notin Claims /\ j \notin Claims
    <3>1. i - Len(made) = j - Len(made)
      BY <1>2, <1>7, <1>11, <2>2
    <3>. QED
      BY <1>4, <1>5, <3>1
  <2>3. CASE i \in Claims /\ j \notin Claims
    BY <1>6, <1>9, <1>10, <1>11, <2>3
  <2>4. CASE i \notin Claims /\ j \in Claims
    BY <1>6, <1>9, <1>10, <1>11, <2>4
  <2>. QED
    BY <2>1, <2>2, <2>3, <2>4
<1>12. /\ new \in Seq(ClaimType) /\ Len(new) \in Nat /\ Len(made) <= Len(new)
       /\ \A i \in Claims : i \in 1..Len(new) /\ new[i] = made[i]
       /\ \A i \in 1..Len(new) : i \notin Claims => new[i] \in X /\ i > Len(made)
       /\ \A i, j \in 1..Len(new) : new[i] = new[j] => i = j
  BY <1>4, <1>5, <1>6, <1>7, <1>10, <1>11
<1>13. made' = new
  BY DEF new, f
<1>. QED
  BY <1>12, <1>13

\* The plan of an accepted batch.
LEMMA AcceptIs ==
  ASSUME Typed, Tables, Calls, NEW w \in Callers, Accept(w)
  PROVE  LET b == op[w].batch
             s == Content[b].scope
             p == plan'[w]
             new == {k \in DOMAIN Content[b].claims : ~Duplicate(state, b, k)}
         IN  /\ made' \in Seq(ClaimType) /\ Len(made') \in Nat /\ Len(made) <= Len(made')
             /\ \A i \in Claims : i \in 1..Len(made') /\ made'[i] = made[i]
             /\ \A i \in 1..Len(made') : i \notin Claims => made'[i].sup \in 0..(i - 1)
             /\ \A i, j \in 1..Len(made') : made'[i] = made'[j] => i = j
             /\ p \in PlanType /\ p.verdict = "clean" /\ p.withdrawal = NoWithdrawal
             /\ p.write \subseteq 1..Len(made')
             /\ p.ids = (Ids(state, s) \ {CurrentId(state, s, k) : k \in new}) \union p.write
             /\ \A i \in p.write : /\ made'[i].key \in new /\ made'[i].val = Content[b].claims[made'[i].key]
                                   /\ \A j \in p.write : made'[j].key = made'[i].key => j = i
             /\ \A v \in Callers \ {w} : plan'[v] = plan[v]
<1>. DEFINE b == op[w].batch
            s == Content[b].scope
            new == {k \in DOMAIN Content[b].claims : ~Duplicate(state, b, k)}
            G(k) == [key |-> k, val |-> Content[b].claims[k], at |-> now', sup |-> CurrentId(state, s, k)]
            X == {G(k) : k \in new}
            ids == {i \in 1..Len(made') : made'[i] \in X}
<1>1. b \in BatchIds /\ mem[w] = state
  BY Knows DEF Accept, Reconciling, Inside, Working
<1>2. /\ s \in Scopes /\ DOMAIN Content[b].claims \subseteq Keys /\ IsFiniteSet(DOMAIN Content[b].claims)
      /\ \A k \in DOMAIN Content[b].claims : Content[b].claims[k] \in Values
  BY <1>1, ContentAssumption
<1>3. now' \in Nat
  <2>1. now' \in {now, now + 1}
    BY DEF Accept
  <2>. QED
    BY <2>1 DEF Typed
<1>4. \A k : CurrentId(state, s, k) \in {0} \union Claims
  BY <1>2, CurrentClaim
<1>5. X \subseteq ClaimType
  <2>. SUFFICES ASSUME NEW k \in new PROVE G(k) \in ClaimType
    OBVIOUS
  <2>1. CurrentId(state, s, k) \in Nat
    BY <1>4 DEF Claims
  <2>. QED
    BY <1>2, <1>3, <2>1 DEF ClaimType
<1>6. IsFiniteSet(X)
  <2>1. IsFiniteSet(new)
    BY <1>2, FS_Subset
  <2>. DEFINE g == [k \in new |-> G(k)]
  <2>2. g \in Surjection(new, X)
    BY DEF Surjection
  <2>. QED
    BY <2>1, <2>2, FS_Surjection
<1>7. /\ made' = made \o SetToSeq(X \ Range(made))
      /\ plan' = [plan EXCEPT ![w] = [NoPlan EXCEPT !.verdict = "clean", !.write = ids,
                     !.ids = (Ids(state, s) \ {CurrentId(state, s, k) : k \in new}) \union ids]]
  <2>1. made' = made \o SetToSeq(X \ Range(made))
    BY <1>1 DEF Accept
  <2>2. plan' = [plan EXCEPT ![w] = [NoPlan EXCEPT !.verdict = "clean", !.write = ids,
                   !.ids = (Ids(state, s) \ {CurrentId(state, s, k) : k \in new}) \union ids]]
    BY <1>1, ZenonT(60) DEF Accept
  <2>. QED
    BY <2>1, <2>2
<1>8. /\ made' \in Seq(ClaimType) /\ Len(made') \in Nat /\ Len(made) <= Len(made')
      /\ \A i \in Claims : i \in 1..Len(made') /\ made'[i] = made[i]
      /\ \A i \in 1..Len(made') : i \notin Claims => made'[i] \in X /\ i > Len(made)
      /\ \A i, j \in 1..Len(made') : made'[i] = made'[j] => i = j
  <2>. HIDE DEF X
  <2>. QED
    BY <1>5, <1>6, <1>7, NewClaims
<1>9. \A x \in X : x.key \in new /\ x = G(x.key) /\ x.sup \in {0} \union Claims /\ x.val = Content[b].claims[x.key]
  BY <1>4
<1>10. \A i \in 1..Len(made') : i \notin Claims => made'[i].sup \in 0..(i - 1)
  BY <1>8, <1>9, Rows DEF Claims
<1>11. /\ plan[w] \in PlanType /\ plan \in [Callers -> PlanType] /\ Ids(state, s) \subseteq Nat /\ ids \subseteq Nat
  BY <1>2, ListedIds DEF Typed, Claims
<1>12. /\ plan'[w].write = ids
       /\ plan'[w].ids = (Ids(state, s) \ {CurrentId(state, s, k) : k \in new}) \union ids
       /\ plan'[w].verdict = "clean" /\ plan'[w].withdrawal = NoWithdrawal /\ plan'[w] \in PlanType
       /\ \A v \in Callers \ {w} : plan'[v] = plan[v]
  <2>. HIDE DEF ids, new
  <2>. QED
    BY <1>7, <1>11, NoneTyped DEF PlanType, NoPlan
<1>13. \A i \in ids : /\ made'[i].key \in new /\ made'[i].val = Content[b].claims[made'[i].key]
                      /\ \A j \in ids : made'[j].key = made'[i].key => j = i
  <2>. HIDE DEF X
  <2>. QED
    BY <1>8, <1>9
<1>. QED
  BY <1>8, <1>10, <1>12, <1>13

\* The events of an accepted batch.
LEMMA SnapshotPlan ==
  ASSUME Typed, Tables, Calls, NEW w \in Callers, WriteSnapshot(w)
  PROVE  LET b == op[w].batch
             s == Content[b].scope
             p == plan'[w]
             accepted == plan[w].ids \ Ids(state, s)
         IN  /\ op[w].kind = "reconcile" /\ b \in BatchIds /\ s \in Scopes
             /\ p \in PlanType /\ plan' = [plan EXCEPT ![w] = p]
             /\ p.verdict = plan[w].verdict /\ p.snap = Len(snaps) + 1 /\ p.withdrawal = plan[w].withdrawal
             /\ p.events # <<>> /\ Len(p.events) \in Nat
             /\ \A i \in 1..Len(p.events) :
                  p.events[i].batch = b /\ \A j \in 1..Len(p.events) : p.events[i] = p.events[j] => i = j
<1>. DEFINE b == op[w].batch
            s == Content[b].scope
            n == Len(snaps) + 1
            A == plan[w].ids \ Ids(mem[w], s)
            f == SetToSeq(A)
            m == Len(f)
            first == [i \in 1..m |-> Event(b, "accepted", f[i])]
            last == Event(b, "published", n)
            events == Append(first, last)
<1>1. op[w].kind = "reconcile" /\ Inside(w) /\ Accepting(w) /\ mem[w] = state
  BY DEF WriteSnapshot, Inside, Working, Calls, Call
<1>2. b \in BatchIds /\ s \in Scopes /\ plan[w] \in PlanType /\ Len(snaps) \in Nat
  BY <1>1, Knows, ContentAssumption, Rows DEF Typed
<1>3. IsFiniteSet(A) /\ A \subseteq Nat
  <2>1. plan[w].ids \subseteq 1..Len(made) /\ Len(made) \in Nat
    BY <1>1, Rows DEF Accepting, Claims
  <2>2. IsFiniteSet(1..Len(made))
    BY <2>1, FS_Interval
  <2>. QED
    BY <2>1, <2>2, FS_Subset
<1>4. f \in Seq(A) /\ \A i, j \in 1..m : f[i] = f[j] => i = j
  BY <1>3, AsSequence
<1>. HIDE DEF f
<1>5. m \in Nat /\ \A i \in 1..m : f[i] \in Nat
  BY <1>3, <1>4, LenProperties, ElementOfSeq
<1>. HIDE DEF m
<1>6. /\ first \in Seq(EventType) /\ Len(first) = m /\ last \in EventType
      /\ \A i \in 1..m : first[i] = Event(b, "accepted", f[i])
  <2>1. \A i \in 1..m : Event(b, "accepted", f[i]) \in EventType
    BY <1>2, <1>5 DEF Event, EventType, Names
  <2>2. last \in EventType
    BY <1>2 DEF Event, EventType, Names
  <2>3. first \in Seq(EventType) /\ Len(first) = m
    BY <1>5, <2>1, IsASeq
  <2>. QED
    BY <2>2, <2>3
<1>. HIDE DEF first
<1>7. /\ events \in Seq(EventType) /\ Len(events) = m + 1 /\ events[m + 1] = last
      /\ \A i \in 1..m : events[i] = Event(b, "accepted", f[i])
  BY <1>5, <1>6, AppendProperties
<1>8. plan' = [plan EXCEPT ![w] = [plan[w] EXCEPT !.snap = n, !.events = events]]
  <2>1. plan' = [plan EXCEPT ![w].snap = n, ![w].events = events]
    BY DEF WriteSnapshot, f, first, m
  <2>. HIDE DEF events, n
  <2>. QED
    BY <1>2, <2>1 DEF Typed, PlanType
<1>. HIDE DEF events, last
<1>9. plan'[w] = [plan[w] EXCEPT !.snap = n, !.events = events]
  BY <1>8 DEF Typed
<1>10. /\ plan'[w] \in PlanType /\ plan'[w].snap = n /\ plan'[w].events = events
       /\ plan'[w].verdict = plan[w].verdict /\ plan'[w].withdrawal = plan[w].withdrawal
  <2>1. n \in Nat /\ events \in Seq(EventType) /\ plan[w] \in PlanType
    BY <1>2, <1>7
  <2>. HIDE DEF n
  <2>. QED
    BY <1>9, <2>1 DEF PlanType
<1>. HIDE DEF b
<1>11. \A i \in 1..m + 1 : events[i].batch = b
  <2>. TAKE i \in 1..m + 1
  <2>1. CASE i \in 1..m
    <3>1. events[i] = Event(b, "accepted", f[i])
      BY <1>7, <2>1
    <3>. QED
      BY <3>1 DEF Event
  <2>2. CASE i = m + 1
    <3>1. events[i] = Event(b, "published", n)
      BY <1>7, <2>2 DEF last
    <3>. QED
      BY <3>1 DEF Event
  <2>. QED
    BY <1>5, <2>1, <2>2
<1>12. ASSUME NEW i \in 1..m + 1, NEW j \in 1..m + 1, events[i] = events[j] PROVE i = j
  <2>1. \A k \in 1..m : events[k].kind = "accepted" /\ events[k].ref = f[k]
    <3>. TAKE k \in 1..m
    <3>1. events[k] = Event(b, "accepted", f[k])
      BY <1>7
    <3>. QED
      BY <3>1 DEF Event
  <2>2. events[m + 1].kind = "published"
    BY <1>7 DEF Event, last
  <2>3. \A k \in 1..m + 1 : k \in 1..m \/ k = m + 1
    BY <1>5
  <2>. QED
    BY <1>4, <1>12, <2>1, <2>2, <2>3
<1>13. events # <<>>
  BY <1>5, <1>7
<1>. QED
  <2>1. /\ plan'[w].events # <<>> /\ Len(plan'[w].events) \in Nat
        /\ \A i \in 1..Len(plan'[w].events) :
             /\ plan'[w].events[i].batch = b
             /\ \A j \in 1..Len(plan'[w].events) : plan'[w].events[i] = plan'[w].events[j] => i = j
    <3>1. Len(events) = m + 1 /\ m + 1 \in Nat
      BY <1>5, <1>7
    <3>. QED
      BY <1>10, <1>11, <1>12, <1>13, <3>1
  <2>2. plan' = [plan EXCEPT ![w] = plan'[w]]
    BY <1>8, <1>9
  <2>. QED
    BY <1>1, <1>2, <1>10, <2>1, <2>2, Zenon DEF b, n

\* The plan of a withdrawal.
LEMMA PreparedPlan ==
  ASSUME Typed, Tables, Calls, NEW w \in Callers, PrepareWithdrawal(w)
  PROVE  LET i == op[w].claim
             p == plan'[w]
             v == p.withdrawal
             by == Len(manifests) + 1
         IN  /\ mem[w] = state /\ i \in Claims /\ by \in Nat
             /\ \E s \in Scopes :
                  LET left == Ids(state, s) \ {i}
                      removed == Chain(i) \union {j \in claimFiles : made[j].key = made[i].key /\ OwnedBy(s, j)}
                      kept == left \union UNION {Ids(state, t) : t \in Scopes \ {s}}
                  IN  /\ i \in Ids(state, s)
                      /\ snaps' = IF left = {} THEN snaps
                                  ELSE Append(snaps, [scope |-> s, base |-> state.cur[s], ids |-> left])
                      /\ p.snap = IF left = {} THEN 0 ELSE Len(snaps) + 1
                      /\ v = [claim |-> i, scope |-> s, key |-> made[i].key, files |-> removed \ kept,
                              reviews |-> {r \in reviews : r.scope = s /\ made[i].key \in r.keys},
                              removed |-> removed]
                      /\ made[i].key \in Keys /\ [scope |-> s, base |-> state.cur[s], ids |-> left] \in SnapshotType
             /\ snaps' \in Seq(SnapshotType)
             /\ p \in PlanType /\ plan' = [plan EXCEPT ![w] = p] /\ p.verdict = "withdrawn"
             /\ p.events # <<>> /\ Len(p.events) \in Nat
             /\ \A a \in 1..Len(p.events) :
                  p.events[a].batch = by /\ \A c \in 1..Len(p.events) : p.events[a] = p.events[c] => a = c
<1>. DEFINE i == op[w].claim
            k == made[i].key
            by == Len(manifests) + 1
<1>1. mem[w] = state /\ i \in Nat
  BY Knows DEF PrepareWithdrawal, Withdrawing, Inside, Working
<1>. DEFINE P(m, s) ==
       LET left == Ids(m, s) \ {i}
           removed == Chain(i) \union {j \in claimFiles : made[j].key = k /\ OwnedBy(s, j)}
           kept == left \union UNION {Ids(m, t) : t \in Scopes \ {s}}
           n == IF left = {} THEN 0 ELSE Len(snaps) + 1
       IN
       /\ i \in Ids(m, s)
       /\ snaps' = IF left = {} THEN snaps
                   ELSE Append(snaps, [scope |-> s, base |-> m.cur[s], ids |-> left])
       /\ plan' = [plan EXCEPT ![w] = [NoPlan EXCEPT
            !.verdict = "withdrawn", !.snap = n,
            !.events = (IF n = 0 THEN <<>> ELSE <<Event(by, "published", n)>>)
                         \o <<Event(by, "superseded", i)>>,
            !.withdrawal = [claim |-> i, scope |-> s, key |-> k, files |-> removed \ kept,
                            reviews |-> {r \in reviews : r.scope = s /\ k \in r.keys},
                            removed |-> removed]]]
<1>2. PICK s \in Scopes : P(state, s)
  <2>1. \E s \in Scopes : P(mem[w], s)
    BY DEF PrepareWithdrawal
  <2>. HIDE DEF P
  <2>. QED
    BY <1>1, <2>1
<1>. DEFINE left == Ids(state, s) \ {i}
            removed == Chain(i) \union {j \in claimFiles : made[j].key = k /\ OwnedBy(s, j)}
            kept == left \union UNION {Ids(state, t) : t \in Scopes \ {s}}
            n == IF left = {} THEN 0 ELSE Len(snaps) + 1
            events == (IF n = 0 THEN <<>> ELSE <<Event(by, "published", n)>>) \o <<Event(by, "superseded", i)>>
            v == [claim |-> i, scope |-> s, key |-> k, files |-> removed \ kept,
                  reviews |-> {r \in reviews : r.scope = s /\ k \in r.keys}, removed |-> removed]
            row == [scope |-> s, base |-> state.cur[s], ids |-> left]
            p == [NoPlan EXCEPT !.verdict = "withdrawn", !.snap = n, !.events = events, !.withdrawal = v]
<1>3. /\ i \in Ids(state, s) /\ plan' = [plan EXCEPT ![w] = p]
      /\ snaps' = IF left = {} THEN snaps ELSE Append(snaps, row)
  BY <1>2, Zenon
<1>4. i \in Claims /\ Ids(state, s) \subseteq Claims /\ k \in Keys /\ state.cur[s] \in Nat /\ Claims \subseteq Nat
  BY <1>3, ListedIds, Rows DEF ClaimType, Claims
<1>5. Len(snaps) \in Nat /\ by \in Nat /\ snaps \in Seq(SnapshotType) /\ n \in Nat
  BY Rows DEF Typed
<1>6. row \in SnapshotType
  BY <1>4 DEF SnapshotType
<1>7. snaps' \in Seq(SnapshotType)
  BY <1>3, <1>5, <1>6, AppendProperties
<1>8. removed \subseteq Nat
  <2>1. claimFiles \subseteq Nat
    BY <1>4 DEF Tables
  <2>. QED
    BY <2>1, ChainOnDisk
<1>9. v \in WithdrawalType
  <2>1. {r \in reviews : r.scope = s /\ k \in r.keys} \subseteq ReviewType
    BY DEF Typed
  <2>2. removed \ kept \subseteq Nat
    BY <1>8
  <2>. HIDE DEF removed, kept, k
  <2>. QED
    BY <1>1, <1>4, <1>8, <2>1, <2>2 DEF WithdrawalType
<1>. HIDE DEF v, row, by, removed, kept, left
<1>10. Event(by, "published", n) \in EventType /\ Event(by, "superseded", i) \in EventType
       /\ Event(by, "published", n) # Event(by, "superseded", i)
       /\ Event(by, "published", n).batch = by /\ Event(by, "superseded", i).batch = by
  BY <1>1, <1>5 DEF Event, EventType, Names
<1>11. /\ events \in Seq(EventType) /\ events # <<>> /\ Len(events) \in Nat
       /\ \A a \in 1..Len(events) :
            events[a].batch = by /\ \A c \in 1..Len(events) : events[a] = events[c] => a = c
  <2>. DEFINE x == Event(by, "published", n)
              y == Event(by, "superseded", i)
  <2>1. x \in EventType /\ y \in EventType /\ x # y /\ x.batch = by /\ y.batch = by
    BY <1>10
  <2>2. events = <<y>> \/ events = <<x, y>>
    <3>. HIDE DEF x, y, events, n
    <3>1. CASE n = 0
      <4>1. events = <<>> \o <<y>>
        BY <3>1 DEF x, y, events
      <4>. QED
        BY <2>1, <4>1, ConcatEmptySeq
    <3>2. CASE n # 0
      <4>1. events = <<x>> \o <<y>>
        BY <3>2 DEF x, y, events
      <4>2. <<x>> \in Seq(EventType) /\ <<y>> \in Seq(EventType) /\ <<x, y>> \in Seq(EventType)
        BY <2>1
      <4>3. /\ events \in Seq(EventType) /\ Len(events) = 2
            /\ \A a \in 1..2 : events[a] = IF a <= 1 THEN x ELSE y
        BY <4>1, <4>2, ConcatProperties
      <4>. QED
        BY <4>2, <4>3, SeqEqual
    <3>. QED
      BY <3>1, <3>2
  <2>. HIDE DEF x, y, events
  <2>3. CASE events = <<y>>
    BY <2>1, <2>3
  <2>4. CASE events = <<x, y>>
    BY <2>1, <2>4
  <2>. QED
    BY <2>2, <2>3, <2>4
<1>. HIDE DEF events, n
<1>12. plan'[w] = p /\ plan' = [plan EXCEPT ![w] = plan'[w]]
  BY <1>3 DEF Typed
<1>13. p \in PlanType /\ p.verdict = "withdrawn" /\ p.snap = n /\ p.events = events /\ p.withdrawal = v
  BY <1>5, <1>9, <1>11, NoneTyped DEF PlanType, NoPlan
<1>. HIDE DEF p, k
<1>. QED
  <2>1. /\ i \in Ids(state, s) /\ plan'[w].snap = n /\ plan'[w].withdrawal = v /\ row \in SnapshotType
        /\ snaps' = IF left = {} THEN snaps ELSE Append(snaps, row)
    BY <1>3, <1>6, <1>12, <1>13
  <2>2. \E t \in Scopes :
          LET l == Ids(state, t) \ {i}
              rem == Chain(i) \union {j \in claimFiles : made[j].key = made[i].key /\ OwnedBy(t, j)}
              kp == l \union UNION {Ids(state, x) : x \in Scopes \ {t}}
          IN  /\ i \in Ids(state, t)
              /\ snaps' = IF l = {} THEN snaps
                          ELSE Append(snaps, [scope |-> t, base |-> state.cur[t], ids |-> l])
              /\ plan'[w].snap = IF l = {} THEN 0 ELSE Len(snaps) + 1
              /\ plan'[w].withdrawal = [claim |-> i, scope |-> t, key |-> made[i].key, files |-> rem \ kp,
                      reviews |-> {r \in reviews : r.scope = t /\ made[i].key \in r.keys}, removed |-> rem]
              /\ made[i].key \in Keys /\ [scope |-> t, base |-> state.cur[t], ids |-> l] \in SnapshotType
    <3>. WITNESS s \in Scopes
    <3>. QED
      BY <1>4, <2>1, Zenon DEF v, row, n, by, removed, kept, left, k
  <2>3. /\ plan'[w] \in PlanType /\ plan'[w].verdict = "withdrawn" /\ plan'[w].events = events
        /\ plan' = [plan EXCEPT ![w] = plan'[w]]
    BY <1>12, <1>13
  <2>. QED
    BY <1>1, <1>4, <1>5, <1>7, <1>11, <2>2, <2>3, Zenon DEF by

\* Every step keeps the types.
LEMMA TypedStep ==
  ASSUME Sound, [Next]_vars
  PROVE  Typed'
<1>. USE DEF files, history
<1>. Typed /\ Tables /\ Calls
  BY DEF Sound
<1>1. ASSUME NEW b \in BatchIds, Draft(b) PROVE Typed'
  BY <1>1 DEF Draft, Typed
<1>2. ASSUME NEW w \in Callers, Start(w) PROVE Typed'
  <2>1. PICK o \in OpType : Begin(w, o)
    <3>1. CASE \E b \in BatchIds : Reconcile(w, b)
      BY <3>1 DEF Reconcile, OpType
    <3>2. CASE \E i \in 1..Len(made) : Withdraw(w, i)
      BY <3>2 DEF Withdraw, OpType
    <3>3. CASE \E s \in Scopes, k \in Keys : Reinstate(w, s, k)
      BY <3>3 DEF Reinstate, OpType
    <3>. QED
      BY <1>2, <3>1, <3>2, <3>3 DEF Start
  <2>. QED
    BY <2>1 DEF Begin, Typed, Labels
<1>3. ASSUME NEW w \in Callers, Acquire(w) PROVE Typed'
  BY <1>3 DEF Acquire, To, Typed, Labels, Working
<1>4. ASSUME NEW w \in Callers, JudgeStale(w) PROVE Typed'
  BY <1>4 DEF JudgeStale, To, Typed, Labels
<1>5. ASSUME NEW w \in Callers, Reclaim(w) PROVE Typed'
  BY <1>5 DEF Reclaim, To, Typed, Labels
<1>6. ASSUME NEW w \in Callers, TimeOut(w) \/ Release(w) \/ Crash(w) PROVE Typed'
  <2>1. To(w, "idle") /\ End(w)
    BY <1>6 DEF TimeOut, Release, Crash
  <2>2. lock' \in Callers \union {Free, Dead}
    BY <1>6 DEF TimeOut, Release, Crash, Typed
  <2>3. UNCHANGED <<state, files, log, rd, now, commits, withdrawn>>
    BY <1>6 DEF TimeOut, Release, Crash
  <2>. QED
    BY <2>1, <2>2, <2>3, EndType, ToType DEF Typed, Labels
<1>7. ASSUME NEW w \in Callers, ResumeDelete(w) PROVE Typed'
  BY <1>7 DEF ResumeDelete, Typed
<1>8. ASSUME NEW w \in Callers, ResumeReview(w) PROVE Typed'
  <2>1. PICK n \in mem[w].pend : \E r \in LeftoverReviews(n) :
          reviews' = (reviews \ {r}) \union {[r EXCEPT !.keys = @ \ {manifests[n].key}]}
    BY <1>8 DEF ResumeReview
  <2>2. PICK r \in reviews : reviews' = (reviews \ {r}) \union {[r EXCEPT !.keys = @ \ {manifests[n].key}]}
    BY <2>1 DEF LeftoverReviews
  <2>3. r \in ReviewType
    BY DEF Typed
  <2>4. [r EXCEPT !.keys = @ \ {manifests[n].key}] \in ReviewType
    BY <2>3 DEF ReviewType
  <2>5. reviews' \subseteq ReviewType
    BY <2>2, <2>4 DEF Typed
  <2>. QED
    BY <1>8, <2>5 DEF ResumeReview, Typed
<1>9. ASSUME NEW w \in Callers, ResumeFinish(w) PROVE Typed'
  <2>1. PICK n : state' = [mem[w] EXCEPT !.pend = @ \ {n}]
    BY <1>9 DEF ResumeFinish
  <2>2. mem[w] \in StateType
    BY DEF Typed
  <2>3. state' \in StateType
    BY <2>1, <2>2 DEF StateType
  <2>. QED
    BY <1>9, <2>3 DEF ResumeFinish, Typed
<1>10. ASSUME NEW w \in Callers, NEW label, To(w, label), label = After(w),
              pc[w] \in {"resume1", "resume2", "sync1", "sync2", "deliver1", "deliver2", "state"}
       PROVE  pc' \in [Callers -> Labels]
  <2>1. op[w].kind \in {"reconcile", "withdraw", "reinstate"}
    BY <1>10, Knows DEF Inside, Working
  <2>2. After(w) \in Labels
    BY <1>10, <2>1, AfterIs DEF Labels, Working
  <2>. QED
    BY <1>10, <2>2, ToType
<1>11. ASSUME NEW w \in Callers, Resumed(w) \/ SyncRegistry(w) \/ Delivered(w) PROVE Typed'
  <2>1. pc' \in [Callers -> Labels]
    BY <1>10, <1>11 DEF Resumed, SyncRegistry, Delivered, Delivering
  <2>. QED
    BY <1>11, <2>1 DEF Resumed, SyncRegistry, Delivered, Typed
<1>12. ASSUME NEW w \in Callers, DeliverEvent(w) PROVE Typed'
  <2>1. PICK e \in outbox : \E i \in 1..Len(e.events) : log' = Append(log, e.events[i])
    BY <1>12 DEF DeliverEvent, Undelivered
  <2>2. e.events \in Seq(EventType)
    BY DEF Typed, EntryType
  <2>3. log' \in Seq(EventType)
    BY <2>1, <2>2, ElementOfSeq, AppendProperties DEF Typed
  <2>. QED
    BY <1>12, <2>3 DEF DeliverEvent, Typed
<1>13. ASSUME NEW w \in Callers, DeliverFails(w) \/ Refuse(w) \/ WithdrawUnknown(w) PROVE Typed'
  BY <1>13 DEF DeliverFails, Refuse, WithdrawUnknown, To, Typed, Labels, Working
<1>14. ASSUME NEW w \in Callers, WriteReceipt(w) PROVE Typed'
  BY <1>14 DEF WriteReceipt, Undelivered, Typed, EntryType
<1>15. ASSUME NEW w \in Callers, Replay(w) \/ WithdrawAgain(w) \/ DecideReinstate(w) PROVE Typed'
  BY <1>15 DEF Replay, WithdrawAgain, DecideReinstate, To, Typed, Labels, Working
<1>16. ASSUME NEW w \in Callers, Reject(w) PROVE Typed'
  <2>1. op[w].batch \in BatchIds /\ mem[w] \in StateType
    BY <1>16, Knows DEF Reject, Reconciling, Inside, Working, Typed
  <2>2. Content[op[w].batch].scope \in Scopes /\ DOMAIN Content[op[w].batch].claims \subseteq Keys
    BY <2>1, ContentAssumption
  <2>3. [NoPlan EXCEPT !.verdict = Verdict(mem[w], op[w].batch), !.snap = mem[w].cur[Content[op[w].batch].scope]]
          \in PlanType
    BY <2>1, <2>2, NoneTyped DEF Verdict, PlanType, StateType
  <2>4. plan' \in [Callers -> PlanType]
    BY <1>16, <2>3 DEF Reject, Typed
  <2>5. reviews' \subseteq ReviewType
    BY <1>16, <2>2 DEF Reject, Typed, ReviewType
  <2>6. pc' \in [Callers -> Labels]
    BY <1>16, ToType DEF Reject, Labels, Working
  <2>. QED
    BY <1>16, <2>4, <2>5, <2>6 DEF Reject, Typed
<1>17. ASSUME NEW w \in Callers, AcceptNothing(w) PROVE Typed'
  <2>1. op[w].batch \in BatchIds /\ mem[w] \in StateType
    BY <1>17, Knows DEF AcceptNothing, Reconciling, Inside, Working, Typed
  <2>2. Content[op[w].batch].scope \in Scopes
    BY <2>1, ContentAssumption
  <2>3. [NoPlan EXCEPT !.verdict = "clean", !.snap = mem[w].cur[Content[op[w].batch].scope]] \in PlanType
    BY <2>1, <2>2, NoneTyped DEF PlanType, StateType
  <2>. QED
    BY <1>17, <2>3 DEF AcceptNothing, To, Typed, Labels, Working
<1>18. ASSUME NEW w \in Callers, Accept(w) PROVE Typed'
  <2>1. made' \in Seq(ClaimType) /\ plan'[w] \in PlanType /\ \A v \in Callers \ {w} : plan'[v] = plan[v]
    BY <1>18, AcceptIs, Zenon
  <2>2. plan' = [plan EXCEPT ![w] = plan'[w]] /\ now' \in {now, now + 1}
    BY <1>18 DEF Accept, Typed
  <2>3. plan' \in [Callers -> PlanType] /\ now' \in Nat
    BY <2>1, <2>2 DEF Typed
  <2>. QED
    BY <1>18, <2>1, <2>3 DEF Accept, To, Typed, Labels, Working
<1>19. ASSUME NEW w \in Callers, WriteClaim(w) PROVE Typed'
  <2>1. PICK i \in plan[w].write : plan' = [plan EXCEPT ![w].write = @ \ {i}]
    BY <1>19 DEF WriteClaim
  <2>2. plan[w] \in PlanType
    BY DEF Typed
  <2>3. [plan[w] EXCEPT !.write = @ \ {i}] \in PlanType
    BY <2>2 DEF PlanType
  <2>4. plan' = [plan EXCEPT ![w] = [plan[w] EXCEPT !.write = @ \ {i}]]
    BY <2>1
  <2>5. plan' \in [Callers -> PlanType]
    BY <2>3, <2>4 DEF Typed
  <2>. QED
    BY <1>19, <2>5 DEF WriteClaim, Typed
<1>20. ASSUME NEW w \in Callers, WriteSnapshot(w) PROVE Typed'
  <2>. DEFINE b == op[w].batch
              s == Content[b].scope
              n == Len(snaps) + 1
              row == [scope |-> s, base |-> mem[w].cur[s], ids |-> plan[w].ids]
  <2>1. b \in BatchIds /\ mem[w] \in StateType /\ plan[w] \in PlanType /\ s \in Scopes /\ Len(snaps) \in Nat
    <3>1. op[w].kind = "reconcile" /\ Inside(w)
      BY <1>20 DEF WriteSnapshot, Inside, Working, Calls, Call
    <3>. QED
      BY <3>1, Knows, ContentAssumption, Rows DEF Typed
  <2>2. row \in SnapshotType
    BY <2>1 DEF StateType, PlanType, SnapshotType
  <2>3. snaps' \in Seq(SnapshotType)
    BY <1>20, <2>2, AppendProperties DEF WriteSnapshot, Typed
  <2>4. plan' = [plan EXCEPT ![w] = plan'[w]] /\ plan'[w] \in PlanType
    BY <1>20, <2>1, SnapshotPlan
  <2>5. plan' \in [Callers -> PlanType]
    BY <2>4 DEF Typed
  <2>. QED
    BY <1>20, <2>3, <2>5 DEF WriteSnapshot, To, Typed, Labels, Working
<1>21. ASSUME NEW w \in Callers, PrepareWithdrawal(w) PROVE Typed'
  <2>1. snaps' \in Seq(SnapshotType) /\ plan'[w] \in PlanType /\ plan' = [plan EXCEPT ![w] = plan'[w]]
    BY <1>21, PreparedPlan, Zenon
  <2>2. plan' \in [Callers -> PlanType]
    BY <2>1 DEF Typed
  <2>. QED
    BY <1>21, <2>1, <2>2 DEF PrepareWithdrawal, To, Typed, Labels, Working
<1>22. ASSUME NEW w \in Callers, WriteManifest(w) PROVE Typed'
  <2>1. plan[w].withdrawal \in WithdrawalType
    BY DEF Typed, PlanType
  <2>2. manifests' \in Seq(WithdrawalType)
    BY <1>22, <2>1, AppendProperties DEF WriteManifest, Typed
  <2>. QED
    BY <1>22, <2>2 DEF WriteManifest, To, Typed, Labels, Working
<1>23. ASSUME NEW w \in Callers, WriteOutbox(w) PROVE Typed'
  <2>1. plan[w] \in PlanType
    BY DEF Typed
  <2>2. BatchKey(w) \in Names /\ Result(w) \in ResultType
    <3>1. Inside(w) /\ Call(w) /\ op[w].kind \in {"reconcile", "withdraw"}
      BY <1>23, Knows DEF WriteOutbox, Inside, Working, Call
    <3>2. op[w].kind = "reconcile" => op[w].batch \in BatchIds
      BY <3>1, Knows
    <3>3. op[w].kind = "withdraw" => plan[w].events[1].batch \in Nat
      BY <1>23, <3>1 DEF WriteOutbox, Call, Withdraws
    <3>. QED
      BY <2>1, <3>1, <3>2, <3>3 DEF BatchKey, Names, Result, ResultType, PlanType
  <2>3. [batch |-> BatchKey(w), result |-> Result(w), events |-> plan[w].events] \in EntryType
    BY <2>1, <2>2 DEF EntryType, PlanType
  <2>4. outbox' \subseteq EntryType
    BY <1>23, <2>3 DEF WriteOutbox, Typed
  <2>. QED
    BY <1>23, <2>4 DEF WriteOutbox, To, Typed, Labels, Working
<1>24. ASSUME NEW w \in Callers, WriteState(w) PROVE Typed'
  <2>. DEFINE v == plan[w].withdrawal
              listed == {x \in Scopes \X (1..Len(made)) : x[2] \in Ids(state', x[1])}
  <2>1. state' \in StateType
    BY <1>24, CommittedType
  <2>2. mem' \in [Callers -> StateType]
    BY <1>24, <2>1 DEF WriteState, Typed
  <2>3. plan[w] \in PlanType
    BY DEF Typed
  <2>4. commits' \in Seq(EventType)
    BY <1>24, <2>3, ConcatProperties DEF WriteState, Typed, PlanType
  <2>5. {v.scope} \X v.removed \subseteq (Scopes \union {"none"}) \X Nat
    BY <2>3 DEF PlanType, WithdrawalType
  <2>6. withdrawn' = (withdrawn \union ({v.scope} \X v.removed)) \ listed
        /\ rd' = [r \in Readers |-> [rd[r] EXCEPT !.since = @ \ listed]]
    BY <1>24 DEF WriteState
  <2>. HIDE DEF listed
  <2>7. withdrawn' \subseteq (Scopes \union {"none"}) \X Nat
    BY <2>5, <2>6 DEF Typed
  <2>8. rd' \in [Readers -> ReadType]
    <3>1. \A r \in Readers : rd[r] \in ReadType
      BY DEF Typed
    <3>2. \A r \in Readers : [rd[r] EXCEPT !.since = @ \ listed] \in ReadType
      BY <3>1 DEF ReadType
    <3>. QED
      BY <2>6, <3>2
  <2>9. pc' \in [Callers -> Labels]
    BY <1>10, <1>24 DEF WriteState
  <2>. QED
    BY <1>24, <2>1, <2>2, <2>4, <2>7, <2>8, <2>9 DEF WriteState, Typed
<1>25. ASSUME NEW r \in Readers, ReadStep(r) PROVE Typed'
  <2>1. rd[r] \in ReadType /\ NoRead \in ReadType
    BY DEF Typed, NoRead, ReadType
  <2>2. CASE ReadRegistry(r)
    <3>1. registry \subseteq Nat
      BY DEF Tables, Snapshots
    <3>2. [NoRead EXCEPT !.pc = "read", !.todo = registry, !.since = withdrawn] \in ReadType
      BY <2>1, <3>1 DEF ReadType, Typed
    <3>. QED
      BY <2>2, <3>2 DEF ReadRegistry, Typed
  <2>3. CASE OpenSnapshot(r)
    <3>1. PICK n \in rd[r].todo :
            rd' = [rd EXCEPT ![r].todo = @ \ {n}, ![r].scope = snaps[n].scope, ![r].claims = Allowed(r, n)]
      BY <2>3 DEF OpenSnapshot
    <3>2. n \in Snapshots
      BY DEF Sound, Reads
    <3>3. snaps[n] \in SnapshotType
      BY <3>2, Rows
    <3>4. Allowed(r, n) \subseteq Nat /\ snaps[n].scope \in Scopes
      BY <3>3 DEF Allowed, SnapshotType
    <3>5. [rd[r] EXCEPT !.todo = @ \ {n}, !.scope = snaps[n].scope, !.claims = Allowed(r, n)] \in ReadType
      BY <2>1, <3>4 DEF ReadType
    <3>6. rd' = [rd EXCEPT ![r] = [rd[r] EXCEPT !.todo = @ \ {n}, !.scope = snaps[n].scope, !.claims = Allowed(r, n)]]
      BY <2>1, <3>1 DEF Typed, ReadType
    <3>. QED
      BY <2>3, <3>5, <3>6 DEF OpenSnapshot, Typed
  <2>4. CASE ReadClaim(r)
    <3>1. PICK i \in rd[r].claims : rd' = [rd EXCEPT ![r] = IF i \in claimFiles
            THEN [rd[r] EXCEPT !.claims = @ \ {i}, !.got = @ \union {<<rd[r].scope, i>>}]
            ELSE [NoRead EXCEPT !.pc = "failed"]]
      BY <2>4, Zenon DEF ReadClaim
    <3>2. [rd[r] EXCEPT !.claims = @ \ {i}, !.got = @ \union {<<rd[r].scope, i>>}] \in ReadType
      <4>1. <<rd[r].scope, i>> \in (Scopes \union {"none"}) \X Nat
        BY <2>1 DEF ReadType
      <4>. QED
        BY <2>1, <4>1 DEF ReadType
    <3>3. [NoRead EXCEPT !.pc = "failed"] \in ReadType
      BY <2>1 DEF ReadType
    <3>4. \E x \in ReadType : rd' = [rd EXCEPT ![r] = x]
      <4>. PICK x : x = IF i \in claimFiles
                        THEN [rd[r] EXCEPT !.claims = @ \ {i}, !.got = @ \union {<<rd[r].scope, i>>}]
                        ELSE [NoRead EXCEPT !.pc = "failed"]
        OBVIOUS
      <4>1. rd' = [rd EXCEPT ![r] = x]
        BY <3>1, Zenon
      <4>2. x \in ReadType
        BY <3>2, <3>3
      <4>. QED
        BY <4>1, <4>2
    <3>. QED
      BY <2>4, <3>4 DEF ReadClaim, Typed
  <2>5. CASE EndRead(r)
    <3>1. rd' = [rd EXCEPT ![r] = [rd[r] EXCEPT !.pc = "done", !.scope = "none"]]
      BY <2>1, <2>5 DEF EndRead, Typed, ReadType
    <3>2. [rd[r] EXCEPT !.pc = "done", !.scope = "none"] \in ReadType
      BY <2>1 DEF ReadType
    <3>. QED
      BY <2>5, <3>1, <3>2 DEF EndRead, Typed
  <2>. QED
    BY <1>25, <2>2, <2>3, <2>4, <2>5 DEF ReadStep
<1>26. CASE UNCHANGED vars
  BY <1>26 DEF vars, Typed
<1>27. ASSUME NEW w \in Callers, Step(w) PROVE Typed'
  <2>1. CASE Acquire(w) \/ JudgeStale(w) \/ Reclaim(w) \/ TimeOut(w) \/ Release(w)
               \/ ResumeDelete(w) \/ ResumeReview(w) \/ ResumeFinish(w)
    BY <1>3, <1>4, <1>5, <1>6, <1>7, <1>8, <1>9, <2>1, Zenon
  <2>2. CASE Resumed(w) \/ SyncRegistry(w) \/ DeliverEvent(w) \/ DeliverFails(w) \/ WriteReceipt(w) \/ Delivered(w)
               \/ Replay(w) \/ Refuse(w) \/ Reject(w) \/ AcceptNothing(w)
    BY <1>11, <1>12, <1>13, <1>14, <1>15, <1>16, <1>17, <2>2, Zenon
  <2>3. CASE Accept(w) \/ WriteClaim(w) \/ WriteSnapshot(w) \/ WithdrawAgain(w) \/ WithdrawUnknown(w)
               \/ PrepareWithdrawal(w) \/ WriteManifest(w) \/ DecideReinstate(w) \/ WriteOutbox(w) \/ WriteState(w)
    BY <1>13, <1>15, <1>18, <1>19, <1>20, <1>21, <1>22, <1>23, <1>24, <2>3, Zenon
  <2>. QED
    BY <1>27, <2>1, <2>2, <2>3, Zenon DEF Step
<1>. QED
  BY <1>1, <1>2, <1>6, <1>25, <1>26, <1>27, Zenon DEF Next

-----------------------------------------------------------------------------
(* Steps that change the directory *)

\* What the invariant of the directory speaks about.
Directory == <<state, made, claimFiles, snaps, reviews, manifests, withdrawn>>
Kept == Tables /\ Listed /\ Gone

\* Contents and snapshots that stay.
LEMMA SameRows ==
  ASSUME SnapshotRows, Contents, UNCHANGED <<made, snaps>>
  PROVE  SnapshotRows' /\ Contents'
BY DEF SnapshotRows, Contents, Snapshots, Claims, OneEach, Backed, Offers

\* Steps that leave the directory alone.
LEMMA SameDirectory ==
  ASSUME Sound, UNCHANGED Directory, registry' \subseteq Snapshots
  PROVE  Kept'
<1>. Tables /\ Listed /\ Gone
  BY DEF Sound
<1>. USE DEF Directory, Claims, Snapshots, OneEach, Backed, Elsewhere, Offers, OwnedBy, Tombed, Ids
<1>1. Tables'
  <2>1. Contents'
    BY DEF Tables, Contents
  <2>2. SnapshotRows'
    BY DEF Tables, SnapshotRows
  <2>3. StateRows'
    BY DEF Tables, StateRows
  <2>. QED
    BY <2>1, <2>2, <2>3 DEF Tables
<1>2. Listed'
  BY DEF Listed
<1>3. Gone'
  BY DEF Gone
<1>. QED
  BY <1>1, <1>2, <1>3 DEF Kept

\* Steps that write or delete claim files only.
LEMMA SameTables ==
  ASSUME Tables, claimFiles' \subseteq Claims, UNCHANGED <<state, registry, made, snaps, manifests>>
  PROVE  Tables'
<1>. Contents /\ SnapshotRows /\ StateRows /\ registry \subseteq Snapshots
  BY DEF Tables
<1>. USE DEF Claims, Snapshots
<1>1. Contents'
  BY DEF Contents
<1>2. SnapshotRows'
  BY DEF SnapshotRows, OneEach, Backed, Offers
<1>3. StateRows'
  BY DEF StateRows
<1>4. (claimFiles \subseteq Claims)' /\ (registry \subseteq Snapshots)'
  OBVIOUS
<1>. QED
  BY <1>1, <1>2, <1>3, <1>4 DEF Tables

\* A claim that another scope lists.
LEMMA ListedElsewhere ==
  ASSUME Typed, Tables, NEW s \in Scopes, NEW t, t # s, NEW i \in Ids(state, s)
  PROVE  Elsewhere(t, i)
BY ListedIds DEF Backed, Elsewhere

\* resumeWithdrawalDeletes unlinks no claim that a scope lists.
LEMMA ResumeDeleteKept ==
  ASSUME Sound, NEW w \in Callers, ResumeDelete(w)
  PROVE  Kept'
<1>. Typed /\ Tables /\ Listed /\ Gone /\ Calls
  BY DEF Sound
<1>1. mem[w] = state
  BY Knows DEF ResumeDelete, Inside, Working
<1>2. PICK i : claimFiles' = claimFiles \ {i} /\ i \notin Surviving(state)
  BY <1>1 DEF ResumeDelete, Leftover
<1>3. UNCHANGED <<state, registry, made, snaps, reviews, manifests, withdrawn>>
  BY DEF ResumeDelete, history
<1>. USE DEF Claims, Snapshots, OneEach, Backed, Elsewhere, Offers, OwnedBy, Tombed
<1>4. Tables'
  <2>1. claimFiles' \subseteq Claims
    BY <1>2 DEF Tables
  <2>. QED
    BY <1>3, <2>1, SameTables
<1>5. \A s \in Scopes : i \notin Ids(state, s)
  BY <1>2 DEF Surviving
<1>6. \A s \in Scopes : Ids(state, s)' = Ids(state, s)
  BY <1>3 DEF Ids
<1>7. Listed'
  BY <1>2, <1>3, <1>5, <1>6 DEF Listed
<1>8. Gone'
  BY <1>2, <1>3 DEF Gone
<1>. QED
  BY <1>4, <1>7, <1>8 DEF Kept

\* A rewritten review holds no withdrawn key.
LEMMA ResumeReviewKept ==
  ASSUME Sound, NEW w \in Callers, ResumeReview(w)
  PROVE  Kept'
<1>. Typed /\ Tables /\ Listed /\ Gone /\ Calls
  BY DEF Sound
<1>1. mem[w] = state
  BY Knows DEF ResumeReview, Inside, Working
<1>2. PICK n \in state.pend : \E r \in LeftoverReviews(n) :
        reviews' = (reviews \ {r}) \union {[r EXCEPT !.keys = @ \ {manifests[n].key}]}
  BY <1>1 DEF ResumeReview
<1>3. PICK r \in reviews : reviews' = (reviews \ {r}) \union {[r EXCEPT !.keys = @ \ {manifests[n].key}]}
  BY <1>2 DEF LeftoverReviews
<1>. DEFINE q == [r EXCEPT !.keys = @ \ {manifests[n].key}]
<1>4. r \in ReviewType /\ q.scope = r.scope /\ q.keys = r.keys \ {manifests[n].key}
  BY DEF Typed, ReviewType
<1>5. reviews' = (reviews \ {r}) \union {q}
  BY <1>3
<1>. HIDE DEF q
<1>6. UNCHANGED <<state, registry, made, claimFiles, snaps, manifests, withdrawn>>
  BY DEF ResumeReview, history
<1>. USE DEF Claims, Snapshots, OneEach, Backed, Elsewhere, Offers, OwnedBy, Tombed
<1>7. Tables'
  <2>1. claimFiles' \subseteq Claims
    BY <1>6 DEF Tables
  <2>. QED
    BY <1>6, <2>1, SameTables
<1>8. Listed'
  BY <1>6 DEF Listed, Ids
<1>9. ASSUME NEW t \in state.tombs, NEW x \in reviews', x.scope = t.scope, t.key \in x.keys
      PROVE  t.by \in state.pend /\ x \in manifests[t.by].reviews
  <2>1. CASE x \in reviews
    BY <1>9, <2>1 DEF Gone
  <2>2. CASE x = q
    <3>1. t.by \in state.pend
      BY <1>4, <1>9, <2>2 DEF Gone
    <3>2. t.by = n /\ manifests[t.by].key = t.key
      BY <3>1 DEF Tables, StateRows
    <3>. QED
      BY <1>4, <1>9, <2>2, <3>2
  <2>. QED
    BY <1>5, <2>1, <2>2
<1>10. Gone'
  BY <1>6, <1>9 DEF Gone
<1>. QED
  BY <1>7, <1>8, <1>10 DEF Kept

\* A withdrawal is done when nothing it names is left, but for claims that another scope lists.
LEMMA ResumeFinishKept ==
  ASSUME Sound, NEW w \in Callers, ResumeFinish(w)
  PROVE  Kept' /\ state' = [state EXCEPT !.pend = state'.pend] /\ state'.pend = {}
<1>. Typed /\ Tables /\ Listed /\ Gone /\ Calls
  BY DEF Sound
<1>1. mem[w] = state
  BY Knows DEF ResumeFinish, Inside, Working
<1>2. PICK n \in state.pend : /\ Leftover(state, n) = {} /\ LeftoverReviews(n) = {}
                              /\ state' = [state EXCEPT !.pend = @ \ {n}]
  BY <1>1 DEF ResumeFinish
<1>3. UNCHANGED <<registry, made, claimFiles, snaps, reviews, manifests, withdrawn>>
  BY DEF ResumeFinish, files, history
<1>4. state.pend = {n}
  BY DEF Tables, StateRows
<1>5. /\ state'.pend = {} /\ state'.cur = state.cur /\ state'.batches = state.batches
      /\ state'.tombs = state.tombs /\ state'.hist = state.hist /\ state' = [state EXCEPT !.pend = state'.pend]
  BY <1>2, <1>4 DEF Typed, StateType
<1>6. \A s \in Scopes : Ids(state, s)' = Ids(state, s)
  BY <1>3, <1>5 DEF Ids
<1>. USE DEF Claims, Snapshots, OneEach, Backed, Elsewhere, Offers, OwnedBy, Tombed
<1>7. Tables'
  <2>1. Contents'
    BY <1>3 DEF Tables, Contents
  <2>2. SnapshotRows'
    BY <1>3 DEF Tables, SnapshotRows
  <2>3. StateRows'
    BY <1>3, <1>5 DEF Tables, StateRows
  <2>. QED
    BY <1>3, <2>1, <2>2, <2>3 DEF Tables
<1>8. Listed'
  BY <1>3, <1>5, <1>6 DEF Listed
<1>9. ASSUME NEW t \in state.tombs, NEW i \in claimFiles, made[i].key = t.key, OwnedBy(t.scope, i)
      PROVE  Elsewhere(t.scope, i)
  <2>1. CASE t.by \in state.pend /\ i \in manifests[t.by].files
    <3>1. i \in Surviving(state)
      BY <1>2, <1>4, <2>1 DEF Leftover
    <3>2. PICK s \in Scopes : i \in Ids(state, s)
      BY <3>1 DEF Surviving
    <3>3. s # t.scope
      BY <1>9, <3>2 DEF Listed
    <3>. QED
      BY <3>2, <3>3, ListedElsewhere
  <2>. QED
    BY <1>9, <2>1 DEF Gone
<1>10. ASSUME NEW t \in state.tombs, NEW r \in reviews, r.scope = t.scope PROVE t.key \notin r.keys
  BY <1>2, <1>4, <1>10 DEF Gone, LeftoverReviews
<1>11. Gone'
  BY <1>3, <1>5, <1>9, <1>10 DEF Gone
<1>. QED
  BY <1>5, <1>7, <1>8, <1>11 DEF Kept

\* A review of a rejected batch holds no withdrawn key.
LEMMA RejectKept ==
  ASSUME Sound, NEW w \in Callers, Reject(w)
  PROVE  Kept'
<1>. Typed /\ Tables /\ Listed /\ Gone /\ Calls
  BY DEF Sound
<1>1. mem[w] = state
  BY Knows DEF Reject, Reconciling, Inside, Working
<1>. DEFINE q == [scope |-> Content[op[w].batch].scope,
                  keys |-> {k \in DOMAIN Content[op[w].batch].claims : ~Tombed(state, Content[op[w].batch].scope, k)}]
<1>2. reviews' = reviews \union {q}
  BY <1>1 DEF Reject
<1>3. \A k \in q.keys : ~Tombed(state, q.scope, k)
  OBVIOUS
<1>. HIDE DEF q
<1>4. UNCHANGED <<state, registry, made, claimFiles, snaps, manifests, withdrawn>>
  BY DEF Reject, history
<1>. USE DEF Claims, Snapshots, OneEach, Backed, Elsewhere, Offers, OwnedBy, Tombed
<1>5. Tables'
  <2>1. claimFiles' \subseteq Claims
    BY <1>4 DEF Tables
  <2>. QED
    BY <1>4, <2>1, SameTables
<1>6. Listed'
  BY <1>4 DEF Listed, Ids
<1>7. Gone'
  BY <1>2, <1>3, <1>4 DEF Gone
<1>. QED
  BY <1>5, <1>6, <1>7 DEF Kept

\* Contents are added; the snapshots, the files and the state name older ones.
LEMMA AcceptKept ==
  ASSUME Sound, NEW w \in Callers, Accept(w)
  PROVE  Kept'
<1>. Typed /\ Tables /\ Listed /\ Gone /\ Calls
  BY DEF Sound
<1>1. /\ Len(made') \in Nat /\ Len(made) \in Nat /\ Len(made) <= Len(made')
      /\ \A i \in Claims : i \in 1..Len(made') /\ made'[i] = made[i]
      /\ \A i \in 1..Len(made') : i \notin Claims => made'[i].sup \in 0..(i - 1)
      /\ \A i, j \in 1..Len(made') : made'[i] = made'[j] => i = j
  BY AcceptIs, Rows, Zenon
<1>2. UNCHANGED <<state, registry, claimFiles, snaps, reviews, manifests, withdrawn>>
  BY DEF Accept, history
<1>3. Claims' = 1..Len(made') /\ Claims \subseteq Claims' /\ Snapshots' = Snapshots
  BY <1>1, <1>2 DEF Claims, Snapshots
<1>4. \A n \in Snapshots' : /\ snaps'[n].base \in 0..(n - 1) /\ snaps'[n].ids \subseteq Claims'
                            /\ \A i, j \in snaps'[n].ids : made'[i].key = made'[j].key => i = j
                            /\ \A i \in snaps'[n].ids : \E b \in BatchIds :
                                 /\ Content[b].scope = snaps'[n].scope
                                 /\ made'[i].key \in DOMAIN Content[b].claims
                                 /\ Content[b].claims[made'[i].key] = made'[i].val
  <2>. TAKE n \in Snapshots'
  <2>1. /\ n \in Snapshots /\ snaps' = snaps /\ snaps[n].base \in 0..(n - 1) /\ snaps[n].ids \subseteq Claims
        /\ OneEach(snaps[n].ids) /\ \A i \in snaps[n].ids : Backed(snaps[n].scope, i)
    BY <1>2, <1>3 DEF Tables, SnapshotRows
  <2>2. \A i \in snaps[n].ids : made'[i] = made[i] /\ i \in Claims'
    BY <1>1, <1>3, <2>1
  <2>. QED
    BY <2>1, <2>2 DEF OneEach, Backed, Offers
<1>5. \A s \in Scopes : Ids(state, s)' = Ids(state, s) /\ Ids(state, s) \subseteq Claims
  BY <1>2, ListedIds DEF Ids
<1>6. \A i \in Claims' : made'[i].sup \in 0..(i - 1)
  BY <1>1, <1>3 DEF Tables, Contents
<1>7. Tables'
  <2>1. Contents'
    BY <1>1, <1>3, <1>6 DEF Contents
  <2>2. SnapshotRows'
    BY <1>4, Zenon DEF SnapshotRows, OneEach, Backed, Offers
  <2>3. StateRows'
    BY <1>2, <1>3 DEF Tables, StateRows
  <2>4. (claimFiles \subseteq Claims)' /\ (registry \subseteq Snapshots)'
    BY <1>2, <1>3 DEF Tables
  <2>. QED
    BY <2>1, <2>2, <2>3, <2>4 DEF Tables
<1>8. Listed'
  BY <1>1, <1>2, <1>5 DEF Listed, Tombed
<1>9. \A i \in claimFiles : i \in Claims /\ made'[i] = made[i]
  BY <1>1 DEF Tables
<1>10. Gone'
  BY <1>2, <1>9 DEF Gone, Elsewhere, Offers, OwnedBy
<1>. QED
  BY <1>7, <1>8, <1>10 DEF Kept

\* A claim is written for a batch that names no withdrawn key.
LEMMA WriteClaimKept ==
  ASSUME Sound, NEW w \in Callers, WriteClaim(w)
  PROVE  Kept'
<1>. Typed /\ Tables /\ Listed /\ Gone /\ Calls
  BY DEF Sound
<1>. DEFINE b == op[w].batch
            s == Content[b].scope
<1>1. Accepting(w) /\ b \in BatchIds
  BY Knows DEF WriteClaim, Inside, Working, Call
<1>2. PICK i \in plan[w].write : claimFiles' = claimFiles \union {i}
  BY DEF WriteClaim
<1>3. i \in Claims /\ Offers(b, i)
  BY <1>1, <1>2 DEF Accepting
<1>4. UNCHANGED <<state, registry, made, snaps, reviews, manifests, withdrawn>>
  BY DEF WriteClaim, history
<1>. USE DEF Claims, Snapshots, OneEach, Backed, OwnedBy
<1>5. Tables'
  <2>1. claimFiles' \subseteq Claims
    BY <1>2, <1>3 DEF Tables
  <2>. QED
    BY <1>4, <2>1, SameTables
<1>6. Listed'
  BY <1>2, <1>4 DEF Listed, Ids, Tombed
<1>7. \A t \in state.tombs : made[i].key = t.key => Elsewhere(t.scope, i)
  BY <1>1, <1>3 DEF Accepting, Tombed, Elsewhere, Offers
<1>8. Gone'
  BY <1>2, <1>4, <1>7 DEF Gone, Elsewhere, Offers
<1>. QED
  BY <1>5, <1>6, <1>8 DEF Kept

\* A snapshot is added: one made from what its scope lists, without withdrawn keys.
LEMMA SnapshotAdded ==
  ASSUME Sound, NEW s \in Scopes, NEW row \in SnapshotType, snaps' = Append(snaps, row), row.scope = s,
         row.base = state.cur[s], row.ids \subseteq Claims, OneEach(row.ids),
         \A i \in row.ids : Backed(s, i) /\ i \in claimFiles /\ ~Tombed(state, s, made[i].key),
         UNCHANGED <<state, registry, made, claimFiles, reviews, manifests, withdrawn>>
  PROVE  /\ Kept' /\ Fresh(Len(snaps), s)' /\ snaps'[Len(snaps')] = row /\ Len(snaps') = Len(snaps) + 1
         /\ \A n \in Snapshots : n \in Snapshots' /\ snaps'[n] = snaps[n]
<1>. Typed /\ Tables /\ Listed /\ Gone /\ Calls
  BY DEF Sound
<1>1. /\ Len(snaps') = Len(snaps) + 1 /\ Len(snaps) \in Nat /\ snaps'[Len(snaps) + 1] = row
      /\ 1..Len(snaps') = 1..Len(snaps) \union {Len(snaps) + 1} /\ Len(snaps) + 1 \notin 1..Len(snaps)
      /\ \A n \in 1..Len(snaps) : snaps'[n] = snaps[n]
  <2>1. snaps \in Seq(SnapshotType)
    BY DEF Typed
  <2>. QED
    BY <2>1, Added
<1>2. /\ Snapshots' = Snapshots \union {Len(snaps) + 1} /\ Claims' = Claims
      /\ \A n \in Snapshots : snaps'[n] = snaps[n]
  BY <1>1 DEF Snapshots, Claims
<1>3. \A r \in Scopes : Ids(state, r)' = Ids(state, r)
  BY <1>2, ListedIds DEF Ids
<1>4. state.cur[s] \in 0..Len(snaps)
  BY <1>1, ListedIds DEF Snapshots
<1>5. \A n \in Snapshots' :
        /\ snaps'[n].base \in 0..(n - 1) /\ snaps'[n].ids \subseteq Claims'
        /\ OneEach(snaps'[n].ids) /\ \A i \in snaps'[n].ids : Backed(snaps'[n].scope, i)
  <2>. TAKE n \in Snapshots'
  <2>1. CASE n \in Snapshots
    BY <1>2, <2>1 DEF Tables, SnapshotRows
  <2>2. CASE n = Len(snaps) + 1
    BY <1>1, <1>2, <1>4, <2>2
  <2>. QED
    BY <1>2, <2>1, <2>2
<1>6. Tables'
  <2>1. Contents'
    BY <1>2 DEF Tables, Contents
  <2>2. SnapshotRows'
    <3>1. \A n \in Snapshots' : OneEach(snaps[n].ids)'
      BY <1>5 DEF OneEach
    <3>2. \A n \in Snapshots' : \A i \in snaps'[n].ids : Backed(snaps[n].scope, i)'
      BY <1>5 DEF Backed, Offers
    <3>. QED
      BY <1>5, <3>1, <3>2 DEF SnapshotRows
  <2>3. StateRows'
    BY <1>2 DEF Tables, StateRows
  <2>4. (claimFiles \subseteq Claims)' /\ (registry \subseteq Snapshots)'
    BY <1>2 DEF Tables
  <2>. QED
    BY <2>1, <2>2, <2>3, <2>4 DEF Tables
<1>7. Listed'
  <2>1. \A i \in 1..Len(state.batches) : state.batches[i].result.snap # 0 =>
          snaps'[state.batches[i].result.snap] = snaps[state.batches[i].result.snap]
    BY <1>2 DEF Tables, StateRows
  <2>2. \A r \in Scopes : \A i \in Ids(state, r) :
          i \in claimFiles /\ ~Tombed(state, r, made[i].key) /\ <<r, i>> \notin withdrawn
    BY DEF Listed
  <2>3. ASSUME NEW i \in 1..Len(state.batches), state.batches[i].result.snap # 0,
               state.batches[i].batch \notin state.hist, NEW c \in snaps'[state.batches[i].result.snap].ids
        PROVE  <<snaps'[state.batches[i].result.snap].scope, c>> \notin withdrawn
    BY <2>1, <2>3 DEF Listed
  <2>4. (\A r \in Scopes : \A i \in Ids(state, r) :
           i \in claimFiles /\ ~Tombed(state, r, made[i].key) /\ <<r, i>> \notin withdrawn)'
    <3>1. \A r, k : Tombed(state, r, k)' <=> Tombed(state, r, k)
      BY DEF Tombed
    <3>2. ASSUME NEW r \in Scopes, NEW i \in Ids(state, r)'
          PROVE  i \in claimFiles' /\ ~Tombed(state, r, made[i].key)' /\ <<r, i>> \notin withdrawn'
      <4>1. i \in Ids(state, r)
        BY <1>3, <3>2
      <4>2. i \in claimFiles /\ ~Tombed(state, r, made[i].key) /\ <<r, i>> \notin withdrawn
        BY <2>2, <4>1
      <4>. QED
        BY <3>1, <4>2
    <3>. QED
      BY <3>2
  <2>5. (\A i \in 1..Len(state.batches) :
           LET e == state.batches[i]
           IN  e.result.snap # 0 /\ e.batch \notin state.hist =>
                 \A c \in snaps[e.result.snap].ids : <<snaps[e.result.snap].scope, c>> \notin withdrawn)'
    BY <1>1, <2>3
  <2>. QED
    BY <2>4, <2>5, Zenon DEF Listed
<1>8. \A t \in state.tombs, i \in claimFiles :
        made[i].key = t.key /\ OwnedBy(t.scope, i)' => OwnedBy(t.scope, i)
  BY <1>1 DEF OwnedBy, Tombed
<1>9. Gone'
  BY <1>8 DEF Gone, Elsewhere, Offers
<1>10. Fresh(Len(snaps), s)'
  BY <1>1, <1>2 DEF Fresh, Tombed
<1>. QED
  BY <1>1, <1>2, <1>6, <1>7, <1>9, <1>10 DEF Kept

\* The snapshot of an accepted batch, once every claim is written.
LEMMA WriteSnapshotKept ==
  ASSUME Sound, NEW w \in Callers, WriteSnapshot(w)
  PROVE  Kept' /\ Fresh(Len(snaps), Content[op[w].batch].scope)' /\ Len(snaps') = Len(snaps) + 1
<1>. Typed /\ Tables /\ Listed /\ Gone /\ Calls
  BY DEF Sound
<1>. DEFINE b == op[w].batch
            s == Content[b].scope
            row == [scope |-> s, base |-> state.cur[s], ids |-> plan[w].ids]
<1>1. Accepting(w) /\ b \in BatchIds /\ mem[w] = state /\ s \in Scopes
  <2>1. Inside(w) /\ op[w].kind = "reconcile" /\ Call(w)
    BY Knows DEF WriteSnapshot, Inside, Working, Call
  <2>. QED
    BY <2>1, Knows, ContentAssumption DEF WriteSnapshot, Call
<1>2. snaps' = Append(snaps, row) /\ plan[w].write = {}
  BY <1>1 DEF WriteSnapshot
<1>3. row \in SnapshotType
  BY <1>1 DEF SnapshotType, Typed, StateType, PlanType
<1>4. /\ plan[w].ids \subseteq Claims /\ OneEach(plan[w].ids)
      /\ \A i \in plan[w].ids : Backed(s, i) /\ i \in claimFiles /\ ~Tombed(state, s, made[i].key)
  BY <1>1, <1>2 DEF Accepting
<1>5. UNCHANGED <<state, registry, made, claimFiles, reviews, manifests, withdrawn>>
  BY DEF WriteSnapshot, history
<1>6. row.scope = s /\ row.base = state.cur[s] /\ row.ids = plan[w].ids
  OBVIOUS
<1>7. ASSUME NEW x, x = s
      PROVE  Kept' /\ Fresh(Len(snaps), x)' /\ Len(snaps') = Len(snaps) + 1
  <2>. HIDE DEF row, s
  <2>. QED
    BY <1>1, <1>2, <1>3, <1>4, <1>5, <1>6, <1>7, SnapshotAdded
<1>8. s' = s
  BY DEF WriteSnapshot
<1>. QED
  BY <1>7, <1>8 DEF Fresh

\* A manifest is added; tombstones and pending withdrawals name older ones.
LEMMA WriteManifestKept ==
  ASSUME Sound, NEW w \in Callers, WriteManifest(w)
  PROVE  Kept'
<1>. Typed /\ Tables /\ Listed /\ Gone /\ Calls
  BY DEF Sound
<1>1. /\ 1..Len(manifests') = 1..Len(manifests) \union {Len(manifests) + 1}
      /\ \A n \in 1..Len(manifests) : manifests'[n] = manifests[n]
  <2>1. manifests \in Seq(WithdrawalType) /\ plan[w].withdrawal \in WithdrawalType
    BY DEF Typed, PlanType
  <2>2. manifests' = Append(manifests, plan[w].withdrawal)
    BY DEF WriteManifest
  <2>. QED
    BY <2>1, <2>2, Added
<1>2. UNCHANGED <<state, registry, made, claimFiles, snaps, reviews, withdrawn>>
  BY DEF WriteManifest, history
<1>3. Tables'
  <2>1. SnapshotRows' /\ Contents'
    BY <1>2, SameRows DEF Tables
  <2>2. StateRows'
    BY <1>1, <1>2 DEF Tables, StateRows, Snapshots
  <2>. QED
    BY <1>2, <2>1, <2>2 DEF Tables, Claims, Snapshots
<1>. USE DEF Claims, Snapshots, OneEach, Backed, Elsewhere, Offers, OwnedBy, Tombed
<1>4. Listed'
  BY <1>2 DEF Listed, Ids
<1>5. Gone'
  <2>1. \A t \in state.tombs : manifests'[t.by] = manifests[t.by]
    BY <1>1 DEF Tables, StateRows
  <2>. QED
    BY <1>2, <2>1 DEF Gone
<1>. QED
  BY <1>3, <1>4, <1>5 DEF Kept

\* analyse names every file and review the withdrawn value is in; what it leaves in the scope has other keys.
LEMMA PrepareWithdrawalKept ==
  ASSUME Sound, NEW w \in Callers, PrepareWithdrawal(w)
  PROVE  Kept' /\ Withdraws(w)'
<1>. Typed /\ Tables /\ Listed /\ Gone /\ Calls
  BY DEF Sound
<1>. DEFINE i == op[w].claim
            k == made[i].key
            by == Len(manifests) + 1
<1>. PICK p : p = plan'[w]
  OBVIOUS
<1>. DEFINE v == p.withdrawal
<1>1. /\ mem[w] = state /\ i \in Claims /\ by \in Nat /\ p.verdict = "withdrawn" /\ p.events # <<>>
      /\ Len(p.events) \in Nat /\ \A a \in 1..Len(p.events) : p.events[a].batch = by
      /\ p \in PlanType
  BY PreparedPlan, Zenon
<1>2. p.events[1].batch = by
  <2>1. p.events \in Seq(EventType)
    BY <1>1 DEF PlanType
  <2>2. 1 \in 1..Len(p.events)
    BY <1>1, <2>1, EmptySeq
  <2>. QED
    BY <1>1, <2>2
<1>. DEFINE left(s) == Ids(state, s) \ {i}
            removed(s) == Chain(i) \union {j \in claimFiles : made[j].key = made[i].key /\ OwnedBy(s, j)}
            kept(s) == left(s) \union UNION {Ids(state, t) : t \in Scopes \ {s}}
            row(s) == [scope |-> s, base |-> state.cur[s], ids |-> left(s)]
<1>3. PICK s \in Scopes :
        /\ i \in Ids(state, s)
        /\ snaps' = IF left(s) = {} THEN snaps ELSE Append(snaps, row(s))
        /\ p.snap = IF left(s) = {} THEN 0 ELSE Len(snaps) + 1
        /\ v = [claim |-> i, scope |-> s, key |-> made[i].key, files |-> removed(s) \ kept(s),
                reviews |-> {r \in reviews : r.scope = s /\ made[i].key \in r.keys}, removed |-> removed(s)]
        /\ made[i].key \in Keys /\ row(s) \in SnapshotType
  BY PreparedPlan, Zenon
<1>4. /\ v.scope = s /\ v.key = k /\ v.files = removed(s) \ kept(s)
      /\ v.reviews = {r \in reviews : r.scope = s /\ k \in r.keys}
  <2>. HIDE DEF removed, kept
  <2>. QED
    BY <1>3
<1>5. Ids(state, s) \subseteq Claims /\ OneEach(Ids(state, s))
      /\ \A j \in Ids(state, s) : Backed(s, j) /\ j \in claimFiles /\ ~Tombed(state, s, made[j].key)
  BY ListedIds DEF Listed
<1>6. left(s) \subseteq Ids(state, s) /\ OneEach(left(s)) /\ \A j \in left(s) : made[j].key # k
  BY <1>3, <1>5 DEF OneEach
<1>7. UNCHANGED <<state, registry, made, claimFiles, reviews, manifests, withdrawn, op>> /\ pc'[w] = "manifest"
  BY ToType DEF PrepareWithdrawal, history
<1>8. row(s).scope = s /\ row(s).base = state.cur[s] /\ row(s).ids = left(s)
  OBVIOUS
<1>. HIDE DEF removed, row, left
<1>9. /\ Kept'
      /\ p.snap = 0 \/ (p.snap = Len(snaps') /\ Fresh(Len(snaps), s)' /\ snaps'[Len(snaps')].ids = left(s))
  <2>1. CASE left(s) = {}
    <3>1. UNCHANGED Directory /\ registry' \subseteq Snapshots /\ p.snap = 0
      BY <1>3, <1>7, <2>1 DEF Directory, Tables
    <3>. QED
      BY <3>1, SameDirectory
  <2>2. CASE left(s) # {}
    <3>1. /\ row(s) \in SnapshotType /\ snaps' = Append(snaps, row(s)) /\ row(s).ids \subseteq Claims
          /\ OneEach(row(s).ids)
          /\ \A j \in row(s).ids : Backed(s, j) /\ j \in claimFiles /\ ~Tombed(state, s, made[j].key)
      BY <1>3, <1>5, <1>6, <1>8, <2>2
    <3>2. Kept' /\ Fresh(Len(snaps), s)' /\ snaps'[Len(snaps')] = row(s) /\ Len(snaps') = Len(snaps) + 1
      BY <1>7, <1>8, <3>1, SnapshotAdded
    <3>. QED
      BY <1>3, <1>8, <2>2, <3>2
  <2>. QED
    BY <2>1, <2>2
<1>10. p.snap = 0 \/ (Fresh(p.snap, s)' /\ \A j \in snaps'[p.snap].ids : made'[j].key # k)
  <2>. SUFFICES ASSUME p.snap # 0 PROVE Fresh(p.snap, s)' /\ \A j \in snaps'[p.snap].ids : made'[j].key # k
    OBVIOUS
  <2>1. p.snap = Len(snaps') /\ Fresh(Len(snaps), s)' /\ snaps'[Len(snaps')].ids = left(s)
    BY <1>9
  <2>2. Fresh(p.snap, s)'
    BY <2>1 DEF Fresh
  <2>. QED
    BY <1>6, <1>7, <2>1, <2>2
<1>11. ~Stored(state', by)
  BY <1>1, <1>7 DEF Stored, Tables, StateRows
<1>12. ASSUME NEW j \in claimFiles, made[j].key = k, NEW n \in 1..Len(snaps'), snaps'[n].scope = s, j \in snaps'[n].ids
       PROVE  Elsewhere(s, j) \/ j \in v.files
  <2>1. n \in 1..Len(snaps) /\ snaps'[n] = snaps[n]
    <3>1. CASE left(s) = {}
      BY <1>3, <1>12, <3>1
    <3>2. CASE left(s) # {}
      <4>1. /\ 1..Len(snaps') = 1..Len(snaps) \union {Len(snaps) + 1} /\ snaps'[Len(snaps) + 1] = row(s)
            /\ \A x \in 1..Len(snaps) : snaps'[x] = snaps[x]
        <5>1. snaps \in Seq(SnapshotType) /\ row(s) \in SnapshotType /\ snaps' = Append(snaps, row(s))
          BY <1>3, <3>2 DEF Typed
        <5>. QED
          BY <5>1, Added
      <4>2. n # Len(snaps) + 1
        BY <1>6, <1>8, <1>12, <4>1
      <4>. QED
        BY <1>12, <4>1, <4>2
    <3>. QED
      BY <3>1, <3>2
  <2>2. j \in removed(s)
    BY <1>12, <2>1 DEF removed, OwnedBy
  <2>3. CASE j \in kept(s)
    <3>1. j \notin left(s)
      BY <1>6, <1>12
    <3>2. PICK t \in Scopes \ {s} : j \in Ids(state, t)
      BY <2>3, <3>1
    <3>. QED
      BY <3>2, ListedElsewhere
  <2>. QED
    BY <1>4, <2>2, <2>3
<1>. HIDE DEF kept
<1>13. \A j \in claimFiles' : made'[j].key = k /\ OwnedBy(s, j)' => Elsewhere(s, j)' \/ j \in v.files
  BY <1>7, <1>12 DEF OwnedBy, Elsewhere, Offers
<1>14. \A r \in reviews' : r.scope = s /\ k \in r.keys => r \in v.reviews
  BY <1>4, <1>7
<1>15. Withdraws(w)'
  <2>1. /\ p.verdict = "withdrawn" /\ v.scope \in Scopes /\ v.key \in Keys /\ p.events # <<>>
        /\ p.events[1].batch = Len(manifests') + 1 /\ p.events[1].batch \in Nat /\ ~Stored(state', p.events[1].batch)
    BY <1>1, <1>2, <1>3, <1>4, <1>7, <1>11
  <2>2. p.snap = 0 \/ (Fresh(p.snap, v.scope)' /\ \A j \in snaps'[p.snap].ids : made'[j].key # v.key)
    BY <1>4, <1>10 DEF Fresh
  <2>3. \A j \in claimFiles' : made'[j].key = v.key /\ OwnedBy(v.scope, j)' => Elsewhere(v.scope, j)' \/ j \in v.files
    BY <1>4, <1>13 DEF OwnedBy, Elsewhere
  <2>4. \A r \in reviews' : r.scope = v.scope /\ v.key \in r.keys => r \in v.reviews
    BY <1>4, <1>14
  <2>5. plan'[w] = p /\ pc'[w] = "manifest"
    BY <1>7
  <2>. QED
    BY <2>1, <2>2, <2>3, <2>4, <2>5 DEF Withdraws, Fresh, Stored, Tombed, OwnedBy, Elsewhere, Offers
<1>. QED
  BY <1>9, <1>15

\* What a commit does to the history of withdrawals.
LEMMA CommitWithdrawn ==
  ASSUME Typed, NEW w \in Callers, WriteState(w)
  PROVE  /\ \A s \in Scopes : \A i \in Ids(state', s) \intersect Claims : <<s, i>> \notin withdrawn'
         /\ \A s, i : <<s, i>> \in withdrawn' =>
              <<s, i>> \in withdrawn \/ (s = plan[w].withdrawal.scope /\ i \in plan[w].withdrawal.removed)
         /\ \A x \in withdrawn \ withdrawn' : \A r \in Readers : x \notin rd'[r].since
         /\ \A r \in Readers : rd'[r] = [rd[r] EXCEPT !.since = rd'[r].since] /\ rd'[r].since \subseteq rd[r].since
<1>. DEFINE v == plan[w].withdrawal
            L == {x \in Scopes \X (1..Len(made)) : x[2] \in Ids(state', x[1])}
<1>1. /\ withdrawn' = (withdrawn \union ({v.scope} \X v.removed)) \ L
      /\ rd' = [r \in Readers |-> [rd[r] EXCEPT !.since = @ \ L]]
  BY DEF WriteState
<1>2. \A s \in Scopes : \A i \in Ids(state', s) \intersect Claims : <<s, i>> \in L
  BY DEF Claims
<1>. HIDE DEF L
<1>3. \A r \in Readers : rd'[r] = [rd[r] EXCEPT !.since = @ \ L] /\ rd[r] \in ReadType
  BY <1>1 DEF Typed
<1>4. \A r \in Readers : /\ rd'[r].since = rd[r].since \ L
                         /\ rd'[r] = [rd[r] EXCEPT !.since = rd'[r].since]
  BY <1>3 DEF ReadType
<1>. HIDE DEF v
<1>5. \A s, i : <<s, i>> \in withdrawn' => <<s, i>> \in withdrawn \/ (s = v.scope /\ i \in v.removed)
  BY <1>1
<1>6. \A s \in Scopes : \A i \in Ids(state', s) \intersect Claims : <<s, i>> \notin withdrawn'
  BY <1>1, <1>2
<1>7. \A x \in withdrawn \ withdrawn' : x \in L
  BY <1>1
<1>8. \A x \in withdrawn \ withdrawn' : \A r \in Readers : x \notin rd'[r].since
  BY <1>4, <1>7
<1>. QED
  BY <1>4, <1>5, <1>6, <1>8 DEF v

\* A commit adds the result of its own batch, and no other.
OneResult(w) ==
  /\ Stored(state', BatchKey(w)) /\ ResultOf(state', BatchKey(w)) = Result(w)
  /\ \A c : c # BatchKey(w) /\ Stored(state', c) => Stored(state, c) /\ ResultOf(state', c) = ResultOf(state, c)

\* What a commit has to bring: results, marks and tombstones that fit the snapshot n it lists for s.
NewResults(n) ==
  /\ Distinct(state')
  /\ \A i \in 1..Len(state'.batches) :
       \/ \E j \in 1..Len(state.batches) : state'.batches[i] = state.batches[j]
       \/ /\ state'.batches[i].batch \in Nat =>
               state'.batches[i].batch \in 1..Len(manifests) /\ state'.batches[i].result.snap = 0
          /\ state'.batches[i].result.snap \in {0, n}

NewMarks(v) ==
  /\ state.hist \subseteq state'.hist
  /\ \A j \in 1..Len(state.batches) :
       LET e == state.batches[j]
       IN  e.result.snap # 0 /\ e.batch \notin state'.hist /\ snaps[e.result.snap].scope = v.scope
             => snaps[e.result.snap].ids \intersect v.removed = {}

NewTombs(s, n) ==
  /\ state'.pend \subseteq 1..Len(manifests) /\ \A x, y \in state'.pend : x = y
  /\ \A t \in state'.tombs :
       \/ t \in state.tombs
       \/ /\ t.by \in 1..Len(manifests) /\ manifests[t.by].scope = t.scope /\ manifests[t.by].key = t.key
          /\ t.scope = s /\ (n # 0 => \A i \in snaps[n].ids : made[i].key # t.key)

\* A commit of fitting results keeps the tables and what the state lists.
LEMMA CommitKept ==
  ASSUME Sound, NEW w \in Callers, WriteState(w), NEW s \in Scopes, NEW n \in Nat,
         state'.cur = [state.cur EXCEPT ![s] = n],
         n = 0 \/ n = state.cur[s] \/ Fresh(n, s),
         NewResults(n), NewMarks(plan[w].withdrawal), NewTombs(s, n)
  PROVE  Tables' /\ Listed'
<1>. USE DEF NewResults, NewMarks, NewTombs, Distinct
<1>. Typed /\ Tables /\ Listed /\ Gone /\ Calls
  BY DEF Sound
<1>1. UNCHANGED <<registry, made, claimFiles, snaps, reviews, manifests>>
  BY DEF WriteState, files
<1>2. Claims' = Claims /\ Snapshots' = Snapshots
  BY <1>1 DEF Claims, Snapshots
<1>3. state.cur \in [Scopes -> Nat]
  BY DEF Typed, StateType
<1>4. /\ state'.cur[s] = n /\ \A r \in Scopes \ {s} : state'.cur[r] = state.cur[r]
      /\ \A r \in Scopes \ {s} : Ids(state', r) = Ids(state, r)
      /\ Ids(state', s) = IF n = 0 THEN {} ELSE snaps[n].ids
  BY <1>1, <1>3 DEF Ids
<1>5. n # 0 => n \in Snapshots /\ snaps[n].scope = s
  <2>1. CASE n = state.cur[s]
    BY <2>1 DEF Tables, StateRows
  <2>2. CASE Fresh(n, s)
    BY <2>2 DEF Fresh
  <2>. QED
    BY <2>1, <2>2
<1>6. n # 0 => \A i \in snaps[n].ids : i \in claimFiles /\ ~Tombed(state, s, made[i].key)
  BY DEF Fresh, Listed, Ids
<1>7. SnapshotRows' /\ Contents'
  <2>1. SnapshotRows /\ Contents
    BY DEF Tables
  <2>. QED
    BY <1>1, <2>1, SameRows
<1>8. StateRows'
  <2>1. \A r \in Scopes : state'.cur[r] # 0 => state'.cur[r] \in Snapshots /\ snaps[state'.cur[r]].scope = r
    BY <1>4, <1>5 DEF Tables, StateRows
  <2>2. \A i \in 1..Len(state'.batches) :
          LET e == state'.batches[i]
          IN  /\ e.batch \in Nat => e.batch \in 1..Len(manifests) /\ e.result.snap = 0
              /\ e.result.snap # 0 => e.result.snap \in Snapshots
    <3>. TAKE i \in 1..Len(state'.batches)
    <3>1. CASE \E j \in 1..Len(state.batches) : state'.batches[i] = state.batches[j]
      BY <3>1 DEF Tables, StateRows
    <3>2. CASE /\ state'.batches[i].batch \in Nat =>
                 state'.batches[i].batch \in 1..Len(manifests) /\ state'.batches[i].result.snap = 0
               /\ state'.batches[i].result.snap \in {0, n}
      BY <1>5, <3>2
    <3>. QED
      BY <3>1, <3>2 DEF NewResults
  <2>3. \A t \in state'.tombs : /\ t.by \in 1..Len(manifests)
                                /\ manifests[t.by].scope = t.scope /\ manifests[t.by].key = t.key
    BY DEF Tables, StateRows
  <2>. QED
    BY <1>1, <1>2, <2>1, <2>2, <2>3 DEF StateRows
<1>9. Tables'
  <2>1. (claimFiles \subseteq Claims)' /\ (registry \subseteq Snapshots)'
    BY <1>1, <1>2 DEF Tables
  <2>. QED
    BY <1>7, <1>8, <2>1 DEF Tables
<1>10. \A r \in Scopes : Ids(state', r) \subseteq Claims
  BY <1>4, <1>5, ListedIds DEF Tables, SnapshotRows
<1>11. ASSUME NEW r \in Scopes, NEW i \in Ids(state', r)
       PROVE  i \in claimFiles /\ ~Tombed(state', r, made[i].key) /\ <<r, i>> \notin withdrawn'
  <2>1. <<r, i>> \notin withdrawn'
    BY <1>10, CommitWithdrawn
  <2>2. CASE r = s
    <3>1. n # 0 /\ i \in snaps[n].ids /\ i \in claimFiles /\ ~Tombed(state, s, made[i].key)
      BY <1>4, <1>6, <2>2
    <3>. QED
      BY <2>1, <2>2, <3>1 DEF Tombed
  <2>3. CASE r # s
    <3>1. i \in claimFiles /\ ~Tombed(state, r, made[i].key)
      BY <1>4, <2>3 DEF Listed
    <3>. QED
      BY <2>1, <2>3, <3>1 DEF Tombed
  <2>. QED
    BY <2>2, <2>3
<1>12. ASSUME NEW i \in 1..Len(state'.batches), state'.batches[i].result.snap # 0,
              state'.batches[i].batch \notin state'.hist,
              NEW c \in snaps[state'.batches[i].result.snap].ids
       PROVE  <<snaps[state'.batches[i].result.snap].scope, c>> \notin withdrawn'
  <2>1. CASE \E j \in 1..Len(state.batches) : state'.batches[i] = state.batches[j]
    <3>1. PICK j \in 1..Len(state.batches) : state'.batches[i] = state.batches[j]
      BY <2>1
    <3>2. <<snaps[state.batches[j].result.snap].scope, c>> \notin withdrawn
      BY <1>12, <3>1 DEF Listed
    <3>3. ~(snaps[state.batches[j].result.snap].scope = plan[w].withdrawal.scope /\ c \in plan[w].withdrawal.removed)
      BY <1>12, <3>1
    <3>. QED
      BY <3>1, <3>2, <3>3, CommitWithdrawn
  <2>2. CASE state'.batches[i].result.snap = n
    <3>1. c \in Ids(state', s) /\ snaps[n].scope = s
      BY <1>4, <1>5, <1>12, <2>2
    <3>. QED
      BY <1>11, <2>2, <3>1
  <2>. QED
    BY <1>12, <2>1, <2>2
<1>13. Listed'
  <2>1. UNCHANGED <<snaps, made, claimFiles>>
    BY <1>1
  <2>2. \A r \in Scopes : Ids(state, r)' = Ids(state', r)
    BY <2>1 DEF Ids
  <2>3. \A r, k : Tombed(state, r, k)' <=> Tombed(state', r, k)
    BY DEF Tombed
  <2>4. (\A r \in Scopes : \A i \in Ids(state, r) :
           i \in claimFiles /\ ~Tombed(state, r, made[i].key) /\ <<r, i>> \notin withdrawn)'
    <3>1. ASSUME NEW r \in Scopes, NEW i \in Ids(state, r)'
          PROVE  i \in claimFiles' /\ ~Tombed(state, r, made[i].key)' /\ <<r, i>> \notin withdrawn'
      <4>1. i \in Ids(state', r)
        BY <2>2, <3>1
      <4>2. i \in claimFiles /\ ~Tombed(state', r, made[i].key) /\ <<r, i>> \notin withdrawn'
        BY <1>11, <4>1
      <4>. QED
        BY <2>1, <2>3, <4>2
    <3>. QED
      BY <3>1
  <2>5. (\A i \in 1..Len(state.batches) :
           LET e == state.batches[i]
           IN  e.result.snap # 0 /\ e.batch \notin state.hist =>
                 \A c \in snaps[e.result.snap].ids : <<snaps[e.result.snap].scope, c>> \notin withdrawn)'
    BY <1>12, <2>1
  <2>. QED
    BY <2>4, <2>5, Zenon DEF Listed
<1>. QED
  BY <1>9, <1>13

\* The commit of a batch.
LEMMA ReconcileKept ==
  ASSUME Sound, NEW w \in Callers, WriteState(w), op[w].kind = "reconcile"
  PROVE  /\ Kept' /\ state'.pend = state.pend /\ state'.tombs = state.tombs
         /\ \A b \in BatchIds : Stored(state, b) /\ Stored(state', b) => ResultOf(state, b) = ResultOf(state', b)
         /\ state'.cur = [state.cur EXCEPT ![Content[op[w].batch].scope] = plan[w].snap] /\ OneResult(w)
<1>. Typed /\ Tables /\ Listed /\ Gone /\ Calls
  BY DEF Sound
<1>. DEFINE b == op[w].batch
            s == Content[b].scope
            n == plan[w].snap
            e == Entry(w)
<1>1. Reconciles(w) /\ b \in BatchIds /\ mem[w] = state /\ op[w] # NoOp
  BY Knows DEF WriteState, Inside, Working, Call
<1>2. s \in Scopes /\ n \in Nat
  BY <1>1, ContentAssumption DEF Typed, PlanType
<1>3. state' = Reconciled(w)
  BY DEF WriteState
<1>4. /\ state' \in StateType /\ state'.tombs = state.tombs /\ state'.pend = state.pend /\ state'.hist = state.hist
      /\ state'.cur = [state.cur EXCEPT ![s] = n]
      /\ e \in StoredType /\ e.batch = b /\ e.result = Result(w)
  <2>. HIDE DEF e
  <2>1. ~Stored(state, b)
    BY <1>1 DEF Reconciles
  <2>. QED
    BY <1>1, <1>3, <2>1, ReconciledIs DEF e
<1>5. PICK d : Extends(state', state, e, d)
  <2>1. ~Stored(state, b)
    BY <1>1 DEF Reconciles
  <2>2. \E d \in 0..Len(state.batches) :
        /\ Len(Reconciled(w).batches) = Len(state.batches) + 1 - d
        /\ \A i \in 1..Len(Reconciled(w).batches) :
             Reconciled(w).batches[i] = IF i + d <= Len(state.batches) THEN state.batches[i + d] ELSE Entry(w)
    BY <1>1, <2>1, ReconciledIs
  <2>. HIDE DEF e
  <2>. QED
    BY <1>3, <2>2 DEF Extends, e
<1>6. /\ Distinct(state')
      /\ \A i \in 1..Len(state'.batches) :
           state'.batches[i] = e \/ \E j \in 1..Len(state.batches) : state'.batches[i] = state.batches[j]
      /\ Stored(state', b) /\ ResultOf(state', b) = Result(w)
      /\ \A c : c # b /\ Stored(state', c) => Stored(state, c) /\ ResultOf(state', c) = ResultOf(state, c)
  <2>1. ~Stored(state, e.batch) /\ state \in StateType
    BY <1>1, <1>4 DEF Reconciles, Typed
  <2>2. Distinct(state)
    BY DEF Tables, StateRows, Distinct
  <2>. HIDE DEF b, s, n
  <2>. QED
    BY <1>4, <1>5, <2>1, <2>2, OneMore
<1>7. b \notin Nat /\ e.result.snap = n
  <2>1. b \notin Nat
    BY <1>1, NamesAssumption
  <2>. QED
    BY <1>1, <1>4, <2>1 DEF Reconciles, Result
<1>8. Tables' /\ Listed'
  <2>1. n = 0 \/ n = state.cur[s] \/ Fresh(n, s)
    BY <1>1 DEF Reconciles
  <2>2. NewMarks(plan[w].withdrawal)
    BY <1>1, <1>4 DEF Reconciles, NoWithdrawal, NewMarks
  <2>3. NewTombs(s, n)
    BY <1>4 DEF Tables, StateRows, NewTombs
  <2>4. NewResults(n)
    BY <1>4, <1>6, <1>7 DEF NewResults
  <2>. HIDE DEF s, n
  <2>. QED
    BY <1>2, <1>4, <2>1, <2>2, <2>3, <2>4, CommitKept
<1>9. Gone'
  <2>1. UNCHANGED <<made, claimFiles, snaps, reviews, manifests>>
    BY DEF WriteState, files
  <2>. QED
    BY <1>4, <2>1 DEF Gone, Elsewhere, Offers, OwnedBy
<1>10. \A c \in BatchIds : Stored(state, c) /\ Stored(state', c) => ResultOf(state, c) = ResultOf(state', c)
  BY <1>1, <1>6 DEF Reconciles
<1>11. OneResult(w)
  BY <1>6 DEF OneResult, BatchKey
<1>. QED
  BY <1>4, <1>8, <1>9, <1>10, <1>11 DEF Kept

\* The commit of a withdrawal.
LEMMA WithdrawKept ==
  ASSUME Sound, NEW w \in Callers, WriteState(w), op[w].kind = "withdraw"
  PROVE  /\ Kept'
         /\ \A b \in BatchIds : Stored(state, b) /\ Stored(state', b) => ResultOf(state, b) = ResultOf(state', b)
         /\ state'.cur = [state.cur EXCEPT ![plan[w].withdrawal.scope] = plan[w].snap]
         /\ OneResult(w)
<1>. Typed /\ Tables /\ Listed /\ Gone /\ Calls
  BY DEF Sound
<1>. DEFINE v == plan[w].withdrawal
            s == v.scope
            n == plan[w].snap
            by == plan[w].events[1].batch
            e == Entry(w)
            row == [scope |-> v.scope, key |-> v.key, by |-> by]
<1>1. Withdraws(w) /\ mem[w] = state /\ op[w] # NoOp /\ state.pend = {} /\ pc[w] = "state"
  BY Knows DEF WriteState, Inside, Working, Call
<1>2. /\ s \in Scopes /\ n \in Nat /\ by \in 1..Len(manifests) /\ manifests[by] = v /\ by \in Nat
      /\ ~Stored(state, by)
  BY <1>1 DEF Withdraws, Typed, PlanType
<1>3. state' = Withdrawn(w)
  BY DEF WriteState
<1>4. /\ state' \in StateType /\ state'.pend = state.pend \union {by} /\ BatchKey(w) = by
      /\ state'.cur = [state.cur EXCEPT ![s] = n]
      /\ state'.tombs = {t \in state.tombs : t.scope # v.scope \/ t.key # v.key} \union {row}
      /\ state.hist \subseteq state'.hist
      /\ \A i \in 1..Len(state.batches) :
           state.batches[i].result.snap # 0 /\ snaps[state.batches[i].result.snap].scope = v.scope
             /\ snaps[state.batches[i].result.snap].ids \intersect v.removed # {}
             => state.batches[i].batch \in state'.hist
      /\ e \in StoredType /\ e.batch = by /\ e.result = Result(w) /\ Result(w).snap = 0
      /\ Len(state'.batches) = Len(state.batches) + 1
      /\ \A i \in 1..Len(state'.batches) :
           state'.batches[i] = IF i <= Len(state.batches) THEN state.batches[i] ELSE e
  <2>1. pc[w] # "manifest"
    BY <1>1
  <2>. QED
    BY <1>1, <1>3, <2>1, WithdrawnIs, Zenon
<1>. HIDE DEF e
<1>5. /\ Distinct(state')
      /\ \A i \in 1..Len(state'.batches) :
           state'.batches[i] = e \/ \E j \in 1..Len(state.batches) : state'.batches[i] = state.batches[j]
      /\ \A c : c # by /\ Stored(state', c) => Stored(state, c) /\ ResultOf(state', c) = ResultOf(state, c)
      /\ Stored(state', by) /\ ResultOf(state', by) = Result(w)
  <2>1. ~Stored(state, e.batch) /\ state \in StateType
    BY <1>2, <1>4 DEF Typed
  <2>2. Distinct(state)
    BY DEF Tables, StateRows, Distinct
  <2>3. Extends(state', state, e, 0)
    <3>1. Len(state.batches) \in Nat
      BY <2>1, Results
    <3>. QED
      BY <1>4, <3>1 DEF Extends
  <2>4. /\ Distinct(state')
        /\ \A i \in 1..Len(state'.batches) :
             state'.batches[i] = e \/ \E j \in 1..Len(state.batches) : state'.batches[i] = state.batches[j]
        /\ Stored(state', e.batch) /\ ResultOf(state', e.batch) = e.result
        /\ \A c : c # e.batch /\ Stored(state', c) => Stored(state, c) /\ ResultOf(state', c) = ResultOf(state, c)
    <3>. HIDE DEF row, v, n, by, s
    <3>. QED
      BY <1>4, <2>1, <2>2, <2>3, OneMore
  <2>. QED
    BY <1>4, <2>4
<1>6. n = 0 \/ (Fresh(n, s) /\ \A i \in snaps[n].ids : made[i].key # v.key)
  BY <1>1 DEF Withdraws
<1>7. row.scope = v.scope /\ row.key = v.key /\ row.by = by
  OBVIOUS
<1>. HIDE DEF row
<1>8. Tables' /\ Listed'
  <2>1. NewResults(n)
    BY <1>2, <1>4, <1>5 DEF NewResults
  <2>2. NewTombs(s, n)
    <3>1. state'.pend \subseteq 1..Len(manifests) /\ \A x, y \in state'.pend : x = y
      BY <1>1, <1>2, <1>4
    <3>2. ASSUME NEW t \in state'.tombs, t \notin state.tombs
          PROVE  /\ t.by \in 1..Len(manifests) /\ manifests[t.by].scope = t.scope /\ manifests[t.by].key = t.key
                 /\ t.scope = s /\ (n # 0 => \A i \in snaps[n].ids : made[i].key # t.key)
      <4>1. t = row
        BY <1>4, <3>2
      <4>2. t.scope = v.scope /\ t.key = v.key /\ t.by = by
        BY <1>7, <4>1
      <4>. QED
        BY <1>2, <1>6, <4>2
    <3>. QED
      BY <3>1, <3>2 DEF NewTombs
  <2>3. NewMarks(plan[w].withdrawal)
    BY <1>4 DEF NewMarks
  <2>. HIDE DEF s, n, v, by
  <2>. QED
    BY <1>2, <1>4, <1>6, <2>1, <2>2, <2>3, CommitKept
<1>9. Gone'
  <2>1. UNCHANGED <<made, claimFiles, snaps, reviews, manifests>>
    BY DEF WriteState, files
  <2>2. ASSUME NEW t \in state'.tombs, NEW i \in claimFiles, made[i].key = t.key, OwnedBy(t.scope, i)
        PROVE  Elsewhere(t.scope, i) \/ (t.by \in state'.pend /\ i \in manifests[t.by].files)
    <3>1. CASE t = row
      BY <1>1, <1>2, <1>4, <1>7, <2>2, <3>1 DEF Withdraws
    <3>2. CASE t \in state.tombs
      BY <1>1, <2>2, <3>2 DEF Gone
    <3>. QED
      BY <1>4, <3>1, <3>2
  <2>3. ASSUME NEW t \in state'.tombs, NEW r \in reviews, r.scope = t.scope, t.key \in r.keys
        PROVE  t.by \in state'.pend /\ r \in manifests[t.by].reviews
    <3>1. CASE t = row
      BY <1>1, <1>2, <1>4, <1>7, <2>3, <3>1 DEF Withdraws
    <3>2. CASE t \in state.tombs
      BY <1>1, <2>3, <3>2 DEF Gone
    <3>. QED
      BY <1>4, <3>1, <3>2
  <2>. QED
    BY <2>1, <2>2, <2>3 DEF Gone, Elsewhere, Offers, OwnedBy
<1>10. \A c \in BatchIds : Stored(state, c) /\ Stored(state', c) => ResultOf(state, c) = ResultOf(state', c)
  BY <1>2, <1>5, NamesAssumption
<1>11. OneResult(w)
  BY <1>4, <1>5 DEF OneResult
<1>. QED
  BY <1>4, <1>5, <1>8, <1>9, <1>10, <1>11 DEF Kept

\* The commit of a reinstatement.
LEMMA ReinstateKept ==
  ASSUME Sound, NEW w \in Callers, WriteState(w), op[w].kind = "reinstate"
  PROVE  /\ Kept' /\ state'.cur = state.cur /\ state'.batches = state.batches /\ state'.pend = state.pend
<1>. Typed /\ Tables /\ Listed /\ Gone /\ Calls
  BY DEF Sound
<1>1. plan[w] = NoPlan /\ mem[w] = state /\ op[w].scope \in Scopes /\ state \in StateType
  BY Knows DEF WriteState, Inside, Working, Call, Typed
<1>2. state' = [state EXCEPT !.tombs = {t \in @ : t.scope # op[w].scope \/ t.key # op[w].key}]
  BY <1>1 DEF WriteState, Reinstated
<1>3. /\ state'.cur = state.cur /\ state'.batches = state.batches /\ state'.pend = state.pend
      /\ state'.hist = state.hist /\ state'.tombs \subseteq state.tombs
  BY <1>1, <1>2 DEF StateType
<1>4. PICK s \in Scopes : s = op[w].scope
  BY <1>1
<1>5. PICK n \in Nat : n = state.cur[s]
  BY <1>1, <1>4 DEF StateType
<1>6. Tables' /\ Listed'
  <2>1. state'.cur = [state.cur EXCEPT ![s] = n]
    BY <1>1, <1>3, <1>4, <1>5 DEF StateType
  <2>2. NewResults(n)
    BY <1>3 DEF Tables, StateRows, NewResults, Distinct
  <2>3. NewMarks(plan[w].withdrawal)
    BY <1>1, <1>3 DEF NoPlan, NoWithdrawal, NewMarks
  <2>4. NewTombs(s, n)
    BY <1>3 DEF Tables, StateRows, NewTombs
  <2>. QED
    BY <1>5, <2>1, <2>2, <2>3, <2>4, CommitKept
<1>7. Gone'
  <2>1. UNCHANGED <<made, claimFiles, snaps, reviews, manifests>>
    BY DEF WriteState, files
  <2>. QED
    BY <1>3, <2>1 DEF Gone, Elsewhere, Offers, OwnedBy
<1>. QED
  BY <1>3, <1>6, <1>7 DEF Kept

\* The commit of any call keeps the directory sound.
LEMMA WriteStateKept ==
  ASSUME Sound, NEW w \in Callers, WriteState(w)
  PROVE  Kept'
<1>1. op[w].kind \in {"reconcile", "withdraw", "reinstate"}
  BY Knows DEF Sound, WriteState, Inside, Working
<1>. QED
  BY <1>1, ReconcileKept, WithdrawKept, ReinstateKept

\* synchronizeRegistry lists the snapshots of the state.
LEMMA SyncRegistryKept ==
  ASSUME Sound, NEW w \in Callers, SyncRegistry(w)
  PROVE  Kept' /\ registry' = View(state)
<1>1. mem[w] = state
  BY Knows DEF Sound, SyncRegistry, Inside, Working
<1>2. registry' = View(state)
  BY <1>1 DEF SyncRegistry
<1>3. registry' \subseteq Snapshots
  BY <1>2, ListedIds DEF Sound, View
<1>4. UNCHANGED Directory
  BY DEF SyncRegistry, Directory, history
<1>. QED
  BY <1>2, <1>3, <1>4, SameDirectory

\* Every step keeps the directory sound.
LEMMA KeptStep ==
  ASSUME Sound, [Next]_vars
  PROVE  Kept'
<1>. USE DEF Directory, files, history
<1>1. registry \subseteq Snapshots
  BY DEF Sound, Tables
<1>2. ASSUME UNCHANGED <<registry, Directory>> PROVE Kept'
  BY <1>1, <1>2, SameDirectory
<1>3. ASSUME NEW b \in BatchIds, Draft(b) PROVE Kept'
  BY <1>2, <1>3 DEF Draft
<1>4. ASSUME NEW w \in Callers, Start(w) PROVE Kept'
  BY <1>2, <1>4 DEF Start, Reconcile, Withdraw, Reinstate, Begin
<1>5. ASSUME NEW w \in Callers, Crash(w) PROVE Kept'
  BY <1>2, <1>5 DEF Crash
<1>6. ASSUME NEW r \in Readers, ReadStep(r) PROVE Kept'
  BY <1>2, <1>6 DEF ReadStep, ReadRegistry, OpenSnapshot, ReadClaim, EndRead
<1>7. CASE UNCHANGED vars
  BY <1>2, <1>7 DEF vars
<1>8. ASSUME NEW w \in Callers, Step(w) PROVE Kept'
  <2>1. CASE Acquire(w) \/ JudgeStale(w) \/ Reclaim(w) \/ TimeOut(w) \/ Release(w)
    BY <1>2, <2>1 DEF Acquire, JudgeStale, Reclaim, TimeOut, Release
  <2>2. CASE ResumeDelete(w) \/ ResumeReview(w) \/ ResumeFinish(w) \/ SyncRegistry(w)
    BY <2>2, ResumeDeleteKept, ResumeReviewKept, ResumeFinishKept, SyncRegistryKept
  <2>3. CASE Resumed(w) \/ DeliverEvent(w) \/ DeliverFails(w) \/ WriteReceipt(w) \/ Delivered(w)
    BY <1>2, <2>3 DEF Resumed, DeliverEvent, DeliverFails, WriteReceipt, Delivered
  <2>4. CASE Replay(w) \/ Refuse(w) \/ AcceptNothing(w) \/ WithdrawAgain(w) \/ WithdrawUnknown(w)
    BY <1>2, <2>4 DEF Replay, Refuse, AcceptNothing, WithdrawAgain, WithdrawUnknown
  <2>5. CASE DecideReinstate(w) \/ WriteOutbox(w)
    BY <1>2, <2>5 DEF DecideReinstate, WriteOutbox
  <2>6. CASE Reject(w) \/ Accept(w) \/ WriteClaim(w) \/ WriteSnapshot(w)
    BY <2>6, RejectKept, AcceptKept, WriteClaimKept, WriteSnapshotKept
  <2>7. CASE PrepareWithdrawal(w) \/ WriteManifest(w) \/ WriteState(w)
    BY <2>7, PrepareWithdrawalKept, WriteManifestKept, WriteStateKept
  <2>. QED
    BY <1>8, <2>1, <2>2, <2>3, <2>4, <2>5, <2>6, <2>7, Zenon DEF Step
<1>. QED
  BY <1>3, <1>4, <1>5, <1>6, <1>7, <1>8, Zenon DEF Next

-----------------------------------------------------------------------------
(* Readers *)

\* Snapshots are never deleted, and rd and withdrawn change together.
LEMMA MoreSnapshots ==
  ASSUME Sound, [Next]_vars
  PROVE  Snapshots \subseteq Snapshots'
<1>. Typed /\ Tables /\ Calls
  BY DEF Sound
<1>. USE DEF files, history
<1>1. CASE snaps' = snaps
  BY <1>1 DEF Snapshots
<1>2. ASSUME NEW row \in SnapshotType, snaps' = Append(snaps, row) PROVE Snapshots \subseteq Snapshots'
  <2>1. snaps \in Seq(SnapshotType)
    BY DEF Typed
  <2>2. 1..Len(snaps') = 1..Len(snaps) \union {Len(snaps) + 1}
    BY <1>2, <2>1, Added
  <2>. QED
    BY <2>2 DEF Snapshots
<1>3. ASSUME NEW w \in Callers, WriteSnapshot(w) PROVE Snapshots \subseteq Snapshots'
  <2>1. Len(snaps') = Len(snaps) + 1 /\ Len(snaps) \in Nat
    BY <1>3, WriteSnapshotKept, Rows
  <2>. QED
    BY <2>1 DEF Snapshots
<1>4. ASSUME NEW w \in Callers, PrepareWithdrawal(w) PROVE Snapshots \subseteq Snapshots'
  <2>1. \E s \in Scopes : LET left == Ids(state, s) \ {op[w].claim}
                          IN  /\ snaps' = IF left = {} THEN snaps
                                          ELSE Append(snaps, [scope |-> s, base |-> state.cur[s], ids |-> left])
                              /\ [scope |-> s, base |-> state.cur[s], ids |-> left] \in SnapshotType
    BY <1>4, PreparedPlan, Zenon
  <2>2. snaps' = snaps \/ \E row \in SnapshotType : snaps' = Append(snaps, row)
    BY <2>1, Zenon
  <2>. QED
    BY <1>1, <1>2, <2>2
<1>5. CASE UNCHANGED vars
  BY <1>1, <1>5 DEF vars
<1>6. ASSUME NEW w \in Callers, Step(w) PROVE Snapshots \subseteq Snapshots'
  <2>1. CASE Acquire(w) \/ JudgeStale(w) \/ Reclaim(w) \/ TimeOut(w) \/ Release(w) \/ ResumeDelete(w)
               \/ ResumeReview(w) \/ ResumeFinish(w) \/ SyncRegistry(w)
    BY <1>1, <2>1 DEF Acquire, JudgeStale, Reclaim, TimeOut, Release, ResumeDelete, ResumeReview, ResumeFinish,
                      SyncRegistry
  <2>2. CASE Resumed(w) \/ DeliverEvent(w) \/ DeliverFails(w) \/ WriteReceipt(w) \/ Delivered(w)
               \/ Replay(w) \/ Refuse(w) \/ AcceptNothing(w) \/ WithdrawAgain(w) \/ WithdrawUnknown(w)
    BY <1>1, <2>2 DEF Resumed, DeliverEvent, DeliverFails, WriteReceipt, Delivered,
                      Replay, Refuse, AcceptNothing, WithdrawAgain, WithdrawUnknown
  <2>3. CASE DecideReinstate(w) \/ WriteOutbox(w) \/ Reject(w) \/ Accept(w) \/ WriteClaim(w) \/ WriteManifest(w)
               \/ WriteState(w)
    BY <1>1, <2>3 DEF DecideReinstate, WriteOutbox, Reject, Accept, WriteClaim, WriteManifest, WriteState
  <2>. QED
    BY <1>3, <1>4, <1>6, <2>1, <2>2, <2>3, Zenon DEF Step
<1>7. ASSUME NEW w \in Callers, Start(w) \/ Crash(w) PROVE Snapshots \subseteq Snapshots'
  BY <1>1, <1>7 DEF Start, Reconcile, Withdraw, Reinstate, Begin, Crash
<1>8. ASSUME NEW r \in Readers, ReadStep(r) PROVE Snapshots \subseteq Snapshots'
  BY <1>1, <1>8 DEF ReadStep, ReadRegistry, OpenSnapshot, ReadClaim, EndRead
<1>9. ASSUME NEW b \in BatchIds, Draft(b) PROVE Snapshots \subseteq Snapshots'
  BY <1>1, <1>9 DEF Draft
<1>. QED
  BY <1>5, <1>6, <1>7, <1>8, <1>9, Zenon DEF Next

\* One reader's part of Reads.
Reading(r) ==
  /\ rd[r].todo \subseteq Snapshots /\ rd[r].since \subseteq withdrawn
  /\ r \notin Trusting => /\ \A i \in rd[r].claims : <<rd[r].scope, i>> \notin rd[r].since
                          /\ rd[r].got \intersect rd[r].since = {}

\* A step of a reader gives it nothing that was withdrawn before it began.
LEMMA ReaderStep ==
  ASSUME Sound, NEW r \in Readers, ReadStep(r)
  PROVE  Reads'
<1>. Typed /\ Tables /\ Listed /\ Calls
  BY DEF Sound
<1>1. \A q \in Readers : Reading(q) /\ rd[q] \in ReadType
  BY DEF Sound, Reads, Reading, Typed
<1>2. UNCHANGED <<snaps, withdrawn>>
  BY DEF ReadStep, ReadRegistry, OpenSnapshot, ReadClaim, EndRead, files, history
<1>3. ASSUME NEW x, rd' = [rd EXCEPT ![r] = x], x.todo \subseteq Snapshots, x.since \subseteq withdrawn,
             r \notin Trusting => /\ \A i \in x.claims : <<x.scope, i>> \notin x.since
                                  /\ x.got \intersect x.since = {}
      PROVE  Reads'
  <2>1. rd'[r] = x /\ \A q \in Readers \ {r} : rd'[q] = rd[q]
    BY <1>3 DEF Typed
  <2>2. Snapshots' = Snapshots
    BY <1>2 DEF Snapshots
  <2>. QED
    BY <1>1, <1>2, <1>3, <2>1, <2>2 DEF Reads, Reading
<1>4. CASE ReadRegistry(r)
  <2>. PICK x : x = [NoRead EXCEPT !.pc = "read", !.todo = registry, !.since = withdrawn]
    OBVIOUS
  <2>1. x.todo = registry /\ x.since = withdrawn /\ x.claims = {} /\ x.got = {}
    BY DEF NoRead
  <2>2. rd' = [rd EXCEPT ![r] = x] /\ registry \subseteq Snapshots
    BY <1>4 DEF ReadRegistry, Tables
  <2>. QED
    BY <1>3, <2>1, <2>2
<1>5. CASE OpenSnapshot(r)
  <2>1. PICK n \in rd[r].todo :
          rd' = [rd EXCEPT ![r].todo = @ \ {n}, ![r].scope = snaps[n].scope, ![r].claims = Allowed(r, n)]
    BY <1>5 DEF OpenSnapshot
  <2>. PICK x : x = [rd[r] EXCEPT !.todo = @ \ {n}, !.scope = snaps[n].scope, !.claims = Allowed(r, n)]
    OBVIOUS
  <2>2. /\ x.todo = rd[r].todo \ {n} /\ x.scope = snaps[n].scope /\ x.claims = Allowed(r, n)
        /\ x.got = rd[r].got /\ x.since = rd[r].since
    BY <1>1 DEF ReadType
  <2>3. rd' = [rd EXCEPT ![r] = x]
    BY <1>1, <2>1 DEF Typed, ReadType
  <2>4. n \in Snapshots /\ snaps[n].scope \in Scopes
    BY <1>1, Rows DEF Reading, SnapshotType
  <2>5. r \notin Trusting => \A i \in Allowed(r, n) : <<snaps[n].scope, i>> \notin withdrawn
    BY <2>4 DEF Allowed, Listed
  <2>6. x.todo \subseteq Snapshots /\ x.since \subseteq withdrawn
    BY <1>1, <2>2 DEF Reading
  <2>7. r \notin Trusting => \A i \in x.claims : <<x.scope, i>> \notin x.since
    BY <2>2, <2>5, <2>6
  <2>8. r \notin Trusting => x.got \intersect x.since = {}
    BY <1>1, <2>2 DEF Reading
  <2>. QED
    BY <1>3, <2>3, <2>6, <2>7, <2>8
<1>6. CASE ReadClaim(r)
  <2>1. PICK i \in rd[r].claims : rd' = [rd EXCEPT ![r] = IF i \in claimFiles
          THEN [rd[r] EXCEPT !.claims = @ \ {i}, !.got = @ \union {<<rd[r].scope, i>>}]
          ELSE [NoRead EXCEPT !.pc = "failed"]]
    BY <1>6, Zenon DEF ReadClaim
  <2>. PICK x : x = IF i \in claimFiles
                    THEN [rd[r] EXCEPT !.claims = @ \ {i}, !.got = @ \union {<<rd[r].scope, i>>}]
                    ELSE [NoRead EXCEPT !.pc = "failed"]
    OBVIOUS
  <2>2. rd' = [rd EXCEPT ![r] = x]
    BY <2>1, Zenon
  <2>3. CASE i \in claimFiles
    <3>1. /\ x.todo = rd[r].todo /\ x.scope = rd[r].scope /\ x.claims = rd[r].claims \ {i}
          /\ x.got = rd[r].got \union {<<rd[r].scope, i>>} /\ x.since = rd[r].since
      BY <1>1, <2>3 DEF ReadType
    <3>2. r \notin Trusting => <<rd[r].scope, i>> \notin rd[r].since /\ rd[r].got \intersect rd[r].since = {}
      BY <1>1 DEF Reading
    <3>3. r \notin Trusting => x.got \intersect x.since = {}
      BY <3>1, <3>2
    <3>. QED
      BY <1>1, <1>3, <2>2, <3>1, <3>3 DEF Reading
  <2>4. CASE i \notin claimFiles
    <3>1. x.todo = {} /\ x.claims = {} /\ x.got = {} /\ x.since = {}
      BY <2>4 DEF NoRead
    <3>. QED
      BY <1>3, <2>2, <3>1
  <2>. QED
    BY <2>3, <2>4
<1>7. CASE EndRead(r)
  <2>. PICK x : x = [rd[r] EXCEPT !.pc = "done", !.scope = "none"]
    OBVIOUS
  <2>1. rd' = [rd EXCEPT ![r] = x] /\ rd[r].claims = {}
    BY <1>1, <1>7 DEF EndRead, Typed, ReadType
  <2>2. x.todo = rd[r].todo /\ x.claims = rd[r].claims /\ x.got = rd[r].got /\ x.since = rd[r].since
    BY <1>1 DEF ReadType
  <2>. QED
    BY <1>1, <1>3, <2>1, <2>2 DEF Reading
<1>. QED
  BY <1>4, <1>5, <1>6, <1>7 DEF ReadStep

\* No step gives a reader what was withdrawn before it began.
LEMMA ReadsStep ==
  ASSUME Sound, [Next]_vars
  PROVE  Reads'
<1>. Typed /\ Tables /\ Listed /\ Calls /\ Reads
  BY DEF Sound
<1>. USE DEF files, history
<1>1. Snapshots \subseteq Snapshots'
  BY MoreSnapshots
<1>2. ASSUME UNCHANGED <<rd, withdrawn>> PROVE Reads'
  BY <1>1, <1>2 DEF Reads
<1>3. ASSUME NEW w \in Callers, WriteState(w) PROVE Reads'
  <2>. SUFFICES ASSUME NEW r \in Readers PROVE Reading(r)'
    BY DEF Reads, Reading
  <2>1. /\ rd'[r] = [rd[r] EXCEPT !.since = rd'[r].since] /\ rd'[r].since \subseteq rd[r].since
        /\ \A x \in withdrawn \ withdrawn' : x \notin rd'[r].since
    BY <1>3, CommitWithdrawn
  <2>2. rd[r] \in ReadType /\ Reading(r)
    BY DEF Typed, Reads, Reading
  <2>3. /\ rd'[r].todo = rd[r].todo /\ rd'[r].claims = rd[r].claims /\ rd'[r].got = rd[r].got
        /\ rd'[r].scope = rd[r].scope
    <3>. PICK x : x = rd'[r].since
      OBVIOUS
    <3>1. rd'[r] = [rd[r] EXCEPT !.since = x]
      BY <2>1
    <3>. QED
      BY <2>2, <3>1 DEF ReadType
  <2>. QED
    BY <1>1, <2>1, <2>2, <2>3 DEF Reading
<1>4. CASE UNCHANGED vars
  BY <1>2, <1>4 DEF vars
<1>5. ASSUME NEW w \in Callers, Step(w) PROVE Reads'
  <2>1. CASE Acquire(w) \/ JudgeStale(w) \/ Reclaim(w) \/ TimeOut(w) \/ Release(w) \/ ResumeDelete(w)
               \/ ResumeReview(w) \/ ResumeFinish(w) \/ SyncRegistry(w)
    BY <1>2, <2>1 DEF Acquire, JudgeStale, Reclaim, TimeOut, Release, ResumeDelete, ResumeReview, ResumeFinish,
                      SyncRegistry
  <2>2. CASE Resumed(w) \/ DeliverEvent(w) \/ DeliverFails(w) \/ WriteReceipt(w) \/ Delivered(w)
               \/ Replay(w) \/ Refuse(w) \/ AcceptNothing(w) \/ WithdrawAgain(w) \/ WithdrawUnknown(w)
    BY <1>2, <2>2 DEF Resumed, DeliverEvent, DeliverFails, WriteReceipt, Delivered,
                      Replay, Refuse, AcceptNothing, WithdrawAgain, WithdrawUnknown
  <2>3. CASE DecideReinstate(w) \/ WriteOutbox(w) \/ Reject(w) \/ Accept(w) \/ WriteClaim(w) \/ WriteManifest(w)
               \/ WriteSnapshot(w) \/ PrepareWithdrawal(w)
    BY <1>2, <2>3 DEF DecideReinstate, WriteOutbox, Reject, Accept, WriteClaim, WriteManifest, WriteSnapshot,
                      PrepareWithdrawal
  <2>. QED
    BY <1>3, <1>5, <2>1, <2>2, <2>3, Zenon DEF Step
<1>6. ASSUME NEW w \in Callers, Start(w) \/ Crash(w) PROVE Reads'
  BY <1>2, <1>6 DEF Start, Reconcile, Withdraw, Reinstate, Begin, Crash
<1>7. ASSUME NEW b \in BatchIds, Draft(b) PROVE Reads'
  BY <1>2, <1>7 DEF Draft
<1>. QED
  BY <1>4, <1>5, <1>6, <1>7, ReaderStep, Zenon DEF Next

-----------------------------------------------------------------------------
(* Calls *)

Others(w) == \A v \in Callers \ {w} : pc'[v] = pc[v] /\ op'[v] = op[v] /\ plan'[v] = plan[v] /\ mem'[v] = mem[v]
Alone(w) == \A v \in Callers \ {w} : ~Inside(v)

\* The lock excludes: whoever works in the directory is alone.
LEMMA LockExcludes ==
  ASSUME Calls, NEW w \in Callers, lock \in {w, Free, Dead} \/ Inside(w)
  PROVE  Alone(w)
BY NamesAssumption DEF Calls, Call, Alone

\* A step of a call that is alone.
LEMMA OwnStep ==
  ASSUME Calls, NEW w \in Callers, Alone(w), Others(w), Inside(w)' => Call(w)',
         pc'[w] # "idle" => op'[w] # NoOp, ~Inside(w)' => plan'[w] = NoPlan /\ mem'[w] = NoState
  PROVE  Calls'
BY DEF Calls, Alone, Others, Inside

\* What a call has planned fits the directory as long as neither changes.
LEMMA PlanSame ==
  ASSUME UNCHANGED Directory, NEW v, pc'[v] = pc[v], op'[v] = op[v], plan'[v] = plan[v]
  PROVE  /\ Accepting(v) => Accepting(v)'
         /\ Reconciles(v) => Reconciles(v)'
         /\ Withdraws(v) => Withdraws(v)'
<1>. USE DEF Directory
<1>1. /\ \A b : Stored(state, b)' <=> Stored(state, b)
      /\ \A s, k : Tombed(state, s, k)' <=> Tombed(state, s, k)
  BY DEF Stored, Tombed
<1>2. \A n, s : Fresh(n, s)' <=> Fresh(n, s)
  BY DEF Fresh, Tombed, Snapshots
<1>3. /\ \A s, i : Backed(s, i)' <=> Backed(s, i)
      /\ \A s, i : Elsewhere(s, i)' <=> Elsewhere(s, i)
      /\ \A s, i : OwnedBy(s, i)' <=> OwnedBy(s, i)
  BY DEF Backed, Elsewhere, OwnedBy, Offers
<1>4. Accepting(v) => Accepting(v)'
  BY <1>1, <1>3 DEF Accepting, Stored, Tombed, OneEach, Backed, Offers, Claims
<1>5. Reconciles(v) => Reconciles(v)'
  BY DEF Reconciles, Fresh, Stored, Tombed, Snapshots
<1>6. Withdraws(v) => Withdraws(v)'
  <2>. SUFFICES ASSUME Withdraws(v) PROVE Withdraws(v)'
    OBVIOUS
  <2>. PICK p : p = plan[v]
    OBVIOUS
  <2>1. /\ p.verdict = "withdrawn" /\ p.withdrawal.scope \in Scopes /\ p.withdrawal.key \in Keys
        /\ p.events # <<>> /\ p.events[1].batch \in Nat /\ ~Stored(state, p.events[1].batch)
        /\ IF pc[v] = "manifest" THEN p.events[1].batch = Len(manifests) + 1
           ELSE p.events[1].batch \in 1..Len(manifests) /\ manifests[p.events[1].batch] = p.withdrawal
    BY DEF Withdraws
  <2>2. p.snap = 0 \/ (Fresh(p.snap, p.withdrawal.scope)
                        /\ \A i \in snaps[p.snap].ids : made[i].key # p.withdrawal.key)
    BY DEF Withdraws
  <2>3. /\ \A i \in claimFiles : made[i].key = p.withdrawal.key /\ OwnedBy(p.withdrawal.scope, i) =>
             Elsewhere(p.withdrawal.scope, i) \/ i \in p.withdrawal.files
        /\ \A r \in reviews : r.scope = p.withdrawal.scope /\ p.withdrawal.key \in r.keys => r \in p.withdrawal.reviews
    BY DEF Withdraws
  <2>4. ~Stored(state', p.events[1].batch)
    BY <2>1 DEF Stored
  <2>5. p.snap = 0 \/ (Fresh(p.snap, p.withdrawal.scope)'
                        /\ \A i \in snaps'[p.snap].ids : made'[i].key # p.withdrawal.key)
    BY <1>2, <2>2
  <2>6. /\ \A i \in claimFiles' : made'[i].key = p.withdrawal.key /\ OwnedBy(p.withdrawal.scope, i)' =>
             Elsewhere(p.withdrawal.scope, i)' \/ i \in p.withdrawal.files
        /\ \A r \in reviews' : r.scope = p.withdrawal.scope /\ p.withdrawal.key \in r.keys => r \in p.withdrawal.reviews
    BY <1>3, <2>3
  <2>. QED
    BY <2>1, <2>4, <2>5, <2>6 DEF Withdraws
<1>. QED
  BY <1>4, <1>5, <1>6

\* A step of a call that waits, while another may work in the directory.
LEMMA OutsideStep ==
  ASSUME Calls, NEW w \in Callers, Others(w), UNCHANGED <<Directory, lock>>, ~Inside(w)',
         pc'[w] # "idle" => op'[w] # NoOp, plan'[w] = NoPlan, mem'[w] = NoState
  PROVE  Calls'
<1>. SUFFICES ASSUME NEW v \in Callers \ {w}, Inside(v) PROVE Call(v)'
  BY DEF Calls, Others, Inside
<1>1. Call(v) /\ pc'[v] = pc[v] /\ op'[v] = op[v] /\ plan'[v] = plan[v] /\ mem'[v] = mem[v]
  BY DEF Calls, Others
<1>2. /\ Accepting(v) => Accepting(v)'
      /\ Reconciles(v) => Reconciles(v)'
      /\ Withdraws(v) => Withdraws(v)'
  BY <1>1, PlanSame
<1>. USE DEF Directory
<1>. QED
  BY <1>1, <1>2 DEF Call

\* Labels at which a call has nothing planned, or has committed it.
Quiet == {"resume1", "sync1", "deliver1", "decide", "sync2", "resume2", "deliver2", "ack", "fail"}

\* A call that goes on to a quiet label, alone and knowing the state, is in order.
LEMMA QuietStep ==
  ASSUME Typed, Calls, NEW w \in Callers, Inside(w), NEW label \in Quiet, Others(w), pc'[w] = label,
         lock' = lock, mem'[w] = state', op'[w] = op[w], plan'[w] = plan[w],
         label = "resume2" => op[w].kind = "withdraw",
         label \in {"sync1", "deliver1", "sync2", "deliver2"} => op[w].kind # "reinstate",
         label \in {"resume1", "sync1", "deliver1", "decide"} => plan[w] = NoPlan,
         label \in {"sync1", "deliver1", "decide", "deliver2", "ack"} \/ (label = "sync2" /\ op[w].kind = "reconcile")
           => state'.pend = {}
  PROVE  Calls'
<1>1. Call(w) /\ op[w] # NoOp
  BY DEF Calls, Call
<1>2. Call(w)'
  BY <1>1 DEF Call, Quiet
<1>3. Inside(w)'
  BY DEF Inside, Quiet, Working
<1>4. Alone(w)
  BY LockExcludes
<1>. QED
  BY <1>1, <1>2, <1>3, <1>4, OwnStep

\* What a call inside goes on from.
LEMMA Here ==
  ASSUME Typed, Calls, NEW w \in Callers, Inside(w)
  PROVE  /\ op[w] # NoOp /\ op[w].kind \in {"reconcile", "withdraw", "reinstate"} /\ mem[w] = state /\ lock = w
         /\ op[w].kind = "reconcile" => op[w].batch \in BatchIds
         /\ pc[w] = "claims" => op[w].kind = "reconcile" /\ Accepting(w)
         /\ pc[w] \in {"manifest", "resume2"} => op[w].kind = "withdraw"
         /\ pc[w] \in {"sync1", "deliver1", "outbox", "sync2", "deliver2"} => op[w].kind # "reinstate"
         /\ pc[w] \in {"resume1", "sync1", "deliver1", "decide"} \/ op[w].kind = "reinstate" => plan[w] = NoPlan
         /\ pc[w] \in {"sync1", "deliver1", "decide", "claims", "manifest", "outbox", "state", "deliver2", "ack"}
              \/ (pc[w] = "sync2" /\ op[w].kind = "reconcile") => state.pend = {}
         /\ pc[w] \in {"outbox", "state"} /\ op[w].kind = "reconcile" => Reconciles(w)
         /\ pc[w] \in {"manifest", "outbox", "state"} /\ op[w].kind = "withdraw" => Withdraws(w)
BY Knows DEF Call

\* The steps of withLock.
LEMMA LockCalls ==
  ASSUME Sound, ~stolen', NEW w \in Callers,
         Acquire(w) \/ JudgeStale(w) \/ Reclaim(w) \/ TimeOut(w) \/ Release(w) \/ Crash(w)
  PROVE  Calls'
<1>. Typed /\ Calls
  BY DEF Sound
<1>. USE DEF files, history
<1>1. op \in [Callers -> OpType] /\ mem \in [Callers -> StateType] /\ plan \in [Callers -> PlanType]
  BY DEF Typed
<1>2. CASE Acquire(w)
  <2>1. pc[w] = "wait" /\ lock = Free /\ pc'[w] = "resume1" /\ Others(w)
    BY <1>2, ToType DEF Acquire, Others, Typed
  <2>2. ~Inside(w)
    BY <2>1 DEF Inside, Working
  <2>3. /\ lock' = w /\ mem'[w] = state' /\ op'[w] = op[w] /\ plan'[w] = plan[w] /\ op[w] # NoOp /\ plan[w] = NoPlan
    BY <1>1, <1>2, <2>1, <2>2 DEF Acquire, Calls
  <2>4. Call(w)' /\ Inside(w)'
    BY <2>1, <2>3 DEF Call, Inside, Working
  <2>. QED
    BY <2>1, <2>3, <2>4, LockExcludes, OwnStep
<1>3. CASE JudgeStale(w)
  <2>1. pc[w] = "wait" /\ pc'[w] = "reclaim" /\ Others(w)
    BY <1>3, ToType DEF JudgeStale, Others, Typed
  <2>2. ~Inside(w) /\ ~Inside(w)'
    BY <2>1 DEF Inside, Working
  <2>3. UNCHANGED <<Directory, lock, op, plan, mem>>
    BY <1>3 DEF JudgeStale, Directory
  <2>4. op[w] # NoOp /\ plan[w] = NoPlan /\ mem[w] = NoState
    BY <2>1, <2>2 DEF Calls
  <2>. QED
    BY <2>1, <2>2, <2>3, <2>4, OutsideStep
<1>4. CASE Reclaim(w)
  <2>1. pc[w] = "reclaim" /\ pc'[w] = "wait" /\ Others(w) /\ lock \notin Callers
    BY <1>4, ToType DEF Reclaim, Others, Typed
  <2>2. ~Inside(w) /\ ~Inside(w)' /\ lock \in {Free, Dead}
    BY <2>1 DEF Inside, Working, Typed
  <2>3. op'[w] = op[w] /\ plan'[w] = plan[w] /\ mem'[w] = mem[w]
    BY <1>4 DEF Reclaim
  <2>4. op[w] # NoOp /\ plan[w] = NoPlan /\ mem[w] = NoState
    BY <2>1, <2>2 DEF Calls
  <2>. QED
    BY <2>1, <2>2, <2>3, <2>4, LockExcludes, OwnStep
<1>5. CASE TimeOut(w) \/ Release(w) \/ Crash(w)
  <2>1. pc'[w] = "idle" /\ Others(w) /\ ~Inside(w)' /\ plan'[w] = NoPlan /\ mem'[w] = NoState
    <3>1. To(w, "idle") /\ End(w)
      BY <1>5 DEF TimeOut, Release, Crash
    <3>. QED
      BY <3>1, ToType, EndType DEF Others, Inside, Working
  <2>2. UNCHANGED Directory
    BY <1>5 DEF TimeOut, Release, Crash, Directory
  <2>3. CASE lock' = lock
    BY <2>1, <2>2, <2>3, OutsideStep
  <2>4. CASE lock' # lock
    <3>1. Release(w) \/ lock = w
      BY <1>5, <2>4 DEF TimeOut, Crash
    <3>2. Inside(w) \/ lock = w
      BY <3>1 DEF Release, Inside, Working
    <3>. QED
      BY <2>1, <3>2, LockExcludes, OwnStep
  <2>. QED
    BY <2>3, <2>4
<1>. QED
  BY <1>2, <1>3, <1>4, <1>5

\* The steps that recover, and those that end a call without a plan.
LEMMA QuietCalls ==
  ASSUME Sound, NEW w \in Callers,
         \/ ResumeDelete(w) \/ ResumeReview(w) \/ ResumeFinish(w) \/ Resumed(w) \/ SyncRegistry(w)
         \/ DeliverEvent(w) \/ DeliverFails(w) \/ WriteReceipt(w) \/ Delivered(w)
         \/ Replay(w) \/ Refuse(w) \/ WithdrawAgain(w) \/ WithdrawUnknown(w)
  PROVE  Calls'
<1>. Typed /\ Calls
  BY DEF Sound
<1>. USE DEF files, history
<1>1. mem \in [Callers -> StateType] /\ pc \in [Callers -> Labels]
  BY DEF Typed
<1>2. Inside(w)
  BY DEF ResumeDelete, ResumeReview, ResumeFinish, Resumed, SyncRegistry, DeliverEvent, DeliverFails,
         WriteReceipt, Delivered, Delivering, Replay, Refuse, Reconciling, WithdrawAgain, WithdrawUnknown, Withdrawing,
         Inside, Working
<1>3. /\ op[w] # NoOp /\ op[w].kind \in {"reconcile", "withdraw", "reinstate"} /\ mem[w] = state /\ lock = w
      /\ pc[w] \in {"manifest", "resume2"} => op[w].kind = "withdraw"
      /\ pc[w] \in {"sync1", "deliver1", "outbox", "sync2", "deliver2"} => op[w].kind # "reinstate"
      /\ pc[w] \in {"resume1", "sync1", "deliver1", "decide"} \/ op[w].kind = "reinstate" => plan[w] = NoPlan
      /\ pc[w] \in {"sync1", "deliver1", "decide", "claims", "manifest", "outbox", "state", "deliver2", "ack"}
           \/ (pc[w] = "sync2" /\ op[w].kind = "reconcile") => state.pend = {}
  BY <1>2, Here
<1>4. CASE ResumeDelete(w) \/ ResumeReview(w) \/ DeliverEvent(w) \/ WriteReceipt(w)
  <2>1. Others(w) /\ pc'[w] = pc[w] /\ lock' = lock /\ mem'[w] = state' /\ op'[w] = op[w] /\ plan'[w] = plan[w]
        /\ state' = state
    BY <1>3, <1>4 DEF ResumeDelete, ResumeReview, DeliverEvent, WriteReceipt, Others
  <2>2. pc[w] \in Quiet
    BY <1>4 DEF ResumeDelete, ResumeReview, DeliverEvent, WriteReceipt, Delivering, Quiet
  <2>3. pc[w] # "ack" /\ pc[w] # "decide" /\ (pc[w] = "resume1" \/ pc[w] = "resume2" \/ Delivering(w))
    BY <1>4 DEF ResumeDelete, ResumeReview, DeliverEvent, WriteReceipt, Delivering
  <2>. QED
    BY <1>2, <1>3, <2>1, <2>2, <2>3, QuietStep DEF Delivering
<1>5. CASE ResumeFinish(w)
  <2>1. Others(w) /\ pc'[w] = pc[w] /\ lock' = lock /\ mem'[w] = state' /\ op'[w] = op[w] /\ plan'[w] = plan[w]
    BY <1>1, <1>3, <1>5 DEF ResumeFinish, Others
  <2>2. pc[w] \in {"resume1", "resume2"} /\ pc[w] \in Quiet
    BY <1>5 DEF ResumeFinish, Quiet
  <2>. QED
    BY <1>2, <1>3, <2>1, <2>2, QuietStep
<1>6. CASE Resumed(w) \/ SyncRegistry(w) \/ Delivered(w)
  <2>1. /\ pc[w] \in {"resume1", "resume2", "sync1", "sync2", "deliver1", "deliver2"} /\ To(w, After(w))
        /\ pc[w] \in {"resume1", "resume2"} => state.pend = {}
    BY <1>3, <1>6 DEF Resumed, SyncRegistry, Delivered, Delivering
  <2>2. lock' = lock /\ mem' = mem /\ op' = op /\ plan' = plan /\ state' = state
    BY <1>6 DEF Resumed, SyncRegistry, Delivered
  <2>3. PICK label : label = After(w)
    OBVIOUS
  <2>4. Others(w) /\ pc'[w] = label /\ mem'[w] = state'
    BY <1>3, <2>1, <2>2, <2>3, ToType DEF Others
  <2>5. /\ pc[w] = "resume1" => label = IF op[w].kind = "reinstate" THEN "decide" ELSE "sync1"
        /\ pc[w] = "sync1" => label = "deliver1"
        /\ pc[w] = "deliver1" => label = "decide"
        /\ pc[w] = "sync2" => label = IF op[w].kind = "withdraw" THEN "resume2" ELSE "ack"
        /\ pc[w] = "resume2" => label = "deliver2"
        /\ pc[w] = "deliver2" => label = IF op[w].kind = "withdraw" THEN "ack" ELSE "sync2"
    BY <1>3, <2>3, AfterIs
  <2>6. /\ label \in Quiet
        /\ label = "resume2" => op[w].kind = "withdraw"
        /\ label \in {"sync1", "deliver1", "sync2", "deliver2"} => op[w].kind # "reinstate"
        /\ label \in {"resume1", "sync1", "deliver1", "decide"} => plan[w] = NoPlan
        /\ label \in {"sync1", "deliver1", "decide", "deliver2", "ack"} \/ (label = "sync2" /\ op[w].kind = "reconcile")
             => state'.pend = {}
    BY <1>3, <2>1, <2>2, <2>5 DEF Quiet
  <2>. QED
    BY <1>2, <2>2, <2>4, <2>6, QuietStep
<1>7. CASE Replay(w) \/ WithdrawAgain(w)
  <2>1. pc[w] = "decide" /\ pc'[w] = "ack" /\ Others(w)
    BY <1>7, ToType DEF Replay, Reconciling, WithdrawAgain, Withdrawing, Others
  <2>2. lock' = lock /\ mem'[w] = state' /\ op'[w] = op[w] /\ plan'[w] = plan[w] /\ state'.pend = {}
    BY <1>3, <1>7, <2>1 DEF Replay, WithdrawAgain
  <2>. QED
    BY <1>2, <2>1, <2>2, QuietStep DEF Quiet
<1>8. CASE DeliverFails(w) \/ Refuse(w) \/ WithdrawUnknown(w)
  <2>1. pc'[w] = "fail" /\ Others(w)
    BY <1>8, ToType DEF DeliverFails, Refuse, WithdrawUnknown, Others
  <2>2. lock' = lock /\ mem'[w] = state' /\ op'[w] = op[w] /\ plan'[w] = plan[w]
    BY <1>3, <1>8 DEF DeliverFails, Refuse, WithdrawUnknown
  <2>. QED
    BY <1>2, <2>1, <2>2, QuietStep DEF Quiet
<1>. QED
  BY <1>4, <1>5, <1>6, <1>7, <1>8

\* A step of a call inside that plans or writes.
LEMMA InnerStep ==
  ASSUME Typed, Calls, NEW w \in Callers, Inside(w), Others(w), op' = op, lock' = lock, mem'[w] = state',
         pc'[w] \in {"claims", "manifest", "outbox", "state"},
         pc'[w] = "claims" => op[w].kind = "reconcile" /\ Accepting(w)',
         pc'[w] = "manifest" => op[w].kind = "withdraw",
         pc'[w] = "outbox" => op[w].kind # "reinstate",
         op[w].kind = "reinstate" => plan'[w] = NoPlan,
         state'.pend = {},
         pc'[w] \in {"outbox", "state"} /\ op[w].kind = "reconcile" => Reconciles(w)',
         pc'[w] \in {"manifest", "outbox", "state"} /\ op[w].kind = "withdraw" => Withdraws(w)'
  PROVE  Calls'
<1>1. Call(w) /\ op[w] # NoOp
  BY DEF Calls, Call
<1>2. Call(w)'
  BY <1>1 DEF Call
<1>3. Inside(w)'
  BY DEF Inside, Working
<1>4. Alone(w)
  BY LockExcludes
<1>. QED
  BY <1>1, <1>2, <1>3, <1>4, OwnStep

\* A rejected batch, or one whose claims stand already, commits the snapshot the state lists.
LEMMA NothingNewCalls ==
  ASSUME Sound, NEW w \in Callers, Reject(w) \/ AcceptNothing(w)
  PROVE  Calls'
<1>. Typed /\ Calls
  BY DEF Sound
<1>. USE DEF files, history
<1>. DEFINE b == op[w].batch
            s == Content[b].scope
<1>1. pc[w] = "decide" /\ op[w].kind = "reconcile" /\ Inside(w)
  BY DEF Reject, AcceptNothing, Reconciling, Inside, Working
<1>2. mem[w] = state /\ lock = w /\ state.pend = {} /\ b \in BatchIds
  BY <1>1, Here
<1>3. pc'[w] = "state" /\ Others(w) /\ ~Stored(state, b)
  BY <1>2, ToType DEF Reject, AcceptNothing, Others, Typed, Answered
<1>4. UNCHANGED <<state, lock, op, mem>>
  BY DEF Reject, AcceptNothing
<1>5. PICK x : /\ x \in {"clean", "blocked", "conflicted"}
               /\ plan'[w] = [NoPlan EXCEPT !.verdict = x, !.snap = state.cur[s]]
  <2>1. Verdict(mem[w], b) \in {"clean", "blocked", "conflicted"}
    BY DEF Verdict
  <2>. QED
    BY <1>2, <2>1 DEF Reject, AcceptNothing, Typed
<1>6. plan'[w].verdict = x /\ plan'[w].snap = state.cur[s] /\ plan'[w].withdrawal = NoWithdrawal
  BY <1>5 DEF NoPlan
<1>7. Reconciles(w)'
  BY <1>3, <1>4, <1>5, <1>6 DEF Reconciles, Stored
<1>. QED
  BY <1>1, <1>2, <1>3, <1>4, <1>7, InnerStep

\* The plan of an accepted batch fits: its claims have keys of their own, none of them withdrawn.
LEMMA AcceptCalls ==
  ASSUME Sound, NEW w \in Callers, Accept(w)
  PROVE  Calls'
<1>. Typed /\ Tables /\ Listed /\ Calls
  BY DEF Sound
<1>. USE DEF files, history
<1>. DEFINE b == op[w].batch
            s == Content[b].scope
            new == {k \in DOMAIN Content[b].claims : ~Duplicate(state, b, k)}
            old == {CurrentId(state, s, k) : k \in new}
<1>1. pc[w] = "decide" /\ op[w].kind = "reconcile" /\ Inside(w)
  BY DEF Accept, Reconciling, Inside, Working
<1>2. mem[w] = state /\ lock = w /\ state.pend = {} /\ b \in BatchIds /\ s \in Scopes
  BY <1>1, Here, ContentAssumption
<1>3. pc'[w] = "claims" /\ ~Stored(state, b) /\ Verdict(state, b) = "clean"
      /\ \A v \in Callers \ {w} : pc'[v] = pc[v]
  BY <1>2, ToType DEF Accept, Answered
<1>4. UNCHANGED <<state, lock, op, mem, claimFiles>>
  BY DEF Accept
<1>5. PICK p : p = plan'[w]
  OBVIOUS
<1>6. /\ Len(made') \in Nat /\ Len(made) <= Len(made')
      /\ \A i \in Claims : i \in 1..Len(made') /\ made'[i] = made[i]
      /\ p.verdict = "clean" /\ p.withdrawal = NoWithdrawal
      /\ p.write \subseteq 1..Len(made')
      /\ p.ids = (Ids(state, s) \ old) \union p.write
      /\ \A i \in p.write : /\ made'[i].key \in new /\ made'[i].val = Content[b].claims[made'[i].key]
                            /\ \A j \in p.write : made'[j].key = made'[i].key => j = i
      /\ \A v \in Callers \ {w} : plan'[v] = plan[v]
  BY <1>5, AcceptIs, Zenon
<1>7. \A k \in DOMAIN Content[b].claims : ~Tombed(state, s, k)
  BY <1>3 DEF Verdict
<1>8. /\ Ids(state, s) \subseteq Claims /\ OneEach(Ids(state, s))
      /\ \A i \in Ids(state, s) : Backed(s, i) /\ i \in claimFiles /\ ~Tombed(state, s, made[i].key)
  BY <1>2, ListedIds DEF Listed
<1>9. \A k \in new : \A i \in Ids(state, s) : made[i].key = k => i \in old
  <2>1. \A k \in new : \A i \in Ids(state, s) : made[i].key = k => i = CurrentId(state, s, k)
    BY <1>2, CurrentClaim
  <2>. QED
    BY <2>1
<1>. HIDE DEF old
<1>10. \A i \in Ids(state, s) : made'[i] = made[i] /\ i \in 1..Len(made')
  BY <1>6, <1>8
<1>11. \A i \in p.ids \ p.write : i \in Ids(state, s) /\ made'[i].key \notin new
  BY <1>6, <1>9, <1>10
<1>12. \A i, j \in p.ids : made'[i].key = made'[j].key => i = j
  BY <1>6, <1>8, <1>10, <1>11 DEF OneEach
<1>13. \A i \in p.write : made'[i].key \in DOMAIN Content[b].claims /\ Content[b].claims[made'[i].key] = made'[i].val
  BY <1>6
<1>14. \A i \in p.ids : /\ \E c \in BatchIds : /\ Content[c].scope = s /\ made'[i].key \in DOMAIN Content[c].claims
                                               /\ Content[c].claims[made'[i].key] = made'[i].val
                        /\ ~Tombed(state, s, made'[i].key)
  <2>. TAKE i \in p.ids
  <2>1. CASE i \in p.write
    BY <1>2, <1>7, <1>13, <2>1
  <2>2. CASE i \notin p.write
    <3>1. i \in Ids(state, s) /\ made'[i] = made[i] /\ Backed(s, i) /\ ~Tombed(state, s, made[i].key)
      BY <1>8, <1>10, <1>11, <2>2
    <3>. QED
      BY <3>1 DEF Backed, Offers
  <2>. QED
    BY <2>1, <2>2
<1>15. Accepting(w)'
  <2>1. p.ids \subseteq 1..Len(made') /\ p.ids \subseteq claimFiles \union p.write
    BY <1>6, <1>8, <1>10, <1>11
  <2>2. op'[w].batch = b /\ Content[op'[w].batch].scope = s /\ state' = state /\ plan'[w] = p /\ claimFiles' = claimFiles
    BY <1>4, <1>5
  <2>. HIDE DEF new, s, b
  <2>. QED
    BY <1>3, <1>6, <1>7, <1>12, <1>13, <1>14, <2>1, <2>2
       DEF Accepting, Stored, Tombed, OneEach, Backed, Offers, Claims
<1>16. Others(w)
  BY <1>3, <1>4, <1>6 DEF Others
<1>17. mem'[w] = state' /\ state'.pend = {}
  BY <1>2, <1>4
<1>. QED
  BY <1>1, <1>3, <1>4, <1>15, <1>16, <1>17, InnerStep

\* A claim file is written: one less to write.
LEMMA WriteClaimCalls ==
  ASSUME Sound, NEW w \in Callers, WriteClaim(w)
  PROVE  Calls'
<1>. Typed /\ Tables /\ Calls
  BY DEF Sound
<1>. USE DEF files, history
<1>1. pc[w] = "claims" /\ Inside(w)
  BY DEF WriteClaim, Inside, Working
<1>2. mem[w] = state /\ lock = w /\ state.pend = {} /\ op[w].kind = "reconcile" /\ Accepting(w)
  BY <1>1, Here
<1>3. PICK i \in plan[w].write : /\ claimFiles' = claimFiles \union {i}
                                 /\ plan' = [plan EXCEPT ![w] = [plan[w] EXCEPT !.write = plan[w].write \ {i}]]
  BY DEF WriteClaim
<1>4. UNCHANGED <<state, made, lock, op, mem, pc>>
  BY DEF WriteClaim
<1>5. PICK p : p = plan'[w]
  OBVIOUS
<1>6. plan \in [Callers -> PlanType]
  BY DEF Typed
<1>7. p = [plan[w] EXCEPT !.write = plan[w].write \ {i}] /\ \A v \in Callers \ {w} : plan'[v] = plan[v]
  BY <1>3, <1>5, <1>6
<1>8. p.verdict = plan[w].verdict /\ p.withdrawal = plan[w].withdrawal /\ p.ids = plan[w].ids
      /\ p.write = plan[w].write \ {i}
  BY <1>6, <1>7 DEF PlanType
<1>9. Others(w) /\ mem'[w] = state' /\ state'.pend = {} /\ pc'[w] = "claims"
  BY <1>1, <1>2, <1>4, <1>7 DEF Others
<1>10. Accepting(w)'
  BY <1>2, <1>3, <1>4, <1>5, <1>8 DEF Accepting, Stored, Tombed, OneEach, Backed, Offers, Claims
<1>. QED
  BY <1>1, <1>2, <1>4, <1>9, <1>10, InnerStep

\* The snapshot of an accepted batch is made from the one the state lists.
LEMMA WriteSnapshotCalls ==
  ASSUME Sound, NEW w \in Callers, WriteSnapshot(w)
  PROVE  Calls'
<1>. Typed /\ Tables /\ Calls
  BY DEF Sound
<1>. USE DEF files, history
<1>1. pc[w] = "claims" /\ Inside(w)
  BY DEF WriteSnapshot, Inside, Working
<1>2. mem[w] = state /\ lock = w /\ state.pend = {} /\ op[w].kind = "reconcile" /\ Accepting(w)
  BY <1>1, Here
<1>3. PICK p : p = plan'[w]
  OBVIOUS
<1>4. /\ p.snap = Len(snaps) + 1 /\ p.withdrawal = plan[w].withdrawal /\ p.verdict = plan[w].verdict
      /\ plan' = [plan EXCEPT ![w] = p]
  BY <1>3, SnapshotPlan
<1>5. UNCHANGED <<state, lock, op, mem>>
  BY DEF WriteSnapshot
<1>6. pc'[w] = "outbox" /\ \A v \in Callers \ {w} : pc'[v] = pc[v]
  BY ToType DEF WriteSnapshot
<1>7. Others(w) /\ mem'[w] = state' /\ state'.pend = {}
  BY <1>2, <1>4, <1>5, <1>6 DEF Others, Typed
<1>8. Reconciles(w)'
  <2>1. Fresh(Len(snaps), Content[op[w].batch].scope)' /\ Len(snaps') = Len(snaps) + 1
    BY WriteSnapshotKept
  <2>2. Fresh(p.snap, Content[op[w].batch].scope)' <=> Fresh(Len(snaps), Content[op[w].batch].scope)'
    BY <1>3, <1>4, <2>1 DEF Fresh
  <2>. QED
    BY <1>2, <1>3, <1>4, <1>5, <2>1, <2>2 DEF Reconciles, Accepting, Stored, Fresh
<1>. QED
  BY <1>1, <1>2, <1>5, <1>6, <1>7, <1>8, InnerStep

\* The plan of a withdrawal fits the directory it was made from.
LEMMA PrepareWithdrawalCalls ==
  ASSUME Sound, NEW w \in Callers, PrepareWithdrawal(w)
  PROVE  Calls'
<1>. Typed /\ Tables /\ Calls
  BY DEF Sound
<1>. USE DEF files, history
<1>1. pc[w] = "decide" /\ op[w].kind = "withdraw" /\ Inside(w)
  BY DEF PrepareWithdrawal, Withdrawing, Inside, Working
<1>2. mem[w] = state /\ lock = w /\ state.pend = {}
  BY <1>1, Here
<1>3. UNCHANGED <<state, lock, op, mem>>
  BY DEF PrepareWithdrawal
<1>4. pc'[w] = "manifest" /\ \A v \in Callers \ {w} : pc'[v] = pc[v]
  BY ToType DEF PrepareWithdrawal
<1>5. \A v \in Callers \ {w} : plan'[v] = plan[v]
  <2>. PICK p : p = plan'[w]
    OBVIOUS
  <2>1. plan' = [plan EXCEPT ![w] = p]
    BY PreparedPlan
  <2>. QED
    BY <2>1 DEF Typed
<1>6. Others(w) /\ mem'[w] = state' /\ state'.pend = {}
  BY <1>2, <1>3, <1>4, <1>5 DEF Others
<1>7. Withdraws(w)'
  BY PrepareWithdrawalKept
<1>. QED
  BY <1>1, <1>2, <1>3, <1>4, <1>6, <1>7, InnerStep

\* The manifest of a withdrawal has the number its events name.
LEMMA WriteManifestCalls ==
  ASSUME Sound, NEW w \in Callers, WriteManifest(w)
  PROVE  Calls'
<1>. Typed /\ Tables /\ Calls
  BY DEF Sound
<1>. USE DEF files, history
<1>1. pc[w] = "manifest" /\ Inside(w)
  BY DEF WriteManifest, Inside, Working
<1>2. mem[w] = state /\ lock = w /\ state.pend = {} /\ op[w].kind = "withdraw" /\ Withdraws(w)
  BY <1>1, Here
<1>3. UNCHANGED <<state, made, claimFiles, snaps, reviews, lock, op, mem, plan>>
  BY DEF WriteManifest
<1>4. pc'[w] = "outbox" /\ \A v \in Callers \ {w} : pc'[v] = pc[v]
  BY ToType DEF WriteManifest
<1>5. Others(w) /\ mem'[w] = state' /\ state'.pend = {}
  BY <1>2, <1>3, <1>4 DEF Others
<1>6. /\ Len(manifests') = Len(manifests) + 1 /\ Len(manifests) \in Nat
      /\ manifests'[Len(manifests')] = plan[w].withdrawal
  <2>1. manifests \in Seq(WithdrawalType) /\ plan[w].withdrawal \in WithdrawalType
    BY DEF Typed, PlanType
  <2>2. manifests' = Append(manifests, plan[w].withdrawal)
    BY DEF WriteManifest
  <2>. QED
    BY <2>1, <2>2, Added
<1>7. plan[w].events[1].batch = Len(manifests')
  BY <1>1, <1>2, <1>6 DEF Withdraws
<1>8. plan[w].events[1].batch \in 1..Len(manifests') /\ manifests'[plan[w].events[1].batch] = plan[w].withdrawal
  BY <1>6, <1>7
<1>9. Withdraws(w)'
  BY <1>2, <1>3, <1>4, <1>8
     DEF Withdraws, Stored, Fresh, Snapshots, Tombed, OwnedBy, Elsewhere, Offers
<1>. QED
  BY <1>1, <1>2, <1>3, <1>4, <1>5, <1>9, InnerStep

\* A reinstatement of a key that is withdrawn goes on to its commit.
LEMMA DecideReinstateCalls ==
  ASSUME Sound, NEW w \in Callers, DecideReinstate(w)
  PROVE  Calls'
<1>. Typed /\ Tables /\ Calls
  BY DEF Sound
<1>. USE DEF files, history
<1>1. pc[w] = "decide" /\ op[w].kind = "reinstate" /\ Inside(w)
  BY DEF DecideReinstate, Inside, Working
<1>2. mem[w] = state /\ lock = w /\ state.pend = {} /\ plan[w] = NoPlan
  BY <1>1, Here
<1>3. UNCHANGED <<state, lock, op, mem, plan>>
  BY DEF DecideReinstate
<1>4. PICK label \in {"state", "fail"} : To(w, label)
  BY DEF DecideReinstate
<1>5. pc'[w] = label /\ \A v \in Callers \ {w} : pc'[v] = pc[v]
  BY <1>4, ToType
<1>6. Others(w) /\ mem'[w] = state' /\ state'.pend = {}
  BY <1>2, <1>3, <1>5 DEF Others
<1>7. CASE label = "state"
  BY <1>1, <1>2, <1>3, <1>5, <1>6, <1>7, InnerStep
<1>8. CASE label = "fail"
  BY <1>1, <1>2, <1>3, <1>5, <1>6, <1>8, QuietStep DEF Quiet
<1>. QED
  BY <1>7, <1>8

\* An outbox entry changes nothing a plan depends on.
LEMMA WriteOutboxCalls ==
  ASSUME Sound, NEW w \in Callers, WriteOutbox(w)
  PROVE  Calls'
<1>. Typed /\ Tables /\ Calls
  BY DEF Sound
<1>. USE DEF files, history
<1>1. pc[w] = "outbox" /\ Inside(w)
  BY DEF WriteOutbox, Inside, Working
<1>2. /\ mem[w] = state /\ lock = w /\ state.pend = {} /\ op[w].kind \in {"reconcile", "withdraw"}
      /\ op[w].kind = "reconcile" => Reconciles(w)
      /\ op[w].kind = "withdraw" => Withdraws(w)
  BY <1>1, Here
<1>3. UNCHANGED <<state, made, claimFiles, snaps, reviews, manifests, lock, op, mem, plan>>
  BY DEF WriteOutbox
<1>4. pc'[w] = "state" /\ \A v \in Callers \ {w} : pc'[v] = pc[v]
  BY ToType DEF WriteOutbox
<1>5. Others(w) /\ mem'[w] = state' /\ state'.pend = {}
  BY <1>2, <1>3, <1>4 DEF Others
<1>6. op[w].kind = "reconcile" => Reconciles(w)'
  BY <1>2, <1>3 DEF Reconciles, Stored, Fresh, Snapshots, Tombed
<1>7. op[w].kind = "withdraw" => Withdraws(w)'
  BY <1>1, <1>2, <1>3, <1>4 DEF Withdraws, Stored, Fresh, Snapshots, Tombed, OwnedBy, Elsewhere, Offers
<1>. QED
  BY <1>1, <1>2, <1>3, <1>4, <1>5, <1>6, <1>7, InnerStep

\* After its commit a call has nothing planned that is still to be written.
LEMMA WriteStateCalls ==
  ASSUME Sound, NEW w \in Callers, WriteState(w)
  PROVE  Calls'
<1>. Typed /\ Tables /\ Calls
  BY DEF Sound
<1>. USE DEF files, history
<1>1. pc[w] = "state" /\ Inside(w)
  BY DEF WriteState, Inside, Working
<1>2. /\ mem[w] = state /\ lock = w /\ state.pend = {} /\ op[w].kind \in {"reconcile", "withdraw", "reinstate"}
  BY <1>1, Here
<1>3. UNCHANGED <<lock, op, plan>> /\ mem' = [mem EXCEPT ![w] = state']
  BY DEF WriteState
<1>4. PICK label : label = After(w)
  OBVIOUS
<1>5. pc'[w] = label /\ \A v \in Callers \ {w} : pc'[v] = pc[v]
  BY <1>4, ToType DEF WriteState
<1>6. Others(w) /\ mem'[w] = state'
  <2>1. mem \in [Callers -> StateType]
    BY DEF Typed
  <2>. QED
    BY <1>3, <1>5, <2>1 DEF Others
<1>7. /\ op[w].kind = "reconcile" => label = "deliver2"
      /\ op[w].kind = "withdraw" => label = "sync2"
      /\ op[w].kind = "reinstate" => label = "ack"
  BY <1>1, <1>2, <1>4, AfterIs
<1>8. op[w].kind \in {"reconcile", "reinstate"} => state'.pend = {}
  BY <1>2, ReconcileKept, ReinstateKept
<1>9. label \in Quiet
  BY <1>2, <1>7 DEF Quiet
<1>. QED
  BY <1>1, <1>2, <1>3, <1>5, <1>6, <1>7, <1>8, <1>9, QuietStep

\* Clients and readers change nothing a call inside depends on.
LEMMA OutsideCalls ==
  ASSUME Sound, \/ \E b \in BatchIds : Draft(b)
                \/ \E w \in Callers : Start(w)
                \/ \E r \in Readers : ReadStep(r)
                \/ UNCHANGED vars
  PROVE  Calls'
<1>. Typed /\ Tables /\ Calls
  BY DEF Sound
<1>. USE DEF files, history
<1>1. CASE \E w \in Callers : Start(w)
  <2>1. PICK w \in Callers : Start(w)
    BY <1>1
  <2>2. PICK o \in OpType \ {NoOp} : Begin(w, o)
    <3>1. CASE \E b \in BatchIds : Reconcile(w, b)
      BY <3>1 DEF Reconcile, OpType, NoOp
    <3>2. CASE \E i \in 1..Len(made) : Withdraw(w, i)
      BY <3>2 DEF Withdraw, OpType, NoOp
    <3>3. CASE \E s \in Scopes, k \in Keys : Reinstate(w, s, k)
      BY <3>3 DEF Reinstate, OpType, NoOp
    <3>. QED
      BY <2>1, <3>1, <3>2, <3>3 DEF Start
  <2>3. pc[w] = "idle" /\ pc'[w] = "wait" /\ op'[w] # NoOp
        /\ UNCHANGED <<Directory, lock, plan, mem>>
        /\ \A v \in Callers \ {w} : pc'[v] = pc[v] /\ op'[v] = op[v]
    BY <2>2 DEF Begin, Directory, Typed
  <2>4. Others(w) /\ ~Inside(w) /\ ~Inside(w)'
    BY <2>3 DEF Others, Inside, Working
  <2>5. plan'[w] = NoPlan /\ mem'[w] = NoState
    BY <2>3, <2>4 DEF Calls
  <2>. QED
    BY <2>3, <2>4, <2>5, OutsideStep
<1>2. CASE UNCHANGED <<Directory, lock, pc, op, mem, plan>>
  <2>. USE <1>2 DEF Directory
  <2>1. \A v \in Callers : /\ Accepting(v) => Accepting(v)'
                           /\ Reconciles(v) => Reconciles(v)'
                           /\ Withdraws(v) => Withdraws(v)'
    BY PlanSame
  <2>. QED
    BY <2>1 DEF Calls, Call, Inside
<1>3. CASE \E b \in BatchIds : Draft(b)
  BY <1>2, <1>3 DEF Draft, Directory
<1>4. CASE \E r \in Readers : ReadStep(r)
  BY <1>2, <1>4 DEF ReadStep, ReadRegistry, OpenSnapshot, ReadClaim, EndRead, Directory
<1>5. CASE UNCHANGED vars
  BY <1>2, <1>5 DEF vars, Directory
<1>. QED
  BY <1>1, <1>3, <1>4, <1>5

\* Every step keeps the calls in order, as long as no live holder's lock is removed.
LEMMA CallsStep ==
  ASSUME Sound, [Next]_vars, ~stolen'
  PROVE  Calls'
<1>1. ASSUME NEW w \in Callers, Step(w) PROVE Calls'
  <2>1. CASE Acquire(w) \/ JudgeStale(w) \/ Reclaim(w) \/ TimeOut(w) \/ Release(w)
    BY <2>1, LockCalls
  <2>2. CASE \/ ResumeDelete(w) \/ ResumeReview(w) \/ ResumeFinish(w) \/ Resumed(w) \/ SyncRegistry(w)
             \/ DeliverEvent(w) \/ DeliverFails(w) \/ WriteReceipt(w) \/ Delivered(w)
             \/ Replay(w) \/ Refuse(w) \/ WithdrawAgain(w) \/ WithdrawUnknown(w)
    BY <2>2, QuietCalls, Zenon
  <2>3. CASE Reject(w) \/ AcceptNothing(w) \/ Accept(w) \/ WriteClaim(w) \/ WriteSnapshot(w)
    BY <2>3, NothingNewCalls, AcceptCalls, WriteClaimCalls, WriteSnapshotCalls
  <2>4. CASE PrepareWithdrawal(w) \/ WriteManifest(w) \/ DecideReinstate(w) \/ WriteOutbox(w) \/ WriteState(w)
    BY <2>4, PrepareWithdrawalCalls, WriteManifestCalls, DecideReinstateCalls, WriteOutboxCalls, WriteStateCalls
  <2>. QED
    BY <1>1, <2>1, <2>2, <2>3, <2>4, Zenon DEF Step
<1>2. ASSUME NEW w \in Callers, Crash(w) PROVE Calls'
  BY <1>2, LockCalls
<1>. QED
  BY <1>1, <1>2, OutsideCalls, Zenon DEF Next

\* The inductive invariant holds initially.
LEMMA SoundAtFirst ==
  ASSUME Init
  PROVE  Sound
<1>. USE DEF Init
<1>1. Typed
  <2>1. <<>> \in Seq(ClaimType) /\ <<>> \in Seq(SnapshotType) /\ <<>> \in Seq(WithdrawalType) /\ <<>> \in Seq(EventType)
    BY EmptySeq
  <2>2. NoRead \in ReadType
    BY DEF NoRead, ReadType
  <2>. QED
    BY <2>1, <2>2, NoneTyped DEF Typed, Labels
<1>2. Tables
  BY DEF Tables, Contents, SnapshotRows, StateRows, Claims, Snapshots, NoState
<1>3. Listed
  BY DEF Listed, Ids, NoState
<1>4. Gone
  BY DEF Gone, NoState
<1>5. Reads
  BY DEF Reads, NoRead, Snapshots
<1>6. Calls
  BY DEF Calls, Inside, Working
<1>. QED
  BY <1>1, <1>2, <1>3, <1>4, <1>5, <1>6 DEF Sound

-----------------------------------------------------------------------------
(* The invariant, and what follows from it *)

\* A lock once taken from a live holder stays recorded as taken.
LEMMA StolenStays ==
  ASSUME [Next]_vars, stolen
  PROVE  stolen'
<1>. USE DEF history
<1>1. ASSUME NEW w \in Callers, Step(w) PROVE stolen'
  <2>1. CASE Acquire(w) \/ JudgeStale(w) \/ Reclaim(w) \/ TimeOut(w) \/ Release(w) \/ ResumeDelete(w)
               \/ ResumeReview(w) \/ ResumeFinish(w) \/ SyncRegistry(w)
    BY <2>1 DEF Acquire, JudgeStale, Reclaim, TimeOut, Release, ResumeDelete, ResumeReview, ResumeFinish,
                SyncRegistry
  <2>2. CASE Resumed(w) \/ DeliverEvent(w) \/ DeliverFails(w) \/ WriteReceipt(w) \/ Delivered(w)
               \/ Replay(w) \/ Refuse(w) \/ AcceptNothing(w) \/ WithdrawAgain(w) \/ WithdrawUnknown(w)
    BY <2>2 DEF Resumed, DeliverEvent, DeliverFails, WriteReceipt, Delivered,
                Replay, Refuse, AcceptNothing, WithdrawAgain, WithdrawUnknown
  <2>3. CASE DecideReinstate(w) \/ WriteOutbox(w) \/ Reject(w) \/ Accept(w) \/ WriteClaim(w) \/ WriteManifest(w)
               \/ WriteSnapshot(w) \/ PrepareWithdrawal(w) \/ WriteState(w)
    BY <2>3 DEF DecideReinstate, WriteOutbox, Reject, Accept, WriteClaim, WriteManifest, WriteSnapshot,
                PrepareWithdrawal, WriteState
  <2>. QED
    BY <1>1, <2>1, <2>2, <2>3, Zenon DEF Step
<1>2. ASSUME NEW w \in Callers, Start(w) \/ Crash(w) PROVE stolen'
  BY <1>2 DEF Start, Reconcile, Withdraw, Reinstate, Begin, Crash
<1>3. ASSUME NEW r \in Readers, ReadStep(r) PROVE stolen'
  BY <1>3 DEF ReadStep, ReadRegistry, OpenSnapshot, ReadClaim, EndRead
<1>4. ASSUME NEW b \in BatchIds, Draft(b) PROVE stolen'
  BY <1>4 DEF Draft
<1>5. CASE UNCHANGED vars
  BY <1>5 DEF vars
<1>. QED
  BY <1>1, <1>2, <1>3, <1>4, <1>5, Zenon DEF Next

\* Every step keeps the invariant, as long as no live holder's lock is removed.
LEMMA SoundStep ==
  ASSUME Sound, [Next]_vars, ~stolen'
  PROVE  Sound'
BY TypedStep, KeptStep, ReadsStep, CallsStep, Zenon DEF Kept, Sound

\* The directory, the calls and the readers fit together.
THEOREM ContextIsSound == Spec => [](~stolen => Sound)
<1>1. Init => (~stolen => Sound)
  BY SoundAtFirst
<1>2. (~stolen => Sound) /\ [Next]_vars => (~stolen => Sound)'
  BY StolenStays, SoundStep, Zenon
<1>. QED
  BY <1>1, <1>2, PTL DEF Spec

\* What a call remembers of the state has its type: it is the state, or nothing.
LEMMA StatesTyped ==
  ASSUME Typed, Tables, Calls
  PROVE  StateOK(state) /\ \A w \in Callers : StateOK(mem[w])
<1>1. StateOK(state)
  <2>1. state \in StateType /\ StateRows
    BY DEF Typed, Tables
  <2>2. /\ state.cur \in [Scopes -> {0} \union Snapshots]
        /\ \A s \in Scopes : state.cur[s] # 0 => snaps[state.cur[s]].scope = s
    BY <2>1 DEF StateType, StateRows
  <2>3. ASSUME NEW i \in 1..Len(state.batches)
        PROVE  /\ state.batches[i].batch \in Numbers
               /\ state.batches[i].result.snap \in {0} \union Snapshots
               /\ \A j \in 1..Len(state.batches) : state.batches[i].batch = state.batches[j].batch => i = j
    <3>1. state.batches[i] \in StoredType
      BY <2>1, ElementOfSeq DEF StateType
    <3>2. state.batches[i].batch \in Nat => state.batches[i].batch \in 1..Len(manifests)
      BY <2>1 DEF StateRows
    <3>3. state.batches[i].batch \in Numbers
      BY <3>1, <3>2 DEF StoredType, Names, Numbers
    <3>. QED
      BY <2>1, <3>3 DEF StateRows
  <2>4. state.pend \subseteq 1..Len(manifests) /\ state.hist \subseteq BatchIds
    BY <2>1 DEF StateType, StateRows
  <2>5. \A t \in state.tombs : t.scope \in Scopes /\ t.key \in Keys /\ t.by \in 1..Len(manifests)
    BY <2>1 DEF StateType, StateRows, TombType
  <2>. QED
    BY <2>2, <2>3, <2>4, <2>5 DEF StateOK
<1>2. StateOK(NoState)
  BY EmptySeq DEF StateOK, NoState
<1>3. \A w \in Callers : mem[w] \in {state, NoState}
  BY DEF Calls, Call
<1>. QED
  BY <1>1, <1>2, <1>3

\* The types hold, and files refer to files that were written before them.
THEOREM TypeCorrect == Spec => []TypeOK
<1>1. (~stolen => Sound) => TypeOK
  <2>. SUFFICES ASSUME Sound, ~stolen PROVE TypeOK
    BY DEF TypeOK
  <2>. Typed /\ Tables /\ Calls
    BY DEF Sound
  <2>1. StateOK(state) /\ (\A w \in DOMAIN mem : StateOK(mem[w])) /\ DOMAIN pc = Callers
    BY StatesTyped DEF Typed
  <2>2. /\ registry \subseteq Snapshots /\ claimFiles \subseteq Claims
        /\ \A i \in Claims : made[i].sup \in 0..(i - 1)
        /\ \A n \in Snapshots : snaps[n].base \in 0..(n - 1) /\ snaps[n].ids \subseteq Claims
    BY DEF Tables, Contents, SnapshotRows
  <2>3. /\ \A e \in outbox : e.batch \in BatchIds \union Nat
        /\ receipts \subseteq BatchIds \union Nat
        /\ \A r \in reviews : r.scope \in Scopes /\ r.keys \subseteq Keys
        /\ lock \in Callers \union {Free, Dead} /\ now \in Nat
    BY DEF Typed, EntryType, Names, ReviewType
  <2>. QED
    BY <2>1, <2>2, <2>3 DEF TypeOK
<1>. QED
  BY <1>1, ContextIsSound, PTL

\* The state changes by a commit, and when a withdrawal is no longer pending.
LEMMA StateStep ==
  ASSUME Sound, [Next]_vars
  PROVE  state' = state \/ \E w \in Callers : ResumeFinish(w) \/ WriteState(w)
<1>1. ASSUME NEW w \in Callers, Step(w) PROVE state' = state \/ ResumeFinish(w) \/ WriteState(w)
  <2>1. CASE Acquire(w) \/ JudgeStale(w) \/ Reclaim(w) \/ TimeOut(w) \/ Release(w) \/ ResumeDelete(w)
               \/ ResumeReview(w) \/ SyncRegistry(w)
    BY <2>1 DEF Acquire, JudgeStale, Reclaim, TimeOut, Release, ResumeDelete, ResumeReview, SyncRegistry
  <2>2. CASE Resumed(w) \/ DeliverEvent(w) \/ DeliverFails(w) \/ WriteReceipt(w) \/ Delivered(w)
               \/ Replay(w) \/ Refuse(w) \/ AcceptNothing(w) \/ WithdrawAgain(w) \/ WithdrawUnknown(w)
    BY <2>2 DEF Resumed, DeliverEvent, DeliverFails, WriteReceipt, Delivered,
                Replay, Refuse, AcceptNothing, WithdrawAgain, WithdrawUnknown
  <2>3. CASE DecideReinstate(w) \/ WriteOutbox(w) \/ Reject(w) \/ Accept(w) \/ WriteClaim(w) \/ WriteManifest(w)
               \/ WriteSnapshot(w) \/ PrepareWithdrawal(w)
    BY <2>3 DEF DecideReinstate, WriteOutbox, Reject, Accept, WriteClaim, WriteManifest, WriteSnapshot,
                PrepareWithdrawal
  <2>. QED
    BY <1>1, <2>1, <2>2, <2>3, Zenon DEF Step
<1>2. ASSUME NEW w \in Callers, Start(w) \/ Crash(w) PROVE state' = state
  BY <1>2 DEF Start, Reconcile, Withdraw, Reinstate, Begin, Crash
<1>3. ASSUME NEW r \in Readers, ReadStep(r) PROVE state' = state
  BY <1>3 DEF ReadStep, ReadRegistry, OpenSnapshot, ReadClaim, EndRead
<1>4. ASSUME NEW b \in BatchIds, Draft(b) PROVE state' = state
  BY <1>4 DEF Draft
<1>5. CASE UNCHANGED vars
  BY <1>5 DEF vars
<1>. QED
  BY <1>1, <1>2, <1>3, <1>4, <1>5, Zenon DEF Next

\* A step moves a scope to a snapshot made from the one it listed, and leaves the stored results as they are.
LEMMA HistoryStep ==
  ASSUME Sound, [Next]_vars
  PROVE  /\ \A s \in Scopes : state'.cur[s] \notin {0, state.cur[s]} => snaps[state'.cur[s]].base = state.cur[s]
         /\ \A b \in BatchIds : Stored(state, b) /\ Stored(state', b) => ResultOf(state, b) = ResultOf(state', b)
<1>. Typed /\ Tables /\ Calls
  BY DEF Sound
<1>1. CASE state' = state
  BY <1>1
<1>2. ASSUME NEW w \in Callers, ResumeFinish(w)
      PROVE  state'.cur = state.cur /\ state'.batches = state.batches
  <2>. PICK p : p = state'.pend
    OBVIOUS
  <2>1. state' = [state EXCEPT !.pend = p]
    BY <1>2, ResumeFinishKept
  <2>. QED
    BY <2>1 DEF Typed, StateType
<1>3. ASSUME state'.cur = state.cur, state'.batches = state.batches
      PROVE  /\ \A s \in Scopes : state'.cur[s] = state.cur[s]
             /\ \A b \in BatchIds : ResultOf(state, b) = ResultOf(state', b)
  BY <1>3 DEF ResultOf
<1>4. ASSUME NEW w \in Callers, WriteState(w), op[w].kind # "reinstate"
      PROVE  /\ \A s \in Scopes : state'.cur[s] \notin {0, state.cur[s]} => snaps[state'.cur[s]].base = state.cur[s]
             /\ \A b \in BatchIds : Stored(state, b) /\ Stored(state', b) => ResultOf(state, b) = ResultOf(state', b)
  <2>1. /\ Inside(w) /\ pc[w] = "state" /\ op[w].kind \in {"reconcile", "withdraw"}
        /\ op[w].kind = "reconcile" => Reconciles(w)
        /\ op[w].kind = "withdraw" => Withdraws(w)
    BY <1>4, Here DEF WriteState, Inside, Working
  <2>2. state.cur \in [Scopes -> Nat]
    BY DEF Typed, StateType
  <2>3. CASE op[w].kind = "reconcile"
    <3>1. plan[w].snap = state.cur[Content[op[w].batch].scope]
            \/ snaps[plan[w].snap].base = state.cur[Content[op[w].batch].scope]
      BY <2>1, <2>3 DEF Reconciles, Fresh
    <3>. QED
      BY <1>4, <2>2, <2>3, <3>1, ReconcileKept
  <2>4. CASE op[w].kind = "withdraw"
    <3>1. plan[w].snap = 0 \/ snaps[plan[w].snap].base = state.cur[plan[w].withdrawal.scope]
      BY <2>1, <2>4 DEF Withdraws, Fresh
    <3>. QED
      BY <1>4, <2>2, <2>4, <3>1, WithdrawKept
  <2>. QED
    BY <2>1, <2>3, <2>4
<1>5. ASSUME NEW w \in Callers, WriteState(w), op[w].kind = "reinstate"
      PROVE  state'.cur = state.cur /\ state'.batches = state.batches
  BY <1>5, ReinstateKept
<1>. QED
  BY <1>1, <1>2, <1>3, <1>4, <1>5, StateStep

\* reconciliation.mjs: neither an accepted snapshot nor a stored result is overwritten by a call that did not
\* see it, whatever calls, deaths and withdrawals come between.
THEOREM HistoryIsKept == Spec => HistoryStands
<1>1. (~stolen => Sound) /\ [Next]_vars =>
        [~stolen' => \A s \in Scopes :
           state'.cur[s] \notin {0, state.cur[s]} => snaps[state'.cur[s]].base = state.cur[s]]_state
  BY StolenStays, HistoryStep, Zenon
<1>2. (~stolen => Sound) /\ [Next]_vars =>
        [~stolen' => \A b \in BatchIds :
           Stored(state, b) /\ Stored(state', b) => ResultOf(state, b) = ResultOf(state', b)]_state
  BY StolenStays, HistoryStep, Zenon
<1>3. Spec => OneHistory
  BY <1>1, ContextIsSound, PTL DEF Spec, OneHistory
<1>4. Spec => ResultsStand
  BY <1>2, ContextIsSound, PTL DEF Spec, ResultsStand
<1>. QED
  BY <1>3, <1>4 DEF HistoryStands

\* context-query.mjs: a query serves nothing that was withdrawn before it began and not accepted again.
THEOREM QueriesServeNoWithdrawn == Spec => []QueriesHonourWithdrawals
<1>1. (~stolen => Sound) => QueriesHonourWithdrawals
  BY DEF Sound, Typed, Reads, QueriesHonourWithdrawals
<1>. QED
  BY <1>1, ContextIsSound, PTL

\* claims-withdraw.mts: when no withdrawal is pending, neither a file, a review nor a stored result that is
\* not marked historical holds a withdrawn value.
THEOREM WithdrawnStaysGone == Spec => []WithdrawalsHold
<1>1. (~stolen => Sound) => WithdrawnIsGone
  BY DEF Sound, WithdrawnIsGone, Gone, Elsewhere, Offers
<1>2. (~stolen => Sound) => ReplaysAreHonest
  <2>. SUFFICES ASSUME ~stolen, Sound, NEW e \in Range(state.batches), e.result.snap # 0, e.batch \notin state.hist
                PROVE  \A i \in snaps[e.result.snap].ids : <<snaps[e.result.snap].scope, i>> \notin withdrawn
    BY DEF ReplaysAreHonest
  <2>1. PICK j \in 1..Len(state.batches) : e = state.batches[j]
    <3>1. DOMAIN state.batches = 1..Len(state.batches)
      BY Results DEF Sound, Typed
    <3>. QED
      BY <3>1 DEF Range
  <2>. QED
    BY <2>1 DEF Sound, Listed
<1>. QED
  BY <1>1, <1>2, ContextIsSound, PTL DEF WithdrawalsHold

\* reconciliation.mjs: every claim the state lists can be read, after any death and any withdrawal.
THEOREM ListedIsOnDisk == Spec => []ListedIsReadable
<1>1. (~stolen => Sound) => ListedIsReadable
  BY DEF Sound, Listed, ListedIsReadable, Surviving
<1>. QED
  BY <1>1, ContextIsSound, PTL

-----------------------------------------------------------------------------
(* The inductive invariant of the log *)

\* No call works on a batch that was delivered and whose result the state has dropped since.
NoneForgotten ==
  \A w \in Callers : op[w].kind = "reconcile" /\ op[w].batch \in receipts => Stored(state, op[w].batch)

\* The events of a batch: each once, and of that batch.
OwnEvents(b, events) ==
  \A i \in 1..Len(events) :
    events[i].batch = b /\ \A j \in 1..Len(events) : events[i] = events[j] => i = j

\* An entry whose result was not committed.
Orphan(e) == e.batch \in BatchIds /\ e.batch \notin receipts /\ ~Committed(state, e)

\* The snapshot of an orphan is listed nowhere.
GoodEntry(e) ==
  /\ e.batch \in Nat => e.batch \in 1..Len(manifests)
  /\ OwnEvents(e.batch, e.events)
  /\ Orphan(e) => /\ e.result.verdict = "clean" /\ e.result.snap \in Snapshots
                  /\ \A s \in Scopes : e.result.snap # state.cur[s]

\* A batch has one entry.
Entries ==
  /\ \A e, f \in outbox : e.batch = f.batch => e = f
  /\ \A e \in outbox : GoodEntry(e)
  /\ \A b \in receipts : b \in Nat => b \in 1..Len(manifests)

\* Every committed event is in the log.
Settled ==
  /\ Undelivered(state) = {} /\ log = commits
  /\ \A i \in 1..Len(commits) : commits[i].batch \in receipts

\* The events of an entry end the commits, and some of them end the log.
Newest(e) ==
  LET k == Len(commits) - Len(e.events)
  IN  /\ Undelivered(state) = {e}
      /\ 0 <= k /\ k <= Len(log) /\ Len(log) <= Len(commits)
      /\ \A i \in 1..Len(log) : log[i] = commits[i]
      /\ \A j \in 1..Len(e.events) : commits[k + j] = e.events[j]
      /\ \A i \in 1..k : commits[i].batch \in receipts

Lags == Settled \/ \E e \in outbox : Newest(e)

\* The entry of a plan.
Planned(w) == [batch |-> BatchKey(w), result |-> Result(w), events |-> plan[w].events]

\* What a call inside has brought up to date, and what its plan will add to the log.
Records(w) ==
  LET kind == op[w].kind
      s == Content[op[w].batch].scope
      p == plan[w]
  IN  /\ pc[w] \in {"decide", "claims", "manifest", "outbox", "state", "ack"} => Settled
      /\ pc[w] = "sync2" /\ kind = "reconcile" => Settled
      /\ pc[w] \in {"deliver1", "decide", "claims", "manifest", "outbox", "state", "resume2", "ack"}
           => registry = View(state)
      /\ pc[w] = "deliver2" /\ kind = "withdraw" => registry = View(state)
      /\ pc[w] \in {"manifest", "outbox", "state"} =>
           OwnEvents(BatchKey(w), p.events) /\ BatchKey(w) \notin receipts
      /\ pc[w] \in {"manifest", "outbox"} => \A e \in outbox : Orphan(e) => e.result.snap # p.snap
      /\ pc[w] = "outbox" /\ kind = "reconcile" => /\ p.verdict = "clean" /\ p.snap \in Snapshots
                                                  /\ \A t \in Scopes : p.snap # state.cur[t]
      /\ pc[w] = "state" =>
           \/ /\ Planned(w) \in outbox
              /\ \A e \in outbox : Orphan(e) /\ e.batch # BatchKey(w) => e.result.snap # p.snap
           \/ kind = "reconcile" /\ p.events = <<>> /\ p.snap = state.cur[s]

Recorded == \A w \in Callers : Inside(w) /\ op[w].kind # "reinstate" => Records(w)

Logged == Entries /\ Lags /\ Recorded

-----------------------------------------------------------------------------
(* Steps that leave the log as it is *)

\* Committed and Undelivered read the stored results, the outbox and the receipts.
LEMMA SameCommitted ==
  ASSUME NEW m, NEW n, n.batches = m.batches
  PROVE  \A e : Committed(n, e) <=> Committed(m, e)
BY DEF Committed, Stored, ResultOf

\* The entries are as good as the results they belong to.
LEMMA EntriesSame ==
  ASSUME Entries, UNCHANGED <<outbox, receipts>>, state'.cur = state.cur, state'.batches = state.batches,
         Snapshots \subseteq Snapshots', 1..Len(manifests) \subseteq 1..Len(manifests')
  PROVE  Entries' /\ \A e : Orphan(e)' <=> Orphan(e)
<1>1. \A e : Committed(state', e) <=> Committed(state, e)
  BY SameCommitted
<1>2. \A e : Orphan(e)' <=> Orphan(e)
  BY <1>1 DEF Orphan, Committed, Stored, ResultOf
<1>3. \A e : GoodEntry(e) => GoodEntry(e)'
  BY <1>2 DEF GoodEntry, OwnEvents
<1>4. Entries'
  BY <1>3 DEF Entries
<1>. QED
  BY <1>2, <1>4

\* A lag stays what it is.
LEMMA LagsSame ==
  ASSUME UNCHANGED <<outbox, receipts, log, commits>>, state'.batches = state.batches
  PROVE  /\ Undelivered(state') = Undelivered(state) /\ Undelivered(state)' = Undelivered(state)
         /\ Settled => Settled'
         /\ Lags => Lags'
<1>1. Undelivered(state') = Undelivered(state) /\ Undelivered(state)' = Undelivered(state)
  BY SameCommitted DEF Undelivered, Committed, Stored, ResultOf
<1>2. Settled => Settled'
  BY <1>1 DEF Settled
<1>3. \A e : Newest(e) => Newest(e)'
  BY <1>1 DEF Newest
<1>. QED
  BY <1>1, <1>2, <1>3 DEF Lags

\* A step of a call that is alone.
LEMMA RecordedOwn ==
  ASSUME Typed, Calls, NEW w \in Callers, Inside(w), Others(w),
         Inside(w)' /\ op'[w].kind # "reinstate" => Records(w)'
  PROVE  Recorded'
<1>1. \A v \in Callers \ {w} : ~Inside(v)'
  BY LockExcludes DEF Others, Alone, Inside
<1>. QED
  BY <1>1 DEF Recorded

\* What a call has recorded stays so beside steps that leave the log and the state alone.
LEMMA RecordsSame ==
  ASSUME UNCHANGED <<state, registry, snaps, outbox, receipts, log, commits>>, NEW v,
         pc'[v] = pc[v], op'[v] = op[v], plan'[v] = plan[v], Records(v)
  PROVE  Records(v)'
<1>1. Settled => Settled'
  BY LagsSame
<1>2. BatchKey(v)' = BatchKey(v) /\ Result(v)' = Result(v)
  BY DEF BatchKey, Result
<1>3. Planned(v)' = Planned(v)
  BY <1>2 DEF Planned
<1>4. View(state)' = View(state)
  BY DEF View
<1>5. \A e : Orphan(e)' <=> Orphan(e)
  BY DEF Orphan, Committed, Stored, ResultOf
<1>6. OwnEvents(BatchKey(v), plan[v].events) => OwnEvents(BatchKey(v), plan[v].events)'
  BY <1>2 DEF OwnEvents
<1>. QED
  BY <1>1, <1>2, <1>3, <1>4, <1>5, <1>6 DEF Records, Snapshots

\* A step beside the directory: of the lock, a client or a reader, or a death.
LEMMA LoggedBeside ==
  ASSUME Sound, Logged,
         \/ \E w \in Callers : Acquire(w) \/ JudgeStale(w) \/ Reclaim(w) \/ TimeOut(w) \/ Release(w) \/ Crash(w) \/ Start(w)
         \/ \E b \in BatchIds : Draft(b)
         \/ \E r \in Readers : ReadStep(r)
         \/ UNCHANGED vars
  PROVE  Logged'
<1>. Typed /\ Entries /\ Lags /\ Recorded
  BY DEF Sound, Logged
<1>. USE DEF files, history
<1>1. ASSUME NEW w \in Callers, Acquire(w) \/ JudgeStale(w) \/ Reclaim(w) \/ TimeOut(w) \/ Release(w) \/ Crash(w) \/ Start(w)
      PROVE  /\ Others(w) /\ (~Inside(w)' \/ pc'[w] = "resume1")
             /\ UNCHANGED <<state, registry, snaps, outbox, receipts, log, commits, manifests>>
  <2>1. CASE Acquire(w) \/ JudgeStale(w) \/ Reclaim(w)
    <3>1. \E label \in {"resume1", "reclaim", "wait"} : To(w, label)
      BY <2>1 DEF Acquire, JudgeStale, Reclaim
    <3>2. pc'[w] \in {"resume1", "reclaim", "wait"} /\ \A v \in Callers \ {w} : pc'[v] = pc[v]
      BY <3>1, ToType
    <3>. QED
      BY <2>1, <3>2 DEF Acquire, JudgeStale, Reclaim, Others, Inside, Working, Typed
  <2>2. CASE TimeOut(w) \/ Release(w) \/ Crash(w)
    <3>1. To(w, "idle") /\ End(w)
      BY <2>2 DEF TimeOut, Release, Crash
    <3>. QED
      BY <2>2, <3>1, ToType, EndType DEF TimeOut, Release, Crash, Others, Inside, Working
  <2>3. CASE Start(w)
    <3>1. PICK o : Begin(w, o)
      BY <2>3 DEF Start, Reconcile, Withdraw, Reinstate
    <3>. QED
      BY <3>1 DEF Begin, Others, Inside, Working, Typed
  <2>. QED
    BY <1>1, <2>1, <2>2, <2>3
<1>2. ASSUME NEW w \in Callers, Acquire(w) \/ JudgeStale(w) \/ Reclaim(w) \/ TimeOut(w) \/ Release(w) \/ Crash(w) \/ Start(w)
      PROVE  Recorded'
  <2>1. Records(w)' \/ ~Inside(w)'
    BY <1>1, <1>2 DEF Records, Inside
  <2>2. ASSUME NEW v \in Callers \ {w}, Inside(v)', op'[v].kind # "reinstate" PROVE Records(v)'
    <3>1. pc'[v] = pc[v] /\ op'[v] = op[v] /\ plan'[v] = plan[v]
      BY <1>1, <1>2 DEF Others
    <3>2. Records(v)
      BY <2>2, <3>1 DEF Recorded, Inside
    <3>. QED
      BY <1>1, <1>2, <3>1, <3>2, RecordsSame
  <2>. QED
    BY <2>1, <2>2 DEF Recorded
<1>3. CASE UNCHANGED <<state, registry, snaps, outbox, receipts, log, commits, manifests, pc, op, plan>>
  <2>1. ASSUME NEW v \in Callers, Inside(v)', op'[v].kind # "reinstate" PROVE Records(v)'
    BY <1>3, <2>1, RecordsSame DEF Recorded, Inside
  <2>2. Recorded'
    BY <2>1 DEF Recorded
  <2>. QED
    BY <1>3, <2>2, EntriesSame, LagsSame DEF Logged, Snapshots
<1>4. ASSUME NEW w \in Callers, Acquire(w) \/ JudgeStale(w) \/ Reclaim(w) \/ TimeOut(w) \/ Release(w) \/ Crash(w) \/ Start(w)
      PROVE  Logged'
  <2>1. UNCHANGED <<state, registry, snaps, outbox, receipts, log, commits, manifests>>
    BY <1>1, <1>4
  <2>. QED
    BY <1>2, <1>4, <2>1, EntriesSame, LagsSame DEF Logged, Snapshots
<1>5. CASE \E b \in BatchIds : Draft(b)
  BY <1>3, <1>5 DEF Draft
<1>6. CASE \E r \in Readers : ReadStep(r)
  BY <1>3, <1>6 DEF ReadStep, ReadRegistry, OpenSnapshot, ReadClaim, EndRead
<1>7. CASE UNCHANGED vars
  BY <1>3, <1>7 DEF vars
<1>. QED
  BY <1>4, <1>5, <1>6, <1>7, Zenon

\* A step of a call inside that leaves the outbox, the log and the results alone.
LEMMA LoggedInside ==
  ASSUME Sound, Logged, NEW w \in Callers, Inside(w), Others(w), UNCHANGED <<outbox, receipts, log, commits>>,
         state'.cur = state.cur, state'.batches = state.batches,
         Snapshots \subseteq Snapshots', 1..Len(manifests) \subseteq 1..Len(manifests'),
         Inside(w)' /\ op'[w].kind # "reinstate" => Records(w)'
  PROVE  Logged'
<1>1. Recorded'
  BY RecordedOwn DEF Sound
<1>2. Entries' /\ Lags'
  BY EntriesSame, LagsSame DEF Logged
<1>. QED
  BY <1>1, <1>2 DEF Logged

\* At a quiet label a call has nothing to add to the log.
LEMMA QuietRecords ==
  ASSUME NEW w, pc'[w] \in Quiet,
         pc'[w] \in {"decide", "ack"} \/ (pc'[w] = "sync2" /\ op'[w].kind = "reconcile") => Settled',
         pc'[w] \in {"deliver1", "decide", "resume2", "ack"} \/ (pc'[w] = "deliver2" /\ op'[w].kind = "withdraw")
           => registry' = View(state')
  PROVE  Records(w)'
BY DEF Records, Quiet, View

\* What a call inside has brought up to date when it goes on.
LEMMA Knew ==
  ASSUME Sound, Logged, NEW w \in Callers, Inside(w), op[w].kind # "reinstate"
  PROVE  /\ pc[w] \in {"decide", "claims", "manifest", "outbox", "state", "ack"} => Settled
         /\ pc[w] = "sync2" /\ op[w].kind = "reconcile" => Settled
         /\ pc[w] \in {"deliver1", "decide", "claims", "manifest", "outbox", "state", "resume2", "ack"}
              => registry = View(state)
         /\ pc[w] = "deliver2" /\ op[w].kind = "withdraw" => registry = View(state)
         /\ Delivering(w) /\ Undelivered(state) = {} => Settled
BY DEF Logged, Recorded, Records, Lags, Newest

\* The steps that recover and those that end a call, but for the delivery itself.
LEMMA QuietLogged ==
  ASSUME Sound, Logged, NEW w \in Callers,
         \/ ResumeDelete(w) \/ ResumeReview(w) \/ ResumeFinish(w) \/ Resumed(w) \/ SyncRegistry(w)
         \/ DeliverFails(w) \/ Delivered(w)
         \/ Replay(w) \/ Refuse(w) \/ WithdrawAgain(w) \/ WithdrawUnknown(w)
  PROVE  Logged'
<1>. Typed /\ Calls
  BY DEF Sound
<1>. USE DEF files, history
<1>1. Inside(w)
  BY DEF ResumeDelete, ResumeReview, ResumeFinish, Resumed, SyncRegistry, DeliverFails, Delivered, Delivering,
         Replay, Refuse, Reconciling, WithdrawAgain, WithdrawUnknown, Withdrawing, Inside, Working
<1>2. /\ op[w] # NoOp /\ op[w].kind \in {"reconcile", "withdraw", "reinstate"} /\ mem[w] = state
      /\ pc[w] = "resume2" => op[w].kind = "withdraw"
      /\ pc[w] \in {"sync1", "deliver1", "sync2", "deliver2"} => op[w].kind # "reinstate"
  BY <1>1, Here
<1>3. UNCHANGED <<outbox, receipts, log, commits, op, plan, snaps, manifests>>
  BY DEF ResumeDelete, ResumeReview, ResumeFinish, Resumed, SyncRegistry, DeliverFails, Delivered,
         Replay, Refuse, WithdrawAgain, WithdrawUnknown
<1>4. /\ state'.cur = state.cur /\ state'.batches = state.batches /\ View(state') = View(state)
      /\ \A v \in Callers \ {w} : mem'[v] = mem[v]
  <2>1. CASE ResumeFinish(w)
    <3>. PICK p : p = state'.pend
      OBVIOUS
    <3>1. state' = [state EXCEPT !.pend = p]
      BY <2>1, ResumeFinishKept
    <3>2. state'.cur = state.cur /\ state'.batches = state.batches
      BY <3>1 DEF Typed, StateType
    <3>. QED
      BY <2>1, <3>2 DEF ResumeFinish, View
  <2>2. CASE ~ResumeFinish(w)
    <3>1. state' = state /\ mem' = mem
      BY <2>2 DEF ResumeDelete, ResumeReview, Resumed, SyncRegistry, DeliverFails, Delivered,
                  Replay, Refuse, WithdrawAgain, WithdrawUnknown
    <3>. QED
      BY <3>1
  <2>. QED
    BY <2>1, <2>2
<1>5. Snapshots \subseteq Snapshots' /\ 1..Len(manifests) \subseteq 1..Len(manifests') /\ (Settled => Settled')
  BY <1>3, <1>4, LagsSame DEF Snapshots
<1>6. ASSUME \A v \in Callers \ {w} : pc'[v] = pc[v], Inside(w)' /\ op'[w].kind # "reinstate" => Records(w)'
      PROVE  Logged'
  <2>1. Others(w)
    BY <1>3, <1>4, <1>6 DEF Others
  <2>. QED
    BY <1>1, <1>3, <1>4, <1>5, <1>6, <2>1, LoggedInside
<1>7. CASE ResumeDelete(w) \/ ResumeReview(w) \/ ResumeFinish(w)
  <2>1. UNCHANGED <<pc, registry>> /\ pc[w] \in {"resume1", "resume2"}
    BY <1>7 DEF ResumeDelete, ResumeReview, ResumeFinish
  <2>2. pc[w] = "resume2" => registry = View(state)
    BY <1>1, <1>2, <2>1, Knew
  <2>3. Records(w)'
    BY <1>4, <2>1, <2>2, QuietRecords DEF Quiet
  <2>. QED
    BY <1>6, <2>1, <2>3
<1>8. CASE Resumed(w) \/ Delivered(w)
  <2>1. UNCHANGED registry /\ To(w, After(w)) /\ pc[w] \in {"resume1", "resume2", "deliver1", "deliver2"}
        /\ (Delivered(w) => Undelivered(state) = {} /\ Delivering(w))
    BY <1>2, <1>8 DEF Resumed, Delivered, Delivering
  <2>2. PICK label : label = After(w)
    OBVIOUS
  <2>3. pc'[w] = label /\ \A v \in Callers \ {w} : pc'[v] = pc[v]
    BY <2>1, <2>2, ToType
  <2>4. CASE op[w].kind = "reinstate"
    BY <1>3, <1>6, <2>3, <2>4
  <2>5. CASE op[w].kind # "reinstate"
    <3>1. /\ pc[w] = "resume1" => label = "sync1"
          /\ pc[w] = "resume2" => label = "deliver2" /\ registry = View(state)
          /\ pc[w] = "deliver1" => label = "decide" /\ registry = View(state)
          /\ pc[w] = "deliver2" => /\ op[w].kind = "withdraw" => label = "ack" /\ registry = View(state)
                                   /\ op[w].kind = "reconcile" => label = "sync2"
          /\ pc[w] \in {"deliver1", "deliver2"} => Settled
      <4>1. pc[w] \in {"deliver1", "deliver2"} => Settled
        BY <1>1, <1>8, <2>1, <2>5, Knew DEF Resumed
      <4>2. /\ pc[w] \in {"resume2", "deliver1"} => registry = View(state)
            /\ pc[w] = "deliver2" /\ op[w].kind = "withdraw" => registry = View(state)
        BY <1>1, <2>5, Knew
      <4>. QED
        BY <1>2, <2>2, <2>5, <4>1, <4>2, AfterIs
    <3>2. pc'[w] \in Quiet /\ op'[w] = op[w] /\ registry' = registry
      BY <1>2, <1>3, <2>1, <2>3, <2>5, <3>1 DEF Quiet
    <3>3. Records(w)'
      BY <1>2, <1>4, <1>5, <2>1, <2>3, <2>5, <3>1, <3>2, QuietRecords
    <3>. QED
      BY <1>6, <2>3, <3>3
  <2>. QED
    BY <2>4, <2>5
<1>9. CASE SyncRegistry(w)
  <2>1. registry' = View(state) /\ To(w, After(w)) /\ pc[w] \in {"sync1", "sync2"}
    BY <1>9, SyncRegistryKept DEF SyncRegistry
  <2>2. PICK label : label = After(w)
    OBVIOUS
  <2>3. pc'[w] = label /\ \A v \in Callers \ {w} : pc'[v] = pc[v]
    BY <2>1, <2>2, ToType
  <2>4. /\ pc[w] = "sync1" => label = "deliver1"
        /\ pc[w] = "sync2" => IF op[w].kind = "withdraw" THEN label = "resume2" ELSE label = "ack" /\ Settled
    BY <1>1, <1>2, <2>1, <2>2, AfterIs, Knew
  <2>5. Records(w)'
    BY <1>3, <1>4, <1>5, <2>1, <2>3, <2>4, QuietRecords DEF Quiet
  <2>. QED
    BY <1>6, <2>3, <2>5
<1>10. CASE Replay(w) \/ WithdrawAgain(w)
  <2>1. pc'[w] = "ack" /\ pc[w] = "decide" /\ op[w].kind # "reinstate" /\ registry' = registry
        /\ \A v \in Callers \ {w} : pc'[v] = pc[v]
    BY <1>10, ToType DEF Replay, Reconciling, WithdrawAgain, Withdrawing
  <2>2. Settled /\ registry = View(state)
    BY <1>1, <2>1, Knew
  <2>3. Records(w)'
    BY <1>3, <1>4, <1>5, <2>1, <2>2, QuietRecords DEF Quiet
  <2>. QED
    BY <1>6, <2>1, <2>3
<1>11. CASE DeliverFails(w) \/ Refuse(w) \/ WithdrawUnknown(w)
  <2>1. pc'[w] = "fail" /\ \A v \in Callers \ {w} : pc'[v] = pc[v]
    BY <1>11, ToType DEF DeliverFails, Refuse, WithdrawUnknown
  <2>2. Records(w)'
    BY <2>1, QuietRecords DEF Quiet
  <2>. QED
    BY <1>6, <2>1, <2>2
<1>. QED
  BY <1>7, <1>8, <1>9, <1>10, <1>11

-----------------------------------------------------------------------------
(* Delivery *)

\* The log and the commits as functions.
LEMMA LogRows ==
  ASSUME Typed
  PROVE  /\ Len(log) \in Nat /\ Range(log) = {log[i] : i \in 1..Len(log)} /\ Len(commits) \in Nat
         /\ log \in Seq(EventType) /\ commits \in Seq(EventType) /\ \A i \in 1..Len(commits) : commits[i] \in EventType
         /\ \A e \in outbox : /\ e.events \in Seq(EventType) /\ Len(e.events) \in Nat
                              /\ Range(e.events) = {e.events[i] : i \in 1..Len(e.events)}
                              /\ \A i \in 1..Len(e.events) : e.events[i] \in EventType
<1>1. log \in Seq(EventType) /\ commits \in Seq(EventType)
  BY DEF Typed
<1>2. ASSUME NEW s \in Seq(EventType)
      PROVE  /\ Len(s) \in Nat /\ Range(s) = {s[i] : i \in 1..Len(s)} /\ \A i \in 1..Len(s) : s[i] \in EventType
  <2>1. Len(s) \in Nat /\ DOMAIN s = 1..Len(s)
    BY LenProperties
  <2>. QED
    BY <2>1, ElementOfSeq DEF Range
<1>3. \A e \in outbox : e.events \in Seq(EventType)
  BY DEF Typed, EntryType
<1>. QED
  BY <1>1, <1>2, <1>3

\* An event of the newest entry is in the log only at its own place.
LEMMA OwnPlace ==
  ASSUME Typed, Entries, NEW e \in outbox, Newest(e)
  PROVE  \E k \in Nat, n \in Nat :
           /\ Len(commits) = k + Len(e.events) /\ Len(log) = k + n /\ n <= Len(e.events)
           /\ \A i \in 1..Len(e.events) : e.events[i] \in Range(log) <=> i <= n
           /\ \A i \in 1..Len(log) : log[i] = commits[i]
           /\ \A j \in 1..Len(e.events) : commits[k + j] = e.events[j]
           /\ \A i \in 1..k : commits[i].batch \in receipts
<1>1. Len(log) \in Nat /\ Len(commits) \in Nat /\ Len(e.events) \in Nat /\ Range(log) = {log[j] : j \in 1..Len(log)}
  BY LogRows
<1>2. PICK k : k = Len(commits) - Len(e.events)
  OBVIOUS
<1>3. /\ Undelivered(state) = {e} /\ 0 <= k /\ k <= Len(log) /\ Len(log) <= Len(commits)
      /\ \A j \in 1..Len(log) : log[j] = commits[j]
      /\ \A j \in 1..Len(e.events) : commits[k + j] = e.events[j]
      /\ \A j \in 1..k : commits[j].batch \in receipts
  BY <1>2 DEF Newest
<1>4. k \in Nat /\ Len(commits) = k + Len(e.events)
  BY <1>1, <1>2, <1>3
<1>5. PICK n \in Nat : Len(log) = k + n /\ n <= Len(e.events)
  <2>1. Len(log) - k \in Nat /\ Len(log) = k + (Len(log) - k) /\ Len(log) - k <= Len(e.events)
    BY <1>1, <1>3, <1>4
  <2>. QED
    BY <2>1
<1>6. e.batch \notin receipts
  BY <1>3 DEF Undelivered
<1>7. \A j \in 1..Len(e.events) : e.events[j].batch = e.batch
      /\ \A h \in 1..Len(e.events) : e.events[j] = e.events[h] => j = h
  BY DEF Entries, GoodEntry, OwnEvents
<1>8. ASSUME NEW i \in 1..Len(e.events), i <= n PROVE e.events[i] \in Range(log)
  <2>1. k + i \in 1..Len(log)
    BY <1>1, <1>4, <1>5, <1>8
  <2>2. log[k + i] = e.events[i]
    BY <1>3, <2>1
  <2>. QED
    BY <1>1, <2>1, <2>2
<1>9. ASSUME NEW i \in 1..Len(e.events), e.events[i] \in Range(log) PROVE i <= n
  <2>1. PICK m \in 1..Len(log) : log[m] = e.events[i]
    BY <1>1, <1>9
  <2>2. commits[m] = e.events[i]
    BY <1>3, <2>1
  <2>3. m \notin 1..k
    BY <1>3, <1>6, <1>7, <2>2
  <2>4. PICK j \in 1..n : m = k + j
    <3>1. m \in Nat /\ 1 <= m /\ m <= k + n /\ k < m
      BY <1>1, <1>4, <1>5, <2>3
    <3>2. m - k \in 1..n /\ m = k + (m - k)
      BY <1>4, <1>5, <3>1
    <3>. QED
      BY <3>2
  <2>5. j \in 1..Len(e.events) /\ j <= n
    BY <1>1, <1>5, <2>4
  <2>6. e.events[j] = e.events[i]
    BY <1>3, <2>2, <2>4, <2>5
  <2>7. j = i
    BY <1>7, <2>5, <2>6
  <2>. QED
    BY <2>5, <2>7
<1>. QED
  BY <1>3, <1>4, <1>5, <1>8, <1>9

\* appendBrokerEvent adds the next committed event.
LEMMA DeliverLogged ==
  ASSUME Sound, Logged, NEW w \in Callers, DeliverEvent(w)
  PROVE  Logged'
<1>. Typed /\ Calls /\ Entries /\ Lags /\ Recorded
  BY DEF Sound, Logged
<1>. USE DEF files, history
<1>1. Delivering(w) /\ Inside(w)
  BY DEF DeliverEvent, Delivering, Inside, Working
<1>2. mem[w] = state /\ op[w].kind # "reinstate"
  BY <1>1, Here DEF Delivering
<1>3. PICK e \in Undelivered(state) : \E i \in 1..Len(e.events) :
        /\ e.events[i] \notin Range(log)
        /\ \A j \in 1..(i - 1) : e.events[j] \in Range(log)
        /\ log' = Append(log, e.events[i])
  BY <1>2 DEF DeliverEvent
<1>20. PICK i \in 1..Len(e.events) :
        /\ e.events[i] \notin Range(log)
        /\ \A j \in 1..(i - 1) : e.events[j] \in Range(log)
        /\ log' = Append(log, e.events[i])
  BY <1>3
<1>4. e \in outbox /\ Newest(e)
  <2>1. PICK f \in outbox : Newest(f)
    BY <1>3 DEF Lags, Settled
  <2>. QED
    BY <1>3, <2>1 DEF Newest
<1>5. Len(log) \in Nat /\ Len(commits) \in Nat /\ Len(e.events) \in Nat /\ e.events[i] \in EventType /\ log \in Seq(EventType)
  BY <1>4, LogRows
<1>6. PICK k \in Nat, n \in Nat :
        /\ Len(commits) = k + Len(e.events) /\ Len(log) = k + n /\ n <= Len(e.events)
        /\ \A j \in 1..Len(e.events) : e.events[j] \in Range(log) <=> j <= n
        /\ \A j \in 1..Len(log) : log[j] = commits[j]
        /\ \A j \in 1..Len(e.events) : commits[k + j] = e.events[j]
        /\ \A j \in 1..k : commits[j].batch \in receipts
  BY <1>4, OwnPlace
<1>7. i = n + 1
  <2>1. i \in Nat /\ 1 <= i /\ i <= Len(e.events)
    BY <1>5
  <2>2. ~(i <= n)
    BY <1>20, <1>6
  <2>3. CASE i - 1 \in 1..Len(e.events)
    <3>1. i - 1 \in 1..(i - 1)
      BY <2>1, <2>3
    <3>2. i - 1 <= n
      BY <1>20, <1>6, <2>3, <3>1
    <3>. QED
      BY <2>1, <2>2, <3>2
  <2>4. CASE i - 1 \notin 1..Len(e.events)
    BY <1>5, <2>1, <2>2, <2>4
  <2>. QED
    BY <2>3, <2>4
<1>8. /\ Len(log') = Len(log) + 1 /\ log'[Len(log) + 1] = e.events[i]
      /\ \A j \in 1..Len(log) : log'[j] = log[j]
  BY <1>20, <1>5, AppendProperties
<1>9. UNCHANGED <<state, registry, snaps, outbox, receipts, manifests, commits, pc, op, plan, mem>>
  BY DEF DeliverEvent
<1>10. Newest(e)'
  <2>1. Undelivered(state)' = {e}
    <3>1. Undelivered(state)' = Undelivered(state)
      BY <1>9 DEF Undelivered, Committed, Stored, ResultOf
    <3>. QED
      BY <1>4, <3>1 DEF Newest
  <2>2. Len(log') = k + i /\ Len(log) + 1 = k + i /\ i <= Len(e.events) /\ i \in Nat
    BY <1>5, <1>6, <1>7, <1>8
  <2>3. \A j \in 1..Len(log') : log'[j] = commits[j]
    <3>1. \A j \in 1..Len(log) : log'[j] = commits[j]
      BY <1>6, <1>8
    <3>2. log'[k + i] = commits[k + i]
      BY <1>6, <1>8, <2>2
    <3>3. \A j \in 1..Len(log') : j \in 1..Len(log) \/ j = k + i
      BY <1>5, <1>8, <2>2
    <3>. QED
      BY <3>1, <3>2, <3>3
  <2>4. PICK l : l = Len(log') /\ l \in Nat /\ k <= l /\ l <= Len(commits)
    BY <1>5, <1>6, <1>8, <2>2
  <2>5. Len(commits) - Len(e.events) = k /\ 0 <= k
    BY <1>5, <1>6
  <2>. QED
    BY <1>6, <1>9, <2>1, <2>3, <2>4, <2>5 DEF Newest
<1>11. Lags'
  BY <1>4, <1>9, <1>10 DEF Lags
<1>12. Entries'
  BY <1>9, EntriesSame DEF Snapshots
<1>13. Records(w)'
  <2>1. pc[w] = "deliver1" \/ (pc[w] = "deliver2" /\ op[w].kind = "withdraw") => registry = View(state)
    BY <1>1, <1>2, Knew
  <2>. QED
    BY <1>1, <1>9, <2>1 DEF Records, Delivering, View
<1>14. Recorded'
  BY <1>1, <1>9, <1>13, RecordedOwn DEF Others
<1>. QED
  BY <1>11, <1>12, <1>14 DEF Logged

\* The receipt of an entry comes when all its events are in the log.
LEMMA ReceiptLogged ==
  ASSUME Sound, Logged, NEW w \in Callers, WriteReceipt(w)
  PROVE  Logged'
<1>. Typed /\ Calls /\ Entries /\ Lags /\ Recorded
  BY DEF Sound, Logged
<1>. USE DEF files, history
<1>1. Delivering(w) /\ Inside(w)
  BY DEF WriteReceipt, Delivering, Inside, Working
<1>2. mem[w] = state /\ op[w].kind # "reinstate"
  BY <1>1, Here DEF Delivering
<1>3. PICK e \in Undelivered(state) : Range(e.events) \subseteq Range(log) /\ receipts' = receipts \union {e.batch}
  BY <1>2 DEF WriteReceipt
<1>4. e \in outbox /\ Newest(e)
  <2>1. PICK f \in outbox : Newest(f)
    BY <1>3 DEF Lags, Settled
  <2>. QED
    BY <1>3, <2>1 DEF Newest
<1>5. /\ Len(log) \in Nat /\ Len(commits) \in Nat /\ Len(e.events) \in Nat
      /\ log \in Seq(EventType) /\ commits \in Seq(EventType)
      /\ Range(e.events) = {e.events[i] : i \in 1..Len(e.events)}
  BY <1>4, LogRows
<1>6. PICK k \in Nat, n \in Nat :
        /\ Len(commits) = k + Len(e.events) /\ Len(log) = k + n /\ n <= Len(e.events)
        /\ \A j \in 1..Len(e.events) : e.events[j] \in Range(log) <=> j <= n
        /\ \A j \in 1..Len(log) : log[j] = commits[j]
        /\ \A j \in 1..Len(e.events) : commits[k + j] = e.events[j]
        /\ \A j \in 1..k : commits[j].batch \in receipts
  BY <1>4, OwnPlace
<1>7. UNCHANGED <<state, registry, snaps, outbox, log, manifests, commits, pc, op, plan, mem>>
  BY DEF WriteReceipt
<1>8. Undelivered(state)' = {}
  <2>1. \A f \in outbox : Committed(state, f) /\ f.batch \notin receipts => f = e
    BY <1>4 DEF Newest, Undelivered
  <2>2. \A f : Committed(state, f)' <=> Committed(state, f)
    BY <1>7 DEF Committed, Stored, ResultOf
  <2>. QED
    BY <1>3, <1>7, <2>1, <2>2 DEF Undelivered
<1>9. Len(log) = Len(commits)
  <2>1. CASE Len(e.events) = 0
    BY <1>5, <1>6, <2>1
  <2>2. CASE Len(e.events) # 0
    <3>1. Len(e.events) \in 1..Len(e.events)
      BY <1>5, <2>2
    <3>2. e.events[Len(e.events)] \in Range(log)
      BY <1>3, <1>5, <3>1
    <3>3. Len(e.events) <= n
      BY <1>6, <3>1, <3>2
    <3>. QED
      BY <1>5, <1>6, <3>3
  <2>. QED
    BY <2>1, <2>2
<1>10. log = commits
  <2>1. \A i \in 1..Len(log) : log[i] = commits[i]
    BY <1>6
  <2>. QED
    BY <1>5, <1>9, <2>1, SeqEqual
<1>11. \A i \in 1..Len(commits) : commits[i].batch \in receipts'
  <2>. TAKE i \in 1..Len(commits)
  <2>1. i \in Nat /\ 1 <= i /\ i <= k + Len(e.events)
    BY <1>5, <1>6
  <2>2. CASE i \in 1..k
    BY <1>3, <1>6, <2>2
  <2>3. CASE i \notin 1..k
    <3>1. i - k \in 1..Len(e.events) /\ k + (i - k) = i
      BY <1>5, <1>6, <2>1, <2>3
    <3>2. PICK j \in 1..Len(e.events) : k + j = i
      BY <3>1
    <3>3. commits[i] = e.events[j]
      BY <1>6, <3>2
    <3>4. e.events[j].batch = e.batch
      BY <1>4 DEF Entries, GoodEntry, OwnEvents
    <3>. QED
      BY <1>3, <3>3, <3>4
  <2>. QED
    BY <2>2, <2>3
<1>12. Lags'
  BY <1>7, <1>8, <1>10, <1>11 DEF Lags, Settled
<1>13. Entries'
  <2>1. \A f : Orphan(f)' => Orphan(f)
    BY <1>3, <1>7 DEF Orphan, Committed, Stored, ResultOf
  <2>2. \A f : GoodEntry(f) => GoodEntry(f)'
    BY <1>7, <2>1 DEF GoodEntry, OwnEvents, Snapshots
  <2>3. e.batch \in Nat => e.batch \in 1..Len(manifests)
    BY <1>4 DEF Entries, GoodEntry
  <2>. QED
    BY <1>3, <1>7, <2>2, <2>3 DEF Entries
<1>14. Records(w)'
  <2>1. pc[w] = "deliver1" \/ (pc[w] = "deliver2" /\ op[w].kind = "withdraw") => registry = View(state)
    BY <1>1, <1>2, Knew
  <2>. QED
    BY <1>1, <1>7, <2>1 DEF Records, Delivering, View
<1>15. Recorded'
  BY <1>1, <1>7, <1>14, RecordedOwn DEF Others
<1>. QED
  BY <1>12, <1>13, <1>15 DEF Logged

-----------------------------------------------------------------------------
(* Planning and writing *)

\* A batch that is not stored has no receipt: a call works on a batch once.
LEMMA NotDelivered ==
  ASSUME NoneForgotten, NEW w \in Callers, op[w].kind = "reconcile", ~Stored(state, op[w].batch)
  PROVE  op[w].batch \notin receipts /\ BatchKey(w) = op[w].batch
BY DEF NoneForgotten, BatchKey

\* Claims are made and written before anything of the log is.
LEMMA ClaimsLogged ==
  ASSUME Sound, Logged, NEW w \in Callers, Accept(w) \/ WriteClaim(w)
  PROVE  Logged'
<1>. Typed /\ Calls
  BY DEF Sound
<1>. USE DEF files, history
<1>1. pc[w] \in {"decide", "claims"} /\ Inside(w)
  BY DEF Accept, Reconciling, WriteClaim, Inside, Working
<1>2. op[w].kind = "reconcile"
  BY <1>1, Here DEF Accept, Reconciling, WriteClaim
<1>3. pc'[w] = "claims" /\ \A v \in Callers \ {w} : pc'[v] = pc[v]
  BY ToType DEF Accept, WriteClaim
<1>4. UNCHANGED <<state, registry, snaps, manifests, outbox, receipts, log, commits, op, mem>>
  BY DEF Accept, WriteClaim
<1>5. \A v \in Callers \ {w} : plan'[v] = plan[v]
  <2>1. CASE Accept(w)
    BY <2>1, AcceptIs, Zenon DEF Sound
  <2>2. CASE WriteClaim(w)
    BY <2>2 DEF WriteClaim, Typed
  <2>. QED
    BY <2>1, <2>2
<1>6. Others(w) /\ Settled' /\ registry' = View(state')
  <2>1. Settled /\ registry = View(state)
    BY <1>1, <1>2, Knew
  <2>. QED
    BY <1>3, <1>4, <1>5, <2>1, LagsSame DEF Others, View
<1>7. Records(w)'
  BY <1>3, <1>6 DEF Records, View
<1>. QED
  BY <1>1, <1>4, <1>6, <1>7, LoggedInside DEF Snapshots

\* A rejected batch, or one whose claims stand already, adds no event.
LEMMA NothingNewLogged ==
  ASSUME Sound, Logged, NoneForgotten, NEW w \in Callers, Reject(w) \/ AcceptNothing(w)
  PROVE  Logged'
<1>. Typed /\ Calls
  BY DEF Sound
<1>. USE DEF files, history
<1>. DEFINE b == op[w].batch
            s == Content[b].scope
<1>1. pc[w] = "decide" /\ op[w].kind = "reconcile" /\ Inside(w)
  BY DEF Reject, AcceptNothing, Reconciling, Inside, Working
<1>2. mem[w] = state /\ b \in BatchIds
  BY <1>1, Here
<1>3. pc'[w] = "state" /\ (\A v \in Callers \ {w} : pc'[v] = pc[v]) /\ ~Stored(state, b)
  BY <1>2, ToType DEF Reject, AcceptNothing, Answered
<1>4. UNCHANGED <<state, registry, snaps, manifests, outbox, receipts, log, commits, op, mem>>
  BY DEF Reject, AcceptNothing
<1>5. \E x : plan' = [plan EXCEPT ![w] = [NoPlan EXCEPT !.verdict = x, !.snap = state.cur[s]]]
  BY <1>2 DEF Reject, AcceptNothing
<1>6. /\ plan'[w].snap = state.cur[s] /\ plan'[w].events = <<>>
      /\ \A v \in Callers \ {w} : plan'[v] = plan[v]
  BY <1>5 DEF NoPlan, Typed
<1>7. Others(w) /\ Settled' /\ registry' = View(state')
  <2>1. Settled /\ registry = View(state)
    BY <1>1, Knew
  <2>. QED
    BY <1>3, <1>4, <1>6, <2>1, LagsSame DEF Others, View
<1>8. BatchKey(w)' \notin receipts' /\ OwnEvents(BatchKey(w), plan[w].events)'
  <2>1. BatchKey(w)' = b /\ b \notin receipts
    BY <1>1, <1>3, <1>4, NotDelivered DEF BatchKey
  <2>. QED
    BY <1>4, <1>6, <2>1 DEF OwnEvents
<1>9. Records(w)'
  BY <1>1, <1>3, <1>4, <1>6, <1>7, <1>8 DEF Records, View
<1>. QED
  BY <1>1, <1>4, <1>7, <1>9, LoggedInside DEF Snapshots

\* The events of an accepted batch name a snapshot that no entry names.
LEMMA WriteSnapshotLogged ==
  ASSUME Sound, Logged, NoneForgotten, NEW w \in Callers, WriteSnapshot(w)
  PROVE  Logged'
<1>. Typed /\ Tables /\ Calls /\ Entries
  BY DEF Sound, Logged
<1>. USE DEF files, history
<1>. DEFINE b == op[w].batch
<1>1. pc[w] = "claims" /\ Inside(w)
  BY DEF WriteSnapshot, Inside, Working
<1>2. mem[w] = state /\ op[w].kind = "reconcile" /\ ~Stored(state, b) /\ plan[w].verdict = "clean"
  BY <1>1, Here DEF Accepting
<1>3. pc'[w] = "outbox" /\ \A v \in Callers \ {w} : pc'[v] = pc[v]
  BY ToType DEF WriteSnapshot
<1>4. UNCHANGED <<state, registry, manifests, outbox, receipts, log, commits, op, mem>>
  BY DEF WriteSnapshot
<1>5. PICK p : p = plan'[w]
  OBVIOUS
<1>6. /\ plan' = [plan EXCEPT ![w] = p] /\ p.verdict = "clean" /\ p.snap = Len(snaps) + 1
      /\ OwnEvents(b, p.events)
  BY <1>2, <1>5, SnapshotPlan DEF OwnEvents
<1>7. Len(snaps') = Len(snaps) + 1 /\ Len(snaps) \in Nat
  BY WriteSnapshotKept, Rows
<1>8. Snapshots \subseteq Snapshots' /\ p.snap \in Snapshots' /\ p.snap \notin Snapshots /\ p.snap # 0
  BY <1>6, <1>7 DEF Snapshots
<1>9. \A t \in Scopes : p.snap # state'.cur[t]
  BY <1>4, <1>8, ListedIds
<1>10. \A e \in outbox : Orphan(e)' => e.result.snap # p.snap
  <2>1. \A e : Orphan(e)' <=> Orphan(e)
    BY <1>4, <1>8, EntriesSame
  <2>. QED
    BY <1>8, <2>1 DEF Entries, GoodEntry
<1>11. Others(w) /\ Settled' /\ registry' = View(state')
  <2>1. Settled /\ registry = View(state)
    BY <1>1, <1>2, Knew
  <2>2. \A v \in Callers \ {w} : plan'[v] = plan[v]
    BY <1>6 DEF Typed
  <2>. QED
    BY <1>3, <1>4, <2>1, <2>2, LagsSame DEF Others, View
<1>12. BatchKey(w)' \notin receipts' /\ OwnEvents(BatchKey(w), plan[w].events)'
  <2>1. BatchKey(w)' = b /\ b \notin receipts
    BY <1>2, <1>4, NotDelivered DEF BatchKey
  <2>. QED
    BY <1>4, <1>5, <1>6, <2>1 DEF OwnEvents
<1>13. Records(w)'
  BY <1>2, <1>3, <1>4, <1>5, <1>6, <1>8, <1>9, <1>10, <1>11, <1>12 DEF Records, View
<1>. QED
  BY <1>1, <1>4, <1>8, <1>11, <1>13, LoggedInside

\* So do the events of a withdrawal, which have a number that no receipt has.
LEMMA PrepareWithdrawalLogged ==
  ASSUME Sound, Logged, NEW w \in Callers, PrepareWithdrawal(w)
  PROVE  Logged'
<1>. Typed /\ Tables /\ Calls /\ Entries
  BY DEF Sound, Logged
<1>. USE DEF files, history
<1>. DEFINE by == Len(manifests) + 1
<1>1. pc[w] = "decide" /\ op[w].kind = "withdraw" /\ Inside(w)
  BY DEF PrepareWithdrawal, Withdrawing, Inside, Working
<1>2. pc'[w] = "manifest" /\ \A v \in Callers \ {w} : pc'[v] = pc[v]
  BY ToType DEF PrepareWithdrawal
<1>3. UNCHANGED <<state, registry, manifests, outbox, receipts, log, commits, op, mem>>
  BY DEF PrepareWithdrawal
<1>4. PICK p : p = plan'[w]
  OBVIOUS
<1>5. /\ plan' = [plan EXCEPT ![w] = p] /\ p.snap \in {0, Len(snaps) + 1} /\ p.events # <<>> /\ Len(p.events) \in Nat
      /\ OwnEvents(by, p.events) /\ p \in PlanType
  BY <1>4, PreparedPlan DEF OwnEvents
<1>6. Snapshots \subseteq Snapshots' /\ p.snap \notin Snapshots
  BY <1>5, MoreSnapshots, Rows DEF Snapshots, Next, Step
<1>7. \A e \in outbox : Orphan(e)' => e.result.snap # p.snap
  <2>1. \A e : Orphan(e)' <=> Orphan(e)
    BY <1>3, <1>6, EntriesSame
  <2>. QED
    BY <1>6, <2>1 DEF Entries, GoodEntry
<1>8. Others(w) /\ Settled' /\ registry' = View(state')
  <2>1. Settled /\ registry = View(state)
    BY <1>1, Knew
  <2>2. \A v \in Callers \ {w} : plan'[v] = plan[v]
    BY <1>5 DEF Typed
  <2>. QED
    BY <1>2, <1>3, <2>1, <2>2, LagsSame DEF Others, View
<1>9. BatchKey(w)' \notin receipts' /\ OwnEvents(BatchKey(w), plan[w].events)'
  <2>1. p.events[1].batch = by
    <3>1. p.events \in Seq(EventType)
      BY <1>5 DEF PlanType
    <3>2. 1 \in 1..Len(p.events)
      BY <1>5, <3>1, EmptySeq
    <3>. QED
      BY <1>5, <3>2 DEF OwnEvents
  <2>2. BatchKey(w)' = by
    BY <1>1, <1>3, <1>4, <2>1 DEF BatchKey
  <2>3. by \notin receipts
    <3>1. by \in Nat /\ by \notin 1..Len(manifests)
      BY Rows
    <3>. QED
      BY <3>1 DEF Entries
  <2>. QED
    BY <1>3, <1>4, <1>5, <2>2, <2>3 DEF OwnEvents
<1>10. Records(w)'
  BY <1>1, <1>2, <1>3, <1>4, <1>5, <1>7, <1>8, <1>9 DEF Records, View
<1>. QED
  BY <1>1, <1>3, <1>6, <1>8, <1>10, LoggedInside

\* A manifest more changes no entry.
LEMMA WriteManifestLogged ==
  ASSUME Sound, Logged, NEW w \in Callers, WriteManifest(w)
  PROVE  Logged'
<1>. Typed /\ Tables /\ Calls /\ Entries
  BY DEF Sound, Logged
<1>. USE DEF files, history
<1>1. pc[w] = "manifest" /\ Inside(w)
  BY DEF WriteManifest, Inside, Working
<1>2. op[w].kind = "withdraw"
  BY <1>1, Here
<1>3. pc'[w] = "outbox" /\ \A v \in Callers \ {w} : pc'[v] = pc[v]
  BY ToType DEF WriteManifest
<1>4. UNCHANGED <<state, registry, snaps, outbox, receipts, log, commits, op, plan, mem>>
  BY DEF WriteManifest
<1>5. 1..Len(manifests) \subseteq 1..Len(manifests')
  <2>1. manifests \in Seq(WithdrawalType) /\ plan[w].withdrawal \in WithdrawalType
    BY DEF Typed, PlanType
  <2>2. manifests' = Append(manifests, plan[w].withdrawal)
    BY DEF WriteManifest
  <2>. QED
    BY <2>1, <2>2, Added
<1>6. \A e : Orphan(e)' <=> Orphan(e)
  BY <1>4, <1>5, EntriesSame DEF Snapshots
<1>7. Others(w) /\ Settled' /\ registry' = View(state')
  <2>1. Settled /\ registry = View(state)
    BY <1>1, <1>2, Knew
  <2>. QED
    BY <1>3, <1>4, <2>1, LagsSame DEF Others, View
<1>8. /\ BatchKey(w)' = BatchKey(w) /\ BatchKey(w) \notin receipts
      /\ OwnEvents(BatchKey(w), plan[w].events)
      /\ \A e \in outbox : Orphan(e) => e.result.snap # plan[w].snap
  BY <1>1, <1>2, <1>4 DEF BatchKey, Logged, Recorded, Records
<1>9. OwnEvents(BatchKey(w), plan[w].events)'
  BY <1>4, <1>8 DEF OwnEvents
<1>10. Records(w)'
  BY <1>2, <1>3, <1>4, <1>6, <1>7, <1>8, <1>9 DEF Records, View
<1>. QED
  BY <1>1, <1>4, <1>5, <1>7, <1>10, LoggedInside DEF Snapshots

\* A reinstatement changes nothing of the log.
LEMMA ReinstateLogged ==
  ASSUME Sound, Logged, NEW w \in Callers, DecideReinstate(w) \/ (WriteState(w) /\ op[w].kind = "reinstate")
  PROVE  Logged'
<1>. Typed /\ Calls
  BY DEF Sound
<1>. USE DEF files, history
<1>1. op[w].kind = "reinstate" /\ Inside(w) /\ plan[w] = NoPlan
  <2>1. op[w].kind = "reinstate" /\ Inside(w)
    BY DEF DecideReinstate, WriteState, Inside, Working
  <2>. QED
    BY <2>1, Here
<1>2. UNCHANGED <<registry, snaps, manifests, outbox, receipts, log, op, plan>>
  BY DEF DecideReinstate, WriteState
<1>3. commits' = commits
  <2>1. CASE DecideReinstate(w)
    BY <2>1 DEF DecideReinstate
  <2>2. CASE WriteState(w)
    <3>1. commits' = commits \o <<>>
      BY <1>1, <2>2 DEF WriteState, NoPlan
    <3>. QED
      BY <3>1, LogRows, ConcatEmptySeq
  <2>. QED
    BY <2>1, <2>2
<1>4. state'.cur = state.cur /\ state'.batches = state.batches
  <2>1. CASE DecideReinstate(w)
    BY <2>1 DEF DecideReinstate
  <2>2. CASE WriteState(w)
    BY <1>1, <2>2, ReinstateKept
  <2>. QED
    BY <2>1, <2>2
<1>5. Others(w)
  <2>1. \A v \in Callers \ {w} : mem'[v] = mem[v]
    BY DEF DecideReinstate, WriteState, Typed
  <2>2. \A v \in Callers \ {w} : pc'[v] = pc[v]
    BY ToType DEF DecideReinstate, WriteState
  <2>. QED
    BY <1>2, <2>1, <2>2 DEF Others
<1>. QED
  BY <1>1, <1>2, <1>3, <1>4, <1>5, LoggedInside DEF Snapshots

-----------------------------------------------------------------------------
(* Commit *)

\* persistOutbox writes the entry of a result that is not committed yet, in place of the batch's older one.
LEMMA WriteOutboxLogged ==
  ASSUME Sound, Logged, NEW w \in Callers, WriteOutbox(w)
  PROVE  Logged'
<1>. Typed /\ Calls /\ Entries
  BY DEF Sound, Logged
<1>. USE DEF files, history
<1>1. pc[w] = "outbox" /\ Inside(w)
  BY DEF WriteOutbox, Inside, Working
<1>2. op[w].kind \in {"reconcile", "withdraw"} /\ (op[w].kind = "reconcile" => op[w].batch \in BatchIds)
  BY <1>1, Here
<1>3. pc'[w] = "state" /\ \A v \in Callers \ {w} : pc'[v] = pc[v]
  BY ToType DEF WriteOutbox
<1>4. UNCHANGED <<state, registry, snaps, manifests, receipts, log, commits, op, plan, mem>>
  BY DEF WriteOutbox
<1>5. Settled /\ registry = View(state)
  BY <1>1, <1>2, Knew
<1>6. /\ BatchKey(w) \notin receipts /\ OwnEvents(BatchKey(w), plan[w].events)
      /\ \A e \in outbox : Orphan(e) => e.result.snap # plan[w].snap
      /\ op[w].kind = "reconcile" => /\ plan[w].verdict = "clean" /\ plan[w].snap \in Snapshots
                                     /\ \A t \in Scopes : plan[w].snap # state.cur[t]
  BY <1>1, <1>2 DEF Logged, Recorded, Records
<1>7. /\ op[w].kind = "reconcile" => BatchKey(w) = op[w].batch /\ ~Stored(state, BatchKey(w))
      /\ op[w].kind = "withdraw" => /\ BatchKey(w) = plan[w].events[1].batch /\ ~Stored(state, BatchKey(w))
                                    /\ BatchKey(w) \in 1..Len(manifests)
  BY <1>1, Here DEF BatchKey, Reconciles, Withdraws
<1>8. PICK g : g = Planned(w)
  OBVIOUS
<1>9. g.batch = BatchKey(w) /\ g.result = Result(w) /\ g.events = plan[w].events
  BY <1>8 DEF Planned
<1>10. outbox' = {e \in outbox : e.batch # g.batch} \union {g}
  BY <1>8 DEF WriteOutbox, Planned
<1>11. \A e : Orphan(e)' <=> Orphan(e)
  BY <1>4 DEF Orphan, Committed, Stored, ResultOf
<1>12. Entries'
  <2>1. \A e \in outbox : GoodEntry(e)'
    BY <1>4, <1>11 DEF Entries, GoodEntry, OwnEvents, Snapshots
  <2>2. g.batch \in Nat => g.batch \in 1..Len(manifests)
    BY <1>2, <1>7, <1>9, NamesAssumption
  <2>3. Orphan(g) => /\ g.result.verdict = "clean" /\ g.result.snap \in Snapshots
                     /\ \A s \in Scopes : g.result.snap # state.cur[s]
    <3>1. op[w].kind = "withdraw" => g.batch \in Nat
      BY <1>7, <1>9
    <3>2. Orphan(g) => op[w].kind = "reconcile"
      BY <1>2, <3>1, NamesAssumption DEF Orphan
    <3>. QED
      BY <1>6, <1>9, <3>2 DEF Result
  <2>4. GoodEntry(g)'
    BY <1>4, <1>6, <1>9, <1>11, <2>2, <2>3 DEF GoodEntry, OwnEvents, Snapshots
  <2>. QED
    BY <1>4, <1>10, <2>1, <2>4 DEF Entries
<1>13. Settled'
  <2>1. \A e : Committed(state, e)' <=> Committed(state, e)
    BY <1>4 DEF Committed, Stored, ResultOf
  <2>2. ~Committed(state, g)
    BY <1>2, <1>7, <1>9 DEF Committed
  <2>3. Undelivered(state)' = {}
    BY <1>4, <1>5, <1>10, <2>1, <2>2 DEF Undelivered, Settled
  <2>. QED
    BY <1>4, <1>5, <2>3 DEF Settled
<1>14. /\ BatchKey(w)' = BatchKey(w) /\ Planned(w)' = g /\ View(state)' = View(state)
  <2>1. BatchKey(w)' = BatchKey(w) /\ Result(w)' = Result(w)
    BY <1>4 DEF BatchKey, Result
  <2>. QED
    BY <1>4, <1>8, <2>1 DEF Planned, View
<1>15. OwnEvents(BatchKey(w), plan[w].events)'
  BY <1>4, <1>6, <1>14 DEF OwnEvents
<1>16. \A e \in outbox' : Orphan(e)' /\ e.batch # BatchKey(w)' => e.result.snap # plan'[w].snap
  BY <1>4, <1>6, <1>9, <1>10, <1>11, <1>14
<1>17. Records(w)'
  BY <1>3, <1>4, <1>5, <1>6, <1>10, <1>13, <1>14, <1>15, <1>16 DEF Records
<1>18. Recorded'
  BY <1>1, <1>3, <1>4, <1>17, RecordedOwn DEF Others
<1>. QED
  BY <1>12, <1>13, <1>18 DEF Logged, Lags

\* What a commit needs of its plan, and what it does with the results.
LEMMA CommitIs ==
  ASSUME Sound, Logged, NEW w \in Callers, WriteState(w), op[w].kind # "reinstate"
  PROVE  /\ Inside(w) /\ op[w].kind \in {"reconcile", "withdraw"} /\ OneResult(w) /\ Settled
         /\ BatchKey(w) \notin receipts /\ OwnEvents(BatchKey(w), plan[w].events)
         /\ \A t \in Scopes : state'.cur[t] \in {state.cur[t], plan[w].snap}
         /\ \/ /\ Planned(w) \in outbox
               /\ \A e \in outbox : Orphan(e) /\ e.batch # BatchKey(w) => e.result.snap # plan[w].snap
            \/ /\ plan[w].events = <<>> /\ \E s \in Scopes : plan[w].snap = state.cur[s]
               /\ BatchKey(w) \in BatchIds
<1>. Typed /\ Calls
  BY DEF Sound
<1>1. pc[w] = "state" /\ Inside(w)
  BY DEF WriteState, Inside, Working
<1>2. op[w].kind \in {"reconcile", "withdraw"} /\ (op[w].kind = "reconcile" => op[w].batch \in BatchIds)
  BY <1>1, Here
<1>3. Records(w)
  BY <1>1 DEF Logged, Recorded
<1>4. \E s \in Scopes : state'.cur = [state.cur EXCEPT ![s] = plan[w].snap] /\ OneResult(w)
  <2>1. CASE op[w].kind = "reconcile"
    BY <1>2, <2>1, ReconcileKept, ContentAssumption
  <2>2. CASE op[w].kind = "withdraw"
    BY <1>1, <2>2, WithdrawKept, Here DEF Withdraws
  <2>. QED
    BY <1>2, <2>1, <2>2
<1>5. \A t \in Scopes : state'.cur[t] \in {state.cur[t], plan[w].snap}
  BY <1>4 DEF Typed, StateType
<1>6. op[w].kind = "reconcile" => BatchKey(w) \in BatchIds /\ Content[op[w].batch].scope \in Scopes
  BY <1>2, ContentAssumption DEF BatchKey
<1>. QED
  BY <1>1, <1>2, <1>3, <1>4, <1>5, <1>6 DEF Records

\* No entry but that of the committed batch has to be delivered, and no new orphan is listed.
LEMMA CommitEntries ==
  ASSUME Sound, Logged, NEW w \in Callers, WriteState(w), op[w].kind # "reinstate"
  PROVE  /\ Entries' /\ \A e \in outbox : Committed(state', e) /\ e.batch \notin receipts =>
                          e.batch = BatchKey(w) /\ e.result = Result(w) /\ ~Committed(state, e)
<1>. Typed /\ Entries
  BY DEF Sound, Logged
<1>. USE DEF files, history
<1>1. UNCHANGED <<outbox, receipts, manifests, snaps>>
  BY DEF WriteState
<1>2. OneResult(w) /\ Settled /\ BatchKey(w) \notin receipts
  BY CommitIs
<1>3. \A e \in outbox : Committed(state, e) => e.batch \in receipts
  BY <1>2 DEF Settled, Undelivered
<1>4. \A e : Committed(state', e) /\ e.batch # BatchKey(w) => Committed(state, e)
  BY <1>2 DEF OneResult, Committed
<1>5. \A e : Committed(state', e) /\ e.batch = BatchKey(w) => e.result = Result(w)
  BY <1>2 DEF OneResult, Committed
<1>6. \A e : e.batch = BatchKey(w) /\ e.result = Result(w) => Committed(state', e)
  BY <1>2 DEF OneResult, Committed
<1>7. \A e : Committed(state, e)' <=> Committed(state', e)
  BY DEF Committed, Stored, ResultOf
<1>8. ASSUME NEW e \in outbox, Orphan(e)'
      PROVE  /\ e.result.verdict = "clean" /\ e.result.snap \in Snapshots
             /\ \A t \in Scopes : e.result.snap # state'.cur[t]
  <2>1. e.batch \in BatchIds /\ e.batch \notin receipts /\ ~Committed(state', e)
    BY <1>1, <1>7, <1>8 DEF Orphan
  <2>2. Orphan(e)
    BY <1>3, <2>1 DEF Orphan
  <2>3. /\ e.result.verdict = "clean" /\ e.result.snap \in Snapshots
        /\ \A t \in Scopes : e.result.snap # state.cur[t]
    BY <2>2 DEF Entries, GoodEntry
  <2>4. e.result.snap # plan[w].snap
    <3>1. CASE /\ Planned(w) \in outbox
               /\ \A f \in outbox : Orphan(f) /\ f.batch # BatchKey(w) => f.result.snap # plan[w].snap
      <4>1. e.batch = BatchKey(w) => e = Planned(w)
        BY <3>1 DEF Entries, Planned
      <4>2. e.batch # BatchKey(w)
        BY <1>6, <2>1, <4>1 DEF Planned
      <4>. QED
        BY <2>2, <3>1, <4>2
    <3>2. CASE \E s \in Scopes : plan[w].snap = state.cur[s]
      BY <2>3, <3>2
    <3>. QED
      BY <3>1, <3>2, CommitIs
  <2>. QED
    BY <2>3, <2>4, CommitIs
<1>9. ASSUME NEW e \in outbox PROVE GoodEntry(e)'
  <2>1. GoodEntry(e)
    BY DEF Entries
  <2>2. OwnEvents(e.batch, e.events)' /\ (e.batch \in Nat => e.batch \in 1..Len(manifests'))
    BY <1>1, <2>1 DEF GoodEntry, OwnEvents
  <2>3. Snapshots' = Snapshots
    BY <1>1 DEF Snapshots
  <2>. QED
    BY <1>8, <2>2, <2>3 DEF GoodEntry
<1>10. Entries'
  BY <1>1, <1>9 DEF Entries
<1>. QED
  BY <1>3, <1>4, <1>5, <1>10

\* A commit adds the events of its entry to the commits, or has no events.
LEMMA CommitLogged ==
  ASSUME Sound, Logged, NEW w \in Callers, WriteState(w), op[w].kind # "reinstate"
  PROVE  Logged'
<1>. Typed /\ Calls /\ Entries
  BY DEF Sound, Logged
<1>. USE DEF files, history
<1>1. /\ Inside(w) /\ op[w].kind \in {"reconcile", "withdraw"} /\ OneResult(w) /\ Settled
      /\ BatchKey(w) \notin receipts /\ pc[w] = "state"
  BY CommitIs DEF WriteState
<1>2. UNCHANGED <<outbox, receipts, log, manifests, snaps, op, plan>> /\ commits' = commits \o plan[w].events
  BY DEF WriteState
<1>3. /\ Entries' /\ \A e \in outbox : Committed(state', e) /\ e.batch \notin receipts =>
                        e.batch = BatchKey(w) /\ e.result = Result(w) /\ ~Committed(state, e)
  BY CommitEntries
<1>4. Undelivered(state)' = {e \in outbox : Committed(state', e) /\ e.batch \notin receipts}
  BY <1>2 DEF Undelivered, Committed, Stored, ResultOf
<1>5. commits \in Seq(EventType) /\ plan[w].events \in Seq(EventType)
  BY DEF Typed, PlanType
<1>6. Lags'
  <2>1. CASE Planned(w) \in outbox
    <3>1. PICK e : e = Planned(w)
      OBVIOUS
    <3>2. e \in outbox /\ e.batch = BatchKey(w) /\ e.result = Result(w) /\ e.events = plan[w].events
      BY <2>1, <3>1 DEF Planned
    <3>3. Undelivered(state)' = {e}
      <4>1. Committed(state', e)
        BY <1>1, <3>2 DEF OneResult, Committed
      <4>2. \A f \in outbox : f.batch = BatchKey(w) => f = e
        BY <3>2 DEF Entries
      <4>. QED
        BY <1>1, <1>3, <1>4, <3>2, <4>1, <4>2
    <3>4. PICK k \in Nat, n \in Nat : k = Len(commits) /\ n = Len(e.events)
      BY <1>5, <3>2, LenProperties
    <3>5. /\ Len(commits') = k + n /\ \A i \in 1..k : commits'[i] = commits[i]
          /\ \A j \in 1..n : commits'[k + j] = e.events[j]
      BY <1>2, <1>5, <3>2, <3>4, ConcatProperties
    <3>6. log' = commits /\ \A i \in 1..k : commits'[i].batch \in receipts'
      BY <1>1, <1>2, <3>4, <3>5 DEF Settled
    <3>7. Newest(e)'
      <4>1. Len(commits') - Len(e.events) = k /\ Len(log') = k /\ k <= Len(commits') /\ 0 <= k
        BY <3>4, <3>5, <3>6
      <4>. QED
        BY <3>3, <3>4, <3>5, <3>6, <4>1 DEF Newest
    <3>. QED
      BY <1>2, <3>2, <3>7 DEF Lags
  <2>2. CASE /\ plan[w].events = <<>> /\ \E s \in Scopes : plan[w].snap = state.cur[s]
             /\ BatchKey(w) \in BatchIds
    <3>1. commits' = commits
      BY <1>2, <1>5, <2>2, ConcatEmptySeq
    <3>2. ASSUME NEW e \in outbox, Committed(state', e), e.batch \notin receipts PROVE FALSE
      <4>1. Orphan(e) /\ e.result = Result(w)
        BY <1>3, <2>2, <3>2 DEF Orphan
      <4>2. e.result.verdict = "clean" /\ \A s \in Scopes : e.result.snap # state.cur[s]
        BY <4>1 DEF Entries, GoodEntry
      <4>3. e.result.snap = plan[w].snap
        BY <4>1, <4>2 DEF Result
      <4>. QED
        BY <2>2, <4>2, <4>3
    <3>3. Undelivered(state)' = {}
      BY <1>4, <3>2
    <3>. QED
      BY <1>1, <1>2, <3>1, <3>3 DEF Lags, Settled
  <2>. QED
    BY <2>1, <2>2, CommitIs
<1>7. To(w, After(w)) /\ mem' = [mem EXCEPT ![w] = state']
  BY DEF WriteState
<1>8. PICK label : label = After(w)
  OBVIOUS
<1>9. pc'[w] = label /\ \A v \in Callers \ {w} : pc'[v] = pc[v]
  BY <1>7, <1>8, ToType
<1>10. label = IF op[w].kind = "reconcile" THEN "deliver2" ELSE "sync2"
  BY <1>1, <1>8, AfterIs
<1>11. Records(w)'
  BY <1>1, <1>2, <1>9, <1>10, QuietRecords DEF Quiet
<1>12. Others(w)
  BY <1>2, <1>7, <1>9 DEF Others, Typed
<1>. QED
  BY <1>1, <1>3, <1>6, <1>11, <1>12, RecordedOwn DEF Logged

-----------------------------------------------------------------------------
(* The invariant, and what follows from it *)

\* Every step keeps the log in step with the commits.
LEMMA LoggedStep ==
  ASSUME Sound, Logged, NoneForgotten, [Next]_vars
  PROVE  Logged'
<1>1. ASSUME NEW w \in Callers, Step(w) PROVE Logged'
  <2>1. CASE Acquire(w) \/ JudgeStale(w) \/ Reclaim(w) \/ TimeOut(w) \/ Release(w)
    BY <2>1, LoggedBeside, Zenon
  <2>2. CASE \/ ResumeDelete(w) \/ ResumeReview(w) \/ ResumeFinish(w) \/ Resumed(w) \/ SyncRegistry(w)
             \/ DeliverFails(w) \/ Delivered(w)
             \/ Replay(w) \/ Refuse(w) \/ WithdrawAgain(w) \/ WithdrawUnknown(w)
    BY <2>2, QuietLogged, Zenon
  <2>3. CASE DeliverEvent(w) \/ WriteReceipt(w)
    BY <2>3, DeliverLogged, ReceiptLogged, Zenon
  <2>4. CASE Reject(w) \/ AcceptNothing(w) \/ Accept(w) \/ WriteClaim(w) \/ WriteSnapshot(w)
    BY <2>4, NothingNewLogged, ClaimsLogged, WriteSnapshotLogged, Zenon
  <2>5. CASE PrepareWithdrawal(w) \/ WriteManifest(w) \/ DecideReinstate(w) \/ WriteOutbox(w) \/ WriteState(w)
    BY <2>5, PrepareWithdrawalLogged, WriteManifestLogged, ReinstateLogged, WriteOutboxLogged, CommitLogged, Zenon
  <2>. QED
    BY <1>1, <2>1, <2>2, <2>3, <2>4, <2>5, Zenon DEF Step
<1>2. ASSUME NEW w \in Callers, Start(w) \/ Crash(w) PROVE Logged'
  BY <1>2, LoggedBeside, Zenon
<1>3. CASE \E b \in BatchIds : Draft(b)
  BY <1>3, LoggedBeside, Zenon
<1>4. CASE \E r \in Readers : ReadStep(r)
  BY <1>4, LoggedBeside, Zenon
<1>5. CASE UNCHANGED vars
  BY <1>5, LoggedBeside, Zenon
<1>. QED
  BY <1>1, <1>2, <1>3, <1>4, <1>5, Zenon DEF Next

\* Nothing is logged or committed at first.
LEMMA LoggedAtFirst ==
  ASSUME Init
  PROVE  Logged
<1>1. Len(commits) = 0
  BY EmptySeq DEF Init
<1>. QED
  BY <1>1 DEF Init, Logged, Entries, Lags, Settled, Undelivered, Recorded, Inside, Working

\* What the invariant says of the log and of the calls that return.
LEMMA LoggedRecovers ==
  ASSUME Sound, Logged, ~stolen
  PROVE  StoreRecovers
<1>. Typed /\ Calls
  BY DEF Sound
<1>1. ListedIsReadable
  BY DEF Sound, Listed, ListedIsReadable, Surviving
<1>2. LogFollowsCommits
  <2>1. Len(log) \in Nat /\ Len(commits) \in Nat /\ log \in Seq(EventType) /\ commits \in Seq(EventType)
    BY LogRows
  <2>2. Len(log) <= Len(commits) /\ \A i \in 1..Len(log) : log[i] = commits[i]
    <3>1. CASE Settled
      BY <2>1, <3>1 DEF Settled
    <3>2. CASE \E e \in outbox : Newest(e)
      BY <3>2 DEF Newest
    <3>. QED
      BY <3>1, <3>2 DEF Logged, Lags
  <2>3. log = SubSeq(commits, 1, Len(log))
    <3>1. /\ SubSeq(commits, 1, Len(log)) \in Seq(EventType)
          /\ Len(SubSeq(commits, 1, Len(log))) = Len(log)
          /\ \A i \in 1..Len(log) : SubSeq(commits, 1, Len(log))[i] = commits[i]
      BY <2>1, <2>2
    <3>. QED
      BY <2>1, <2>2, <3>1, SeqEqual
  <2>4. SubSeq(log, 1, Len(log)) = log
    BY <2>1
  <2>. QED
    BY <2>2, <2>3, <2>4 DEF LogFollowsCommits, IsPrefix
<1>3. ReturnIsSettled
  <2>. SUFFICES ASSUME NEW w \in Callers, pc[w] = "ack", op[w].kind # "reinstate"
                PROVE  registry = View(state) /\ log = commits /\ state.pend = {}
    BY DEF ReturnIsSettled, Typed
  <2>1. Inside(w)
    BY DEF Inside, Working
  <2>. QED
    BY <2>1, Knew, Here DEF Settled
<1>. QED
  BY <1>1, <1>2, <1>3 DEF StoreRecovers

\* What is committed can be read and was logged, and a call that returns leaves no recovery to do, as long
\* as no call works on a batch that was delivered and whose result was dropped.
THEOREM StoreIsRecovered == Spec /\ []NoneForgotten => []StoreRecovers
<1>. DEFINE I == ~stolen => Sound /\ Logged
<1>1. Init => I
  BY SoundAtFirst, LoggedAtFirst
<1>2. I /\ NoneForgotten /\ [Next]_vars => I'
  BY StolenStays, SoundStep, LoggedStep, Zenon
<1>3. I => StoreRecovers
  <2>1. CASE stolen
    BY <2>1 DEF StoreRecovers, ListedIsReadable, LogFollowsCommits, ReturnIsSettled
  <2>. QED
    BY <2>1, LoggedRecovers
<1>. HIDE DEF I
<1>. QED
  BY <1>1, <1>2, <1>3, PTL DEF Spec
===============================================================================
