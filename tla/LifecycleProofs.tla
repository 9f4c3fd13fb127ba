--------------------------- MODULE LifecycleProofs ---------------------------
(* What TLAPS proves of Lifecycle: evidence arrives and a session is told once, for any hooks, sessions *)
(* and progress, any growth and replacement of transcripts, and any number of deaths, where one hook at *)
(* a time is between judging a stale lock and removing it: two of them break what is proved here (see   *)
(* README.md).                                                                                          *)
EXTENDS Lifecycle, FiniteSetTheorems, WellFoundedInduction, TLAPS

\* What a hook read under a lock is still what the file holds, and the lock it is about to remove is that
\* of a hook that was killed.
Guard(h) ==
  /\ pc[h] # "idle" => sess[h] \in Sessions
  /\ pc[h] \in UnderState => stateLock[sess[h]] = h /\ held[h] = sstate[sess[h]]
  /\ pc[h] \in UnderInventory => inventoryLock = h /\ base[h] = checkpoint
  /\ h \in judging => pc[h] \in {"lock", "lockPartial", "inventory"} /\ LockAt(Wanted(h)) = Gone

\* The locks exclude, which takes that no two hooks are about to remove the same one.
Guarded ==
  /\ \A h \in Hooks : Guard(h)
  /\ \A g, h \in judging : Wanted(g) = Wanted(h) => g = h

\* A delta goes on where the checkpoint stands, or begins another generation.
Continues(d, s) ==
  LET c == checkpoint.sources[s] IN
  /\ d.src = s /\ d.seq = checkpoint.sequence + 1
  /\ \/ d.gen = c.gen /\ d.from = c.next
     \/ d.gen = c.gen + 1 /\ d.from = 0

\* What the hook that takes stock has planned still follows the checkpoint, and before the checkpoint
\* moves it is in the outbox.
Planned ==
  \A h \in Hooks :
    /\ pc[h] \in UnderInventory => plan[h] \in Deltas /\ Continues(plan[h], sess[h])
    /\ pc[h] = "checkpoint" => \E e \in outbox : e.delta = plan[h]

\* The ledger and what sessions have read of it end with the delta that is being recorded.
Sequenced ==
  /\ \A d \in ledger : d.seq <= checkpoint.sequence + 1
  /\ \A s \in Sessions : sstate[s].watermark <= checkpoint.sequence + 1

\* Entries have runs of their own.
Numbered ==
  /\ IsFiniteSet(outbox)
  /\ \A e \in outbox : e.run <= Cardinality(outbox)
  /\ \A e, f \in outbox : e.run = f.run => e = f

\* A hook that delivers an entry has put in the store what it is past, and delivers nothing once a
\* store that had been proved is lost.
Delivering ==
  /\ \A h \in Hooks :
       pc[h] \in {"append", "receipt"} =>
         /\ entry[h] \in outbox
         /\ lost = "no" => TokenOf(entry[h].delta) \in store
         /\ lost = "no" /\ pc[h] = "receipt" => DeltaKey(entry[h].delta) \in store
  /\ lost = "proven" => /\ receipts # {}
                        /\ \A h \in Hooks : pc[h] \notin {"attest", "append", "receipt"}

\* What a session was told, or is about to be, is in its state.
News(h) == advisory[h].deltas \union advisory[h].progress
InState(s) == sstate[s].deltas \union sstate[s].progress
Told ==
  /\ \A s \in Sessions : shown[s] \subseteq InState(s)
  /\ \A h \in Hooks : pc[h] = "return" => News(h) \subseteq InState(sess[h])

Inv ==
  TypeOK /\ Guarded /\ Planned /\ Sequenced /\ Numbered /\ Delivering /\ Told
    /\ NothingSkipped /\ ReceiptsProve /\ OncePerSession

-----------------------------------------------------------------------------
(* Types *)

\* What has a bound has a largest.
LEMMA MaxIsIn ==
  ASSUME NEW n \in Nat, NEW T \in SUBSET (0..n), T # {}
  PROVE  Max(T) \in T /\ \A y \in T : y <= Max(T)
<1>. DEFINE R == OpToRel(<, Nat)
            U == {n - x : x \in T}
<1>1. IsWellFoundedOn(R, Nat)
  BY NatLessThanWellFounded
<1>2. U \in SUBSET Nat /\ U # {}
  OBVIOUS
<1>. HIDE DEF R, U
<1>3. PICK u \in U : \A v \in U : ~ (<<v, u>> \in R)
  BY <1>1, <1>2, WFMin, Zenon
<1>4. \A a, b \in Nat : <<a, b>> \in R <=> a < b
  BY DEF R, OpToRel
<1>5. \A v \in U : v \in Nat /\ u \in Nat /\ ~(v < u)
  BY <1>2, <1>3, <1>4
<1>6. PICK x \in T : u = n - x
  BY <1>3 DEF U
<1>7. ASSUME NEW y \in T PROVE x >= y
  <2>1. n - y \in U
    BY DEF U
  <2>. QED
    BY <1>5, <1>6, <2>1
<1>8. \A y \in T : x >= y
  BY <1>7
<1>9. Max(T) \in T /\ \A y \in T : Max(T) >= y
  BY <1>8, Zenon DEF Max
<1>. QED
  BY <1>9

\* The parts of a delta that name it.
LEMMA DeltaNames ==
  ASSUME NEW d \in Deltas
  PROVE  IdOf(d) \in Ids /\ TokenOf(d) \in Tokens
  BY DEF Deltas, IdOf, Ids, TokenOf, Tokens

\* What a hook tells is news in the form of an advice.
LEMMA NewsType ==
  ASSUME TypeOK, NEW h \in Hooks
  PROVE  /\ FreshDeltas(h) \subseteq Ids /\ FreshProgress(h) \subseteq Progress
         /\ Token(h) \in Tokens \union {None}
<1>1. FreshDeltas(h) \subseteq Ids
  BY DeltaNames DEF FreshDeltas, Related, TypeOK
<1>2. FreshProgress(h) \subseteq Progress
  BY DEF FreshProgress, TypeOK
<1>3. Token(h) \in Tokens \union {None}
  <2>1. plan[h] \in Deltas \union {None}
    BY DEF TypeOK
  <2>. QED
    BY <2>1, DeltaNames DEF Token
<1>. QED
  BY <1>1, <1>2, <1>3

\* The highest number a hook has seen is one the ledger may hold.
LEMMA WatermarkType ==
  ASSUME TypeOK, Sequenced, NEW h \in Hooks, held[h] \in States,
         held[h].watermark <= checkpoint.sequence + 1
  PROVE  Watermark(h) \in Nat /\ Watermark(h) <= checkpoint.sequence + 1
<1>. DEFINE T == {d.seq : d \in ledger} \union {held[h].watermark}
            n == checkpoint.sequence + 1
<1>1. n \in Nat
  BY DEF TypeOK, Checkpoints
<1>2. \A d \in ledger : d.seq \in 0..n
  BY <1>1 DEF Sequenced, TypeOK, Deltas
<1>3. held[h].watermark \in 0..n
  BY <1>1 DEF States
<1>4. T \in SUBSET (0..n) /\ T # {}
  BY <1>2, <1>3
<1>. HIDE DEF T, n
<1>5. Max(T) \in 0..n
  BY <1>1, <1>4, MaxIsIn
<1>6. Watermark(h) = Max(T)
  BY DEF Watermark, T
<1>. QED
  BY <1>1, <1>5, <1>6 DEF n

\* A new delta: it follows the checkpoint, whatever became of the transcript.
LEMMA DeltaType ==
  ASSUME TypeOK, NEW s \in Sessions, NEW k \in {"start", "prompt", "end", None}
  PROVE  DeltaFor(s, k) \in Deltas /\ Continues(DeltaFor(s, k), s)
<1>. DEFINE c == checkpoint.sources[s]
<1>1. /\ c \in Sources /\ c.gen \in Nat /\ c.next \in 0..MaxLines /\ c.life \in Lives
      /\ checkpoint.sequence \in Nat /\ content[s] \in Nat /\ lines[s] \in 0..MaxLines
  BY DEF TypeOK, Checkpoints, Sources
<1>2. Life(s, k) \in Lives
  BY <1>1 DEF Life, Override, Lives
<1>3. LET d == DeltaFor(s, k) IN
      /\ d.src = s /\ d.content = content[s] /\ d.to = lines[s] /\ d.life = Life(s, k)
      /\ d.seq = checkpoint.sequence + 1
      /\ d = [src |-> d.src, content |-> d.content, gen |-> d.gen, from |-> d.from, to |-> d.to,
              life |-> d.life, seq |-> d.seq]
      /\ \/ d.gen = c.gen /\ d.from = c.next
         \/ d.gen = c.gen + 1 /\ d.from = 0
  BY DEF DeltaFor, Scanned
<1>. QED
  BY <1>1, <1>2, <1>3, LimitsAssumption DEF Continues, Deltas

LEMMA OnwardType ==
  ASSUME TypeOK, NEW h \in Hooks, NEW entries \in SUBSET outbox, NEW delivered,
         Onward(h, entries, delivered)
  PROVE  pc' \in [Hooks -> Labels] /\ todo' \in [Hooks -> SUBSET outbox]
  BY DEF TypeOK, Onward, GoTo, Set, Undelivered, Labels

LEMMA ClearType ==
  ASSUME TypeOK, NEW h \in Hooks, Clear(h)
  PROVE  /\ pc' \in [Hooks -> Labels] /\ sess' \in [Hooks -> Sessions \union {None}]
         /\ kind' \in [Hooks -> {"start", "prompt", "end", None}]
         /\ natural' \in [Hooks -> SUBSET Progress] /\ held' \in [Hooks -> States \union {None}]
         /\ phase' \in [Hooks -> 1..2] /\ todo' \in [Hooks -> SUBSET outbox]
         /\ entry' \in [Hooks -> outbox \union {None}] /\ refs' \in [Hooks -> SUBSET Tokens]
         /\ plan' \in [Hooks -> Deltas \union {None}] /\ advisory' \in [Hooks -> Advices]
         /\ base' \in [Hooks -> Checkpoints \union {None}] /\ judging' \subseteq Hooks
<1>1. NoAdvice \in Advices
  BY DEF NoAdvice, Advices
<1>. QED
  BY <1>1 DEF TypeOK, Clear, GoTo, Set, Labels

LEMMA ReleaseType ==
  ASSUME TypeOK, NEW h \in Hooks, Release(h)
  PROVE  stateLock' \in [Sessions -> Locks] /\ inventoryLock' \in Locks
  BY DEF TypeOK, Release, Locks

\* The world and the faults, and what leaves a hook where it was.
LEMMA WorldType ==
  ASSUME TypeOK, \/ \E s \in Sessions : Grow(s) \/ Rewrite(s)
                 \/ \E x \in Progress : PublishProgress(x)
                 \/ LoseStore \/ UNCHANGED vars
  PROVE  TypeOK'
<1>. USE LimitsAssumption DEF files, locks, locals, aux, world
<1>1. ASSUME NEW s \in Sessions, Grow(s) PROVE TypeOK'
  BY <1>1 DEF TypeOK, Grow
<1>2. ASSUME NEW s \in Sessions, Rewrite(s) PROVE TypeOK'
  <2>1. lines' \in [Sessions -> 0..MaxLines] /\ content' \in [Sessions -> Nat] /\ faults' \in 0..MaxFaults
    BY <1>2 DEF TypeOK, Rewrite
  <2>. QED
    BY <1>2, <2>1 DEF TypeOK, Rewrite
<1>3. ASSUME NEW x \in Progress, PublishProgress(x) PROVE TypeOK'
  BY <1>3 DEF TypeOK, PublishProgress
<1>4. CASE LoseStore
  <2>1. lost' \in {"no", "unproven", "proven"} /\ faults' \in 0..MaxFaults
    BY <1>4 DEF TypeOK, LoseStore
  <2>. QED
    BY <1>4, <2>1 DEF TypeOK, LoseStore
<1>5. CASE UNCHANGED vars
  BY <1>5 DEF TypeOK, vars
<1>. QED
  BY <1>1, <1>2, <1>3, <1>4, <1>5

LEMMA LeaveType ==
  ASSUME TypeOK, NEW h \in Hooks, Busy(h) \/ Throw(h) \/ Die(h)
  PROVE  TypeOK'
<1>1. Clear(h) /\ UNCHANGED <<world, files, shown, lost>> /\ faults' \in 0..MaxFaults
  BY LimitsAssumption DEF Busy, Throw, Die, Breaks, aux, TypeOK
<1>2. CASE Busy(h) \/ Throw(h)
  BY <1>1, <1>2, ReleaseType, ClearType DEF Busy, Throw, TypeOK, files, world
<1>3. CASE Die(h)
  <2>1. stateLock' \in [Sessions -> Locks] /\ inventoryLock' \in Locks
    BY <1>3 DEF Die, TypeOK, Locks
  <2>. QED
    BY <1>1, <2>1, ClearType DEF TypeOK, files, world
<1>. QED
  BY <1>2, <1>3

LEMMA JudgeType ==
  ASSUME TypeOK, NEW h \in Hooks, Judge(h) \/ Unlink(h)
  PROVE  TypeOK'
<1>. USE DEF files, locks, aux, world
<1>1. judging' \subseteq Hooks
  BY DEF TypeOK, Judge, Unlink
<1>2. stateLock' \in [Sessions -> Locks] /\ inventoryLock' \in Locks
  BY DEF TypeOK, Judge, Unlink, Locks
<1>. QED
  BY <1>1, <1>2 DEF TypeOK, Judge, Unlink

LEMMA BeginType ==
  ASSUME TypeOK, Guarded, NEW h \in Hooks,
         (\E s \in Sessions : \E k \in Kinds[s] : Begin(h, s, k)) \/ LockState(h)
  PROVE  TypeOK'
<1>. USE DEF files, locks, locals, aux, world
<1>1. ASSUME NEW s \in Sessions, NEW k \in Kinds[s], Begin(h, s, k) PROVE TypeOK'
  <2>1. k \in {"start", "prompt", "end"}
    BY <1>1, KindsAssumption
  <2>2. /\ pc' \in [Hooks -> Labels] /\ sess' \in [Hooks -> Sessions \union {None}]
        /\ kind' \in [Hooks -> {"start", "prompt", "end", None}] /\ natural' \in [Hooks -> SUBSET Progress]
    BY <1>1, <2>1 DEF TypeOK, Begin, GoTo, Set, Labels
  <2>. QED
    BY <1>1, <2>2 DEF TypeOK, Begin
<1>2. CASE LockState(h)
  <2>1. sstate[sess[h]] \in States
    BY <1>2 DEF TypeOK, LockState, Guarded, Guard
  <2>2. /\ pc' \in [Hooks -> Labels] /\ stateLock' \in [Sessions -> Locks]
        /\ held' \in [Hooks -> States \union {None}]
    BY <1>2, <2>1 DEF TypeOK, LockState, GoTo, Set, Labels, Locks
  <2>. QED
    BY <1>2, <2>2 DEF TypeOK, LockState
<1>. QED
  BY <1>1, <1>2

LEMMA DeliverType ==
  ASSUME TypeOK, Delivering, NEW h \in Hooks, Deliver(h)
  PROVE  TypeOK'
<1>. USE DEF files, locks, locals, aux, world
<1>1. CASE List(h)
  <2>1. CASE Refused
    BY <1>1, <2>1, ReleaseType, ClearType DEF TypeOK, List
  <2>2. CASE ~Refused
    <3>1. pc' \in [Hooks -> Labels] /\ todo' \in [Hooks -> SUBSET outbox]
      BY <1>1, <2>2, OnwardType DEF List
    <3>. QED
      BY <1>1, <2>2, <3>1 DEF TypeOK, List
  <2>. QED
    BY <2>1, <2>2
<1>2. CASE Attest(h)
  <2>1. PICK e \in Undelivered(todo[h], receipts) :
          /\ refs' = [refs EXCEPT ![h] = @ \union (IF phase[h] = 2 THEN {TokenOf(e.delta)} ELSE {})]
          /\ entry' = Set(entry, h, e)
    BY <1>2 DEF Attest
  <2>2. e \in outbox /\ e.delta \in Deltas
    BY DEF TypeOK, Undelivered, Entries
  <2>3. refs' \in [Hooks -> SUBSET Tokens] /\ entry' \in [Hooks -> outbox \union {None}]
    BY <2>1, <2>2, DeltaNames DEF TypeOK, Set
  <2>4. pc' \in [Hooks -> Labels]
    BY <1>2 DEF TypeOK, Attest, GoTo, Labels
  <2>. QED
    BY <1>2, <2>3, <2>4 DEF TypeOK, Attest
<1>3. CASE Overtaken(h)
  <2>1. todo[h] \in SUBSET outbox
    BY DEF TypeOK
  <2>2. pc' \in [Hooks -> Labels] /\ todo' \in [Hooks -> SUBSET outbox]
    BY <1>3, <2>1, OnwardType DEF Overtaken
  <2>. QED
    BY <1>3, <2>2 DEF TypeOK, Overtaken
<1>4. CASE Append(h)
  <2>1. pc' \in [Hooks -> Labels]
    BY <1>4 DEF TypeOK, Append, GoTo, Labels
  <2>. QED
    BY <1>4, <2>1 DEF TypeOK, Append
<1>5. CASE Receipt(h)
  <2>1. todo[h] \in SUBSET outbox /\ entry[h] \in outbox
    BY <1>5 DEF TypeOK, Delivering, Receipt
  <2>2. pc' \in [Hooks -> Labels] /\ todo' \in [Hooks -> SUBSET outbox]
    BY <1>5, <2>1, OnwardType DEF Receipt
  <2>3. receipts' \subseteq {e.run : e \in outbox} /\ entry' \in [Hooks -> outbox \union {None}]
    BY <1>5, <2>1 DEF TypeOK, Receipt, Set
  <2>. QED
    BY <1>5, <2>2, <2>3 DEF TypeOK, Receipt
<1>. QED
  BY <1>1, <1>2, <1>3, <1>4, <1>5 DEF Deliver

LEMMA InventoryType ==
  ASSUME TypeOK, Guarded, Planned, Numbered, NEW h \in Hooks, Scan(h) \/ Inventory(h)
  PROVE  TypeOK'
<1>. USE DEF files, locks, locals, aux, world
<1>1. CASE Scan(h)
  <2>1. sess[h] \in Sessions /\ kind[h] \in {"start", "prompt", "end", None}
    BY <1>1 DEF TypeOK, Guarded, Guard, Scan
  <2>2. DeltaFor(sess[h], kind[h]) \in Deltas
    BY <2>1, DeltaType
  <2>3. /\ inventoryLock' \in Locks /\ plan' \in [Hooks -> Deltas \union {None}]
        /\ phase' \in [Hooks -> 1..2] /\ pc' \in [Hooks -> Labels]
        /\ base' \in [Hooks -> Checkpoints \union {None}]
    BY <1>1, <2>2 DEF TypeOK, Scan, Set, GoTo, Labels, Locks
  <2>. QED
    BY <1>1, <2>3 DEF TypeOK, Scan
<1>2. CASE WriteLedger(h)
  <2>1. plan[h] \in Deltas
    BY <1>2 DEF Planned, WriteLedger, UnderInventory
  <2>2. pc' \in [Hooks -> Labels] /\ ledger' \subseteq Deltas
    BY <1>2, <2>1 DEF TypeOK, WriteLedger, GoTo, Labels
  <2>. QED
    BY <1>2, <2>2 DEF TypeOK, WriteLedger
<1>3. CASE WriteOutbox(h)
  <2>1. plan[h] \in Deltas
    BY <1>3 DEF Planned, WriteOutbox, UnderInventory
  <2>2. Cardinality(outbox) \in Nat
    BY FS_CardinalityType DEF Numbered
  <2>3. EntryOf(plan[h]) \in Entries
    BY <2>1, <2>2 DEF EntryOf, Entries
  <2>4. outbox' \subseteq Entries /\ outbox \subseteq outbox' /\ pc' \in [Hooks -> Labels]
    BY <1>3, <2>3 DEF TypeOK, WriteOutbox, GoTo, Labels
  <2>5. todo \in [Hooks -> SUBSET outbox'] /\ entry \in [Hooks -> outbox' \union {None}]
    BY <2>4 DEF TypeOK
  <2>6. receipts \subseteq {e.run : e \in outbox'}
    BY <2>4 DEF TypeOK
  <2>. QED
    BY <1>3, <2>4, <2>5, <2>6 DEF TypeOK, WriteOutbox
<1>4. CASE WriteCheckpoint(h)
  <2>1. plan[h] \in Deltas /\ sess[h] \in Sessions /\ base[h] = checkpoint
    BY <1>4 DEF Planned, WriteCheckpoint, UnderInventory, Guarded, Guard
  <2>2. [gen |-> plan[h].gen, content |-> plan[h].content, next |-> plan[h].to, life |-> plan[h].life]
          \in Sources
    BY <2>1 DEF Deltas, Sources
  <2>3. checkpoint' \in Checkpoints
    BY <1>4, <2>1, <2>2 DEF TypeOK, WriteCheckpoint, Deltas, Checkpoints
  <2>4. /\ inventoryLock' \in Locks /\ phase' \in [Hooks -> 1..2] /\ pc' \in [Hooks -> Labels]
        /\ base' \in [Hooks -> Checkpoints \union {None}]
    BY <1>4 DEF TypeOK, WriteCheckpoint, Set, GoTo, Labels, Locks
  <2>. QED
    BY <1>4, <2>3, <2>4 DEF TypeOK, WriteCheckpoint
<1>. QED
  BY <1>1, <1>2, <1>3, <1>4 DEF Inventory

\* The state that a hook writes back has the form of a state.
LEMMA TellType ==
  ASSUME TypeOK, Guarded, Sequenced, NEW h \in Hooks, Tell(h)
  PROVE  TypeOK' /\ Sequenced'
<1>. USE DEF files, locks, locals, aux, world
<1>0. ASSUME Answer(h)
      PROVE  /\ stateLock' \in [Sessions -> Locks] /\ inventoryLock' \in Locks
             /\ natural' \in [Hooks -> SUBSET Progress] /\ held' \in [Hooks -> States \union {None}]
             /\ kind' \in [Hooks -> {"start", "prompt", "end", None}]
             /\ refs' \in [Hooks -> SUBSET Tokens] /\ plan' \in [Hooks -> Deltas \union {None}]
             /\ phase' \in [Hooks -> 1..2] /\ pc' \in [Hooks -> Labels]
             /\ UNCHANGED <<sess, todo, entry, base, judging>>
  BY <1>0, ReleaseType DEF Answer, TypeOK, Set, GoTo, Labels
<1>1. ASSUME pc[h] \in UnderState
      PROVE  /\ sess[h] \in Sessions /\ held[h] = sstate[sess[h]] /\ held[h] \in States
             /\ held[h].watermark <= checkpoint.sequence + 1
  BY <1>1 DEF Guarded, Guard, UnderState, TypeOK, Sequenced
<1>2. ASSUME Advise(h), kind[h] # "end" PROVE TypeOK' /\ Sequenced'
  <2>. DEFINE w == [watermark |-> Watermark(h), deltas |-> held[h].deltas \union FreshDeltas(h),
                    progress |-> held[h].progress \union FreshProgress(h), token |-> Token(h)]
              t == [deltas |-> FreshDeltas(h), progress |-> FreshProgress(h),
                    token |-> IF Token(h) = held[h].token THEN None ELSE Token(h)]
  <2>1. /\ sess[h] \in Sessions /\ held[h] \in States /\ held[h].watermark <= checkpoint.sequence + 1
    BY <1>1, <1>2 DEF Advise, UnderState
  <2>2. /\ FreshDeltas(h) \subseteq Ids /\ FreshProgress(h) \subseteq Progress
        /\ Token(h) \in Tokens \union {None}
        /\ Watermark(h) \in Nat /\ Watermark(h) <= checkpoint.sequence + 1
    BY <2>1, NewsType, WatermarkType
  <2>3. w \in States /\ t \in Advices /\ w.watermark = Watermark(h)
    BY <2>1, <2>2 DEF States, Advices
  <2>. HIDE DEF w, t
  <2>4. sstate' = [sstate EXCEPT ![sess[h]] = w] /\ advisory' = [advisory EXCEPT ![h] = t] /\ Answer(h)
        /\ UNCHANGED <<world, checkpoint, ledger, outbox, receipts, store, aux>>
    BY <1>2 DEF Advise, Set, w, t
  <2>5. sstate' \in [Sessions -> States] /\ advisory' \in [Hooks -> Advices]
    BY <2>3, <2>4 DEF TypeOK
  <2>6. TypeOK'
    BY <1>0, <2>4, <2>5 DEF TypeOK
  <2>7. \A s \in Sessions : sstate'[s].watermark <= checkpoint.sequence + 1
    BY <2>1, <2>2, <2>3, <2>4 DEF TypeOK, Sequenced
  <2>. QED
    BY <2>4, <2>6, <2>7 DEF Sequenced
<1>3. ASSUME Advise(h), kind[h] = "end" PROVE TypeOK' /\ Sequenced'
  <2>1. TypeOK'
    BY <1>3, ReleaseType, ClearType DEF Advise, TypeOK
  <2>. QED
    BY <1>3, <2>1 DEF Advise, Sequenced
<1>4. CASE Partial(h)
  <2>. DEFINE w == [held[h] EXCEPT !.progress = @ \union FreshProgress(h)]
              t == [NoAdvice EXCEPT !.progress = FreshProgress(h)]
  <2>1. sess[h] \in Sessions /\ held[h] = sstate[sess[h]] /\ held[h] \in States
    BY <1>1, <1>4 DEF Partial, UnderState
  <2>2. FreshProgress(h) \subseteq Progress
    BY NewsType
  <2>3. w \in States /\ t \in Advices /\ w.watermark = held[h].watermark
    BY <2>1, <2>2 DEF States, Advices, NoAdvice
  <2>. HIDE DEF w, t
  <2>4. sstate' = [sstate EXCEPT ![sess[h]] = w] /\ advisory' = [advisory EXCEPT ![h] = t] /\ Answer(h)
        /\ UNCHANGED <<world, checkpoint, ledger, outbox, receipts, store, aux>>
    BY <1>4 DEF Partial, Set, w, t
  <2>5. sstate' \in [Sessions -> States] /\ advisory' \in [Hooks -> Advices]
    BY <2>3, <2>4 DEF TypeOK
  <2>6. TypeOK'
    BY <1>0, <2>4, <2>5 DEF TypeOK
  <2>7. \A s \in Sessions : sstate'[s].watermark = sstate[s].watermark
    BY <2>1, <2>3, <2>4 DEF TypeOK
  <2>. QED
    BY <2>4, <2>6, <2>7 DEF Sequenced
<1>5. CASE Return(h)
  <2>1. sess[h] \in Sessions /\ advisory[h] \in Advices
    BY <1>5 DEF Return, Guarded, Guard, TypeOK
  <2>2. shown' \in [Sessions -> SUBSET (Ids \union Progress)]
    BY <1>5, <2>1 DEF Return, TypeOK, Advices
  <2>3. TypeOK'
    BY <1>5, <2>2, ClearType DEF Return, TypeOK
  <2>. QED
    BY <1>5, <2>3 DEF Return, Sequenced
<1>. QED
  BY <1>2, <1>3, <1>4, <1>5 DEF Tell

LEMMA TypeStep ==
  ASSUME Inv, [Next]_vars
  PROVE  TypeOK'
<1>1. TypeOK /\ Guarded /\ Planned /\ Sequenced /\ Numbered /\ Delivering
  BY DEF Inv
<1>. QED
  BY <1>1, KindsAssumption, WorldType, LeaveType, JudgeType, BeginType, DeliverType, InventoryType, TellType
  DEF Next, Work

-----------------------------------------------------------------------------
(* Locks *)

HookStep(h) ==
  \/ \E s \in Sessions : \E k \in Kinds[s] : Begin(h, s, k)
  \/ Work(h) \/ LockState(h) \/ Scan(h) \/ Busy(h) \/ Judge(h) \/ Unlink(h) \/ Throw(h) \/ Die(h)

\* A hook's step is its own: the other hooks are where they were and know what they knew, the locks
\* they hold stay theirs, those of killed hooks stay until somebody who judged them removes them, and
\* the files are written by the hook that has their lock.
Others(h) ==
  /\ \A g \in Hooks \ {h} :
       /\ pc'[g] = pc[g] /\ sess'[g] = sess[g] /\ held'[g] = held[g] /\ plan'[g] = plan[g]
       /\ entry'[g] = entry[g] /\ advisory'[g] = advisory[g] /\ base'[g] = base[g]
       /\ g \in judging' <=> g \in judging
  /\ \A s \in Sessions : /\ stateLock[s] \in Hooks \ {h} => stateLock'[s] = stateLock[s]
                         /\ stateLock[s] = Gone => \/ stateLock'[s] = Gone
                                                   \/ h \in judging /\ Wanted(h) = s
                         /\ sstate'[s] # sstate[s] => stateLock[s] = h
  /\ inventoryLock \in Hooks \ {h} => inventoryLock' = inventoryLock
  /\ inventoryLock = Gone => inventoryLock' = Gone \/ (h \in judging /\ Wanted(h) = None)
  /\ checkpoint' # checkpoint => inventoryLock = h

LEMMA Elsewhere ==
  ASSUME TypeOK, Guarded, NEW h \in Hooks, HookStep(h)
  PROVE  Others(h)
<1>. USE MarkersAssumption DEF files, locks, locals, aux, world, Set, GoTo
<1>0. Guard(h)
  BY DEF Guarded
<1>1. ASSUME NEW s \in Sessions, NEW k \in Kinds[s], Begin(h, s, k) PROVE Others(h)
  BY <1>1 DEF TypeOK, Begin, Others
<1>2. CASE LockState(h)
  BY <1>2 DEF TypeOK, LockState, Others
<1>r. ASSUME Release(h)
      PROVE  /\ \A s \in Sessions : stateLock[s] \in (Hooks \ {h}) \union {Gone} => stateLock'[s] = stateLock[s]
             /\ inventoryLock \in (Hooks \ {h}) \union {Gone} => inventoryLock' = inventoryLock
  BY <1>r, <1>0 DEF TypeOK, Release, Guard, UnderState, UnderInventory
<1>c. ASSUME Clear(h)
      PROVE  \A g \in Hooks \ {h} :
               /\ pc'[g] = pc[g] /\ sess'[g] = sess[g] /\ held'[g] = held[g] /\ plan'[g] = plan[g]
               /\ entry'[g] = entry[g] /\ advisory'[g] = advisory[g] /\ base'[g] = base[g]
               /\ g \in judging' <=> g \in judging
  BY <1>c DEF TypeOK, Clear
<1>3. ASSUME Clear(h), Release(h), UNCHANGED <<sstate, checkpoint>> PROVE Others(h)
  BY <1>3, <1>r, <1>c DEF Others
<1>4. CASE Busy(h) \/ Throw(h)
  BY <1>3, <1>4 DEF Busy, Throw, Breaks
<1>15. CASE Die(h)
  <2>1. Clear(h) /\ UNCHANGED <<sstate, checkpoint>>
    BY <1>15 DEF Die, Breaks
  <2>2. /\ \A s \in Sessions : stateLock[s] \in (Hooks \ {h}) \union {Gone} => stateLock'[s] = stateLock[s]
        /\ inventoryLock \in (Hooks \ {h}) \union {Gone} => inventoryLock' = inventoryLock
    BY <1>15 DEF Die, TypeOK
  <2>. QED
    BY <1>c, <2>1, <2>2 DEF Others
<1>16. CASE Judge(h)
  BY <1>16 DEF Judge, TypeOK, Others
<1>17. CASE Unlink(h)
  <2>1. h \in judging /\ LockAt(Wanted(h)) = Gone
    BY <1>0, <1>17 DEF Unlink, Guard
  <2>2. \A g \in Hooks \ {h} : g \in judging' <=> g \in judging
    BY <1>17 DEF Unlink
  <2>3. UNCHANGED <<pc, sess, held, plan, entry, advisory, base, sstate, checkpoint>>
    BY <1>17 DEF Unlink
  <2>4. CASE Wanted(h) = None
    BY <1>17, <2>1, <2>2, <2>3, <2>4 DEF Unlink, LockAt, Others
  <2>5. CASE Wanted(h) # None
    <3>1. inventoryLock' = inventoryLock /\ stateLock[Wanted(h)] = Gone
      BY <1>17, <2>1, <2>5 DEF Unlink, LockAt
    <3>2. \A s \in Sessions : s # Wanted(h) => stateLock'[s] = stateLock[s]
      BY <1>17, <2>5 DEF Unlink, TypeOK
    <3>. QED
      BY <2>1, <2>2, <2>3, <3>1, <3>2 DEF Others
  <2>. QED
    BY <2>4, <2>5
<1>5. CASE List(h)
  <2>1. CASE Refused
    BY <1>3, <1>5, <2>1 DEF List
  <2>2. CASE ~Refused
    BY <1>5, <2>2 DEF List, Onward, TypeOK, Others
  <2>. QED
    BY <2>1, <2>2
<1>6. CASE Attest(h)
  BY <1>6 DEF Attest, TypeOK, Others
<1>7. CASE Overtaken(h) \/ Receipt(h)
  BY <1>7 DEF Overtaken, Receipt, Onward, TypeOK, Others
<1>8. CASE Append(h) \/ WriteLedger(h) \/ WriteOutbox(h)
  BY <1>8 DEF Append, WriteLedger, WriteOutbox, TypeOK, Others
<1>9. CASE Scan(h)
  BY <1>9 DEF Scan, TypeOK, Others
<1>10. CASE WriteCheckpoint(h)
  <2>1. inventoryLock = h
    BY <1>0, <1>10 DEF WriteCheckpoint, Guard, UnderInventory
  <2>. QED
    BY <1>10, <2>1 DEF WriteCheckpoint, TypeOK, Others
<1>11. ASSUME Answer(h), pc[h] \in UnderState, \E w : sstate' = [sstate EXCEPT ![sess[h]] = w],
              \E t : advisory' = [advisory EXCEPT ![h] = t], checkpoint' = checkpoint
       PROVE  Others(h)
  <2>1. stateLock[sess[h]] = h
    BY <1>0, <1>11 DEF Guard
  <2>2. Release(h)
    BY <1>11 DEF Answer
  <2>3. \A g \in Hooks \ {h} :
          /\ pc'[g] = pc[g] /\ sess'[g] = sess[g] /\ held'[g] = held[g] /\ plan'[g] = plan[g]
          /\ entry'[g] = entry[g] /\ advisory'[g] = advisory[g] /\ base'[g] = base[g]
          /\ g \in judging' <=> g \in judging
    BY <1>11 DEF Answer, TypeOK
  <2>4. \A s \in Sessions : sstate'[s] # sstate[s] => stateLock[s] = h
    BY <1>11, <2>1 DEF TypeOK
  <2>. QED
    BY <1>11, <1>r, <2>2, <2>3, <2>4 DEF Others
<1>12. CASE Advise(h)
  <2>1. CASE kind[h] = "end"
    BY <1>3, <1>12, <2>1 DEF Advise
  <2>2. CASE kind[h] # "end"
    BY <1>11, <1>12, <2>2 DEF Advise, UnderState
  <2>. QED
    BY <2>1, <2>2
<1>13. CASE Partial(h)
  BY <1>11, <1>13 DEF Partial, UnderState
<1>14. CASE Return(h)
  <2>1. UNCHANGED <<sstate, checkpoint, locks>> /\ Clear(h)
    BY <1>14 DEF Return
  <2>. QED
    BY <1>c, <2>1 DEF Others
<1>. QED
  BY <1>1, <1>2, <1>4, <1>5, <1>6, <1>7, <1>8, <1>9, <1>10, <1>12, <1>13, <1>14, <1>15, <1>16, <1>17
  DEF HookStep, Work, Deliver, Inventory, Tell

\* A hook that goes on under its locks keeps them.
LEMMA GuardSelf ==
  ASSUME TypeOK, Guarded, NEW h \in Hooks, HookStep(h)
  PROVE  Guard(h)'
<1>. USE DEF files, locks, locals, aux, world, Set, GoTo
<1>0. Guard(h) /\ h \in DOMAIN pc /\ h \in DOMAIN sess /\ h \in DOMAIN held /\ h \in DOMAIN base
  BY DEF Guarded, TypeOK
<1>1. ASSUME NEW s \in Sessions, NEW k \in Kinds[s], Begin(h, s, k) PROVE Guard(h)'
  BY <1>0, <1>1 DEF Begin, Guard, UnderState, UnderInventory
<1>2. CASE LockState(h)
  <2>1. sess[h] \in Sessions /\ sess[h] \in DOMAIN stateLock
    BY <1>0, <1>2 DEF LockState, Guard, TypeOK
  <2>. QED
    BY <1>0, <1>2, <2>1 DEF LockState, Guard, UnderState, UnderInventory
<1>3. ASSUME Clear(h) PROVE Guard(h)'
  BY <1>0, <1>3 DEF Clear, Guard, UnderState, UnderInventory
<1>4. CASE Busy(h) \/ Throw(h) \/ Die(h) \/ Return(h)
  BY <1>3, <1>4 DEF Busy, Throw, Die, Breaks, Return
<1>12. CASE Judge(h)
  <2>1. UNCHANGED <<pc, sess, held, stateLock, inventoryLock, sstate, base, checkpoint>>
    BY <1>12 DEF Judge
  <2>2. pc[h] \in {"lock", "lockPartial", "inventory"} /\ LockAt(Wanted(h)) = Gone
    BY <1>12 DEF Judge, Waits
  <2>. QED
    BY <1>0, <2>1, <2>2 DEF Guard, LockAt, Wanted
<1>13. CASE Unlink(h)
  <2>1. h \notin judging' /\ UNCHANGED <<pc, sess, held, sstate, base, checkpoint>>
    BY <1>13 DEF Unlink
  <2>2. pc[h] \in {"lock", "lockPartial", "inventory"} /\ LockAt(Wanted(h)) = Gone
    BY <1>0, <1>13 DEF Unlink, Guard
  <2>3. CASE pc[h] = "inventory"
    <3>1. stateLock' = stateLock
      BY <1>13, <2>3 DEF Unlink, Wanted
    <3>. QED
      BY <1>0, <2>1, <2>3, <3>1 DEF Guard, UnderInventory
  <2>4. CASE pc[h] # "inventory"
    BY <1>0, <2>1, <2>2, <2>4 DEF Guard, UnderState, UnderInventory
  <2>. QED
    BY <2>3, <2>4
<1>5. ASSUME NEW entries, NEW delivered, Onward(h, entries, delivered), pc[h] \in UnderState, h \notin judging,
             UNCHANGED <<sess, held, stateLock, sstate, judging>>
      PROVE  Guard(h)'
  BY <1>0, <1>5 DEF Onward, Guard, UnderState, UnderInventory
<1>b. pc[h] \notin {"lock", "lockPartial", "inventory"} => h \notin judging
  BY <1>0 DEF Guard
<1>6. CASE List(h)
  <2>1. CASE Refused
    BY <1>3, <1>6, <2>1 DEF List
  <2>2. CASE ~Refused
    BY <1>5, <1>6, <1>b, <2>2 DEF List, UnderState
  <2>. QED
    BY <2>1, <2>2
<1>7. CASE Overtaken(h) \/ Receipt(h)
  BY <1>5, <1>7, <1>b DEF Overtaken, Receipt, UnderState
<1>8. CASE Attest(h) \/ Append(h)
  BY <1>0, <1>8, <1>b DEF Attest, Append, Guard, UnderState, UnderInventory
<1>9. CASE WriteLedger(h) \/ WriteOutbox(h)
  BY <1>0, <1>9, <1>b DEF WriteLedger, WriteOutbox, Guard, UnderState, UnderInventory
<1>10. CASE Scan(h) \/ WriteCheckpoint(h)
  BY <1>0, <1>10, <1>b DEF Scan, WriteCheckpoint, Guard, UnderState, UnderInventory
<1>11. CASE Advise(h) \/ Partial(h)
  <2>1. sess[h] \in Sessions
    BY <1>0, <1>11 DEF Advise, Partial, Guard
  <2>2. CASE Clear(h)
    BY <1>3, <2>2
  <2>3. CASE Answer(h)
    BY <1>0, <1>11, <1>b, <2>1, <2>3 DEF Advise, Partial, Answer, Guard, UnderState, UnderInventory
  <2>. QED
    BY <1>11, <2>2, <2>3 DEF Advise, Partial
<1>. QED
  BY <1>1, <1>2, <1>4, <1>6, <1>7, <1>8, <1>9, <1>10, <1>11, <1>12, <1>13
  DEF HookStep, Work, Deliver, Inventory, Tell

\* Who is about to remove a lock has just judged it: any other step of that hook is its removal.
LEMMA OnlyJudge ==
  ASSUME TypeOK, Guarded, NEW h \in Hooks, HookStep(h), h \in judging'
  PROVE  Judge(h)
<1>. USE DEF locals
<1>1. h \in judging => pc[h] \in {"lock", "lockPartial", "inventory"}
  BY DEF Guarded, Guard
<1>2. ~Unlink(h) /\ ~Clear(h)
  BY DEF Unlink, Clear
<1>3. ~(\E s \in Sessions : \E k \in Kinds[s] : Begin(h, s, k)) /\ ~LockState(h) /\ ~Scan(h)
  BY <1>1 DEF Begin, LockState, Scan
<1>4. ~Busy(h) /\ ~Throw(h) /\ ~Die(h) /\ ~Return(h)
  BY <1>2 DEF Busy, Throw, Die, Breaks, Return
<1>5. ~Deliver(h)
  BY <1>1, <1>2 DEF Deliver, List, Attest, Overtaken, Append, Receipt
<1>6. ~Inventory(h)
  BY <1>1 DEF Inventory, WriteLedger, WriteOutbox, WriteCheckpoint
<1>7. ~Advise(h) /\ ~Partial(h)
  BY <1>1, <1>2 DEF Advise, Partial, Answer
<1>. QED
  BY <1>3, <1>4, <1>5, <1>6, <1>7, <1>2 DEF HookStep, Work, Tell

\* No two hooks are about to remove the same lock: judging waits for the one who is.
LEMMA AloneStep ==
  ASSUME OneReclaims = TRUE, TypeOK, Guarded, NEW h \in Hooks, HookStep(h)
  PROVE  \A f, g \in judging' : Wanted(f)' = Wanted(g)' => f = g
<1>1. Others(h) /\ Guard(h)' /\ judging \subseteq Hooks /\ judging' \subseteq Hooks
  <2>2. Others(h) /\ Guard(h)' /\ judging \subseteq Hooks
    BY Elsewhere, GuardSelf DEF TypeOK
  <2>3. judging' \subseteq judging \union {h}
    BY DEF HookStep, Work, Deliver, Inventory, Tell, Begin, LockState, Scan, Busy, Judge, Unlink, Throw, Die, Breaks,
       List, Attest, Overtaken, Append, Receipt, WriteLedger, WriteOutbox, WriteCheckpoint, Advise, Partial, Return,
       Answer, Clear, locals
  <2>. QED
    BY <2>2, <2>3
<1>2. \A g \in Hooks \ {h} : Wanted(g)' = Wanted(g) /\ (g \in judging' <=> g \in judging)
  BY <1>1 DEF Others, Wanted
<1>3. ASSUME h \in judging', NEW g \in judging' \ {h} PROVE Wanted(g)' # Wanted(h)'
  <2>1. g \in judging /\ Wanted(g)' = Wanted(g)
    BY <1>1, <1>2, <1>3
  <2>2. Judge(h)
    BY <1>3, OnlyJudge
  <2>. QED
    BY <2>1, <2>2 DEF Judge, Wanted
<1>. QED
  BY <1>1, <1>2, <1>3 DEF Guarded

LEMMA GuardStep ==
  ASSUME OneReclaims = TRUE, TypeOK, Guarded, [Next]_vars
  PROVE  Guarded'
<1>1. ASSUME NEW h \in Hooks, HookStep(h) PROVE Guarded'
  <2>1. Others(h) /\ Guard(h)' /\ Guard(h)
    BY <1>1, Elsewhere, GuardSelf DEF Guarded
  <2>2. ASSUME NEW g \in Hooks \ {h} PROVE Guard(g)'
    <3>1. Guard(g) /\ Free \notin Hooks /\ Gone \notin Hooks
      BY MarkersAssumption DEF Guarded
    <3>2. pc'[g] = pc[g] /\ sess'[g] = sess[g] /\ held'[g] = held[g] /\ base'[g] = base[g]
          /\ (g \in judging' <=> g \in judging)
      BY <2>1 DEF Others
    <3>3. pc[g] \in UnderState => stateLock'[sess[g]] = g /\ held'[g] = sstate'[sess[g]]
      <4>. SUFFICES ASSUME pc[g] \in UnderState PROVE stateLock'[sess[g]] = g /\ held'[g] = sstate'[sess[g]]
        OBVIOUS
      <4>1. sess[g] \in Sessions /\ stateLock[sess[g]] = g
        BY <3>1 DEF Guard, UnderState
      <4>. QED
        BY <2>1, <3>1, <3>2, <4>1 DEF Others, Guard
    <3>4. pc[g] \in UnderInventory => inventoryLock' = g /\ base'[g] = checkpoint'
      BY <2>1, <3>1, <3>2 DEF Others, Guard
    <3>5. ASSUME g \in judging PROVE (LockAt(Wanted(g)) = Gone)'
      <4>1. Wanted(g)' = Wanted(g) /\ LockAt(Wanted(g)) = Gone
        BY <3>1, <3>2, <3>5 DEF Wanted, Guard
      <4>2. ~(h \in judging /\ Wanted(h) = Wanted(g))
        BY <3>5 DEF Guarded
      <4>3. CASE Wanted(g) = None
        BY <2>1, <4>1, <4>2, <4>3 DEF Others, LockAt
      <4>4. CASE Wanted(g) # None
        <5>1. Wanted(g) \in Sessions
          BY <3>1, <3>5, <4>4 DEF Wanted, Guard
        <5>. QED
          BY <2>1, <4>1, <4>2, <4>4, <5>1 DEF Others, LockAt
      <4>. QED
        BY <4>3, <4>4
    <3>. QED
      BY <3>1, <3>2, <3>3, <3>4, <3>5 DEF Guard
  <2>. QED
    BY <1>1, <2>1, <2>2, AloneStep DEF Guarded
<1>2. ASSUME \/ \E s \in Sessions : Grow(s) \/ Rewrite(s)
             \/ \E x \in Progress : PublishProgress(x)
             \/ LoseStore \/ UNCHANGED vars
      PROVE  UNCHANGED <<pc, sess, held, stateLock, inventoryLock, sstate, base, judging, checkpoint>>
  BY <1>2 DEF Grow, Rewrite, PublishProgress, LoseStore, vars, files, locks, locals, aux, world
<1>. QED
  BY <1>1, <1>2 DEF Next, HookStep, Guarded, Guard, LockAt, Wanted

-----------------------------------------------------------------------------
(* Evidence *)

\* Each file of the runtime is written by one action of the hook, and the store only grows under it.
LEMMA Writers ==
  ASSUME NEW h \in Hooks, HookStep(h)
  PROVE  /\ WriteCheckpoint(h) \/ UNCHANGED checkpoint
         /\ WriteOutbox(h) \/ UNCHANGED outbox
         /\ WriteLedger(h) \/ UNCHANGED ledger
         /\ Receipt(h) \/ UNCHANGED receipts
         /\ Advise(h) \/ Partial(h) \/ UNCHANGED sstate
         /\ Return(h) \/ UNCHANGED shown
         /\ UNCHANGED lost /\ store \subseteq store'
<1>. USE DEF files, locks, locals, aux, world
<1>1. CASE (\E s \in Sessions : \E k \in Kinds[s] : Begin(h, s, k)) \/ LockState(h) \/ Scan(h) \/ Busy(h)
  BY <1>1 DEF Begin, LockState, Scan, Busy
<1>2. CASE Judge(h) \/ Unlink(h) \/ Throw(h) \/ Die(h) \/ List(h) \/ Overtaken(h)
  BY <1>2 DEF Judge, Unlink, Throw, Die, Breaks, List, Overtaken
<1>3. CASE Attest(h) \/ Append(h)
  BY <1>3 DEF Attest, Append
<1>4. CASE Receipt(h)
  BY <1>4 DEF Receipt
<1>5. CASE WriteLedger(h) \/ WriteOutbox(h) \/ WriteCheckpoint(h)
  BY <1>5 DEF WriteLedger, WriteOutbox, WriteCheckpoint
<1>6. CASE Advise(h) \/ Partial(h)
  BY <1>6 DEF Advise, Partial
<1>7. CASE Return(h)
  BY <1>7 DEF Return
<1>. QED
  BY <1>1, <1>2, <1>3, <1>4, <1>5, <1>6, <1>7 DEF HookStep, Work, Deliver, Inventory, Tell

\* The world leaves the files of the runtime alone, and the hooks.
Outside ==
  \/ \E s \in Sessions : Grow(s) \/ Rewrite(s)
  \/ \E x \in Progress : PublishProgress(x)
  \/ UNCHANGED vars

LEMMA OutsideLeaves ==
  ASSUME Outside
  PROVE  UNCHANGED <<files, locks, pc, locals, shown, lost>>
  BY DEF Outside, Grow, Rewrite, PublishProgress, vars, files, locks, locals, aux, world

LEMMA LoseLeaves ==
  ASSUME LoseStore
  PROVE  /\ UNCHANGED <<checkpoint, ledger, outbox, receipts, sstate, locks, pc, locals, shown>>
         /\ \A h \in Hooks : pc[h] = "idle"
  BY DEF LoseStore, files, locks, locals, aux, world

\* The runs of entries stay their own when one is added.
LEMMA NumberedStep ==
  ASSUME TypeOK, Numbered, [Next]_vars
  PROVE  Numbered' /\ outbox \subseteq outbox'
<1>1. CASE outbox' = outbox
  BY <1>1 DEF Numbered
<1>2. ASSUME NEW h \in Hooks, WriteOutbox(h) PROVE Numbered' /\ outbox \subseteq outbox'
  <2>1. Cardinality(outbox) \in Nat /\ IsFiniteSet(outbox)
    BY FS_CardinalityType DEF Numbered
  <2>. DEFINE n == EntryOf(plan[h])
  <2>2. outbox' = outbox \union {n} /\ n.run = Cardinality(outbox) + 1
    BY <1>2 DEF WriteOutbox, EntryOf
  <2>. HIDE DEF n
  <2>3. \A e \in outbox : e.run \in Nat /\ e.run <= Cardinality(outbox)
    BY DEF Numbered, TypeOK, Entries
  <2>4. n \notin outbox
    BY <2>1, <2>2, <2>3
  <2>5. IsFiniteSet(outbox') /\ Cardinality(outbox') = Cardinality(outbox) + 1
    BY <2>1, <2>2, <2>4, FS_AddElement
  <2>6. \A e \in outbox : e.run # n.run
    BY <2>1, <2>2, <2>3
  <2>7. \A e \in outbox' : e.run <= Cardinality(outbox')
    BY <2>1, <2>2, <2>3, <2>5
  <2>8. \A e, f \in outbox' : e.run = f.run => e = f
    BY <2>2, <2>6 DEF Numbered
  <2>. QED
    BY <2>2, <2>5, <2>7, <2>8 DEF Numbered
<1>3. ASSUME NEW h \in Hooks, HookStep(h) PROVE WriteOutbox(h) \/ outbox' = outbox
  BY <1>3, Writers
<1>4. ASSUME Outside PROVE outbox' = outbox
  BY <1>4, OutsideLeaves DEF files
<1>5. ASSUME LoseStore PROVE outbox' = outbox
  BY <1>5, LoseLeaves
<1>. QED
  BY <1>1, <1>2, <1>3, <1>4, <1>5 DEF Next, HookStep, Outside

\* Nobody moves the checkpoint under a hook that takes stock.
LEMMA PlannedStep ==
  ASSUME TypeOK, Guarded, Planned, Numbered, [Next]_vars
  PROVE  Planned'
<1>0. outbox \subseteq outbox'
  BY NumberedStep
<1>1. ASSUME NEW h \in Hooks, HookStep(h) PROVE Planned'
  <2>. DEFINE Plans(g) == /\ pc[g] \in UnderInventory => plan[g] \in Deltas /\ Continues(plan[g], sess[g])
                          /\ pc[g] = "checkpoint" => \E e \in outbox : e.delta = plan[g]
  <2>1. ASSUME NEW g \in Hooks \ {h} PROVE Plans(g)'
    <3>1. pc'[g] = pc[g] /\ sess'[g] = sess[g] /\ plan'[g] = plan[g]
      BY <1>1, Elsewhere DEF Others
    <3>2. CASE pc[g] \in UnderInventory
      <4>1. inventoryLock = g
        BY <3>2 DEF Guarded, Guard
      <4>2. ~WriteCheckpoint(h)
        BY <4>1 DEF Guarded, Guard, UnderInventory, WriteCheckpoint
      <4>3. checkpoint' = checkpoint
        BY <1>1, <4>2, Writers
      <4>. QED
        BY <1>0, <3>1, <3>2, <4>3 DEF Planned, Continues
    <3>3. CASE pc[g] \notin UnderInventory
      BY <3>1, <3>3 DEF UnderInventory
    <3>. QED
      BY <3>2, <3>3
  <2>2. Plans(h)'
    <3>. USE DEF files, locks, locals, aux, world, Set, GoTo, UnderInventory
    <3>0. h \in DOMAIN pc /\ h \in DOMAIN sess /\ h \in DOMAIN plan
      BY DEF TypeOK
    <3>1. CASE Scan(h)
      <4>1. sess[h] \in Sessions /\ kind[h] \in {"start", "prompt", "end", None}
        BY <3>1 DEF TypeOK, Guarded, Guard, Scan
      <4>2. DeltaFor(sess[h], kind[h]) \in Deltas /\ Continues(DeltaFor(sess[h], kind[h]), sess[h])
        BY <4>1, DeltaType
      <4>3. UNCHANGED <<sess, checkpoint>>
        BY <3>1 DEF Scan
      <4>4. CASE pc'[h] = "list"
        BY <4>4
      <4>5. CASE pc'[h] = "ledger" /\ plan'[h] = DeltaFor(sess[h], kind[h])
        BY <4>2, <4>3, <4>5 DEF Continues
      <4>. QED
        BY <3>0, <3>1, <4>4, <4>5 DEF Scan
    <3>2. CASE WriteLedger(h)
      BY <3>0, <3>2 DEF WriteLedger, Planned, Continues
    <3>3. CASE WriteOutbox(h)
      <4>1. EntryOf(plan[h]) \in outbox' /\ EntryOf(plan[h]).delta = plan[h]
        BY <3>3 DEF WriteOutbox, EntryOf
      <4>. QED
        BY <3>0, <3>3, <4>1 DEF WriteOutbox, Planned, Continues
    <3>4. ASSUME pc'[h] \notin UnderInventory PROVE Plans(h)'
      BY <3>4
    <3>8. CASE Judge(h) \/ Unlink(h)
      <4>1. pc[h] \in {"lock", "lockPartial", "inventory"} /\ pc' = pc
        BY <3>8 DEF Judge, Waits, Unlink, Guarded, Guard
      <4>. QED
        BY <3>4, <4>1
    <3>5. CASE \/ WriteCheckpoint(h) \/ Busy(h) \/ Throw(h) \/ Die(h) \/ Return(h) \/ LockState(h)
               \/ \E s \in Sessions : \E k \in Kinds[s] : Begin(h, s, k)
      <4>1. pc'[h] \notin UnderInventory
        BY <3>0, <3>5 DEF WriteCheckpoint, Busy, Throw, Die, Breaks, Return, Clear, LockState, Begin
      <4>. QED
        BY <3>4, <4>1
    <3>6. CASE List(h) \/ Attest(h) \/ Overtaken(h) \/ Append(h) \/ Receipt(h)
      <4>1. pc'[h] \notin UnderInventory
        BY <3>0, <3>6 DEF List, Attest, Overtaken, Append, Receipt, Onward, Clear
      <4>. QED
        BY <3>4, <4>1
    <3>7. CASE Advise(h) \/ Partial(h)
      <4>1. pc'[h] \notin UnderInventory
        BY <3>0, <3>7 DEF Advise, Partial, Answer, Clear
      <4>. QED
        BY <3>4, <4>1
    <3>. HIDE DEF Plans
    <3>. QED
      BY <1>1, <3>1, <3>2, <3>3, <3>5, <3>6, <3>7, <3>8 DEF HookStep, Work, Deliver, Inventory, Tell
  <2>3. \A g \in Hooks : Plans(g)'
    BY <2>1, <2>2
  <2>. QED
    BY <2>3 DEF Planned
<1>2. CASE Outside
  BY <1>2, OutsideLeaves DEF Planned, Continues, files, locals
<1>3. CASE LoseStore
  BY <1>3, LoseLeaves DEF Planned, Continues, locals
<1>. QED
  BY <1>1, <1>2, <1>3 DEF Next, HookStep, Outside

LEMMA SequencedStep ==
  ASSUME TypeOK, Guarded, Planned, Sequenced, [Next]_vars
  PROVE  Sequenced'
<1>1. ASSUME NEW h \in Hooks, HookStep(h), ~Tell(h) PROVE Sequenced'
  <2>1. sstate' = sstate
    BY <1>1, Writers DEF Tell
  <2>2. CASE WriteLedger(h)
    <3>1. plan[h].seq = checkpoint.sequence + 1 /\ checkpoint.sequence \in Nat
      BY <2>2 DEF WriteLedger, Planned, Continues, UnderInventory, TypeOK, Checkpoints
    <3>2. ledger' = ledger \union {plan[h]} /\ checkpoint' = checkpoint
      BY <2>2 DEF WriteLedger
    <3>. QED
      BY <2>1, <3>1, <3>2 DEF Sequenced
  <2>3. CASE WriteCheckpoint(h)
    <3>1. plan[h].seq = checkpoint.sequence + 1 /\ checkpoint.sequence \in Nat
      BY <2>3 DEF WriteCheckpoint, Planned, Continues, UnderInventory, TypeOK, Checkpoints
    <3>2. ledger' = ledger /\ checkpoint'.sequence = checkpoint.sequence + 1
      BY <2>3, <3>1 DEF WriteCheckpoint
    <3>3. \A d \in ledger : d.seq \in Nat /\ d.seq <= checkpoint.sequence + 1
      BY DEF TypeOK, Deltas, Sequenced
    <3>4. \A s \in Sessions : sstate[s].watermark \in Nat /\ sstate[s].watermark <= checkpoint.sequence + 1
      BY DEF TypeOK, States, Sequenced
    <3>. QED
      BY <2>1, <3>1, <3>2, <3>3, <3>4 DEF Sequenced
  <2>4. CASE ~WriteLedger(h) /\ ~WriteCheckpoint(h)
    BY <1>1, <2>1, <2>4, Writers DEF Sequenced
  <2>. QED
    BY <2>2, <2>3, <2>4
<1>2. ASSUME NEW h \in Hooks, Tell(h) PROVE Sequenced'
  BY <1>2, TellType
<1>3. CASE Outside
  BY <1>3, OutsideLeaves DEF Sequenced, files
<1>4. CASE LoseStore
  BY <1>4, LoseLeaves DEF Sequenced
<1>. QED
  BY <1>1, <1>2, <1>3, <1>4 DEF Next, HookStep, Outside

\* The checkpoint moves to the end of what stands in the outbox.
LEMMA NothingSkippedStep ==
  ASSUME TypeOK, Guarded, Planned, Numbered, NothingSkipped, [Next]_vars
  PROVE  NothingSkipped'
<1>0. outbox \subseteq outbox'
  BY NumberedStep
<1>1. CASE checkpoint' = checkpoint
  BY <1>0, <1>1 DEF NothingSkipped
<1>2. ASSUME NEW h \in Hooks, WriteCheckpoint(h) PROVE NothingSkipped'
  <2>. DEFINE t == sess[h]
              c == checkpoint.sources[t]
              d == plan[h]
  <2>1. /\ t \in Sessions /\ d \in Deltas /\ Continues(d, t) /\ \E e \in outbox : e.delta = d
    BY <1>2 DEF WriteCheckpoint, Guarded, Guard, Planned, UnderInventory
  <2>2. /\ checkpoint'.sources[t].gen = d.gen /\ checkpoint'.sources[t].next = d.to
        /\ \A s \in Sessions \ {t} : checkpoint'.sources[s] = checkpoint.sources[s]
        /\ outbox' = outbox
    BY <1>2, <2>1 DEF WriteCheckpoint, Guarded, Guard, UnderInventory, TypeOK, Checkpoints
  <2>3. /\ d.from \in Nat /\ d.to \in Nat /\ c.next \in Nat /\ d.src = t
        /\ (d.gen = c.gen /\ d.from = c.next) \/ (d.gen = c.gen + 1 /\ d.from = 0)
    BY <2>1, LimitsAssumption DEF Deltas, Continues, TypeOK, Checkpoints, Sources
  <2>4. PICK e \in outbox : e.delta = d
    BY <2>1
  <2>. HIDE DEF t, c, d
  <2>5. ASSUME NEW i \in 1..d.to
        PROVE  \E f \in outbox : f.delta.src = t /\ f.delta.gen = d.gen /\ f.delta.from < i /\ i <= f.delta.to
    <3>1. CASE d.from < i
      BY <2>3, <2>4, <3>1
    <3>2. CASE ~(d.from < i)
      <4>1. d.gen = c.gen /\ i \in 1..c.next
        BY <2>3, <3>2
      <4>. QED
        BY <2>1, <4>1 DEF NothingSkipped, c
    <3>. QED
      BY <3>1, <3>2
  <2>6. ASSUME NEW s \in Sessions \ {t}, NEW i \in 1..checkpoint'.sources[s].next
        PROVE  \E f \in outbox : f.delta.src = s /\ f.delta.gen = checkpoint'.sources[s].gen
                                   /\ f.delta.from < i /\ i <= f.delta.to
    BY <2>2, <2>6 DEF NothingSkipped
  <2>. QED
    BY <2>1, <2>2, <2>5, <2>6 DEF NothingSkipped
<1>3. ASSUME NEW h \in Hooks, HookStep(h) PROVE WriteCheckpoint(h) \/ checkpoint' = checkpoint
  BY <1>3, Writers
<1>4. ASSUME Outside PROVE checkpoint' = checkpoint
  BY <1>4, OutsideLeaves DEF files
<1>5. ASSUME LoseStore PROVE checkpoint' = checkpoint
  BY <1>5, LoseLeaves
<1>. QED
  BY <1>1, <1>2, <1>3, <1>4, <1>5 DEF Next, HookStep, Outside

\* A hook delivers in the order attestation, delta, receipt, and not at all beside a lost chain.
LEMMA DeliveringSelf ==
  ASSUME TypeOK, Guarded, Delivering, ReceiptsProve, NEW h \in Hooks, HookStep(h)
  PROVE  /\ pc'[h] \in {"append", "receipt"} =>
              /\ entry'[h] \in outbox
              /\ lost = "no" => TokenOf(entry'[h].delta) \in store'
              /\ lost = "no" /\ pc'[h] = "receipt" => DeltaKey(entry'[h].delta) \in store'
         /\ lost = "proven" => pc'[h] \notin {"attest", "append", "receipt"} /\ store' = store
<1>. USE DEF files, locks, locals, aux, world, Set, GoTo
<1>0. h \in DOMAIN pc /\ h \in DOMAIN entry
  BY DEF TypeOK
<1>1. CASE List(h)
  <2>1. lost = "proven" => Refused
    BY DEF Refused, Delivering, ReceiptsProve
  <2>. QED
    BY <1>0, <1>1, <2>1 DEF List, Clear, Onward
<1>2. CASE Attest(h)
  <2>1. \E e \in outbox : entry'[h] = e /\ TokenOf(e.delta) \in store'
    BY <1>0, <1>2 DEF Attest, Undelivered, TypeOK
  <2>2. pc'[h] = "append" /\ lost # "proven"
    BY <1>0, <1>2 DEF Attest, Delivering
  <2>. QED
    BY <2>1, <2>2
<1>3. CASE Append(h)
  <2>1. entry' = entry /\ store' = store \union {DeltaKey(entry[h].delta)} /\ pc[h] = "append"
    BY <1>3 DEF Append
  <2>. QED
    BY <2>1 DEF Delivering
<1>4. CASE Overtaken(h) \/ Receipt(h)
  <2>1. pc'[h] \notin {"append", "receipt"} /\ lost # "proven"
    BY <1>0, <1>4 DEF Overtaken, Receipt, Onward, Delivering
  <2>. QED
    BY <2>1
<1>5. CASE Scan(h) \/ WriteLedger(h) \/ WriteOutbox(h) \/ WriteCheckpoint(h)
  BY <1>0, <1>5 DEF Scan, WriteLedger, WriteOutbox, WriteCheckpoint
<1>6. CASE Busy(h) \/ Throw(h) \/ Die(h) \/ Return(h) \/ Advise(h) \/ Partial(h)
  BY <1>0, <1>6 DEF Busy, Throw, Die, Breaks, Return, Advise, Partial, Clear, Answer
<1>8. CASE Judge(h) \/ Unlink(h)
  <2>1. pc[h] \in {"lock", "lockPartial", "inventory"} /\ UNCHANGED <<pc, entry, store>>
    BY <1>8 DEF Judge, Waits, Unlink, Guarded, Guard
  <2>. QED
    BY <2>1
<1>7. CASE LockState(h) \/ (\E s \in Sessions : \E k \in Kinds[s] : Begin(h, s, k))
  BY <1>0, <1>7 DEF LockState, Begin
<1>. QED
  BY <1>1, <1>2, <1>3, <1>4, <1>5, <1>6, <1>7, <1>8 DEF HookStep, Work, Deliver, Inventory, Tell

LEMMA DeliveringStep ==
  ASSUME TypeOK, Guarded, Numbered, Delivering, ReceiptsProve, [Next]_vars
  PROVE  Delivering' /\ ReceiptsProve'
<1>0. outbox \subseteq outbox' /\ Numbered'
  BY NumberedStep
<1>1. ASSUME NEW h \in Hooks, HookStep(h) PROVE Delivering' /\ ReceiptsProve'
  <2>1. /\ lost' = lost /\ store \subseteq store' /\ receipts \subseteq receipts'
    <3>1. CASE Receipt(h)
      BY <1>1, <3>1, Writers DEF Receipt
    <3>2. CASE receipts' = receipts
      BY <1>1, <3>2, Writers
    <3>. QED
      BY <1>1, <3>1, <3>2, Writers
  <2>2. \A g \in Hooks \ {h} : pc'[g] = pc[g] /\ entry'[g] = entry[g]
    BY <1>1, Elsewhere DEF Others
  <2>3. Delivering'
    <3>1. ASSUME NEW g \in Hooks, pc'[g] \in {"append", "receipt"}
          PROVE  /\ entry'[g] \in outbox'
                 /\ lost = "no" => TokenOf(entry'[g].delta) \in store'
                 /\ lost = "no" /\ pc'[g] = "receipt" => DeltaKey(entry'[g].delta) \in store'
      <4>1. CASE g = h
        BY <1>0, <1>1, <3>1, <4>1, DeliveringSelf
      <4>2. CASE g # h
        BY <1>0, <2>1, <2>2, <3>1, <4>2 DEF Delivering
      <4>. QED
        BY <4>1, <4>2
    <3>2. ASSUME lost = "proven" PROVE receipts' # {}
      BY <2>1, <3>2 DEF Delivering
    <3>3. ASSUME lost = "proven", NEW g \in Hooks PROVE pc'[g] \notin {"attest", "append", "receipt"}
      <4>1. CASE g = h
        BY <1>1, <3>3, <4>1, DeliveringSelf
      <4>2. CASE g # h
        BY <2>2, <3>3, <4>2 DEF Delivering
      <4>. QED
        BY <4>1, <4>2
    <3>. QED
      BY <2>1, <3>1, <3>2, <3>3 DEF Delivering
  <2>4. ASSUME lost = "no", NEW e \in outbox', e.run \in receipts'
        PROVE  {TokenOf(e.delta), DeltaKey(e.delta)} \subseteq store'
    <3>1. CASE e.run \in receipts
      <4>1. PICK f \in outbox : f.run = e.run
        BY <3>1 DEF TypeOK
      <4>2. f = e
        BY <1>0, <4>1 DEF Numbered
      <4>. QED
        BY <2>1, <2>4, <3>1, <4>1, <4>2 DEF ReceiptsProve
    <3>2. CASE e.run \notin receipts
      <4>1. Receipt(h)
        BY <1>1, <2>4, <3>2, Writers
      <4>2. e.run = entry[h].run /\ pc[h] = "receipt"
        BY <2>4, <3>2, <4>1 DEF Receipt
      <4>3. entry[h] \in outbox /\ {TokenOf(entry[h].delta), DeltaKey(entry[h].delta)} \subseteq store
        BY <2>4, <4>2 DEF Delivering
      <4>4. e = entry[h]
        BY <1>0, <4>2, <4>3 DEF Numbered
      <4>. QED
        BY <2>1, <4>3, <4>4
    <3>. QED
      BY <3>1, <3>2
  <2>5. lost = "proven" => store' = {}
    BY <1>1, DeliveringSelf DEF ReceiptsProve
  <2>. QED
    BY <2>1, <2>3, <2>4, <2>5 DEF ReceiptsProve
<1>2. CASE Outside
  BY <1>2, OutsideLeaves DEF Delivering, ReceiptsProve, files, locals
<1>3. CASE LoseStore
  <2>1. /\ \A h \in Hooks : pc'[h] = "idle"
        /\ store' = {} /\ receipts' = receipts /\ lost' # "no" /\ (lost' = "proven" => receipts # {})
    BY <1>3, LoseLeaves DEF LoseStore
  <2>. QED
    BY <2>1 DEF Delivering, ReceiptsProve
<1>. QED
  BY <1>1, <1>2, <1>3 DEF Next, HookStep, Outside

-----------------------------------------------------------------------------
(* What a session is told *)

\* A hook that gives an answer has entered in the state what was not in it.
LEMMA Fresh ==
  ASSUME TypeOK, Guarded, NEW h \in Hooks, Advise(h) \/ Partial(h), pc'[h] = "return"
  PROVE  /\ sess'[h] = sess[h] /\ sess[h] \in Sessions /\ stateLock[sess[h]] = h /\ shown' = shown
         /\ News(h)' \intersect InState(sess[h]) = {}
         /\ InState(sess[h])' = InState(sess[h]) \union News(h)'
         /\ \A s \in Sessions \ {sess[h]} : sstate'[s] = sstate[s]
<1>. USE DEF files, locks, locals, aux, world, Set, GoTo
<1>1. /\ sess[h] \in Sessions /\ held[h] = sstate[sess[h]] /\ held[h] \in States /\ stateLock[sess[h]] = h
  BY DEF Guarded, Guard, UnderState, Advise, Partial, TypeOK
<1>2. FreshDeltas(h) \subseteq Ids /\ FreshProgress(h) \subseteq Progress
  BY NewsType
<1>3. /\ FreshDeltas(h) \intersect held[h].deltas = {} /\ FreshProgress(h) \intersect held[h].progress = {}
  BY DEF FreshDeltas, FreshProgress
<1>4. /\ FreshDeltas(h) \intersect held[h].progress = {} /\ FreshProgress(h) \intersect held[h].deltas = {}
  BY <1>1, <1>2, ProgressAssumption DEF States
<1>5. CASE Advise(h)
  <2>1. kind[h] # "end"
    BY <1>5 DEF Advise, Clear, TypeOK
  <2>2. /\ advisory'[h].deltas = FreshDeltas(h) /\ advisory'[h].progress = FreshProgress(h)
    BY <1>5, <2>1 DEF Advise, TypeOK
  <2>3. /\ sstate'[sess[h]].deltas = held[h].deltas \union FreshDeltas(h)
        /\ sstate'[sess[h]].progress = held[h].progress \union FreshProgress(h)
        /\ \A s \in Sessions \ {sess[h]} : sstate'[s] = sstate[s]
    BY <1>1, <1>5, <2>1 DEF Advise, TypeOK
  <2>4. sess' = sess /\ shown' = shown
    BY <1>5, <2>1 DEF Advise, Answer
  <2>. QED
    BY <1>1, <1>3, <1>4, <2>2, <2>3, <2>4 DEF News, InState
<1>6. CASE Partial(h)
  <2>2. /\ advisory'[h].deltas = {} /\ advisory'[h].progress = FreshProgress(h)
    BY <1>6 DEF Partial, TypeOK, NoAdvice
  <2>3. /\ sstate'[sess[h]].deltas = held[h].deltas
        /\ sstate'[sess[h]].progress = held[h].progress \union FreshProgress(h)
        /\ \A s \in Sessions \ {sess[h]} : sstate'[s] = sstate[s]
    <3>1. sstate' = [sstate EXCEPT ![sess[h]] = [held[h] EXCEPT !.progress = @ \union FreshProgress(h)]]
      BY <1>6 DEF Partial
    <3>. QED
      BY <1>1, <3>1 DEF TypeOK, States
  <2>4. sess' = sess /\ shown' = shown
    BY <1>6 DEF Partial, Answer
  <2>. QED
    BY <1>1, <1>3, <1>4, <2>2, <2>3, <2>4 DEF News, InState
<1>. QED
  BY <1>5, <1>6

\* Nothing else gives a hook an answer.
LEMMA OnlyAnswers ==
  ASSUME TypeOK, Guarded, NEW h \in Hooks, HookStep(h), pc'[h] = "return"
  PROVE  Advise(h) \/ Partial(h)
<1>. USE DEF Set, GoTo
<1>0. h \in DOMAIN pc
  BY DEF TypeOK
<1>1. CASE List(h) \/ Attest(h) \/ Overtaken(h) \/ Append(h) \/ Receipt(h)
  BY <1>0, <1>1 DEF List, Attest, Overtaken, Append, Receipt, Onward, Clear
<1>2. CASE Scan(h) \/ WriteLedger(h) \/ WriteOutbox(h) \/ WriteCheckpoint(h)
  BY <1>0, <1>2 DEF Scan, WriteLedger, WriteOutbox, WriteCheckpoint
<1>3. CASE Busy(h) \/ Throw(h) \/ Die(h) \/ Return(h)
  BY <1>0, <1>3 DEF Busy, Throw, Die, Breaks, Return, Clear
<1>5. CASE Judge(h) \/ Unlink(h)
  BY <1>5 DEF Judge, Waits, Unlink, Guarded, Guard
<1>4. CASE LockState(h) \/ (\E s \in Sessions : \E k \in Kinds[s] : Begin(h, s, k))
  BY <1>0, <1>4 DEF LockState, Begin
<1>. QED
  BY <1>1, <1>2, <1>3, <1>4, <1>5 DEF HookStep, Work, Deliver, Inventory, Tell

\* What the provider reads was about to be told; without an answer the state stays as it is.
LEMMA Shows ==
  ASSUME TypeOK, Guarded, NEW h \in Hooks, HookStep(h), pc'[h] # "return"
  PROVE  /\ sstate' = sstate
         /\ \/ shown' = shown
            \/ /\ pc[h] = "return" /\ sess[h] \in Sessions
               /\ shown' = [shown EXCEPT ![sess[h]] = @ \union News(h)]
<1>1. CASE Advise(h) \/ Partial(h)
  BY <1>1 DEF Advise, Partial, Answer, GoTo, TypeOK, aux
<1>2. CASE Return(h)
  <2>1. shown' = [shown EXCEPT ![sess[h]] = @ \union advisory[h].deltas \union advisory[h].progress]
    BY <1>2 DEF Return
  <2>2. pc[h] = "return" /\ sess[h] \in Sessions /\ sstate' = sstate
    BY <1>2 DEF Return, Guarded, Guard, files
  <2>3. (shown[sess[h]] \union advisory[h].deltas) \union advisory[h].progress = shown[sess[h]] \union News(h)
    BY DEF News
  <2>. QED
    BY <2>1, <2>2, <2>3
<1>3. CASE ~Advise(h) /\ ~Partial(h) /\ ~Return(h)
  BY <1>3, Writers
<1>. QED
  BY <1>1, <1>2, <1>3

\* News that are shown were not shown before, and news of two hooks of one session differ.
LEMMA ToldStep ==
  ASSUME TypeOK, Guarded, Told, OncePerSession, [Next]_vars
  PROVE  Told' /\ OncePerSession'
<1>. DEFINE Once == /\ \A h \in Hooks : pc[h] = "return" => News(h) \intersect shown[sess[h]] = {}
                    /\ \A g, h \in Hooks : pc[g] = "return" /\ pc[h] = "return" /\ g # h /\ sess[g] = sess[h]
                                             => News(g) \intersect News(h) = {}
<1>0. (OncePerSession <=> Once) /\ (OncePerSession' <=> Once')
  BY DEF OncePerSession, News
<1>1. ASSUME NEW h \in Hooks, HookStep(h), pc'[h] = "return" PROVE Told' /\ Once'
  <2>0. Advise(h) \/ Partial(h)
    BY <1>1, OnlyAnswers
  <2>. PICK t \in Sessions : t = sess[h]
    BY <1>1, <2>0, Fresh
  <2>1. /\ sess'[h] = t /\ t \in Sessions /\ shown' = shown
        /\ News(h)' \intersect InState(t) = {}
        /\ InState(t)' = InState(t) \union News(h)'
        /\ \A s \in Sessions \ {t} : sstate'[s] = sstate[s]
    BY <1>1, <2>0, Fresh DEF InState
  <2>2. \A s \in Sessions : InState(s) \subseteq InState(s)'
    BY <2>1 DEF InState
  <2>3. \A g \in Hooks \ {h} : pc'[g] = pc[g] /\ sess'[g] = sess[g] /\ News(g)' = News(g)
    BY <1>1, Elsewhere DEF Others, News
  <2>4. \A g \in Hooks : pc[g] = "return" => sess[g] \in Sessions /\ News(g) \subseteq InState(sess[g])
    BY DEF Told, Guarded, Guard
  <2>5. \A s \in Sessions : shown[s] \subseteq InState(s)
    BY DEF Told
  <2>6. Told'
    <3>1. \A s \in Sessions : shown'[s] \subseteq InState(s)'
      BY <2>1, <2>2, <2>5
    <3>2. \A g \in Hooks : pc'[g] = "return" => (News(g) \subseteq InState(sess[g]))'
      <4>. SUFFICES ASSUME NEW g \in Hooks, pc'[g] = "return" PROVE (News(g) \subseteq InState(sess[g]))'
        OBVIOUS
      <4>1. CASE g = h
        BY <2>1, <4>1
      <4>2. CASE g # h
        BY <2>2, <2>3, <2>4, <4>2
      <4>. QED
        BY <4>1, <4>2
    <3>. QED
      BY <3>1, <3>2 DEF Told
  <2>7. \A g \in Hooks : pc'[g] = "return" => News(g)' \intersect shown'[sess'[g]] = {}
    <3>. SUFFICES ASSUME NEW g \in Hooks, pc'[g] = "return" PROVE News(g)' \intersect shown'[sess'[g]] = {}
      OBVIOUS
    <3>1. CASE g = h
      BY <2>1, <2>5, <3>1
    <3>2. CASE g # h
      BY <1>0, <2>1, <2>3, <3>2
    <3>. QED
      BY <3>1, <3>2
  <2>8. \A g \in Hooks \ {h} : pc'[g] = "return" /\ sess'[g] = t => News(g)' \intersect News(h)' = {}
    BY <2>1, <2>3, <2>4
  <2>9. \A g, f \in Hooks \ {h} : pc'[g] = "return" /\ pc'[f] = "return" /\ g # f /\ sess'[g] = sess'[f]
                                    => News(g)' \intersect News(f)' = {}
    BY <1>0, <2>3
  <2>10. \A g, f \in Hooks : pc'[g] = "return" /\ pc'[f] = "return" /\ g # f /\ sess'[g] = sess'[f]
                                => News(g)' \intersect News(f)' = {}
    <3>. SUFFICES ASSUME NEW g \in Hooks, NEW f \in Hooks, g # f, sess'[g] = sess'[f],
                         pc'[g] = "return", pc'[f] = "return"
                  PROVE  News(g)' \intersect News(f)' = {}
      OBVIOUS
    <3>1. CASE g = h
      BY <2>1, <2>8, <3>1
    <3>2. CASE f = h
      BY <2>1, <2>8, <3>2
    <3>3. CASE g # h /\ f # h
      BY <2>9, <3>3
    <3>. QED
      BY <3>1, <3>2, <3>3
  <2>. QED
    BY <2>6, <2>7, <2>10
<1>2. ASSUME NEW h \in Hooks, HookStep(h), pc'[h] # "return" PROVE Told' /\ Once'
  <2>1. \A g \in Hooks : pc'[g] = "return" =>
          g # h /\ pc[g] = "return" /\ sess'[g] = sess[g] /\ News(g)' = News(g) /\ sess[g] \in Sessions
    BY <1>2, Elsewhere DEF Others, News, Guarded, Guard
  <2>2. sstate' = sstate /\ \A s \in Sessions : InState(s)' = InState(s)
    BY <1>2, Shows DEF InState
  <2>3. CASE shown' = shown
    BY <1>0, <2>1, <2>2, <2>3 DEF Told
  <2>4. CASE /\ pc[h] = "return" /\ sess[h] \in Sessions
             /\ shown' = [shown EXCEPT ![sess[h]] = @ \union News(h)]
    <3>1. \A s \in Sessions : shown'[s] = shown[s] \union (IF s = sess[h] THEN News(h) ELSE {})
      BY <2>4 DEF TypeOK
    <3>2. Told'
      BY <2>1, <2>2, <2>4, <3>1 DEF Told
    <3>3. \A g \in Hooks : pc'[g] = "return" => News(g)' \intersect shown'[sess'[g]] = {}
      <4>. SUFFICES ASSUME NEW g \in Hooks, pc'[g] = "return" PROVE News(g)' \intersect shown'[sess'[g]] = {}
        OBVIOUS
      <4>1. CASE sess[g] = sess[h]
        <5>1. News(g) \intersect News(h) = {} /\ News(g) \intersect shown[sess[g]] = {}
          BY <1>0, <2>1, <2>4, <4>1
        <5>. QED
          BY <2>1, <3>1, <5>1
      <4>2. CASE sess[g] # sess[h]
        BY <1>0, <2>1, <3>1, <4>2
      <4>. QED
        BY <4>1, <4>2
    <3>4. \A g, f \in Hooks : pc'[g] = "return" /\ pc'[f] = "return" /\ g # f /\ sess'[g] = sess'[f]
                                 => News(g)' \intersect News(f)' = {}
      BY <1>0, <2>1
    <3>. QED
      BY <3>2, <3>3, <3>4
  <2>. QED
    BY <1>2, <2>3, <2>4, Shows
<1>3. ASSUME UNCHANGED <<pc, sess, advisory, sstate, shown>> PROVE Told' /\ Once'
  BY <1>0, <1>3 DEF Told, News, InState
<1>4. ASSUME Outside PROVE Told' /\ Once'
  BY <1>3, <1>4, OutsideLeaves DEF files, locals
<1>5. ASSUME LoseStore PROVE Told' /\ Once'
  BY <1>3, <1>5, LoseLeaves DEF locals
<1>. HIDE DEF Once
<1>. QED
  BY <1>0, <1>1, <1>2, <1>4, <1>5 DEF Next, HookStep, Outside

-----------------------------------------------------------------------------
(* The theorems *)

LEMMA InitInv ==
  ASSUME Init
  PROVE  Inv
<1>1. TypeOK
  <2>1. NoAdvice \in Advices /\ NewState \in States /\ Unseen \in Sources
    BY LimitsAssumption DEF NoAdvice, Advices, NewState, States, Unseen, Sources, Lives
  <2>. HIDE DEF NoAdvice, NewState, Unseen
  <2>. QED
    BY <2>1, LimitsAssumption DEF Init, TypeOK, Labels, Locks, Checkpoints
<1>2. Guarded /\ Planned /\ Delivering /\ ReceiptsProve /\ OncePerSession
  BY DEF Init, Guarded, Guard, Planned, Delivering, ReceiptsProve, OncePerSession, UnderState, UnderInventory
<1>3. Sequenced /\ Told
  BY DEF Init, Sequenced, Told, NewState, InState
<1>4. Numbered
  BY FS_EmptySet DEF Init, Numbered
<1>5. NothingSkipped
  BY DEF Init, NothingSkipped, Unseen
<1>. QED
  BY <1>1, <1>2, <1>3, <1>4, <1>5 DEF Inv

LEMMA InvStep ==
  ASSUME OneReclaims = TRUE, Inv, [Next]_vars
  PROVE  Inv'
<1>1. /\ TypeOK /\ Guarded /\ Planned /\ Sequenced /\ Numbered /\ Delivering /\ Told
      /\ NothingSkipped /\ ReceiptsProve /\ OncePerSession
  BY DEF Inv
<1>2. TypeOK'
  BY TypeStep
<1>3. Guarded' /\ Planned' /\ Sequenced' /\ Numbered'
  BY <1>1, GuardStep, PlannedStep, SequencedStep, NumberedStep
<1>4. Delivering' /\ ReceiptsProve' /\ NothingSkipped'
  BY <1>1, DeliveringStep, NothingSkippedStep
<1>5. Told' /\ OncePerSession'
  BY <1>1, ToldStep
<1>. QED
  BY <1>2, <1>3, <1>4, <1>5 DEF Inv

LEMMA AlwaysInv ==
  ASSUME OneReclaims = TRUE
  PROVE  Spec => []Inv
  BY InitInv, InvStep, PTL DEF Spec

\* The type invariant of hooks and of the files of the runtime.
THEOREM LifecycleIsTyped ==
  ASSUME OneReclaims = TRUE
  PROVE  Spec => []TypeOK
<1>1. Inv => TypeOK
  BY DEF Inv
<1>. QED
  BY <1>1, AlwaysInv, PTL

\* The checkpoint is never ahead of the outbox, and no receipt of the store, for any hooks that die
\* or throw anywhere and any transcripts that grow or are replaced (runInventoryLocked,
\* deliverLifecycleOutbox).
THEOREM EvidenceDoesArrive ==
  ASSUME OneReclaims = TRUE
  PROVE  Spec => []EvidenceArrives
<1>1. Inv => EvidenceArrives
  BY DEF Inv, EvidenceArrives
<1>. QED
  BY <1>1, AlwaysInv, PTL

\* A session is told each piece of news once, by however many hooks at once that die anywhere and remove
\* each other's locks one at a time (handleHookEvent).
THEOREM ToldOnce ==
  ASSUME OneReclaims = TRUE
  PROVE  Spec => []OncePerSession
<1>1. Inv => OncePerSession
  BY DEF Inv
<1>. QED
  BY <1>1, AlwaysInv, PTL

\* The state of a session is written by the hook that has its lock, and what the hook read when it took
\* the lock is what it replaces: no update of a session's state is lost (withLock, loadState), as long as
\* stale locks are removed by one hook at a time.
StatesAreGuarded ==
  [][\A s \in Sessions : sstate'[s] # sstate[s] =>
       \E h \in Hooks : stateLock[s] = h /\ sess[h] = s /\ held[h] = sstate[s]]_vars
THEOREM NoLostState ==
  ASSUME OneReclaims = TRUE
  PROVE  Spec => StatesAreGuarded
<1>1. ASSUME Inv, [Next]_vars
      PROVE  [\A s \in Sessions : sstate'[s] # sstate[s] =>
                \E h \in Hooks : stateLock[s] = h /\ sess[h] = s /\ held[h] = sstate[s]]_vars
  <2>. SUFFICES ASSUME NEW s \in Sessions, sstate'[s] # sstate[s]
                PROVE  \E h \in Hooks : stateLock[s] = h /\ sess[h] = s /\ held[h] = sstate[s]
    OBVIOUS
  <2>1. TypeOK /\ Guarded
    BY <1>1 DEF Inv
  <2>2. PICK h \in Hooks : HookStep(h)
    BY <1>1, OutsideLeaves, LoseLeaves DEF Next, HookStep, Outside, files
  <2>3. Advise(h) \/ Partial(h)
    BY <2>2, Writers
  <2>4. pc[h] \in UnderState
    BY <2>3 DEF Advise, Partial, UnderState
  <2>5. sess[h] = s
    <3>1. \E w : sstate' = [sstate EXCEPT ![sess[h]] = w]
      BY <2>1, <2>3 DEF Advise, Partial, TypeOK, Guarded, Guard
    <3>. QED
      BY <2>1, <3>1 DEF TypeOK
  <2>. QED
    BY <2>1, <2>4, <2>5 DEF Guarded, Guard
<1>. QED
  BY <1>1, AlwaysInv, PTL DEF Spec, StatesAreGuarded
=============================================================================
