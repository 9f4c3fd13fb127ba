----------------------------- MODULE Lifecycle -----------------------------
(***************************************************************************)
(* What a provider hook does: it takes stock of the session's transcript   *)
(* (metadata-inventory), hands the changes to the event store through an   *)
(* outbox (lifecycle-events), and tells the session what its peers did     *)
(* since it was told last (lifecycle-consumer).                            *)
(*                                                                         *)
(* A hook is a process of its own.  It holds its session's state lock from *)
(* reading the state to writing it, and the provider's checkpoint lock     *)
(* while it takes stock; the outbox is delivered under no common lock.     *)
(* Every file write is a step; a hook may die, or throw, between two of    *)
(* them, and a killed hook leaves its lock files, which others judge by    *)
(* their age and remove in a second step.  The event store's append is one *)
(* step here (see EventStore).                                             *)
(*                                                                         *)
(* A transcript is its number of complete lines; 0 means there is no file. *)
(* All sessions are of one provider and share a relation key.              *)
(***************************************************************************)
EXTENDS Integers, FiniteSets, FiniteSetsExt

CONSTANTS
  Hooks,         \* hook processes
  Sessions,
  Progress,      \* progress peers may publish, at most maxProgress of them
  Kinds,         \* session |-> the hook events it raises: "start", "prompt", "end"
  Free,          \* a lock that is not there
  Gone,          \* the lock file of a hook that was killed
  OneReclaims,   \* whether one hook at a time is between judging a stale lock and removing it
  None,
  MaxLines,      \* bound: lines of a transcript
  MaxFaults      \* bound: hooks that die or throw, transcripts replaced, stores lost

ASSUME KindsAssumption == Kinds \in [Sessions -> SUBSET {"start", "prompt", "end"}]
ASSUME MarkersAssumption == None \notin Hooks /\ None \notin Sessions /\ Free \notin Hooks /\ Gone \notin Hooks /\ Free # Gone
ASSUME LimitsAssumption ==
  MaxLines \in Nat /\ MaxFaults \in Nat

VARIABLES
  \* the world
  lines,        \* transcript of a session: complete lines
  content,      \* and which transcript it is, told by its first records
  published,    \* progress of peers
  \* files of the lifecycle runtime
  checkpoint,   \* sequence, and what each source's inventory has reached
  ledger,       \* deltas of the ledger directory
  outbox,       \* event-outbox/pending
  receipts,     \* event-outbox/delivered: runs
  sstate,       \* state of each session
  stateLock, inventoryLock,
  store,        \* keys the event store holds
  \* a hook
  pc, sess, kind,
  natural,      \* progress read before the lock
  held,         \* the state read under the lock, or None
  phase,        \* which of its two deliveries it is in
  todo, entry,  \* pending entries listed, and the one under way
  refs,         \* attestedSubjectRefs
  plan,         \* the delta its inventory found, or None
  base,         \* the checkpoint it read, or None
  advisory,     \* what it will tell the session
  judging,      \* hooks that found the lock they wait for stale and are about to remove it
  \* history and bounds
  shown,        \* what each session has been told
  lost,         \* the store was lost: "no", "unproven" or "proven"
  faults

world  == <<lines, content, published>>
files  == <<checkpoint, ledger, outbox, receipts, sstate, store>>
locks  == <<stateLock, inventoryLock>>
locals == <<sess, kind, natural, held, phase, todo, entry, refs, plan, base, advisory, judging>>
aux    == <<shown, lost, faults>>
vars   == <<world, files, locks, pc, locals, aux>>

----------------------------------------------------------------------------
(* Data *)

Unseen == [gen |-> 0, content |-> 0, next |-> 0, life |-> "none"]
NoAdvice == [deltas |-> {}, progress |-> {}, token |-> None]
NewState == [watermark |-> 0, deltas |-> {}, progress |-> {}, token |-> None]

\* deltaId leaves the sequence out; the attestation names where the stock ends.
IdOf(d) == [src |-> d.src, content |-> d.content, gen |-> d.gen, from |-> d.from, to |-> d.to, life |-> d.life]
DeltaKey(d) == <<"delta", IdOf(d)>>
TokenOf(d) == <<"source", [src |-> d.src, gen |-> d.gen, to |-> d.to, life |-> d.life]>>
EntryOf(d) == [run |-> Cardinality(outbox) + 1, delta |-> d]

GoTo(h, label) == pc' = [pc EXCEPT ![h] = label]
Set(var, h, value) == [var EXCEPT ![h] = value]

\* The hook is over: nothing of it is left but what it wrote.
Clear(h) ==
  /\ sess' = Set(sess, h, None) /\ kind' = Set(kind, h, None)
  /\ natural' = Set(natural, h, {}) /\ held' = Set(held, h, None) /\ phase' = Set(phase, h, 1)
  /\ todo' = Set(todo, h, {}) /\ entry' = Set(entry, h, None)
  /\ refs' = Set(refs, h, {}) /\ plan' = Set(plan, h, None) /\ base' = Set(base, h, None)
  /\ advisory' = Set(advisory, h, NoAdvice) /\ judging' = judging \ {h}
  /\ GoTo(h, "idle")

\* Between taking a lock and giving it back.
UnderState == {"list", "attest", "append", "receipt", "inventory", "ledger", "outbox", "checkpoint",
               "advise", "partial"}
UnderInventory == {"ledger", "outbox", "checkpoint"}

\* The finally clauses of withLock and withCheckpointLock: the file of that name goes, whoever made it.
Release(h) ==
  /\ stateLock' = IF pc[h] \in UnderState THEN [stateLock EXCEPT ![sess[h]] = Free] ELSE stateLock
  /\ inventoryLock' = IF pc[h] \in UnderInventory THEN Free ELSE inventoryLock

----------------------------------------------------------------------------
(* The world *)

Grow(s) ==
  /\ lines[s] < MaxLines
  /\ lines' = [lines EXCEPT ![s] = @ + 1]
  /\ UNCHANGED <<content, published, files, locks, pc, locals, aux>>

Rewrite(s) ==
  /\ lines[s] > 0 /\ faults < MaxFaults
  /\ faults' = faults + 1
  /\ content' = [content EXCEPT ![s] = @ + 1]
  /\ \E n \in 1..lines[s] : lines' = [lines EXCEPT ![s] = n]
  /\ UNCHANGED <<published, files, locks, pc, locals, shown, lost>>

PublishProgress(x) ==
  /\ x \notin published
  /\ published' = published \union {x}
  /\ UNCHANGED <<lines, content, files, locks, pc, locals, aux>>

\* The configured directory no longer shows the chain, between two hooks.
LoseStore ==
  /\ lost = "no" /\ store # {} /\ faults < MaxFaults
  /\ faults' = faults + 1
  /\ \A h \in Hooks : pc[h] = "idle"
  /\ store' = {}
  /\ lost' = IF receipts = {} THEN "unproven" ELSE "proven"
  /\ UNCHANGED <<world, checkpoint, ledger, outbox, receipts, sstate, locks, pc, locals,
                 shown>>

----------------------------------------------------------------------------
(* A hook begins, and waits for locks *)

\* handleHookEvent: progress is read before the lock is taken; a session without a
\* transcript (validateTranscriptPath) can only be told of progress.
Begin(h, s, k) ==
  /\ pc[h] = "idle" /\ k \in Kinds[s]
  /\ lines[s] > 0 \/ k = "prompt"
  /\ sess' = Set(sess, h, s) /\ kind' = Set(kind, h, k)
  /\ natural' = Set(natural, h, IF k = "prompt" THEN published ELSE {})
  /\ GoTo(h, IF lines[s] > 0 THEN "lock" ELSE "lockPartial")
  /\ UNCHANGED <<world, files, locks, held, phase, todo, entry, refs, plan, base, advisory, judging, aux>>

\* withLock, and loadState as the first thing under it.
LockState_Shared(h) ==
  /\ pc[h] \in {"lock", "lockPartial"} /\ h \notin judging
  /\ stateLock' = [stateLock EXCEPT ![sess[h]] = h]
  /\ held' = Set(held, h, sstate[sess[h]])
  /\ GoTo(h, IF pc[h] = "lock" THEN "list" ELSE "partial")
  /\ UNCHANGED <<world, files, inventoryLock, sess, kind, natural, phase, todo, entry, refs, plan,
                 base, advisory, judging, aux>>
LockState(h) ==
  /\ pc[h] \in {"lock", "lockPartial"} /\ h \notin judging /\ stateLock[sess[h]] = Free
  /\ stateLock' = [stateLock EXCEPT ![sess[h]] = h]
  /\ held' = Set(held, h, sstate[sess[h]])
  /\ GoTo(h, IF pc[h] = "lock" THEN "list" ELSE "partial")
  /\ UNCHANGED <<world, files, inventoryLock, sess, kind, natural, phase, todo, entry, refs, plan,
                 base, advisory, judging, aux>>

\* The lock a hook waits for, None being that of the checkpoint, and what is there.
Waits(h) == pc[h] \in {"lock", "lockPartial", "inventory"} /\ h \notin judging
Wanted(h) == IF pc[h] = "inventory" THEN None ELSE sess[h]
LockAt(name) == IF name = None THEN inventoryLock ELSE stateLock[name]

\* "Lifecycle state is busy", "inventory checkpoint is busy": the hook fails open.
Busy(h) ==
  /\ Waits(h) /\ LockAt(Wanted(h)) # Free
  /\ Release(h)
  /\ Clear(h)
  /\ UNCHANGED <<world, files, aux>>

\* statSync: the file has been there for 300 s, or 600 s for the checkpoint's.  A hook is killed at its
\* time limit, 10 or 15 s, so that the one who made it is gone.
Judge(h) ==
  /\ Waits(h) /\ LockAt(Wanted(h)) = Gone
  /\ OneReclaims => \A g \in judging : Wanted(g) # Wanted(h)
  /\ judging' = judging \union {h}
  /\ UNCHANGED <<world, files, locks, pc, sess, kind, natural, held, phase, todo, entry, refs, plan, base,
                 advisory, aux>>

\* unlinkSync: the file that has the name by now.
Unlink(h) ==
  /\ h \in judging
  /\ judging' = judging \ {h}
  /\ IF Wanted(h) = None
       THEN inventoryLock' = Free /\ UNCHANGED stateLock
       ELSE stateLock' = [stateLock EXCEPT ![Wanted(h)] = Free] /\ UNCHANGED inventoryLock
  /\ UNCHANGED <<world, files, pc, sess, kind, natural, held, phase, todo, entry, refs, plan, base,
                 advisory, aux>>

----------------------------------------------------------------------------
(* deliverLifecycleOutbox, before and after the inventory *)

\* receiptsProveChain: each receipt names the events it delivered.
Refused_Never == FALSE
Refused == receipts # {} /\ store = {}

Undelivered(entries, delivered) == {e \in entries : e.run \notin delivered}

\* The next listed entry without a receipt, or what follows the delivery.
Onward(h, entries, delivered) ==
  /\ todo' = Set(todo, h, Undelivered(entries, delivered))
  /\ GoTo(h, IF Undelivered(entries, delivered) # {} THEN "attest"
             ELSE IF phase[h] = 1 THEN "inventory" ELSE "advise")

List(h) ==
  /\ pc[h] = "list"
  /\ IF Refused
       THEN Release(h) /\ Clear(h)
       ELSE /\ Onward(h, outbox, receipts)
            /\ UNCHANGED <<locks, sess, kind, natural, held, phase, entry, refs, plan, base, advisory, judging>>
  /\ UNCHANGED <<world, files, aux>>

\* Entries in the order of their names, which are hashes: any order.  Only the tokens
\* of the second delivery are looked at.
Attest(h) ==
  /\ pc[h] = "attest"
  /\ \E e \in Undelivered(todo[h], receipts) :
       /\ store' = store \union {TokenOf(e.delta)}
       /\ refs' = [refs EXCEPT ![h] = @ \union (IF phase[h] = 2 THEN {TokenOf(e.delta)} ELSE {})]
       /\ entry' = Set(entry, h, e)
  /\ GoTo(h, "append")
  /\ UNCHANGED <<world, checkpoint, ledger, outbox, receipts, sstate, locks,
                 sess, kind, natural, held, phase, todo, plan, base, advisory, judging, aux>>

\* Another hook wrote the receipts of all that was left.
Overtaken(h) ==
  /\ pc[h] = "attest" /\ Undelivered(todo[h], receipts) = {}
  /\ Onward(h, todo[h], receipts)
  /\ UNCHANGED <<world, files, locks, sess, kind, natural, held, phase, entry, refs, plan,
                 base, advisory, judging, aux>>

Append(h) ==
  /\ pc[h] = "append"
  /\ store' = store \union {DeltaKey(entry[h].delta)}
  /\ GoTo(h, "receipt")
  /\ UNCHANGED <<world, checkpoint, ledger, outbox, receipts, sstate, locks, locals, aux>>

Receipt(h) ==
  /\ pc[h] = "receipt"
  /\ receipts' = receipts \union {entry[h].run}
  /\ entry' = Set(entry, h, None)
  /\ Onward(h, todo[h], receipts')
  /\ UNCHANGED <<world, checkpoint, ledger, outbox, sstate, store, locks,
                 sess, kind, natural, held, phase, refs, plan, base, advisory, judging, aux>>

----------------------------------------------------------------------------
(* runInventory, under the checkpoint lock *)

\* lifecycleForEvent, as the Claude bridge configures it.
Override(k) == CASE k = "start" -> "start" [] k = "end" -> "end" [] OTHER -> "none"

\* A transcript is read from the start again when it is shorter than what was read, or
\* another one.
Known(s) == checkpoint.sources[s].gen > 0
Reset(s) ==
  Known(s) /\ (lines[s] < checkpoint.sources[s].next \/ content[s] # checkpoint.sources[s].content)
Unchanged(s) == Known(s) /\ ~Reset(s) /\ lines[s] = checkpoint.sources[s].next

\* scanCompleteLines: a last line without its newline is left for later.
Scanned(s) == lines[s]

\* classifyThread goes by the last lifecycle that was ever heard of.
Life(s, k) == IF Override(k) # "none" THEN Override(k) ELSE checkpoint.sources[s].life
Terminal(life) == life = "end"

DeltaFor_KeepsOffset(s, k) ==
  LET previous == checkpoint.sources[s]
  IN  [src  |-> s, content |-> content[s],
       gen  |-> IF ~Known(s) \/ Reset(s) THEN previous.gen + 1 ELSE previous.gen,
       from |-> previous.next,
       to   |-> Scanned(s),
       life |-> Life(s, k),
       seq  |-> checkpoint.sequence + 1]
DeltaFor(s, k) ==
  LET previous == checkpoint.sources[s]
      fresh    == ~Known(s) \/ Reset(s)
  IN  [src  |-> s, content |-> content[s],
       gen  |-> IF fresh THEN previous.gen + 1 ELSE previous.gen,
       from |-> IF fresh THEN 0 ELSE previous.next,
       to   |-> Scanned(s),
       life |-> Life(s, k),
       seq  |-> checkpoint.sequence + 1]

\* withCheckpointLock and the scan under it.  A source that has not grown is skipped,
\* whatever the event says of it, and the lock is given back.
Scan(h) ==
  /\ pc[h] = "inventory" /\ h \notin judging /\ inventoryLock = Free
  /\ IF Unchanged(sess[h])
       THEN /\ inventoryLock' = Free /\ UNCHANGED <<plan, base>>
            /\ phase' = Set(phase, h, 2) /\ GoTo(h, "list")
       ELSE /\ inventoryLock' = h
            /\ plan' = Set(plan, h, DeltaFor(sess[h], kind[h])) /\ base' = Set(base, h, checkpoint)
            /\ GoTo(h, "ledger") /\ UNCHANGED phase
  /\ UNCHANGED <<world, files, stateLock, sess, kind, natural, held, todo, entry, refs, advisory,
                 judging, aux>>

WriteLedger_Empty(h) ==
  /\ pc[h] = "ledger"
  /\ GoTo(h, "outbox")
  /\ UNCHANGED <<world, files, locks, locals, aux>>
WriteLedger(h) ==
  /\ pc[h] = "ledger"
  /\ ledger' = ledger \union {plan[h]}
  /\ GoTo(h, "outbox")
  /\ UNCHANGED <<world, checkpoint, outbox, receipts, sstate, store, locks, locals, aux>>

\* beforeCheckpoint: persistLifecycleOutbox.
WriteOutbox(h) ==
  /\ pc[h] = "outbox"
  /\ outbox' = outbox \union {EntryOf(plan[h])}
  /\ GoTo(h, "checkpoint")
  /\ UNCHANGED <<world, checkpoint, ledger, receipts, sstate, store, locks, locals, aux>>

\* The checkpoint that was read, with this source put forward.
WriteCheckpoint(h) ==
  /\ pc[h] = "checkpoint"
  /\ checkpoint' =
       [sequence |-> plan[h].seq,
        sources  |-> [base[h].sources EXCEPT ![sess[h]] =
                       [gen |-> plan[h].gen, content |-> plan[h].content, next |-> plan[h].to,
                        life |-> plan[h].life]]]
  /\ base' = Set(base, h, None)
  /\ inventoryLock' = Free
  /\ phase' = Set(phase, h, 2)
  /\ GoTo(h, "list")
  /\ UNCHANGED <<world, ledger, outbox, receipts, sstate, store, stateLock, sess, kind,
                 natural, held, todo, entry, refs, plan, advisory, judging, aux>>

----------------------------------------------------------------------------
(* The advisory *)

\* readRelatedDeltas: of the other sessions, after the watermark.
Related(h) == {d \in ledger : d.seq > held[h].watermark /\ d.src # sess[h]}
Watermark(h) == Max({d.seq : d \in ledger} \union {held[h].watermark})

\* A token is told when this delivery attested it or the store holds it.
Token(h) ==
  IF plan[h] # None /\ (TokenOf(plan[h]) \in refs[h] \/ TokenOf(plan[h]) \in store)
    THEN TokenOf(plan[h]) ELSE None

FreshProgress(h) == natural[h] \ held[h].progress
FreshDeltas(h) == {IdOf(d) : d \in Related(h)} \ held[h].deltas

\* The state is written and unlocked, only the answer is left to give.
Answer(h) ==
  /\ Release(h)
  /\ natural' = Set(natural, h, {}) /\ held' = Set(held, h, None) /\ kind' = Set(kind, h, None)
  /\ refs' = Set(refs, h, {}) /\ plan' = Set(plan, h, None) /\ phase' = Set(phase, h, 1)
  /\ GoTo(h, "return")
  /\ UNCHANGED <<sess, todo, entry, base, judging>>

Advise(h) ==
  /\ pc[h] = "advise"
  /\ IF kind[h] = "end"
       THEN /\ Release(h) /\ Clear(h)
            /\ UNCHANGED sstate
       ELSE /\ advisory' = Set(advisory, h,
                 [deltas   |-> FreshDeltas(h),
                  progress |-> FreshProgress(h),
                  token    |-> IF Token(h) = held[h].token THEN None ELSE Token(h)])
            /\ sstate' = [sstate EXCEPT ![sess[h]] =
                 [watermark |-> Watermark(h),
                  deltas    |-> held[h].deltas \union FreshDeltas(h),
                  progress  |-> held[h].progress \union FreshProgress(h),
                  token     |-> Token(h)]]
            /\ Answer(h)
  /\ UNCHANGED <<world, checkpoint, ledger, outbox, receipts, store, aux>>

\* The transcript was not to be had: progress alone, under the lock all the same.
Partial(h) ==
  /\ pc[h] = "partial"
  /\ advisory' = Set(advisory, h, [NoAdvice EXCEPT !.progress = FreshProgress(h)])
  /\ sstate' = [sstate EXCEPT ![sess[h]] = [held[h] EXCEPT !.progress = @ \union FreshProgress(h)]]
  /\ Answer(h)
  /\ UNCHANGED <<world, checkpoint, ledger, outbox, receipts, store, aux>>

\* The provider reads the hook's answer.
Return(h) ==
  /\ pc[h] = "return"
  /\ shown' = [shown EXCEPT ![sess[h]] = @ \union advisory[h].deltas \union advisory[h].progress]
  /\ Clear(h)
  /\ UNCHANGED <<world, files, locks, lost, faults>>

----------------------------------------------------------------------------
(* Faults *)

Breaks(h) ==
  /\ pc[h] # "idle" /\ faults < MaxFaults
  /\ faults' = faults + 1
  /\ Clear(h)
  /\ UNCHANGED <<world, files, shown, lost>>

\* A file operation throws: the finally clauses run and the hook fails open.
Throw(h) == Release(h) /\ Breaks(h)

\* The hook is killed, at its time limit or before, and leaves the lock files it made.
Die(h) ==
  /\ stateLock' = [s \in Sessions |-> IF stateLock[s] = h THEN Gone ELSE stateLock[s]]
  /\ inventoryLock' = IF inventoryLock = h THEN Gone ELSE inventoryLock
  /\ Breaks(h)

----------------------------------------------------------------------------
(* Specification *)

Init ==
  /\ lines = [s \in Sessions |-> 0] /\ content = [s \in Sessions |-> 0] /\ published = {}
  /\ checkpoint = [sequence |-> 0, sources |-> [s \in Sessions |-> Unseen]]
  /\ ledger = {} /\ outbox = {} /\ receipts = {} /\ store = {}
  /\ sstate = [s \in Sessions |-> NewState]
  /\ stateLock = [s \in Sessions |-> Free] /\ inventoryLock = Free
  /\ pc = [h \in Hooks |-> "idle"]
  /\ sess = [h \in Hooks |-> None] /\ kind = [h \in Hooks |-> None]
  /\ natural = [h \in Hooks |-> {}] /\ held = [h \in Hooks |-> None] /\ phase = [h \in Hooks |-> 1]
  /\ todo = [h \in Hooks |-> {}] /\ entry = [h \in Hooks |-> None]
  /\ refs = [h \in Hooks |-> {}] /\ plan = [h \in Hooks |-> None]
  /\ base = [h \in Hooks |-> None] /\ judging = {}
  /\ advisory = [h \in Hooks |-> NoAdvice]
  /\ shown = [s \in Sessions |-> {}] /\ lost = "no" /\ faults = 0

Deliver(h) == List(h) \/ Attest(h) \/ Overtaken(h) \/ Append(h) \/ Receipt(h)
Inventory(h) == WriteLedger(h) \/ WriteOutbox(h) \/ WriteCheckpoint(h)
Tell(h) == Advise(h) \/ Partial(h) \/ Return(h)
Work(h) == Deliver(h) \/ Inventory(h) \/ Tell(h)

Next ==
  \/ \E s \in Sessions : Grow(s) \/ Rewrite(s)
  \/ \E x \in Progress : PublishProgress(x)
  \/ LoseStore
  \/ \E h \in Hooks :
       \/ \E s \in Sessions : \E k \in Kinds[s] : Begin(h, s, k)
       \/ Work(h) \/ LockState(h) \/ Scan(h)
       \/ Busy(h) \/ Judge(h) \/ Unlink(h) \/ Throw(h) \/ Die(h)

Spec == Init /\ [][Next]_vars

----------------------------------------------------------------------------
(* Properties *)

Locks == Hooks \union {Free, Gone}
Lives == {"none", "start", "end"}
Sources == [gen : Nat, content : Nat, next : 0..MaxLines, life : Lives]
Checkpoints == [sequence : Nat, sources : [Sessions -> Sources]]
Deltas == [src : Sessions, content : Nat, gen : Nat, from : 0..MaxLines, to : 0..MaxLines,
           life : Lives, seq : Nat \ {0}]
Entries == [run : Nat \ {0}, delta : Deltas]
Ids == [src : Sessions, content : Nat, gen : Nat, from : 0..MaxLines, to : 0..MaxLines, life : Lives]
Tokens == {"source"} \X [src : Sessions, gen : Nat, to : 0..MaxLines, life : Lives]
Advices == [deltas : SUBSET Ids, progress : SUBSET Progress, token : Tokens \union {None}]
States == [watermark : Nat, deltas : SUBSET Ids, progress : SUBSET Progress, token : Tokens \union {None}]
Labels == {"idle", "lock", "lockPartial", "list", "attest", "append", "receipt", "inventory", "ledger",
           "outbox", "checkpoint", "advise", "partial", "return"}

\* A session is told of both in one list: what names progress names no delta.
ASSUME ProgressAssumption == \A x \in Progress : x \notin Ids

\* What the variables hold.
TypeOK ==
  /\ lines \in [Sessions -> 0..MaxLines] /\ content \in [Sessions -> Nat] /\ published \subseteq Progress
  /\ checkpoint \in Checkpoints /\ base \in [Hooks -> Checkpoints \union {None}]
  /\ ledger \subseteq Deltas /\ outbox \subseteq Entries /\ receipts \subseteq {e.run : e \in outbox}
  /\ sstate \in [Sessions -> States]
  /\ stateLock \in [Sessions -> Locks] /\ inventoryLock \in Locks
  /\ pc \in [Hooks -> Labels]
  /\ sess \in [Hooks -> Sessions \union {None}] /\ kind \in [Hooks -> {"start", "prompt", "end", None}]
  /\ natural \in [Hooks -> SUBSET Progress] /\ held \in [Hooks -> States \union {None}]
  /\ phase \in [Hooks -> 1..2] /\ todo \in [Hooks -> SUBSET outbox]
  /\ entry \in [Hooks -> outbox \union {None}] /\ refs \in [Hooks -> SUBSET Tokens]
  /\ plan \in [Hooks -> Deltas \union {None}] /\ advisory \in [Hooks -> Advices]
  /\ judging \subseteq Hooks
  /\ shown \in [Sessions -> SUBSET (Ids \union Progress)]
  /\ lost \in {"no", "unproven", "proven"} /\ faults \in 0..MaxFaults

\* The checkpoint never runs ahead of the evidence: whatever it says was read of a
\* transcript stands in an entry of the outbox, however the hook that read it ended
\* (runInventoryLocked: "instead of silently skipping unrecorded evidence").
NothingSkipped ==
  \A s \in Sessions : LET c == checkpoint.sources[s] IN
    \A i \in 1..c.next : \E e \in outbox :
      e.delta.src = s /\ e.delta.gen = c.gen /\ e.delta.from < i /\ i <= e.delta.to

\* A receipt is a proof: the store holds all its entry brought, and once a store that
\* had been proved is lost from view, no hook starts a chain beside it
\* (deliverLifecycleOutbox).
ReceiptsProve ==
  /\ lost = "no" => \A e \in outbox :
       e.run \in receipts => {TokenOf(e.delta), DeltaKey(e.delta)} \subseteq store
  /\ lost = "proven" => store = {}

\* What hooks of one session are about to tell it is news to it, and no two of them
\* tell it the same, though progress is read before the state lock is taken
\* (freshNaturalPeerProgress, deliveredDeltaIds).
OncePerSession ==
  \A h \in Hooks : LET news(g) == advisory[g].deltas \union advisory[g].progress IN
    pc[h] = "return" =>
      /\ news(h) \cap shown[sess[h]] = {}
      /\ \A g \in Hooks \ {h} :
           pc[g] = "return" /\ sess[g] = sess[h] => news(g) \cap news(h) = {}

\* Evidence arrives: in the outbox whatever dies, and in the store before a receipt says so.
EvidenceArrives == NothingSkipped /\ ReceiptsProve

\* A partial write replays an idempotent delta: deltas of one sequence number are one
\* delta (the comment before the writes of runInventoryLocked).
ReplaysAreIdempotent == \A d, e \in ledger : d.seq = e.seq => d = e

\* A session whose end was hooked, and whose hook ran through, is terminal
\* (the test "Claude SessionEnd records terminal metadata").
EndIsRecorded ==
  \A h \in Hooks : pc[h] = "advise" /\ kind[h] = "end" =>
    Terminal(checkpoint.sources[sess[h]].life)
=============================================================================
