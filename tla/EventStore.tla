---------------------------- MODULE EventStore ----------------------------
(***************************************************************************)
(* The append-only event chain of src/src/event-store.mjs.                 *)
(*                                                                         *)
(* Writers are calls of appendBrokerEvents or repairEventHead in separate  *)
(* processes.  They share a directory: the record files, head.json, the    *)
(* idempotency index with its binding sidecar, and event-store.lock.  Each *)
(* file operation is a step of its own, so other processes and crashes     *)
(* come in between.  Readers are calls of verifyEventStore, which take no  *)
(* lock.                                                                   *)
(*                                                                         *)
(* An event is its idempotency key.  A record file is named by its         *)
(* sequence and by a hash over its content and predecessor, so as long as  *)
(* no sequence has two files the chain is the sequence of its keys and     *)
(* head.json is the number of records it commits to (0: no head.json).     *)
(***************************************************************************)
EXTENDS Integers, Sequences, FiniteSets, FiniteSetsExt

CONSTANTS
  Keys,          \* idempotency keys
  Writers,       \* processes that append or repair
  Readers,       \* processes that verify the store without the lock
  Repairers,     \* the writers an operator may use for a repair
  MaxBatch,      \* bound: events in one append call
  MaxCrashes,    \* bound: process deaths
  MaxDamage,     \* bound: disturbances of the index files
  InitialChain,  \* the chain an earlier release left behind
  Truncate,      \* options.truncateDuplicateKeys
  Hole,          \* a sequence whose record file was moved to quarantine
  Free, Dead,    \* lock file absent; lock file names an exited process
  NoFile         \* an index file that does not exist

ASSUME WritersAssumption ==
  /\ Repairers \subseteq Writers
  /\ Free \notin Writers /\ Dead \notin Writers /\ Free # Dead

ASSUME ChainAssumption ==
  /\ Hole \notin Keys
  /\ InitialChain \in Seq(Keys)
  /\ NoFile \notin Nat
  /\ NoFile \notin Seq([key : Keys \union {Hole}, seq : Nat])

ASSUME BoundsAssumption ==
  /\ MaxBatch \in Nat /\ MaxCrashes \in Nat /\ MaxDamage \in Nat
  /\ Truncate \in BOOLEAN

VARIABLES
  \* the directory
  records,   \* events/records: the key at each sequence
  forked,    \* two record files carry one sequence
  head,      \* events/head.json
  index,     \* events/idempotency.jsonl, or NoFile
  binding,   \* events/idempotency.head.json, or NoFile
  lock,      \* events/event-store.lock
  \* each writer's call
  pc,        \* where the call stands
  todo,      \* inputs not yet handled
  base,      \* local variable sequence
  rows,      \* local variable index
  fresh,     \* local variable appended
  out,       \* local variable results
  \* each reader's call
  rd,
  \* bounds and history
  crashes, damage,
  stolen,    \* an unlink removed the lock of a live holder
  acked      \* rows that returned calls acknowledged

files   == <<records, forked, head, index, binding>>
locals  == <<todo, base, rows, fresh, out>>
history == <<crashes, damage, stolen, acked>>
vars    == <<files, lock, pc, locals, rd, history>>

----------------------------------------------------------------------------
(* Data *)

Row == [key : Keys \union {Hole}, seq : Nat \ {0}]

\* Variant: sequences counted from zero.
RowsOf_FromZero(chain) == [i \in 1..Len(chain) |-> [key |-> chain[i], seq |-> i - 1]]

RowsOf(chain) == [i \in 1..Len(chain) |-> [key |-> chain[i], seq |-> i]]

Batches == UNION {{b \in [1..n -> Keys] : IsInjective(b)} : n \in 1..MaxBatch}

HasGap(chain) == \E i \in 1..Len(chain) : chain[i] = Hole

\* Variant: the key is entered into the map before it is looked up.
Repeats_Itself(chain, i) == chain[i] # Hole /\ \E j \in 1..i : chain[j] = chain[i]

Repeats(chain, i) == chain[i] # Hole /\ \E j \in 1..(i - 1) : chain[j] = chain[i]

HasDuplicate(chain) == \E i \in 1..Len(chain) : Repeats(chain, i)

FirstDuplicate(chain) == Min({i \in 1..Len(chain) : Repeats(chain, i)})

\* Variant: row count and tip agree, so the index is taken as it is.
IndexTrusted_CountOnly(h) == index # NoFile /\ binding = h /\ Len(index) = h

\* readIdempotencyIndex: bound to this head, and a bijection onto 1..h.
IndexTrusted(h) ==
  /\ index # NoFile
  /\ binding = h
  /\ Len(index) = h
  /\ {r.seq : r \in Range(index)} = 1..h
  /\ Cardinality({r.key : r \in Range(index)}) = h

----------------------------------------------------------------------------
(* The lock file *)

GoTo(w, label) == pc' = [pc EXCEPT ![w] = label]

\* The local variables of a call end with it.
Forget(w) ==
  /\ todo'  = [todo EXCEPT ![w] = <<>>]
  /\ base'  = [base EXCEPT ![w] = 0]
  /\ rows'  = [rows EXCEPT ![w] = {}]
  /\ fresh' = [fresh EXCEPT ![w] = <<>>]
  /\ out'   = [out EXCEPT ![w] = {}]

Call(w, b) ==
  /\ pc[w] = "idle"
  /\ todo' = [todo EXCEPT ![w] = b]
  /\ GoTo(w, "acquire")
  /\ UNCHANGED <<files, lock, base, rows, fresh, out, rd, history>>

CallRepair(w) ==
  /\ w \in Repairers
  /\ pc[w] = "idle"
  /\ GoTo(w, "acquireRepair")
  /\ UNCHANGED <<files, lock, locals, rd, history>>

Waiting == {"acquire", "acquireRepair"}

\* Variant: the lock file is opened without the exclusive flag.
Acquire_Shared(w) ==
  /\ pc[w] \in Waiting
  /\ lock' = w
  /\ GoTo(w, IF pc[w] = "acquire" THEN "verify" ELSE "scan")
  /\ UNCHANGED <<files, locals, rd, history>>

\* openSync(path, 'wx') together with the metadata that names the process.
Acquire(w) ==
  /\ pc[w] \in Waiting
  /\ lock = Free
  /\ lock' = w
  /\ GoTo(w, IF pc[w] = "acquire" THEN "verify" ELSE "scan")
  /\ UNCHANGED <<files, locals, rd, history>>

\* Variant: the retry loop has no deadline.
TimeOut_Never(w) == w \notin Writers /\ UNCHANGED vars

\* 'Broker event store is busy.'  Only a live holder is waited for.
TimeOut(w) ==
  /\ pc[w] \in Waiting
  /\ lock \in Writers
  /\ GoTo(w, "idle")
  /\ Forget(w)
  /\ UNCHANGED <<files, lock, rd, history>>

\* Variant: only a repair reclaims.
JudgeDead_RepairOnly(w) ==
  /\ pc[w] = "acquireRepair"
  /\ lock = Dead
  /\ GoTo(w, "reclaimRepair")
  /\ UNCHANGED <<files, lock, locals, rd, history>>

\* shouldReclaimLock: the process named in the file has exited.
JudgeDead(w) ==
  /\ pc[w] \in Waiting
  /\ lock = Dead
  /\ GoTo(w, IF pc[w] = "acquire" THEN "reclaim" ELSE "reclaimRepair")
  /\ UNCHANGED <<files, lock, locals, rd, history>>

\* unlinkSync(path) removes whatever lock file is there by now.
Reclaim(w) ==
  /\ pc[w] \in {"reclaim", "reclaimRepair"}
  /\ stolen' = (stolen \/ lock \in Writers)
  /\ lock'   = Free
  /\ GoTo(w, IF pc[w] = "reclaim" THEN "acquire" ELSE "acquireRepair")
  /\ UNCHANGED <<files, locals, rd, crashes, damage, acked>>

\* The finally block of withLock, then the resolved or rejected promise.
Release(w) ==
  /\ pc[w] \in {"ack", "fail"}
  /\ stolen' = (stolen \/ lock \in (Writers \ {w}))
  /\ lock'   = Free
  /\ acked'  = IF pc[w] = "ack" THEN acked \union out[w] ELSE acked
  /\ GoTo(w, "idle")
  /\ Forget(w)
  /\ UNCHANGED <<files, rd, crashes, damage>>

----------------------------------------------------------------------------
(* appendBrokerEvents under the lock *)

\* Variant: head.json is taken at its word.
VerifyTip_HeadOnly(w) ==
  /\ pc[w] = "verify"
  /\ GoTo(w, "index")
  /\ base' = [base EXCEPT ![w] = head]
  /\ UNCHANGED <<files, lock, todo, rows, fresh, out, rd, history>>

\* verifyEventTip: the newest record is what head.json commits to.  The call
\* holds the lock file itself, so every mismatch ends as LockBusy.
VerifyTip(w) ==
  /\ pc[w] = "verify"
  /\ IF forked \/ HasGap(records) \/ head # Len(records)
       THEN GoTo(w, "fail") /\ UNCHANGED base
       ELSE GoTo(w, "index") /\ base' = [base EXCEPT ![w] = head]
  /\ UNCHANGED <<files, lock, todo, rows, fresh, out, rd, history>>

LoadIndex(w) ==
  /\ pc[w] = "index"
  /\ IF IndexTrusted(base[w])
       THEN /\ rows' = [rows EXCEPT ![w] = Range(index)]
            /\ GoTo(w, "loop")
       ELSE /\ UNCHANGED rows
            /\ GoTo(w, "rebuild")
  /\ UNCHANGED <<files, lock, todo, base, fresh, out, rd, history>>

\* rebuildIdempotencyIndex, first file; recordFiles refuses a forked store.
RebuildIndex(w) ==
  /\ pc[w] \in {"rebuild", "repairIndex"}
  /\ IF forked
       THEN GoTo(w, "fail") /\ UNCHANGED <<index, rows>>
       ELSE /\ index' = RowsOf(records)
            /\ rows'  = [rows EXCEPT ![w] = Range(RowsOf(records))]
            /\ GoTo(w, IF pc[w] = "rebuild" THEN "rebind" ELSE "repairBind")
  /\ UNCHANGED <<records, forked, head, binding, lock, todo, base, fresh, out, rd, history>>

\* Variant: the binding names the record the call began with.
RebuildBinding_Begun(w) ==
  /\ pc[w] \in {"rebind", "repairBind"}
  /\ binding' = base[w]
  /\ GoTo(w, IF pc[w] = "rebind" THEN "loop" ELSE "ack")
  /\ UNCHANGED <<records, forked, head, index, lock, locals, rd, history>>

\* rebuildIdempotencyIndex, second file.
RebuildBinding(w) ==
  /\ pc[w] \in {"rebind", "repairBind"}
  /\ binding' = Cardinality(rows[w])
  /\ GoTo(w, IF pc[w] = "rebind" THEN "loop" ELSE "ack")
  /\ UNCHANGED <<records, forked, head, index, lock, locals, rd, history>>

\* Variant: the record the index names is not asked for its key.
Named_Unchecked(w, k) == {r \in rows[w] : r.key = k}

\* The record the index names for the key (its last row), if it carries the key.
Named(w, k) ==
  {r \in rows[w] : /\ r.key = k /\ r.seq <= Len(records) /\ records[r.seq] = k
                   /\ \A q \in rows[w] : q.key = k => q.seq <= r.seq}

\* A key the index holds is answered from its record.
Replay(w) ==
  /\ pc[w] = "loop" /\ todo[w] # <<>>
  /\ LET k == todo[w][1] IN
       /\ \E r \in rows[w] : r.key = k
       /\ IF forked
            THEN GoTo(w, "fail") /\ UNCHANGED <<out, todo>>
            ELSE \E r \in Named(w, k) :
                   /\ out'  = [out EXCEPT ![w] = @ \union {r}]
                   /\ todo' = [todo EXCEPT ![w] = Tail(@)]
                   /\ UNCHANGED pc
  /\ UNCHANGED <<files, lock, base, rows, fresh, rd, history>>

\* The index names another record for the key: rebuild it, first file.
RecoverIndex(w) ==
  /\ pc[w] = "loop" /\ todo[w] # <<>> /\ ~forked
  /\ \E r \in rows[w] : r.key = todo[w][1]
  /\ Named(w, todo[w][1]) = {}
  /\ index' = RowsOf(records)
  /\ GoTo(w, "recover")
  /\ UNCHANGED <<records, forked, head, binding, lock, locals, rd, history>>

\* Second file; then answer from the record that carries the key or, if none does,
\* go on to write one.
RecoverBinding(w) ==
  /\ pc[w] = "recover" /\ todo[w] # <<>>
  /\ binding' = Len(records)
  /\ LET k     == todo[w][1]
         found == {i \in 1..Len(records) : records[i] = k} IN
       IF found # {}
         THEN /\ \E i \in found :
                   /\ \A j \in found : j <= i
                   /\ out' = [out EXCEPT ![w] = @ \union {[key |-> k, seq |-> i]}]
              /\ todo' = [todo EXCEPT ![w] = Tail(@)]
              /\ UNCHANGED rows
         ELSE /\ rows' = [rows EXCEPT ![w] = {r \in @ : r.key # k}]
              /\ UNCHANGED <<out, todo>>
  /\ GoTo(w, "loop")
  /\ UNCHANGED <<records, forked, head, index, lock, base, fresh, rd, history>>

\* A key the index does not hold becomes the next record.  A record file
\* that is already there for this sequence makes a parallel chain.
WriteRecord(w) ==
  /\ pc[w] = "loop" /\ todo[w] # <<>>
  /\ LET k   == todo[w][1]
         row == [key |-> k, seq |-> base[w] + 1] IN
       /\ ~\E r \in rows[w] : r.key = k
       /\ IF row.seq > Len(records)
            THEN records' = Append(records, k) /\ UNCHANGED forked
            ELSE forked' = TRUE /\ UNCHANGED records
       /\ out'   = [out EXCEPT ![w] = @ \union {row}]
       /\ fresh' = [fresh EXCEPT ![w] = Append(@, row)]
       /\ base'  = [base EXCEPT ![w] = row.seq]
       /\ todo'  = [todo EXCEPT ![w] = Tail(@)]
  /\ UNCHANGED <<head, index, binding, lock, pc, rows, rd, history>>

\* All inputs handled and none was new.
NothingNew(w) ==
  /\ pc[w] = "loop" /\ todo[w] = <<>> /\ fresh[w] = <<>>
  /\ GoTo(w, "ack")
  /\ UNCHANGED <<files, lock, locals, rd, history>>

\* Variant: the head describes the first event of the batch.
PublishHead_First(w) ==
  /\ pc[w] = "loop" /\ todo[w] = <<>> /\ fresh[w] # <<>>
  /\ head' = fresh[w][1].seq
  /\ GoTo(w, "rows")
  /\ UNCHANGED <<records, forked, index, binding, lock, locals, rd, history>>

\* One head publication for the whole batch.
PublishHead(w) ==
  /\ pc[w] = "loop" /\ todo[w] = <<>> /\ fresh[w] # <<>>
  /\ head' = base[w]
  /\ GoTo(w, "rows")
  /\ UNCHANGED <<records, forked, index, binding, lock, locals, rd, history>>

AppendRows(w) ==
  /\ pc[w] = "rows"
  /\ index' = IF index = NoFile THEN fresh[w] ELSE index \o fresh[w]
  /\ GoTo(w, "bind")
  /\ UNCHANGED <<records, forked, head, binding, lock, locals, rd, history>>

WriteBinding(w) ==
  /\ pc[w] = "bind"
  /\ binding' = base[w]
  /\ GoTo(w, "ack")
  /\ UNCHANGED <<records, forked, head, index, lock, locals, rd, history>>

----------------------------------------------------------------------------
(* repairEventHead under the lock *)

\* recordFiles, then the old head is read and unlinked (base keeps it).
RepairScan(w) ==
  /\ pc[w] = "scan"
  /\ IF forked
       THEN GoTo(w, "fail") /\ UNCHANGED <<head, base>>
       ELSE /\ base' = [base EXCEPT ![w] = head]
            /\ head' = 0
            /\ GoTo(w, "walk")
  /\ UNCHANGED <<records, forked, index, binding, lock, todo, rows, fresh, out, rd, history>>

\* The walk from genesis found a broken link, or a repeated key it may not cut.
RepairRefuse(w) ==
  /\ pc[w] = "walk"
  /\ HasGap(records) \/ (HasDuplicate(records) /\ ~Truncate)
  /\ head' = base[w]
  /\ GoTo(w, "fail")
  /\ UNCHANGED <<records, forked, index, binding, lock, locals, rd, history>>

\* One renameSync of the quarantine loop, lowest sequence first.  base is
\* where the chain will end; the last rename leaves only what precedes it.
Quarantine(w) ==
  /\ \/ /\ pc[w] = "walk" /\ Truncate
        /\ ~HasGap(records) /\ HasDuplicate(records)
     \/ pc[w] = "quarantine"
  /\ LET cut == IF pc[w] = "walk" THEN FirstDuplicate(records) - 1 ELSE base[w]
         rest == {i \in (cut + 1)..Len(records) : records[i] # Hole}
         last == Cardinality(rest) = 1
     IN /\ base'    = [base EXCEPT ![w] = cut]
        /\ records' = IF last THEN SubSeq(records, 1, cut)
                              ELSE [records EXCEPT ![Min(rest)] = Hole]
        /\ GoTo(w, IF last THEN "repairHead" ELSE "quarantine")
  /\ UNCHANGED <<forked, head, index, binding, lock, todo, rows, fresh, out, rd, history>>

\* writeJson(headPath, head), unless the chain is empty.
RepairHead(w) ==
  /\ \/ pc[w] = "walk" /\ ~HasGap(records) /\ ~HasDuplicate(records)
     \/ pc[w] = "repairHead"
  /\ head' = Len(records)
  /\ GoTo(w, "repairIndex")
  /\ UNCHANGED <<records, forked, index, binding, lock, locals, rd, history>>

----------------------------------------------------------------------------
(* verifyEventStore, which takes no lock *)

\* before, seen: the two record counts the call compares; known: the newest
\* sequence acknowledged when the call began.
NoRead == [pc |-> "idle", before |-> 0, seen |-> 0, attempt |-> 1, known |-> 0]

SetRd(r, v) == rd' = [rd EXCEPT ![r] = v]

ReadBefore(r) ==
  /\ rd[r].pc = "before"
  /\ SetRd(r, [rd[r] EXCEPT !.pc = "list", !.before = head])
  /\ UNCHANGED <<files, lock, pc, locals, history>>

ReadStart(r) ==
  /\ rd[r].pc = "idle"
  /\ SetRd(r, [NoRead EXCEPT !.pc = "before", !.known = Max({a.seq : a \in acked} \union {0})])
  /\ UNCHANGED <<files, lock, pc, locals, history>>

\* verifyEventRecords: the directory listing and the walk from genesis.
ReadRecords(r) ==
  /\ rd[r].pc = "list"
  /\ SetRd(r, IF forked \/ HasGap(records) \/ HasDuplicate(records)
                THEN [NoRead EXCEPT !.pc = "failed"]
                ELSE [rd[r] EXCEPT !.pc = "after", !.seen = Len(records)])
  /\ UNCHANGED <<files, lock, pc, locals, history>>

NextAttempt(v) ==
  IF v.attempt = 3 THEN [NoRead EXCEPT !.pc = "busy"]
                   ELSE [v EXCEPT !.pc = "before", !.before = 0, !.seen = 0, !.attempt = @ + 1]

\* Variant: records past the head are taken for committed ones.
ReadAfter_Ahead(r) ==
  /\ rd[r].pc = "after"
  /\ SetRd(r, IF rd[r].before # head THEN NextAttempt(rd[r])
              ELSE [rd[r] EXCEPT !.pc = IF head <= rd[r].seen THEN "ok" ELSE "lock",
                                 !.attempt = IF head <= rd[r].seen THEN 1 ELSE @])
  /\ UNCHANGED <<files, lock, pc, locals, history>>

ReadAfter(r) ==
  /\ rd[r].pc = "after"
  /\ SetRd(r, IF rd[r].before # head THEN NextAttempt(rd[r])
              ELSE [rd[r] EXCEPT !.pc = IF head = rd[r].seen THEN "ok" ELSE "lock",
                                 !.attempt = IF head = rd[r].seen THEN 1 ELSE @])
  /\ UNCHANGED <<files, lock, pc, locals, history>>

\* No lock file: the mismatch is reported as a broken store.
ReadLock(r) ==
  /\ rd[r].pc = "lock"
  /\ SetRd(r, IF lock = Free THEN [NoRead EXCEPT !.pc = "failed"] ELSE NextAttempt(rd[r]))
  /\ UNCHANGED <<files, lock, pc, locals, history>>

----------------------------------------------------------------------------
(* Process deaths and index files restored, copied or edited from outside *)

Crash(w) ==
  /\ crashes < MaxCrashes
  /\ pc[w] \notin {"idle", "dead"}
  /\ crashes' = crashes + 1
  /\ lock' = IF lock = w THEN Dead ELSE lock
  /\ GoTo(w, "dead")
  /\ Forget(w)
  /\ UNCHANGED <<files, rd, damage, stolen, acked>>

Restart(w) ==
  /\ pc[w] = "dead"
  /\ GoTo(w, "idle")
  /\ UNCHANGED <<files, lock, locals, rd, history>>

\* What the tests do to the cache: delete a file, drop, repeat or swap rows.
DamageIndex ==
  /\ damage < MaxDamage
  /\ damage' = damage + 1
  /\ \/ index' = NoFile /\ UNCHANGED binding
     \/ binding' = NoFile /\ UNCHANGED index
     \/ /\ index # NoFile
        /\ \E i \in 1..Len(index) :
             \/ index' = SubSeq(index, 1, i - 1)
             \/ \E j \in 1..Len(index) :
                  \/ index' = [index EXCEPT ![i] = index[j]]
                  \/ index' = [index EXCEPT ![i].key = index[j].key,
                                            ![j].key = index[i].key]
        /\ UNCHANGED binding
  /\ UNCHANGED <<records, forked, head, lock, pc, locals, rd, crashes, stolen, acked>>

----------------------------------------------------------------------------

Init ==
  /\ records = InitialChain /\ forked = FALSE /\ head = Len(InitialChain)
  /\ index = NoFile /\ binding = NoFile
  /\ lock = Free
  /\ pc    = [w \in Writers |-> "idle"]
  /\ todo  = [w \in Writers |-> <<>>]
  /\ base  = [w \in Writers |-> 0]
  /\ rows  = [w \in Writers |-> {}]
  /\ fresh = [w \in Writers |-> <<>>]
  /\ out   = [w \in Writers |-> {}]
  /\ rd = [r \in Readers |-> NoRead]
  /\ crashes = 0 /\ damage = 0 /\ stolen = FALSE /\ acked = {}

LockStep(w) == Acquire(w) \/ TimeOut(w) \/ JudgeDead(w) \/ Reclaim(w) \/ Release(w)

AppendStep(w) ==
  \/ VerifyTip(w) \/ LoadIndex(w) \/ RebuildIndex(w) \/ RebuildBinding(w)
  \/ Replay(w) \/ RecoverIndex(w) \/ RecoverBinding(w) \/ WriteRecord(w) \/ NothingNew(w)
  \/ PublishHead(w) \/ AppendRows(w) \/ WriteBinding(w)

RepairStep(w) == RepairScan(w) \/ RepairRefuse(w) \/ Quarantine(w) \/ RepairHead(w)

Step(w) == LockStep(w) \/ AppendStep(w) \/ RepairStep(w)

ReadStep(r) == ReadBefore(r) \/ ReadRecords(r) \/ ReadAfter(r) \/ ReadLock(r)

Next ==
  \/ \E w \in Writers : Step(w) \/ CallRepair(w) \/ Crash(w) \/ Restart(w)
  \/ \E w \in Writers : \E b \in Batches : Call(w, b)
  \/ \E r \in Readers : ReadStep(r) \/ ReadStart(r)
  \/ DamageIndex

Spec == Init /\ [][Next]_vars

\* The operating system runs a started call; nobody has to start one.
FairSpec == Spec /\ \A w \in Writers : WF_vars(Step(w))

----------------------------------------------------------------------------
(* Properties *)

Labels == {"idle", "dead", "acquire", "acquireRepair", "reclaim", "reclaimRepair",
  "verify", "index", "rebuild", "rebind", "loop", "recover", "rows", "bind", "ack", "fail",
  "scan", "walk", "quarantine", "repairHead", "repairIndex", "repairBind"}

\* Every file and local variable holds a value of its kind.
TypeOK ==
  /\ records \in Seq(Keys \union {Hole}) /\ forked \in BOOLEAN /\ head \in Nat
  /\ index = NoFile \/ index \in Seq(Row)
  /\ binding = NoFile \/ binding \in Nat
  /\ lock \in Writers \union {Free, Dead}
  /\ pc \in [Writers -> Labels] /\ todo \in [Writers -> Seq(Keys)]
  /\ base \in [Writers -> Nat] /\ rows \in [Writers -> SUBSET Row]
  /\ \A w \in Writers : IsFiniteSet(rows[w])
  /\ fresh \in [Writers -> Seq(Row)] /\ out \in [Writers -> SUBSET Row]
  /\ crashes \in Nat /\ damage \in Nat /\ stolen \in BOOLEAN /\ acked \subseteq Row

\* Labels at which a call works inside withLock.
Inside == Labels \ {"idle", "dead", "acquire", "acquireRepair", "reclaim", "reclaimRepair"}

\* One call at a time works inside the lock, unless an unlink removed the
\* lock of a live holder.
OneInside ==
  ~stolen => \A v, w \in Writers : pc[v] \in Inside /\ pc[w] \in Inside => v = w

\* No idempotency key is on the chain twice: whatever crashes interrupt, and
\* whatever happened to the index cache, a replay is never appended again.
NoDuplicateKey == ~stolen => ~HasDuplicate(records)

\* No sequence gets a second record file (no parallel chain).
NoParallelChain == ~stolen => ~forked

\* Every acknowledgement names a record that carries the acknowledged key.
AckNamesRecord ==
  ~stolen => \A a \in acked : a.seq \in 1..Len(records) /\ records[a.seq] = a.key

\* What was acknowledged is committed: whenever head.json exists it covers
\* every acknowledged record, and never a record that is not there.
AckedIsCommitted ==
  ~stolen => /\ head <= Len(records)
             /\ head # 0 => \A a \in acked : a.seq <= head

\* A repair that reports success leaves a chain every reader verifies and, where nobody
\* edits the index files, an index the next append trusts, however far behind the chain
\* the calls that died had left it.
RepairedIsConsistent ==
  \A w \in Writers : (~stolen /\ pc[w] = "ack" /\ todo[w] = <<>> /\ out[w] = {}) =>
    /\ ~HasGap(records) /\ ~HasDuplicate(records) /\ head = Len(records)
    /\ damage = 0 => IndexTrusted(head)

\* What a verified read returned is durable: it holds all that was acknowledged
\* before it began, and no later head of the store covers less than it.
ReadIsDurable ==
  \A r \in Readers : ~stolen /\ rd[r].pc = "ok" =>
    /\ rd[r].known <= rd[r].seen /\ rd[r].seen <= Len(records)
    /\ head # 0 => rd[r].seen <= head

\* What calls are told is so: acknowledgements name records of their keys, and what a
\* verified read returned is durable.
AnswersStand == AckNamesRecord /\ ReadIsDurable

\* The store implements EventLog: whatever crashes interrupt, the chain grows by
\* one record of a new key at a time, no step (a truncating repair included)
\* takes a record away or replaces it, and calls are told rows of the chain.
Log == INSTANCE EventLog WITH Initial <- InitialChain, log <- records, void <- stolen
ImplementsLog == Log!Spec

\* Every started call returns or its process dies.
CallsReturn == \A w \in Writers : (pc[w] # "idle") ~> (pc[w] \in {"idle", "dead"})

\* The lock of a process that died does not outlive the next caller's wait.
DeadLockCleared ==
  \A w \in Writers :
    (pc[w] \in Waiting /\ lock = Dead) ~> (lock # Dead \/ pc[w] = "dead")

(* Why the safety properties hold: an invariant that every step preserves. *)

\* Whoever works inside the lock is the process its file names.
InsideHoldsLock == \A w \in Writers : pc[w] \in Inside => lock = w

\* An acknowledgement names the record that carries its key.
Names(row) == row.seq \in 1..Len(records) /\ records[row.seq] = row.key

\* The one chain of distinct keys, and what the other files say of it.
ChainConsistent ==
  /\ ~forked /\ records \in Seq(Keys) /\ IsInjective(records)
  /\ head <= Len(records)
  /\ \A r \in acked : Names(r) /\ (head # 0 => r.seq <= head)
  /\ index # NoFile => \A i \in 1..Len(index) : index[i].key \in Range(records)

\* What a call relies on between its steps: the head it verified is the whole
\* chain, and a key it has still to handle is in its index if it is on the chain.
CallConsistent(w) ==
  /\ IsInjective(todo[w])
  /\ \A r \in out[w] : Names(r)
  /\ \A i \in 1..Len(fresh[w]) : fresh[w][i].key \in Range(records)
  /\ pc[w] \notin {"quarantine", "repairHead"}
  /\ pc[w] \in {"index", "rebuild", "rebind", "loop", "recover", "rows", "bind"} => base[w] = Len(records)
  /\ pc[w] \in {"index", "rebuild", "rebind", "rows", "bind", "repairIndex", "repairBind", "ack"} =>
       head = Len(records)
  /\ pc[w] \in {"loop", "recover"} /\ fresh[w] = <<>> => head = Len(records)
  /\ pc[w] \in {"rebind", "loop", "recover"} =>
       \A i \in 1..Len(records) :
         records[i] \in Range(todo[w]) => \E r \in rows[w] : r.key = records[i]

\* As long as no live holder lost its lock: one holder, one chain, and calls
\* that rely only on what is so.
Consistent ==
  ~stolen => InsideHoldsLock /\ ChainConsistent /\ \A w \in Writers : CallConsistent(w)

(* What the repository says of the store; a run of its own refutes each. *)

\* test/event-store.test.mjs:75 "an append between record and head publication
\* is busy, not corrupt": no verified read of a healthy store fails.
BusyNotCorrupt == \A r \in Readers : rd[r].pc # "failed"

\* test/event-store.test.mjs:182 "parallel appends serialize into one gap-free
\* chain": no sequence ever gets two record files.
ParallelAppendsSerialize == ~forked

\* event-store.mjs:683-689: a repair re-run with truncateDuplicateKeys moves the
\* duplicate "and everything after it" out, so it never refuses the chain.
TruncationRepairs == \A w \in Writers : pc[w] = "walk" => ~HasGap(records)
=============================================================================
