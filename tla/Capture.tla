------------------------------ MODULE Capture ------------------------------
(***************************************************************************)
(* Distillation capture: a tick (capture.mts, documents.mts) copies what   *)
(* was added to transcripts, and what is new in documents, into immutable  *)
(* generations and queues a job for each; preparation (slice-queue.mts)    *)
(* cuts queued jobs into slices.  A tick is one transaction of the queue's *)
(* database, but generations are renamed into place while it is open, and  *)
(* transcripts and documents change under its hands.                       *)
(*                                                                         *)
(* A line of a transcript is the version of the file it was written in; a  *)
(* prefix digest stands for the lines it covers.  Lines are whole: what    *)
(* follows the last newline is never read.  Directories are one walk in    *)
(* the order of names, whose position is the cursor.                       *)
(***************************************************************************)
EXTENDS Slicing, Documents

CONSTANTS
  Order,           \* the transcripts in the order of the walk
  Blocks,          \* transcript -> for each line, the lengths of its dialogue blocks
  DocOrder,        \* the documents in the order of the walk
  Contents,        \* what a document may hold: sequences of sections
  TextLength,      \* characters of a section
  InitialBaseline, \* initial = "baseline" of the document source
  MaxDelta,        \* lines read of a transcript at once
  MaxFiles,        \* transcripts of a tick
  MaxDocs,         \* documents read in a tick
  MaxLines,        \* bound: lines appended and transcripts rewritten
  MaxRewrites,     \* bound: transcripts rewritten or replaced
  MaxEdits,        \* bound: documents written or removed
  MaxFaults        \* bound: deaths, deadlines, unreadable directories

Sources == {Order[i] : i \in DOMAIN Order}
Docs == {DocOrder[i] : i \in DOMAIN DocOrder}

ASSUME CaptureAssumption ==
  /\ IsInjective(Order) /\ IsInjective(DocOrder)
  /\ {MaxDelta, MaxFiles, MaxDocs} \subseteq Nat \ {0}

VARIABLES
  file,            \* transcripts: inode, version, lines
  doc,             \* documents: content or None, version
  db,              \* the committed tables
  gens, docGens,   \* generation directories
  tick,            \* the capture process
  plans, blocked,  \* slice_plans with slices, slice_failures
  changes, rewrites, edits, faults

world == <<file, doc, changes, rewrites, edits>>
queue == <<plans, blocked>>
vars == <<world, db, gens, docGens, tick, queue, faults>>

Idle == [pc |-> "idle", work |-> None, saved |-> None, before |-> None, raw |-> <<>>, checked |-> <<>>,
         processed |-> 0, walk |-> None, complete |-> TRUE, deferred |-> FALSE, reads |-> 0, next |-> 1,
         snapshot |-> None]

Init ==
  /\ file = [s \in Sources |-> [id |-> 1, version |-> 0, lines |-> <<>>]]
  /\ doc = [f \in Docs |-> [content |-> None, version |-> 0]]
  /\ db = [src |-> [s \in Sources |-> [prefix |-> <<>>, identity |-> None, wait |-> FALSE]],
           cursor |-> 0, jobs |-> {},
           docs |-> [f \in Docs |-> [state |-> "none", version |-> 0, generation |-> None, wait |-> FALSE]],
           seen |-> {}, docJobs |-> {}, baselined |-> FALSE]
  /\ gens = {} /\ docGens = {} /\ tick = Idle
  /\ plans = <<>> /\ blocked = {}
  /\ changes = 0 /\ rewrites = 0 /\ edits = 0 /\ faults = 0

At(label) == tick.pc = label
Work == tick.work
Goes(label, work) == tick' = [tick EXCEPT !.pc = label, !.work = work]

----------------------------------------------------------------------------
(* The writers of transcripts and documents *)

Lines(s) == Len(Blocks[s])

\* Where a tick looks at transcripts, and where at documents.  A change that is made elsewhere
\* is seen no sooner than one made there.  (As a bound, a behaviour changes either transcripts
\* or documents: the two halves of a tick share its transaction and nothing else.)
InSources == tick.pc \in {"scan", "verify", "read", "check", "recheck"}
InDocuments == tick.pc \in {"walk", "docs"}

AppendLine(s) ==
  /\ InSources /\ Len(file[s].lines) < Lines(s) /\ edits = 0 /\ changes < MaxLines
  /\ file' = [file EXCEPT ![s].lines = Append(@, file[s].version)]
  /\ changes' = changes + 1
  /\ UNCHANGED <<doc, rewrites, edits, db, gens, docGens, tick, queue, faults>>

\* In place, or a new file renamed over the old one; of any length.
Rewrite(s) ==
  /\ InSources /\ rewrites < MaxRewrites /\ edits = 0 /\ changes < MaxLines
  /\ rewrites' = rewrites + 1 /\ changes' = changes + 1
  /\ \E id \in {file[s].id, 2}, n \in 0..Lines(s) :
       file' = [file EXCEPT ![s] = [id |-> id, version |-> rewrites', lines |-> [i \in 1..n |-> rewrites']]]
  /\ UNCHANGED <<doc, edits, db, gens, docGens, tick, queue, faults>>

EditDoc(f) ==
  /\ InDocuments /\ edits < MaxEdits /\ changes = 0
  /\ edits' = edits + 1
  /\ \E content \in Contents \union {None} :
       /\ content # doc[f].content
       /\ doc' = [doc EXCEPT ![f] = [content |-> content, version |-> edits']]
  /\ UNCHANGED <<file, changes, rewrites, db, gens, docGens, tick, queue, faults>>

----------------------------------------------------------------------------
(* The walk over transcripts *)

Begin ==
  /\ At("idle")
  /\ tick' = [Idle EXCEPT !.pc = "scan", !.work = db]
  /\ UNCHANGED <<world, db, gens, docGens, queue, faults>>

Current == Order[Work.cursor + 1]
Row == Work.src[Current]
HasPrefix(s, prefix) ==
  Len(file[s].lines) >= Len(prefix) /\ SubSeq(file[s].lines, 1, Len(prefix)) = prefix

\* The walk goes on behind the source, with its new row.
Advanced(row) == [Work EXCEPT !.src[Current] = row, !.cursor = @ + 1]
Failed == Goes("scan", Advanced([Row EXCEPT !.wait = TRUE]))

\* A source that failed is left alone until its time has come.
Skip ==
  /\ At("scan") /\ Work.cursor < Len(Order) /\ tick.processed < MaxFiles
  /\ Row.wait
  /\ Goes("scan", Advanced(Row))
  /\ UNCHANGED <<world, db, gens, docGens, queue, faults>>

Identify ==
  /\ At("scan") /\ Work.cursor < Len(Order) /\ tick.processed < MaxFiles
  /\ LET before == [id |-> file[Current].id, size |-> Len(file[Current].lines)]
         refused == \/ Row.identity \notin {None, before.id}
                    \/ before.size < Len(Row.prefix)
     IN  tick' = [tick EXCEPT !.processed = @ + 1, !.before = before,
                    !.pc = IF refused THEN "refused" ELSE "verify"]
  /\ UNCHANGED <<world, db, gens, docGens, queue, faults>>

Refuse ==
  /\ At("refused")
  /\ Failed
  /\ UNCHANGED <<world, db, gens, docGens, queue, faults>>

Verify ==
  /\ At("verify")
  /\ Goes(IF HasPrefix(Current, Row.prefix) THEN "read" ELSE "refused", Work)
  /\ UNCHANGED <<world, db, gens, docGens, queue, faults>>

Read ==
  /\ At("read")
  /\ LET start == Len(Row.prefix)
         end == Min({start + MaxDelta, tick.before.size, Len(file[Current].lines)})
     IN  tick' = [tick EXCEPT !.pc = "check", !.raw = SubSeq(file[Current].lines, start + 1, end)]
  /\ UNCHANGED <<world, db, gens, docGens, queue, faults>>

\* The prefix that ends with the lines read is digested twice, and compared with them.
Check ==
  /\ At("check")
  /\ LET end == Len(Row.prefix) + Len(tick.raw)
         lines == file[Current].lines
     IN  tick' = IF Len(lines) < end THEN [tick EXCEPT !.pc = "refused"]
                 ELSE [tick EXCEPT !.pc = "recheck", !.checked = SubSeq(lines, 1, end)]
  /\ UNCHANGED <<world, db, gens, docGens, queue, faults>>

Unchanged_NoSuffix ==
  /\ HasPrefix(Current, tick.checked)
  /\ tick.before.id = file[Current].id /\ Len(file[Current].lines) >= tick.before.size
  /\ HasPrefix(Current, Row.prefix)
Unchanged ==
  /\ HasPrefix(Current, tick.checked)
  /\ SubSeq(tick.checked, Len(Row.prefix) + 1, Len(tick.checked)) = tick.raw
  /\ tick.before.id = file[Current].id /\ Len(file[Current].lines) >= tick.before.size
  /\ HasPrefix(Current, Row.prefix)

Recheck ==
  /\ At("recheck")
  /\ IF ~Unchanged THEN Goes("refused", Work)
     ELSE IF tick.raw = <<>>
       THEN Goes("scan", Advanced([Row EXCEPT !.identity = tick.before.id, !.wait = FALSE]))
     ELSE Goes("store", Work)
  /\ UNCHANGED <<world, db, gens, docGens, queue, faults>>

Job == [source |-> Current, start |-> Len(Row.prefix), prefix |-> tick.checked]

\* A generation of that name is left by a tick that was rolled back; it is used again.
Store ==
  /\ At("store")
  /\ IF \E g \in gens : g.job = Job /\ g.raw # tick.raw
       THEN Goes("refused", Work) /\ UNCHANGED gens
       ELSE Goes("insert", Work) /\ gens' = gens \union {[job |-> Job, raw |-> tick.raw]}
  /\ UNCHANGED <<world, db, docGens, queue, faults>>

Insert ==
  /\ At("insert")
  /\ Goes("scan", [Advanced([prefix |-> tick.checked, identity |-> tick.before.id, wait |-> FALSE])
                     EXCEPT !.jobs = @ \union {Job}])
  /\ UNCHANGED <<world, db, gens, docGens, queue, faults>>

\* The walk stops at its limit and keeps its place, or ends and starts over in the next tick.
Stop_Forgetful ==
  /\ At("scan") /\ (Work.cursor = Len(Order) \/ tick.processed >= MaxFiles)
  /\ Goes("walk", [Work EXCEPT !.cursor = 0])
  /\ UNCHANGED <<world, db, gens, docGens, queue, faults>>
Stop ==
  /\ At("scan") /\ (Work.cursor = Len(Order) \/ tick.processed >= MaxFiles)
  /\ Goes("walk", IF Work.cursor = Len(Order) THEN [Work EXCEPT !.cursor = 0] ELSE Work)
  /\ UNCHANGED <<world, db, gens, docGens, queue, faults>>

Unreadable ==
  /\ At("scan") /\ faults < MaxFaults
  /\ faults' = faults + 1
  /\ Goes("walk", [Work EXCEPT !.cursor = 0])
  /\ UNCHANGED <<world, db, gens, docGens, queue>>

----------------------------------------------------------------------------
(* Documents, in the same transaction *)

Present == {f \in Docs : doc[f].content # None}

\* A walk that meets a folder it cannot read is not complete.
Walk ==
  /\ At("walk")
  /\ \E found \in SUBSET Present :
       /\ found # Present => faults < MaxFaults
       /\ faults' = faults + (IF found = Present THEN 0 ELSE 1)
       /\ tick' = [tick EXCEPT !.pc = "docs", !.complete = found = Present,
                     !.before = None, !.raw = <<>>, !.checked = <<>>, !.processed = 0,
                     !.walk = [f \in found |-> doc[f].version]]
  /\ UNCHANGED <<world, db, gens, docGens, queue>>

Doc == DocOrder[tick.next]
DocRow == Work.docs[Doc]
InDocs == At("docs") /\ tick.next <= Len(DocOrder)
Baseline == InitialBaseline /\ ~Work.baselined
WithRow(work, row) == [work EXCEPT !.docs[Doc] = row]

UpToDate == DocRow.state = "current" /\ DocRow.version = tick.walk[Doc]

PassOver ==
  /\ InDocs
  /\ \/ Doc \notin DOMAIN tick.walk
     \/ Doc \in DOMAIN tick.walk /\ UpToDate
     \/ DocRow.state = "failed" /\ DocRow.wait
  /\ tick' = [tick EXCEPT !.next = @ + 1]
  /\ UNCHANGED <<world, db, gens, docGens, queue, faults>>

Due == InDocs /\ Doc \in DOMAIN tick.walk /\ ~UpToDate

\* It was written less than settleSeconds ago: some walk will find it settled.
Wait ==
  /\ Due
  /\ tick' = [tick EXCEPT !.work = WithRow(@, [DocRow EXCEPT !.state = "settling"]), !.next = @ + 1]
  /\ UNCHANGED <<world, db, gens, docGens, queue, faults>>

Defer ==
  /\ Due /\ tick.reads >= MaxDocs
  /\ tick' = [tick EXCEPT !.deferred = TRUE, !.next = @ + 1]
  /\ UNCHANGED <<world, db, gens, docGens, queue, faults>>

\* The file is read now, whatever the walk saw of it.
ReadDoc ==
  /\ Due /\ tick.reads < MaxDocs
  /\ LET now == doc[Doc]
         done(row) == [tick EXCEPT !.reads = @ + 1, !.next = @ + 1, !.work = WithRow(@, row)]
         id == SnapshotId(Doc, now.content, DocRow.generation)
         baseline == Baseline /\ DocRow.generation = None
         marks == Marks(Work.seen, id, baseline)
     IN  tick' =
           IF now.content = None THEN done([DocRow EXCEPT !.state = "failed", !.wait = TRUE])
           ELSE IF DocRow.generation # None /\ DocRow.generation.content = now.content
             THEN done([DocRow EXCEPT !.state = "current", !.version = now.version, !.wait = FALSE])
           ELSE [tick EXCEPT !.pc = "doc store", !.reads = @ + 1, !.saved = Work,
                   !.work = [@ EXCEPT !.seen = @ \union marks],
                   !.before = now.version, !.snapshot = Snapshot(id, marks, baseline)]
  /\ UNCHANGED <<world, db, gens, docGens, queue, faults>>

\* Back to the savepoint: neither row nor marks of the document stay.
Fail_KeepsMarks(next) ==
  tick' = [tick EXCEPT !.pc = next, !.saved = None, !.snapshot = None, !.before = None, !.next = @ + 1,
             !.work = WithRow(@, [DocRow EXCEPT !.state = "failed", !.wait = TRUE])]
Fail(next) ==
  tick' = [tick EXCEPT !.pc = next, !.saved = None, !.snapshot = None, !.before = None, !.next = @ + 1,
             !.work = WithRow(tick.saved, [DocRow EXCEPT !.state = "failed", !.wait = TRUE])]

\* An orphan is used again only when it is exactly this snapshot.
StoreDoc ==
  /\ At("doc store")
  /\ IF \E g \in docGens : g.id = tick.snapshot.id /\ g # tick.snapshot
       THEN Fail("docs") /\ UNCHANGED docGens
       ELSE Goes("doc insert", Work) /\ docGens' = docGens \union {tick.snapshot}
  /\ UNCHANGED <<world, db, gens, queue, faults>>

InsertDoc ==
  /\ At("doc insert")
  /\ LET id == tick.snapshot.id
         row == [state |-> "current", version |-> tick.before, generation |-> id, wait |-> FALSE]
     IN  tick' = [tick EXCEPT !.pc = "docs", !.next = @ + 1, !.saved = None, !.snapshot = None, !.before = None,
                    !.work = [WithRow(@, row) EXCEPT
                                !.docJobs = @ \union {i \in {id} : tick.snapshot.emitted # {}}]]
  /\ UNCHANGED <<world, db, gens, docGens, queue, faults>>

\* Only a complete walk proves that a document is gone; nothing is retracted.
EndDocs ==
  /\ At("docs") /\ tick.next > Len(DocOrder)
  /\ Goes("commit",
       [Work EXCEPT
         !.docs = [f \in Docs |-> IF tick.complete /\ f \notin DOMAIN tick.walk /\ @[f].state # "none"
                                    THEN [@[f] EXCEPT !.state = "deleted"] ELSE @[f]],
         !.baselined = @ \/ (Baseline /\ tick.complete /\ ~tick.deferred)])
  /\ UNCHANGED <<world, db, gens, docGens, queue, faults>>

----------------------------------------------------------------------------
(* The end of a tick *)

Commit ==
  /\ At("commit")
  /\ db' = Work
  /\ tick' = Idle
  /\ UNCHANGED <<world, gens, docGens, queue, faults>>

\* The deadline passes: what was done for the source or document at hand is rolled back, the
\* rest is committed.  After that no document is walked.
Deadline ==
  /\ tick.pc \notin {"idle", "commit"} /\ faults < MaxFaults
  /\ faults' = faults + 1
  /\ Goes("commit", IF tick.saved = None THEN Work ELSE tick.saved)
  /\ UNCHANGED <<world, db, gens, docGens, queue>>

Die ==
  /\ ~At("idle") /\ faults < MaxFaults
  /\ faults' = faults + 1
  /\ tick' = Idle
  /\ UNCHANGED <<world, db, gens, docGens, queue>>

----------------------------------------------------------------------------
(* Preparation *)

Dialogue(job) ==
  FlattenSeq([i \in 1..(Len(job.prefix) - job.start) |-> Blocks[job.source][job.start + i]])
EmittedOf(id) == UNION {g.emitted : g \in {h \in docGens : h.id = id}}
Sections(id) == SelectSeq(id.content, LAMBDA section : section \in EmittedOf(id))

\* The lengths of what a job holds: the blocks of its lines, or its emitted sections.
Lengths(job) ==
  IF job \in db.jobs THEN Dialogue(job)
  ELSE [i \in DOMAIN Sections(job) |-> TextLength]

\* A job without dialogue is not pending.
Pending == {job \in db.jobs : Dialogue(job) # <<>>} \union db.docJobs
Unplanned == Pending \ (DOMAIN plans \union blocked)

\* Slices and plan are one transaction; while a tick is at work the queue is busy.
Prepare ==
  /\ At("idle")
  /\ \E job \in Unplanned :
       IF Refusable(Lengths(job)) THEN blocked' = blocked \union {job} /\ UNCHANGED plans
       ELSE plans' = (job :> BuildSlices(Lengths(job))) @@ plans /\ UNCHANGED blocked
  /\ UNCHANGED <<world, db, gens, docGens, tick, faults>>

----------------------------------------------------------------------------
Tick ==
  \/ Begin \/ Skip \/ Identify \/ Refuse \/ Verify \/ Read \/ Check \/ Recheck \/ Store \/ Insert \/ Stop
  \/ Walk \/ PassOver \/ Wait \/ Defer \/ ReadDoc \/ StoreDoc \/ InsertDoc \/ EndDocs \/ Commit

Next ==
  \/ \E s \in Sources : AppendLine(s) \/ Rewrite(s)
  \/ \E f \in Docs : EditDoc(f)
  \/ Tick
  \/ Unreadable \/ Deadline \/ Die
  \/ Prepare

\* Ticks are scheduled again and again, and their steps take their time.
Spec == Init /\ [][Next]_vars /\ WF_vars(Tick)

----------------------------------------------------------------------------
(* Properties *)

JobsOf(s) == {job \in db.jobs : job.source = s}
Raw(job) == {g.raw : g \in {h \in gens : h.job = job}}

\* The jobs of a transcript follow one another without gap or overlap up to the stored
\* offset, whatever died in between; each has its generation, whose lines are what the
\* prefix digest covers; and no rewriting, however timed, makes two versions one transcript.
CapturedOnce ==
  \A s \in Sources :
    LET prefix == db.src[s].prefix IN
    /\ {job.prefix : job \in JobsOf(s)} = {SubSeq(prefix, 1, Len(job.prefix)) : job \in JobsOf(s)}
    /\ \A n \in 1..Len(prefix) : Cardinality({job \in JobsOf(s) : job.start < n /\ n <= Len(job.prefix)}) = 1
    /\ \A job \in JobsOf(s) : Raw(job) = {SubSeq(job.prefix, job.start + 1, Len(job.prefix))}
    /\ \A i, k \in DOMAIN prefix : prefix[i] = prefix[k]

\* A section that counts as sent is in exactly one document job, of the snapshot that is
\* named with it, and a job holds nothing else: no section is sent twice, and none is lost
\* because a tick failed, was rolled back or died after it was marked.
SentSectionsAreQueued ==
  /\ \A mark \in db.seen : mark.disposition = "emitted" =>
       {id \in db.docJobs : mark.section \in EmittedOf(id)} = {mark.generation}
  /\ \A id \in db.docJobs : \A section \in EmittedOf(id) :
       [section |-> section, generation |-> id, disposition |-> "emitted"] \in db.seen

\* Lines and sections are queued once, and what counts as captured or sent is queued.
QueuedOnce == CapturedOnce /\ SentSectionsAreQueued

\* The slices of a plan carry its job's text once, in order, from end to end, also where a slice
\* is full inside a block or holds only empty ones, and none but the last is closed early; a plan
\* of too many slices is not made at all.
SlicesCoverJobs ==
  \A job \in DOMAIN plans : Covers(plans[job], Lengths(job)) /\ Len(plans[job]) <= MaxSlices

\* A transcript that is only appended to is captured to its end, though ticks are short,
\* other transcripts fail for good and ticks die.
Intact(s) == file[s].version = 0
EveryLineIsCaptured ==
  \A s \in Sources : \A n \in 1..Lines(s) :
    (Len(file[s].lines) >= n) ~> (Len(db.src[s].prefix) >= n \/ ~Intact(s))

\* test/documents.test.mts:432: "an orphan document generation from a rolled-back tick is
\* verified and reused".
OrphansAreReused ==
  At("doc store") => \A g \in docGens : g.id = tick.snapshot.id => g = tick.snapshot
=============================================================================
