------------------------- MODULE PublicationProofs -------------------------
(* What TLAPS proves of Publication, for any number of runs, reviewers and attempts: a batch holds *)
(* what was decided and a row what was sent; and one scheduled run starts a day, as long as no two *)
(* runs are between proving the same lock dead and renaming it.                                    *)
EXTENDS Publication, SequenceTheorems, FiniteSetTheorems, TLAPS

File == [decision : {"accept", "reject", "defer"}, written : BOOLEAN, expected : Nat]
Process ==
  [pc : {"idle", "previous", "create", "write", "lock", "judge", "reread", "rename", "reacquire", "check",
         "start", "record", "select", "recheck", "send", "insert", "auto", "release"},
   run : Nat, scheduled : BOOLEAN, day : Nat, seen : Nat, pick : Attempts \union {None},
   claims : SUBSET Observations, auto : BOOLEAN, todo : SUBSET Observations,
   item : Observations \union {None}, expected : Nat, position : Nat]

\* A process that decides has something to decide, and one that publishes something to publish.
HasItsWork(p) ==
  /\ proc[p].pc \in {"previous", "create", "write"} => proc[p].item \in Observations
  /\ At(p, "write") => proc[p].position \in DOMAIN files[proc[p].item]
  /\ proc[p].pc \in {"recheck", "send", "insert"} => proc[p].pick \in Attempts

TypeOK ==
  /\ files \in [Observations -> Seq(File)]
  /\ rows \in [Attempts -> {None} \union SUBSET Observations]
  /\ lock \in Nat \union {Free}
  /\ started \in SUBSET [day : Nat, run : Nat]
  /\ broker \in SUBSET [attempt : Attempts, claims : SUBSET Observations]
  /\ approved \in BOOLEAN /\ day \in Nat /\ begun \in Nat /\ faults \in Nat
  /\ proc \in [Procs -> Process]
  /\ \A p \in Procs : HasItsWork(p)

\* Some file of each observation of a decides as claims say.
Decided(f, a, claims) ==
  \A o \in Of(a) : \E i \in DOMAIN f[o] :
    f[o][i].decision = (IF o \in claims THEN "accept" ELSE "reject")

\* What a run is about to send or to record was decided, and what it records was sent.
Batch(p) == [attempt |-> proc[p].pick, claims |-> proc[p].claims]
Carries(p) ==
  /\ proc[p].pc \in {"send", "insert"} => Decided(files, proc[p].pick, proc[p].claims)
  /\ At(p, "insert") => proc[p].claims = {} \/ Batch(p) \in broker

Faithful ==
  /\ SentAndRecorded
  /\ \A p \in Procs : Carries(p)

\* Where a run says so, it has a number of its own, the lock, or the number of a dead run.
AtLock == {"lock", "judge", "reread", "rename", "reacquire", "check", "start"}
Numbered ==
  /\ lock # Free => lock \in 1..begun
  /\ \A r \in Runs : proc[r].run <= begun /\ (At(r, "idle") => proc[r].run = 0)
  /\ \A r \in Runs : proc[r].pc \in AtLock => proc[r].run # 0
  /\ \A r, q \in Runs : proc[r].run = proc[q].run /\ proc[r].run # 0 => r = q
  /\ \A r \in Runs : At(r, "judge") => proc[r].seen \in 1..begun
Dead(r) == proc[r].seen \in 1..begun /\ \A q \in Runs : proc[q].run # proc[r].seen
Exclusive ==
  /\ \A r \in Runs : proc[r].pc \in {"check", "start"} => lock = proc[r].run
  /\ \A r \in Runs : proc[r].pc \in {"reread", "rename"} => Dead(r)
  /\ \A r \in Runs : At(r, "rename") => lock = proc[r].seen
  /\ \A r, q \in Runs : At(r, "rename") /\ At(q, "rename") => r = q
Daily ==
  /\ \A r \in Runs : At(r, "start") => \A s \in started : s.day = proc[r].day => s.run = 0
  /\ OneRunADay

-----------------------------------------------------------------------------
(* Types *)

\* The process after a step is a process like the others, and the others are as before.
Moves(p) ==
  /\ proc' \in [Procs -> Process]
  /\ \A o \in Procs : o # p => proc'[o] = proc[o]
  /\ HasItsWork(p)'

\* Its number is its own or none, and it goes on to one of these labels.
Aside(p, labels) ==
  /\ Moves(p) /\ proc'[p].pc \in labels
  /\ proc'[p].run \in {0, proc[p].run} /\ (At(p, "idle")' => proc'[p].run = 0)
  /\ proc'[p].pc \notin {"idle", "previous"} => proc'[p].run = proc[p].run

\* Assigning one process leaves the others.
LEMMA NextProcess ==
  ASSUME proc \in [Procs -> Process], NEW p \in Procs, NEW q \in Process, Becomes(p, q)
  PROVE  /\ proc' \in [Procs -> Process] /\ proc'[p] = q
         /\ \A o \in Procs : o # p => proc'[o] = proc[o]
BY DEF Becomes

\* Nothing is to be done where a process is idle.
LEMMA IdleIsProcess == Idle \in Process
BY DEF Idle, Process

\* A process that takes up other work.
LEMMA TakesUp ==
  ASSUME proc \in [Procs -> Process], NEW p \in Procs, NEW q \in Process, Becomes(p, q),
         q.run \in {0, proc[p].run}, q.pc # "previous" => q.run = proc[p].run,
         q.pc \notin {"idle", "write"},
         q.pc \in {"previous", "create"} => q.item \in Observations,
         q.pc \in {"recheck", "send", "insert"} => q.pick \in Attempts
  PROVE  Aside(p, {q.pc}) /\ proc'[p] = q
<1>1. /\ proc' \in [Procs -> Process] /\ proc'[p] = q
      /\ \A r \in Procs : r # p => proc'[r] = proc[r]
  BY NextProcess
<1>. QED
  BY <1>1 DEF Aside, Moves, HasItsWork, At

\* Decision files are only added and completed: what one says stays.
LEMMA FilesGrow ==
  ASSUME TypeOK, [Next]_vars
  PROVE  /\ files' \in [Observations -> Seq(File)]
         /\ \A o \in Observations : \A i \in DOMAIN files[o] :
              i \in DOMAIN files'[o] /\ files'[o][i].decision = files[o][i].decision
<1>1. ASSUME NEW p \in Procs, Create(p)
      PROVE  /\ files' \in [Observations -> Seq(File)]
             /\ \A o \in Observations : \A i \in DOMAIN files[o] :
                  i \in DOMAIN files'[o] /\ files'[o][i].decision = files[o][i].decision
  <2>1. /\ proc[p] \in Process /\ proc[p].item \in Observations
        /\ files \in [Observations -> Seq(File)]
    BY <1>1 DEF TypeOK, HasItsWork, Create, At
  <2>2. PICK e \in File : files' = [files EXCEPT ![proc[p].item] = Append(@, e)]
    <3>1. PICK decision \in {"accept", "reject", "defer"} : files' = [files EXCEPT ![proc[p].item] =
            Append(@, [decision |-> decision, written |-> FALSE, expected |-> proc[p].expected])]
      BY <1>1 DEF Create
    <3>2. [decision |-> decision, written |-> FALSE, expected |-> proc[p].expected] \in File
      BY <2>1 DEF File, Process
    <3>. QED
      BY <3>1, <3>2
  <2>3. ASSUME NEW o \in Observations
        PROVE  /\ files'[o] \in Seq(File)
               /\ \A i \in DOMAIN files[o] : i \in DOMAIN files'[o] /\ files'[o][i] = files[o][i]
    <3>1. files[o] \in Seq(File)
      BY <2>1
    <3>2. files'[o] = IF o = proc[p].item THEN Append(files[o], e) ELSE files[o]
      BY <2>1, <2>2
    <3>. QED
      BY <3>1, <3>2, AppendProperties
  <2>4. files' \in [Observations -> Seq(File)]
    BY <2>1, <2>2, <2>3
  <2>. QED
    BY <2>3, <2>4
<1>2. ASSUME NEW p \in Procs, Write(p)
      PROVE  /\ files' \in [Observations -> Seq(File)]
             /\ \A o \in Observations : \A i \in DOMAIN files[o] :
                  i \in DOMAIN files'[o] /\ files'[o][i].decision = files[o][i].decision
  <2>. DEFINE c == proc[p].item  n == proc[p].position
              s == [files[c] EXCEPT ![n] = [@ EXCEPT !.written = TRUE]]
  <2>1. c \in Observations /\ n \in DOMAIN files[c] /\ files \in [Observations -> Seq(File)]
    BY <1>2 DEF TypeOK, HasItsWork, Write, At
  <2>2. files' = [files EXCEPT ![c] = s]
    BY <1>2, <2>1 DEF Write
  <2>3. files[c] \in Seq(File) /\ files[c][n] \in File
    BY <2>1
  <2>4. PICK e \in File : e = [files[c][n] EXCEPT !.written = TRUE] /\ e.decision = files[c][n].decision
    <3>. DEFINE d == files[c][n]  x == [d EXCEPT !.written = TRUE]
    <3>1. d \in File
      BY <2>3
    <3>. HIDE DEF d
    <3>2. x \in File /\ x.decision = d.decision
      BY <3>1 DEF File
    <3>. QED
      BY <3>2 DEF d
  <2>5. /\ s \in Seq(File) /\ DOMAIN s = DOMAIN files[c]
        /\ \A i \in DOMAIN s : s[i].decision = files[c][i].decision
    <3>1. s = [files[c] EXCEPT ![n] = e]
      BY <2>4
    <3>. HIDE DEF s
    <3>2. s \in Seq(File) /\ DOMAIN s = DOMAIN files[c]
      BY <2>1, <2>3, <3>1
    <3>3. \A i \in DOMAIN files[c] : s[i] = IF i = n THEN e ELSE files[c][i]
      BY <3>1
    <3>. QED
      BY <2>4, <3>2, <3>3
  <2>. HIDE DEF s
  <2>6. files' \in [Observations -> Seq(File)]
    BY <2>1, <2>2, <2>5
  <2>7. ASSUME NEW o \in Observations
        PROVE  files'[o] = IF o = c THEN s ELSE files[o]
    BY <2>1, <2>2
  <2>. QED
    BY <2>5, <2>6, <2>7
<1>3. ASSUME UNCHANGED files
      PROVE  /\ files' \in [Observations -> Seq(File)]
             /\ \A o \in Observations : \A i \in DOMAIN files[o] :
                  i \in DOMAIN files'[o] /\ files'[o][i].decision = files[o][i].decision
  BY <1>3 DEF TypeOK
<1>4. ASSUME NEW p \in Procs, ApplyAutomatic(p) \/ ReadPrevious(p) \/ Die(p) PROVE UNCHANGED files
  BY <1>4 DEF ApplyAutomatic, ReadPrevious, Die, store
<1>5. ASSUME NEW r \in Runs, \/ Begin(r) \/ BeginByHand(r) \/ Lock(r) \/ Judge(r) \/ Reread(r) \/ Rename(r)
                             \/ Reacquire(r) \/ Release(r) \/ Check(r) \/ Start(r) \/ Record(r)
      PROVE  UNCHANGED files
  BY <1>5 DEF Begin, BeginByHand, Lock, Judge, Reread, Rename, Reacquire, Release, Check, Start, Record, store
<1>6. ASSUME NEW r \in Runs, Select(r) \/ Recheck(r) \/ Send(r) \/ Insert(r) \/ Lose(r) PROVE UNCHANGED files
  BY <1>6 DEF Select, Recheck, Send, Insert, Lose, store
<1>7. ASSUME \/ \E v \in Reviewers, o \in Observations, undo \in Undo : Review(v, o, undo)
             \/ Revoke \/ NextDay \/ UNCHANGED vars
      PROVE  UNCHANGED files
  BY <1>7 DEF Review, Revoke, NextDay, vars, store
<1>. QED
  BY <1>1, <1>2, <1>3, <1>4, <1>5, <1>6, <1>7 DEF Next

\* Stopping ends the work at hand; a run goes on to its release.
LEMMA Stopping ==
  ASSUME TypeOK, NEW p \in Procs, Stop(p)
  PROVE  Aside(p, {"idle", "release"})
<1>. DEFINE q == [Idle EXCEPT !.pc = "release", !.run = proc[p].run]
<1>1. q \in Process /\ q.pc = "release" /\ q.run = proc[p].run
  BY IdleIsProcess DEF Process, TypeOK
<1>2. Idle.pc = "idle" /\ Idle.run = 0
  BY DEF Idle
<1>3. Becomes(p, q) \/ Becomes(p, Idle)
  BY DEF Stop
<1>. HIDE DEF q
<1>4. CASE Becomes(p, q)
  BY <1>1, <1>4, TakesUp DEF TypeOK, Aside
<1>5. CASE Becomes(p, Idle)
  <2>1. /\ proc' \in [Procs -> Process] /\ proc'[p] = Idle
        /\ \A r \in Procs : r # p => proc'[r] = proc[r]
    BY <1>5, IdleIsProcess, NextProcess DEF TypeOK
  <2>. QED
    BY <1>2, <2>1 DEF Aside, Moves, HasItsWork, At
<1>. QED
  BY <1>3, <1>4, <1>5

\* A reviewer who decides or undoes.
LEMMA ReviewMoves ==
  ASSUME TypeOK, NEW v \in Procs, NEW o \in Observations, NEW undo, Review(v, o, undo)
  PROVE  Aside(v, {"previous"})
<1>. DEFINE k == IF undo THEN Len(files[o]) ELSE 0
            q == [Idle EXCEPT !.pc = "previous", !.item = o, !.expected = k]
<1>0. k \in Nat
  BY LenProperties DEF TypeOK
<1>2. Becomes(v, q)
  BY DEF Review
<1>3. Idle.run = 0 /\ Idle \in Process
  BY IdleIsProcess DEF Idle
<1>. HIDE DEF k
<1>1. q \in Process /\ q.pc = "previous" /\ q.item = o /\ q.run = 0
  BY <1>0, <1>3 DEF Process
<1>. HIDE DEF q
<1>. QED
  BY <1>1, <1>2, TakesUp DEF TypeOK

\* The automatic rule takes the items of a list one by one.
LEMMA ListMoves ==
  ASSUME TypeOK, NEW p \in Procs, NEW todo \in SUBSET Observations, NEW o \in Observations, NEW auto \in BOOLEAN,
         Becomes(p, [proc[p] EXCEPT !.pc = "previous", !.item = o, !.auto = auto, !.todo = todo])
  PROVE  Aside(p, {"previous"})
<1>. DEFINE q == [proc[p] EXCEPT !.pc = "previous", !.item = o, !.auto = auto, !.todo = todo]
<1>1. proc[p] \in Process
  BY DEF TypeOK
<1>2. q \in Process /\ q.pc = "previous" /\ q.item = o /\ q.run = proc[p].run
  BY <1>1 DEF Process
<1>. HIDE DEF q
<1>3. Becomes(p, q)
  BY DEF q
<1>. QED
  BY <1>2, <1>3, TakesUp DEF TypeOK

Listing == {"idle", "release", "previous"}

\* The rest of the list: the next item, or the end.
LEMMA ContinueMoves ==
  ASSUME TypeOK, NEW p \in Procs, Continue(p)
  PROVE  Aside(p, Listing)
<1>1. CASE Stop(p)
  BY <1>1, Stopping DEF Aside, Listing
<1>2. CASE ~Stop(p)
  <2>1. PICK o \in proc[p].todo :
          Becomes(p, [proc[p] EXCEPT !.pc = "previous", !.item = o, !.todo = proc[p].todo \ {o}])
    BY <1>2 DEF Continue
  <2>2. proc[p] \in Process /\ o \in Observations /\ proc[p].todo \ {o} \in SUBSET Observations
    BY DEF TypeOK, Process
  <2>3. [proc[p] EXCEPT !.pc = "previous", !.item = o, !.todo = proc[p].todo \ {o}] =
        [proc[p] EXCEPT !.pc = "previous", !.item = o, !.auto = proc[p].auto, !.todo = proc[p].todo \ {o}]
    BY <2>2 DEF Process
  <2>4. proc[p].auto \in BOOLEAN
    BY <2>2 DEF Process
  <2>5. Aside(p, {"previous"})
    BY <2>1, <2>2, <2>3, <2>4, ListMoves
  <2>. QED
    BY <2>5 DEF Aside, Listing
<1>. QED
  BY <1>1, <1>2

\* The automatic rule lists once and takes the first item, or stops.
LEMMA AutomaticMoves ==
  ASSUME TypeOK, NEW p \in Procs, ApplyAutomatic(p)
  PROVE  Aside(p, Listing)
<1>1. CASE Stop(p)
  BY <1>1, Stopping DEF Aside, Listing
<1>2. CASE ~Stop(p)
  <2>1. PICK o \in Automatic :
          Becomes(p, [proc[p] EXCEPT !.pc = "previous", !.item = o, !.auto = TRUE, !.todo = Automatic \ {o}])
    BY <1>2 DEF ApplyAutomatic
  <2>2. Automatic \subseteq Observations
    BY DEF Automatic
  <2>3. Aside(p, {"previous"})
    BY <2>1, <2>2, ListMoves
  <2>. QED
    BY <2>3 DEF Aside, Listing
<1>. QED
  BY <1>1, <1>2

\* A process of this kind that only changes its label.
LEMMA GoesMoves ==
  ASSUME TypeOK, NEW p \in Procs, NEW label, Goes(p, label),
         label \in {"create", "record", "select", "insert", "auto", "release", "check", "start"},
         label = "create" => At(p, "previous"), label = "insert" => At(p, "send")
  PROVE  Aside(p, {label}) /\ proc'[p] = [proc[p] EXCEPT !.pc = label]
<1>. DEFINE q == [proc[p] EXCEPT !.pc = label]
<1>1. proc[p] \in Process
  BY DEF TypeOK
<1>2. /\ q \in Process /\ q.pc = label /\ q.item = proc[p].item /\ q.pick = proc[p].pick
      /\ q.run = proc[p].run
  BY <1>1 DEF Process
<1>3. HasItsWork(p)
  BY DEF TypeOK
<1>. HIDE DEF q
<1>4. Becomes(p, q)
  BY DEF Goes, q
<1>5. label = "create" => q.item \in Observations
  BY <1>2, <1>3 DEF HasItsWork, At
<1>6. label = "insert" => q.pick \in Attempts
  BY <1>2, <1>3 DEF HasItsWork, At
<1>7. Aside(p, {label}) /\ proc'[p] = q
  BY <1>2, <1>4, <1>5, <1>6, TakesUp DEF TypeOK
<1>. QED
  BY <1>7 DEF q

\* A process that ends.
LEMMA IdleMoves ==
  ASSUME TypeOK, NEW p \in Procs, Becomes(p, Idle)
  PROVE  Aside(p, {"idle"}) /\ proc'[p] = Idle
<1>1. /\ proc' \in [Procs -> Process] /\ proc'[p] = Idle
      /\ \A r \in Procs : r # p => proc'[r] = proc[r]
  BY IdleIsProcess, NextProcess DEF TypeOK
<1>2. Idle.pc = "idle" /\ Idle.run = 0
  BY DEF Idle
<1>. QED
  BY <1>1, <1>2 DEF Aside, Moves, HasItsWork, At

\* Creating a decision's file and writing it.
LEMMA CreateMoves ==
  ASSUME TypeOK, NEW p \in Procs, Create(p), files' \in [Observations -> Seq(File)]
  PROVE  Aside(p, {"write"})
<1>. DEFINE n == Len(files'[proc[p].item])
            q == [proc[p] EXCEPT !.pc = "write", !.position = n, !.expected = 0]
<1>1. proc[p] \in Process /\ proc[p].item \in Observations
  BY DEF TypeOK, Create, HasItsWork, At
<1>2. n \in DOMAIN files'[proc[p].item]
  <2>1. PICK e : files' = [files EXCEPT ![proc[p].item] = Append(@, e)]
    BY DEF Create
  <2>2. files'[proc[p].item] = Append(files[proc[p].item], e) /\ files[proc[p].item] \in Seq(File)
    BY <1>1, <2>1 DEF TypeOK
  <2>3. Len(files'[proc[p].item]) = Len(files[proc[p].item]) + 1 /\ files'[proc[p].item] \in Seq(File)
    BY <1>1, <2>2, LenProperties, AppendProperties
  <2>4. Len(files[proc[p].item]) \in Nat /\ DOMAIN files'[proc[p].item] = 1..Len(files'[proc[p].item])
    BY <2>2, <2>3, LenProperties
  <2>. QED
    BY <2>3, <2>4
<1>3. n \in Nat
  BY <1>1, LenProperties
<1>. HIDE DEF n
<1>4. q \in Process /\ q.pc = "write" /\ q.item = proc[p].item /\ q.run = proc[p].run /\ q.position = n
  BY <1>1, <1>3 DEF Process
<1>5. Becomes(p, q)
  BY DEF Create, n
<1>. HIDE DEF q
<1>6. /\ proc' \in [Procs -> Process] /\ proc'[p] = q
      /\ \A r \in Procs : r # p => proc'[r] = proc[r]
  BY <1>4, <1>5, NextProcess DEF TypeOK
<1>. QED
  BY <1>1, <1>2, <1>4, <1>6 DEF Aside, Moves, HasItsWork, At

\* Reading the earlier decisions ends in a refusal or at the free number.
LEMMA PreviousMoves ==
  ASSUME TypeOK, NEW p \in Procs, ReadPrevious(p)
  PROVE  Aside(p, {"idle", "release", "create"})
<1>1. CASE Stop(p)
  BY <1>1, Stopping DEF Aside
<1>2. CASE Goes(p, "create")
  BY <1>2, GoesMoves DEF ReadPrevious, Aside
<1>. QED
  BY <1>1, <1>2 DEF ReadPrevious

\* A run that begins has a new number.
LEMMA BeginMoves ==
  ASSUME TypeOK, NEW r \in Runs, Begin(r) \/ BeginByHand(r)
  PROVE  /\ Moves(r) /\ proc'[r].pc \in {"lock", "select"} /\ proc'[r].run = begun + 1
<1>. DEFINE q == [Idle EXCEPT !.pc = "lock", !.run = begun + 1, !.scheduled = TRUE, !.day = day]
            h == [Idle EXCEPT !.pc = "select", !.run = begun + 1]
<1>. Idle \in Process /\ begun + 1 \in Nat /\ day \in Nat
  BY IdleIsProcess DEF TypeOK
<1>a. q \in Process /\ q.pc = "lock" /\ q.run = begun + 1
  BY DEF Process
<1>b. h \in Process /\ h.pc = "select" /\ h.run = begun + 1
  BY DEF Process
<1>1. /\ q \in Process /\ h \in Process /\ q.pc = "lock" /\ h.pc = "select"
      /\ q.run = begun + 1 /\ h.run = begun + 1
  BY <1>a, <1>b
<1>2. Becomes(r, q) \/ Becomes(r, h)
  BY DEF Begin, BeginByHand
<1>. HIDE DEF q, h
<1>3. PICK e \in {q, h} : Becomes(r, e)
  BY <1>2
<1>4. /\ proc' \in [Procs -> Process] /\ proc'[r] = e
      /\ \A o \in Procs : o # r => proc'[o] = proc[o]
  BY <1>1, <1>3, NextProcess DEF TypeOK, Procs
<1>. QED
  BY <1>1, <1>4 DEF Moves, HasItsWork, At

\* The lock of a scheduled run.
LEMMA LockMoves ==
  ASSUME TypeOK, NEW r \in Runs, Lock(r)
  PROVE  \/ /\ Aside(r, {"check"})
            /\ lock = Free /\ lock' = proc[r].run
         \/ /\ Aside(r, {"judge"}) /\ proc'[r].seen = lock
            /\ lock # Free /\ lock' = lock
<1>1. r \in Procs /\ proc[r] \in Process
  BY DEF TypeOK, Procs
<1>2. CASE lock = Free
  BY <1>1, <1>2, GoesMoves DEF Lock
<1>3. CASE lock # Free
  <2>. DEFINE q == [proc[r] EXCEPT !.pc = "judge", !.seen = lock]
  <2>1. q \in Process /\ q.pc = "judge" /\ q.run = proc[r].run /\ q.seen = lock
    BY <1>1, <1>3 DEF Process, TypeOK
  <2>2. Becomes(r, q) /\ lock' = lock
    BY <1>3 DEF Lock
  <2>. HIDE DEF q
  <2>. QED
    BY <1>1, <1>3, <2>1, <2>2, TakesUp DEF TypeOK
<1>. QED
  BY <1>2, <1>3

\* A run that changes its label alone, between judging the lock and taking it.
LEMMA JudgeMoves ==
  ASSUME TypeOK, NEW r \in Runs, NEW label \in {"reread", "rename", "reacquire"}, Goes(r, label)
  PROVE  Aside(r, {label}) /\ proc'[r].seen = proc[r].seen
<1>. DEFINE q == [proc[r] EXCEPT !.pc = label]
<1>1. r \in Procs /\ proc[r] \in Process
  BY DEF TypeOK, Procs
<1>2. q \in Process /\ q.pc = label /\ q.run = proc[r].run /\ q.seen = proc[r].seen
  BY <1>1 DEF Process
<1>3. Becomes(r, q)
  BY DEF Goes
<1>. HIDE DEF q
<1>. QED
  BY <1>1, <1>2, <1>3, TakesUp DEF TypeOK

\* After the rename the lock is taken, or another run was faster.
LEMMA ReacquireMoves ==
  ASSUME TypeOK, NEW r \in Runs, Reacquire(r)
  PROVE  \/ Aside(r, {"check"}) /\ lock = Free /\ lock' = proc[r].run
         \/ Aside(r, {"idle"}) /\ lock' = lock
<1>1. r \in Procs /\ proc[r] \in Process
  BY DEF TypeOK, Procs
<1>2. CASE lock = Free
  <2>. DEFINE q == [proc[r] EXCEPT !.pc = "check", !.seen = 0]
  <2>1. q \in Process /\ q.pc = "check" /\ q.run = proc[r].run
    BY <1>1 DEF Process
  <2>2. Becomes(r, q) /\ lock' = proc[r].run
    BY <1>2 DEF Reacquire
  <2>. HIDE DEF q
  <2>. QED
    BY <1>1, <1>2, <2>1, <2>2, TakesUp DEF TypeOK
<1>3. CASE lock # Free
  BY <1>1, <1>3, IdleMoves DEF Reacquire
<1>. QED
  BY <1>2, <1>3

\* A run that recorded its start goes on as a run by hand would.
LEMMA StartMoves ==
  ASSUME TypeOK, NEW r \in Runs, Start(r)
  PROVE  Aside(r, {"record"})
<1>. DEFINE q == [proc[r] EXCEPT !.pc = "record", !.day = 0]
<1>1. r \in Procs /\ proc[r] \in Process
  BY DEF TypeOK, Procs
<1>2. q \in Process /\ q.pc = "record" /\ q.run = proc[r].run
  BY <1>1 DEF Process
<1>3. Becomes(r, q)
  BY DEF Start
<1>. HIDE DEF q
<1>. QED
  BY <1>1, <1>2, <1>3, TakesUp DEF TypeOK

\* The steps of a publication.
LEMMA SelectMoves ==
  ASSUME TypeOK, NEW r \in Runs, Select(r)
  PROVE  Aside(r, {"idle", "release", "auto", "recheck"})
<1>1. r \in Procs /\ proc[r] \in Process
  BY DEF TypeOK, Procs
<1>2. CASE Stop(r)
  BY <1>1, <1>2, Stopping DEF Aside
<1>3. CASE Goes(r, "auto") \/ Goes(r, "release")
  BY <1>1, <1>3, GoesMoves DEF Aside
<1>4. ASSUME NEW i \in Reviewed, Becomes(r, [proc[r] EXCEPT !.pc = "recheck", !.pick = Queue[i]])
      PROVE  Aside(r, {"recheck"})
  <2>. DEFINE q == [proc[r] EXCEPT !.pc = "recheck", !.pick = Queue[i]]
  <2>1. Queue[i] \in Attempts
    BY DEF Reviewed, Unpublished, Attempts
  <2>2. q \in Process /\ q.pc = "recheck" /\ q.run = proc[r].run /\ q.pick \in Attempts
    BY <1>1, <2>1 DEF Process
  <2>3. Becomes(r, q)
    BY <1>4
  <2>. HIDE DEF q
  <2>. QED
    BY <1>1, <2>2, <2>3, TakesUp DEF TypeOK
<1>5. \/ Stop(r) \/ Goes(r, "auto") \/ Goes(r, "release")
      \/ \E i \in Reviewed : Becomes(r, [proc[r] EXCEPT !.pc = "recheck", !.pick = Queue[i]])
  BY DEF Select
<1>. QED
  BY <1>2, <1>3, <1>4, <1>5 DEF Aside

\* The second gate: what a run is to send was decided by then.
LEMMA RecheckMoves ==
  ASSUME TypeOK, NEW r \in Runs, Recheck(r)
  PROVE  \/ Aside(r, {"idle", "release"})
         \/ /\ Complete(proc[r].pick) /\ proc[r].pick \in Attempts
            /\ Aside(r, {"send", "insert"})
            /\ proc'[r].pick = proc[r].pick /\ proc'[r].claims = Accepted(proc[r].pick)
            /\ At(r, "insert")' => proc'[r].claims = {}
<1>. DEFINE a == proc[r].pick
            label == IF Accepted(a) = {} THEN "insert" ELSE "send"
            q == [proc[r] EXCEPT !.claims = Accepted(a), !.pc = label]
<1>1. r \in Procs /\ proc[r] \in Process /\ a \in Attempts
  BY DEF TypeOK, Procs, HasItsWork, Recheck, At
<1>2. CASE Stop(r)
  BY <1>1, <1>2, Stopping
<1>3. CASE Complete(a) /\ Becomes(r, q)
  <2>1. Accepted(a) \subseteq Observations /\ label \in {"send", "insert"}
    BY DEF Accepted, Of
  <2>2. /\ q \in Process /\ q.pc = label /\ q.run = proc[r].run /\ q.pick = a
        /\ q.claims = Accepted(a)
    BY <1>1, <2>1 DEF Process
  <2>3. label = "insert" => Accepted(a) = {}
    OBVIOUS
  <2>. HIDE DEF q, label
  <2>4. Aside(r, {label}) /\ proc'[r] = q
    BY <1>1, <1>3, <2>1, <2>2, TakesUp DEF TypeOK
  <2>. QED
    BY <1>1, <1>3, <2>1, <2>2, <2>3, <2>4 DEF Aside, At
<1>. QED
  BY <1>2, <1>3 DEF Recheck

\* What was sent is carried on to the row.
LEMMA SendMoves ==
  ASSUME TypeOK, NEW r \in Runs, Send(r)
  PROVE  /\ Aside(r, {"insert"}) /\ proc[r].pick \in Attempts
         /\ proc'[r].pick = proc[r].pick /\ proc'[r].claims = proc[r].claims
<1>1. r \in Procs /\ proc[r] \in Process /\ proc[r].pick \in Attempts
  BY DEF TypeOK, Procs, HasItsWork, Send, At
<1>2. Aside(r, {"insert"}) /\ proc'[r] = [proc[r] EXCEPT !.pc = "insert"]
  BY <1>1, GoesMoves DEF Send
<1>. QED
  BY <1>1, <1>2 DEF Process

\* After the row a run looks for the next attempt.
LEMMA InsertMoves ==
  ASSUME TypeOK, NEW r \in Runs, Insert(r)
  PROVE  Aside(r, {"select"}) /\ proc[r].pick \in Attempts
<1>. DEFINE q == [proc[r] EXCEPT !.pc = "select", !.pick = None, !.claims = {}]
<1>1. r \in Procs /\ proc[r] \in Process /\ proc[r].pick \in Attempts
  BY DEF TypeOK, Procs, HasItsWork, Insert, At
<1>2. q \in Process /\ q.pc = "select" /\ q.run = proc[r].run
  BY <1>1 DEF Process
<1>3. Becomes(r, q)
  BY DEF Insert
<1>. HIDE DEF q
<1>. QED
  BY <1>1, <1>2, <1>3, TakesUp DEF TypeOK

\* Steps of a process that do not touch the lock, and where they lead.
Ahead == {"idle", "release", "previous", "create", "write", "record", "select", "auto", "recheck", "send",
          "insert"}
Beside(p) ==
  \/ p \in Reviewers /\ \E o \in Observations, undo \in Undo : Review(p, o, undo)
  \/ ApplyAutomatic(p) \/ ReadPrevious(p) \/ Create(p) \/ Write(p) \/ Die(p)
  \/ p \in Runs /\ (Record(p) \/ Select(p) \/ Recheck(p) \/ Send(p) \/ Insert(p) \/ Lose(p))
\* They leave the lock and the numbers, and lead to none of its places.
LEMMA BesideMoves ==
  ASSUME TypeOK, NEW p \in Procs, Beside(p), files' \in [Observations -> Seq(File)]
  PROVE  Aside(p, Ahead) /\ UNCHANGED <<lock, begun>>
<1>. DEFINE Goal == Aside(p, Ahead) /\ UNCHANGED <<lock, begun>>
<1>1. ASSUME NEW o \in Observations, NEW undo \in Undo, Review(p, o, undo) PROVE Goal
  BY <1>1, ReviewMoves DEF Review, Aside, Ahead, store, aux
<1>2. CASE ApplyAutomatic(p)
  BY <1>2, AutomaticMoves DEF ApplyAutomatic, Aside, Ahead, Listing, store, aux
<1>3. CASE ReadPrevious(p)
  BY <1>3, PreviousMoves DEF ReadPrevious, Aside, Ahead, store, aux
<1>4. CASE Create(p)
  BY <1>4, CreateMoves DEF Create, Aside, Ahead, aux
<1>5. CASE Write(p)
  BY <1>5, ContinueMoves DEF Write, Aside, Ahead, Listing, aux
<1>6. CASE Die(p)
  BY <1>6, IdleMoves DEF Die, Aside, Ahead, store
<1>7. CASE p \in Runs /\ Record(p)
  BY <1>7, GoesMoves DEF Record, Aside, Ahead, aux
<1>8. CASE p \in Runs /\ Select(p)
  BY <1>8, SelectMoves DEF Select, Aside, Ahead, store, aux
<1>9. CASE p \in Runs /\ Recheck(p)
  BY <1>9, RecheckMoves DEF Recheck, Aside, Ahead, store, aux
<1>10. CASE p \in Runs /\ Send(p)
  BY <1>10, SendMoves DEF Send, Aside, Ahead, aux
<1>11. CASE p \in Runs /\ Insert(p)
  BY <1>11, InsertMoves DEF Insert, Aside, Ahead, aux
<1>12. CASE p \in Runs /\ Lose(p)
  BY <1>12, Stopping DEF Lose, Aside, Ahead
<1>. QED
  BY <1>1, <1>2, <1>3, <1>4, <1>5, <1>6, <1>7, <1>8, <1>9, <1>10, <1>11, <1>12, Zenon DEF Beside

\* The steps around the lock, and the steps of no process.
AtTheLock(r) ==
  \/ Begin(r) \/ BeginByHand(r) \/ Lock(r) \/ Judge(r) \/ Reread(r) \/ Rename(r) \/ Reacquire(r)
  \/ Release(r) \/ Check(r) \/ Start(r)
Elsewhere == Revoke \/ NextDay \/ UNCHANGED vars
\* Every step is one of these.
LEMMA Steps ==
  ASSUME [Next]_vars
  PROVE  (\E p \in Procs : Beside(p)) \/ (\E r \in Runs : AtTheLock(r)) \/ Elsewhere
<1>1. ASSUME NEW v \in Reviewers, NEW o \in Observations, NEW undo \in Undo, Review(v, o, undo)
      PROVE  \E p \in Procs : Beside(p)
  BY <1>1 DEF Beside, Procs
<1>2. ASSUME NEW p \in Procs, ApplyAutomatic(p) \/ ReadPrevious(p) \/ Create(p) \/ Write(p) \/ Die(p)
      PROVE  Beside(p)
  BY <1>2 DEF Beside
<1>3. ASSUME NEW r \in Runs, \/ Begin(r) \/ BeginByHand(r) \/ Lock(r) \/ Judge(r) \/ Reread(r) \/ Rename(r)
                             \/ Reacquire(r) \/ Release(r) \/ Check(r) \/ Start(r)
      PROVE  AtTheLock(r)
  BY <1>3 DEF AtTheLock
<1>4. ASSUME NEW r \in Runs, Record(r) \/ Select(r) \/ Recheck(r) \/ Send(r) \/ Insert(r) \/ Lose(r)
      PROVE  r \in Procs /\ Beside(r)
  BY <1>4 DEF Beside, Procs
<1>. QED
  BY <1>1, <1>2, <1>3, <1>4, Zenon DEF Next, Elsewhere

\* The steps around the lock move one run.
LEMMA AtTheLockMoves ==
  ASSUME TypeOK, NEW r \in Runs, AtTheLock(r)
  PROVE  Moves(r)
<1>0. r \in Procs
  BY DEF Procs
<1>1. CASE Begin(r) \/ BeginByHand(r)
  BY <1>1, BeginMoves
<1>2. CASE Lock(r)
  BY <1>2, LockMoves DEF Aside
<1>3. CASE Judge(r)
  BY <1>0, <1>3, IdleMoves, JudgeMoves DEF Judge, Aside
<1>4. CASE Reread(r)
  BY <1>0, <1>4, IdleMoves, JudgeMoves DEF Reread, Aside
<1>5. CASE Rename(r)
  BY <1>0, <1>5, IdleMoves, JudgeMoves DEF Rename, Aside
<1>6. CASE Reacquire(r)
  BY <1>6, ReacquireMoves DEF Aside
<1>7. CASE Release(r)
  BY <1>0, <1>7, IdleMoves DEF Release, Aside
<1>8. CASE Check(r)
  BY <1>0, <1>8, Stopping, GoesMoves DEF Check, Aside
<1>9. CASE Start(r)
  BY <1>9, StartMoves DEF Aside
<1>. QED
  BY <1>1, <1>2, <1>3, <1>4, <1>5, <1>6, <1>7, <1>8, <1>9, Zenon DEF AtTheLock

\* What the others were at stays theirs, for decision files only grow.
LEMMA OthersMoves ==
  ASSUME TypeOK, [Next]_vars, NEW p \in Procs, Moves(p)
  PROVE  \A o \in Procs : HasItsWork(o)'
<1>. SUFFICES ASSUME NEW o \in Procs, o # p PROVE HasItsWork(o)'
  BY DEF Moves
<1>1. proc'[o] = proc[o] /\ HasItsWork(o)
  BY DEF Moves, TypeOK
<1>2. At(o, "write") => proc[o].item \in Observations /\ proc[o].position \in DOMAIN files'[proc[o].item]
  BY <1>1, FilesGrow DEF HasItsWork, At
<1>. QED
  BY <1>1, <1>2 DEF HasItsWork, At

\* The processes after a step.
LEMMA ProcessesStep ==
  ASSUME TypeOK, [Next]_vars
  PROVE  proc' \in [Procs -> Process] /\ \A o \in Procs : HasItsWork(o)'
<1>1. files' \in [Observations -> Seq(File)]
  BY FilesGrow
<1>2. CASE \E p \in Procs : Beside(p)
  BY <1>1, <1>2, BesideMoves, OthersMoves DEF Aside, Moves
<1>3. CASE \E r \in Runs : AtTheLock(r)
  BY <1>3, AtTheLockMoves, OthersMoves DEF Moves, Procs
<1>4. CASE Elsewhere
  <2>1. UNCHANGED <<files, proc>>
    BY <1>4 DEF Elsewhere, Revoke, NextDay, vars, store
  <2>. QED
    BY <2>1 DEF TypeOK, HasItsWork, At
<1>. QED
  BY <1>2, <1>3, <1>4, Steps

\* The rest of the state after a step.
StoreTyped ==
  /\ rows \in [Attempts -> {None} \union SUBSET Observations]
  /\ lock \in Nat \union {Free}
  /\ started \in SUBSET [day : Nat, run : Nat]
  /\ broker \in SUBSET [attempt : Attempts, claims : SUBSET Observations]
  /\ approved \in BOOLEAN /\ day \in Nat /\ begun \in Nat /\ faults \in Nat
\* They stay within their types.
LEMMA StoreStep ==
  ASSUME TypeOK, [Next]_vars
  PROVE  StoreTyped'
<1>0. StoreTyped /\ \A p \in Procs : proc[p] \in Process /\ HasItsWork(p)
  BY DEF TypeOK, StoreTyped
<1>1. ASSUME NEW p \in Procs, Beside(p) PROVE StoreTyped'
  <2>0. ASSUME NEW o \in Observations, NEW undo \in Undo, Review(p, o, undo) PROVE StoreTyped'
    BY <1>0, <2>0 DEF Review, store, aux, StoreTyped
  <2>1. CASE ApplyAutomatic(p) \/ ReadPrevious(p) \/ Select(p) \/ Recheck(p)
    <3>1. UNCHANGED <<rows, lock, started, broker, aux>>
      BY <2>1 DEF ApplyAutomatic, ReadPrevious, Select, Recheck, store
    <3>. QED
      BY <1>0, <3>1 DEF aux, StoreTyped
  <2>2. CASE Create(p) \/ Write(p)
    BY <1>0, <2>2 DEF Create, Write, aux, StoreTyped
  <2>3. CASE Die(p)
    BY <1>0, <2>3 DEF Die, store, StoreTyped
  <2>4. CASE Record(p)
    BY <1>0, <2>4 DEF Record, aux, StoreTyped
  <2>5. ASSUME p \in Runs, Send(p) \/ Lose(p) PROVE StoreTyped'
    <3>1. /\ [attempt |-> proc[p].pick, claims |-> proc[p].claims] \in
                 [attempt : Attempts, claims : SUBSET Observations]
      BY <1>0, <2>5 DEF HasItsWork, At, Process, Send, Lose
    <3>2. CASE Send(p)
      BY <1>0, <3>1, <3>2 DEF Send, aux, StoreTyped
    <3>3. CASE Lose(p)
      <4>1. broker' \in SUBSET [attempt : Attempts, claims : SUBSET Observations]
        BY <1>0, <3>1, <3>3 DEF Lose, StoreTyped
      <4>. QED
        BY <1>0, <3>3, <4>1 DEF Lose, StoreTyped
    <3>. QED
      BY <2>5, <3>2, <3>3
  <2>6. CASE Insert(p)
    <3>1. proc[p].claims \in SUBSET Observations
      BY <1>0 DEF Process
    <3>2. PICK c \in {None} \union SUBSET Observations : rows' = [rows EXCEPT ![proc[p].pick] = c]
      <4>. DEFINE a == proc[p].pick
      <4>1. rows' = [rows EXCEPT ![a] = IF rows[a] = None THEN proc[p].claims ELSE rows[a]] /\ a \in Attempts
        BY <1>0, <2>6 DEF Insert, HasItsWork, At
      <4>. QED
        BY <1>0, <3>1, <4>1 DEF StoreTyped
    <3>. QED
      BY <1>0, <2>6, <3>2 DEF Insert, aux, StoreTyped
  <2>. QED
    BY <1>1, <2>0, <2>1, <2>2, <2>3, <2>4, <2>5, <2>6, Zenon DEF Beside
<1>2. ASSUME NEW r \in Runs, AtTheLock(r) PROVE StoreTyped'
  <2>0. r \in Procs /\ proc[r].run \in Nat /\ proc[r].day \in Nat
    BY <1>0 DEF Procs, Process
  <2>1. CASE Begin(r) \/ BeginByHand(r)
    BY <1>0, <2>1 DEF Begin, BeginByHand, store, StoreTyped
  <2>2. CASE Lock(r) \/ Reacquire(r) \/ Rename(r) \/ Release(r)
    BY <1>0, <2>0, <2>2 DEF Lock, Reacquire, Rename, Release, aux, StoreTyped
  <2>3. CASE Judge(r) \/ Reread(r) \/ Check(r)
    BY <1>0, <2>3 DEF Judge, Reread, Check, store, aux, StoreTyped
  <2>4. CASE Start(r)
    BY <1>0, <2>0, <2>4 DEF Start, aux, StoreTyped
  <2>. QED
    BY <1>2, <2>1, <2>2, <2>3, <2>4, Zenon DEF AtTheLock
<1>3. CASE Elsewhere
  <2>1. CASE Revoke
    <3>1. approved' = FALSE /\ faults' = faults + 1 /\ UNCHANGED <<store, proc, day, begun>>
      BY <2>1, Zenon DEF Revoke
    <3>2. approved' \in BOOLEAN
      BY <3>1, Zenon
    <3>. QED
      BY <1>0, <3>1, <3>2 DEF store, StoreTyped
  <2>2. CASE NextDay
    BY <1>0, <2>2 DEF NextDay, store, StoreTyped
  <2>3. CASE UNCHANGED vars
    BY <1>0, <2>3 DEF vars, store, aux, StoreTyped
  <2>. QED
    BY <1>3, <2>1, <2>2, <2>3 DEF Elsewhere
<1>. QED
  BY <1>1, <1>2, <1>3, Steps

\* Every step keeps the types.
LEMMA TypeStep ==
  ASSUME TypeOK, [Next]_vars
  PROVE  TypeOK'
<1>1. files' \in [Observations -> Seq(File)]
  BY FilesGrow
<1>. QED
  BY <1>1, ProcessesStep, StoreStep DEF TypeOK, StoreTyped

-----------------------------------------------------------------------------
(* What is sent and recorded *)

\* A decision that was made can still be read.
LEMMA DecidedStays ==
  ASSUME TypeOK, [Next]_vars, NEW a, NEW claims, Decided(files, a, claims)
  PROVE  Decided(files', a, claims)
BY FilesGrow DEF Decided, Of

\* A complete attempt was decided as its accepted observations say.
LEMMA CompleteIsDecided ==
  ASSUME TypeOK, NEW a, Complete(a)
  PROVE  Decided(files, a, Accepted(a))
<1>. SUFFICES ASSUME NEW o \in Of(a)
              PROVE  \E i \in DOMAIN files[o] :
                       files[o][i].decision = (IF o \in Accepted(a) THEN "accept" ELSE "reject")
  BY DEF Decided
<1>1. o \in Observations /\ files[o] \in Seq(File)
  BY DEF Of, TypeOK
<1>2. Latest(o) \notin {"none", "defer"}
  BY DEF Complete, Open
<1>3. files[o] # <<>>
  BY <1>2 DEF Latest
<1>. DEFINE i == Len(files[o])
<1>4. i \in DOMAIN files[o]
  BY <1>1, <1>3, EmptySeq, LenProperties
<1>5. files[o][i].decision = Latest(o)
  BY <1>3 DEF Latest
<1>6. files[o][i].decision \in {"accept", "reject", "defer"}
  <2>1. files[o][i] \in File
    BY <1>1, <1>4, ElementOfSeq
  <2>. QED
    BY <2>1 DEF File
<1>7. o \in Accepted(a) <=> Latest(o) = "accept"
  BY DEF Accepted
<1>. HIDE DEF i
<1>. QED
  BY <1>2, <1>4, <1>5, <1>6, <1>7

\* The broker gains what a run that is at sending carries, and rows what one at recording carries.
LEMMA StoreGrows ==
  ASSUME TypeOK, [Next]_vars
  PROVE  /\ broker \subseteq broker'
         /\ \A b \in broker' \ broker : \E p \in Procs : At(p, "send") /\ b = Batch(p)
         /\ \A a \in Attempts : rows'[a] = rows[a] \/ (rows[a] = None /\ \E p \in Procs :
              At(p, "insert") /\ proc[p].pick = a /\ rows'[a] = proc[p].claims)
<1>. DEFINE Goal == /\ broker \subseteq broker'
                    /\ \A b \in broker' \ broker : \E p \in Procs : At(p, "send") /\ b = Batch(p)
                    /\ \A a \in Attempts : rows'[a] = rows[a] \/ (rows[a] = None /\ \E p \in Procs :
                         At(p, "insert") /\ proc[p].pick = a /\ rows'[a] = proc[p].claims)
<1>1. ASSUME NEW p \in Procs, Beside(p) PROVE Goal
  <2>0. ASSUME NEW o \in Observations, NEW undo \in Undo, Review(p, o, undo) PROVE UNCHANGED <<rows, broker>>
    BY <2>0 DEF Review, store
  <2>1. CASE ApplyAutomatic(p) \/ ReadPrevious(p) \/ Select(p) \/ Recheck(p) \/ Die(p)
    BY <2>1 DEF ApplyAutomatic, ReadPrevious, Select, Recheck, Die, store
  <2>2. CASE Create(p) \/ Write(p) \/ Record(p)
    BY <2>2 DEF Create, Write, Record
  <2>3. CASE Send(p)
    BY <2>3 DEF Send, Batch
  <2>4. CASE Lose(p)
    <3>1. rows' = rows /\ At(p, "send") /\ (broker' = broker \/ broker' = broker \union {Batch(p)})
      BY <2>4 DEF Lose, Batch
    <3>. QED
      BY <3>1
  <2>5. CASE Insert(p)
    <3>1. rows' = [rows EXCEPT ![proc[p].pick] = IF @ = None THEN proc[p].claims ELSE @] /\ broker' = broker
      BY <2>5 DEF Insert
    <3>2. rows \in [Attempts -> {None} \union SUBSET Observations] /\ At(p, "insert")
      BY <2>5 DEF Insert, TypeOK
    <3>. QED
      BY <3>1, <3>2
  <2>6. CASE UNCHANGED <<rows, broker>>
    BY <2>6
  <2>. HIDE DEF Goal
  <2>7. \/ \E o \in Observations, undo \in Undo : Review(p, o, undo)
        \/ ApplyAutomatic(p) \/ ReadPrevious(p) \/ Select(p) \/ Recheck(p) \/ Die(p)
        \/ Create(p) \/ Write(p) \/ Record(p) \/ Send(p) \/ Lose(p) \/ Insert(p)
    BY <1>1, Zenon DEF Beside
  <2>8. CASE \/ ApplyAutomatic(p) \/ ReadPrevious(p) \/ Select(p) \/ Recheck(p) \/ Die(p)
             \/ Create(p) \/ Write(p) \/ Record(p)
    BY <2>1, <2>2, <2>8 DEF Goal
  <2>. QED
    BY <2>0, <2>3, <2>4, <2>5, <2>6, <2>7, <2>8, Zenon
<1>2. ASSUME NEW r \in Runs, AtTheLock(r) PROVE UNCHANGED <<rows, broker>>
  BY <1>2 DEF AtTheLock, Begin, BeginByHand, Lock, Judge, Reread, Rename, Reacquire, Release, Check, Start, store
<1>3. ASSUME Elsewhere PROVE UNCHANGED <<rows, broker>>
  BY <1>3 DEF Elsewhere, Revoke, NextDay, vars, store
<1>4. CASE UNCHANGED <<rows, broker>>
  BY <1>4
<1>. QED
  BY <1>1, <1>2, <1>3, <1>4, Steps

\* Steps at the lock do not lead to a batch.
LEMMA AtTheLockCarries ==
  ASSUME TypeOK, NEW r \in Runs, AtTheLock(r)
  PROVE  proc'[r].pc \notin {"send", "insert"}
<1>0. r \in Procs
  BY DEF Procs
<1>1. CASE Begin(r) \/ BeginByHand(r)
  BY <1>1, BeginMoves
<1>2. CASE Lock(r)
  BY <1>2, LockMoves DEF Aside
<1>3. CASE Judge(r)
  BY <1>0, <1>3, IdleMoves, JudgeMoves DEF Judge, Aside
<1>4. CASE Reread(r)
  BY <1>0, <1>4, IdleMoves, JudgeMoves DEF Reread, Aside
<1>5. CASE Rename(r)
  BY <1>0, <1>5, IdleMoves, JudgeMoves DEF Rename, Aside
<1>6. CASE Reacquire(r)
  BY <1>6, ReacquireMoves DEF Aside
<1>7. CASE Release(r)
  BY <1>0, <1>7, IdleMoves DEF Release, Aside
<1>8. CASE Check(r)
  <2>1. Aside(r, {"idle", "release"}) \/ Aside(r, {"start"})
    BY <1>0, <1>8, Stopping, GoesMoves DEF Check
  <2>. QED
    BY <2>1 DEF Aside
<1>9. CASE Start(r)
  BY <1>9, StartMoves DEF Aside
<1>. QED
  BY <1>1, <1>2, <1>3, <1>4, <1>5, <1>6, <1>7, <1>8, <1>9, Zenon DEF AtTheLock

\* Of the others only the second gate and the sending do.
LEMMA BesideCarries ==
  ASSUME TypeOK, [Next]_vars, NEW p \in Procs, Beside(p), proc'[p].pc \in {"send", "insert"}
  PROVE  p \in Runs /\ (Recheck(p) \/ Send(p))
<1>0. files' \in [Observations -> Seq(File)]
  BY FilesGrow
<1>1. ASSUME NEW o \in Observations, NEW undo \in Undo, Review(p, o, undo) PROVE FALSE
  BY <1>1, ReviewMoves DEF Aside
<1>2. ~ApplyAutomatic(p)
  BY AutomaticMoves DEF Aside, Listing
<1>3. ~ReadPrevious(p)
  BY PreviousMoves DEF Aside
<1>4. ~Create(p)
  BY <1>0, CreateMoves DEF Aside
<1>5. ~Write(p)
  BY ContinueMoves DEF Write, Aside, Listing
<1>6. ~Die(p)
  BY IdleMoves DEF Die, Aside
<1>7. ~Record(p)
  <2>1. Record(p) => Aside(p, {"select"})
    BY GoesMoves DEF Record
  <2>. QED
    BY <2>1 DEF Aside
<1>8. p \in Runs => ~Select(p) /\ ~Insert(p)
  BY SelectMoves, InsertMoves DEF Aside
<1>9. ~Lose(p)
  BY Stopping DEF Lose, Aside
<1>. QED
  BY <1>1, <1>2, <1>3, <1>4, <1>5, <1>6, <1>7, <1>8, <1>9, Zenon DEF Beside

\* What runs carry after a step.
LEMMA CarriesStep ==
  ASSUME TypeOK, Faithful, [Next]_vars, NEW o \in Procs
  PROVE  Carries(o)'
<1>1. broker \subseteq broker' /\ Carries(o)
  BY StoreGrows DEF Faithful
<1>2. ASSUME proc'[o] = proc[o] PROVE Carries(o)'
  <2>1. proc[o].pc \in {"send", "insert"} => Decided(files', proc[o].pick, proc[o].claims)
    BY <1>1, DecidedStays DEF Carries
  <2>. QED
    BY <1>1, <1>2, <2>1 DEF Carries, At, Batch
<1>3. ASSUME NEW p \in Procs, Moves(p), p # o PROVE Carries(o)'
  BY <1>2, <1>3 DEF Moves
<1>4. ASSUME proc'[o].pc \notin {"send", "insert"} PROVE Carries(o)'
  BY <1>4 DEF Carries, At
<1>5. CASE \E r \in Runs : AtTheLock(r)
  BY <1>3, <1>4, <1>5, AtTheLockMoves, AtTheLockCarries DEF Procs
<1>6. CASE Elsewhere
  <2>1. UNCHANGED proc
    BY <1>6 DEF Elsewhere, Revoke, NextDay, vars
  <2>. QED
    BY <1>2, <2>1
<1>7. ASSUME NEW p \in Procs, Beside(p) PROVE Carries(o)'
  <2>0. Moves(p)
    BY <1>7, FilesGrow, BesideMoves DEF Aside
  <2>1. CASE p # o \/ proc'[o].pc \notin {"send", "insert"}
    BY <1>3, <1>4, <2>0, <2>1
  <2>2. CASE p = o /\ proc'[o].pc \in {"send", "insert"}
    <3>1. o \in Runs /\ (Recheck(o) \/ Send(o))
      BY <1>7, <2>2, BesideCarries
    <3>2. CASE Recheck(o)
      <4>1. /\ Complete(proc[o].pick) /\ proc'[o].pick = proc[o].pick /\ proc'[o].claims = Accepted(proc[o].pick)
            /\ At(o, "insert")' => proc'[o].claims = {}
        BY <2>2, <3>1, <3>2, RecheckMoves DEF Aside
      <4>2. Decided(files', proc[o].pick, Accepted(proc[o].pick))
        BY <4>1, CompleteIsDecided, DecidedStays
      <4>. QED
        BY <4>1, <4>2 DEF Carries, At
    <3>3. CASE Send(o)
      <4>1. proc'[o].pick = proc[o].pick /\ proc'[o].claims = proc[o].claims
        BY <3>1, <3>3, SendMoves
      <4>2. Decided(files', proc[o].pick, proc[o].claims)
        BY <1>1, <3>3, DecidedStays DEF Carries, Send, At
      <4>3. Batch(o) \in broker'
        BY <3>3 DEF Send, Batch
      <4>. QED
        BY <4>1, <4>2, <4>3 DEF Carries, At, Batch
    <3>. QED
      BY <3>1, <3>2, <3>3
  <2>. QED
    BY <2>1, <2>2
<1>. QED
  BY <1>5, <1>6, <1>7, Steps

\* Every step sends only what was decided and records only what was sent.
LEMMA FaithfulStep ==
  ASSUME TypeOK, Faithful, [Next]_vars
  PROVE  Faithful'
<1>1. /\ \A b \in broker : Decided(files, b.attempt, b.claims)
      /\ \A a \in Attempts : rows[a] \in {None, {}} \/ [attempt |-> a, claims |-> rows[a]] \in broker
      /\ \A p \in Procs : Carries(p)
  BY DEF Faithful, SentAndRecorded, SentWasReviewed, RowsAreSent, Decided
<1>2. ASSUME NEW b \in broker' PROVE Decided(files', b.attempt, b.claims)
  <2>1. CASE b \in broker
    BY <1>1, <2>1, DecidedStays
  <2>2. CASE b \notin broker
    <3>1. PICK p \in Procs : At(p, "send") /\ b = Batch(p)
      BY <2>2, StoreGrows
    <3>2. b.attempt = proc[p].pick /\ b.claims = proc[p].claims
      BY <3>1 DEF Batch
    <3>3. Decided(files, b.attempt, b.claims)
      BY <1>1, <3>1, <3>2 DEF Carries, At
    <3>. QED
      BY <3>3, DecidedStays
  <2>. QED
    BY <2>1, <2>2
<1>3. ASSUME NEW a \in Attempts
      PROVE  rows'[a] \in {None, {}} \/ [attempt |-> a, claims |-> rows'[a]] \in broker'
  <2>1. CASE rows'[a] = rows[a]
    BY <1>1, <2>1, StoreGrows
  <2>2. CASE rows'[a] # rows[a]
    <3>1. PICK p \in Procs : At(p, "insert") /\ proc[p].pick = a /\ rows'[a] = proc[p].claims
      BY <2>2, StoreGrows
    <3>2. proc[p].claims = {} \/ Batch(p) \in broker'
      BY <1>1, <3>1, StoreGrows DEF Carries
    <3>. QED
      BY <3>1, <3>2 DEF Batch
  <2>. QED
    BY <2>1, <2>2
<1>4. SentWasReviewed'
  BY <1>2 DEF SentWasReviewed, Decided
<1>5. RowsAreSent'
  BY <1>3 DEF RowsAreSent
<1>. QED
  BY <1>4, <1>5, CarriesStep DEF Faithful, SentAndRecorded

-----------------------------------------------------------------------------
(* The lock, and one run a day *)

\* A move that gives no new number.
LEMMA NumberedStays ==
  ASSUME TypeOK, Numbered, NEW p \in Procs, Moves(p),
         proc'[p].run \in {0, proc[p].run}, At(p, "idle")' => proc'[p].run = 0,
         begun' = begun, lock' # Free => lock' \in 1..begun,
         proc'[p].pc \in AtLock => proc'[p].run # 0,
         At(p, "judge")' => proc'[p].seen \in 1..begun
  PROVE  Numbered'
<1>1. \A r \in Runs : r \in Procs /\ proc[r].run \in Nat /\ proc'[r].run \in Nat
  BY DEF Moves, Procs, TypeOK, Process
<1>2. \A r \in Runs : r # p => proc'[r] = proc[r]
  BY <1>1 DEF Moves
<1>3. begun \in Nat
  BY DEF TypeOK
<1>4. lock' # Free => lock' \in 1..begun'
  OBVIOUS
<1>5. \A r \in Runs : proc'[r].run <= begun' /\ (proc'[r].pc = "idle" => proc'[r].run = 0)
  BY <1>1, <1>2, <1>3 DEF Numbered, At
<1>6. \A r \in Runs : proc'[r].pc \in AtLock => proc'[r].run # 0
  BY <1>2 DEF Numbered
<1>7. \A r, q \in Runs : proc'[r].run = proc'[q].run /\ proc'[r].run # 0 => r = q
  BY <1>1, <1>2 DEF Numbered
<1>8. \A r \in Runs : proc'[r].pc = "judge" => proc'[r].seen \in 1..begun'
  BY <1>2 DEF Numbered, At
<1>. QED
  BY <1>4, <1>5, <1>6, <1>7, <1>8 DEF Numbered, At

\* A move that neither takes nor frees the lock, and leads to none of the places that rely on it.
LEMMA ExclusiveStays ==
  ASSUME TypeOK, Numbered, Exclusive, NEW p \in Procs, Moves(p),
         proc'[p].run \in {0, proc[p].run, begun + 1}, begun' \in {begun, begun + 1}, lock' = lock,
         proc'[p].pc \notin {"check", "start", "reread", "rename"}
  PROVE  Exclusive'
<1>1. \A r \in Runs : r # p => proc'[r] = proc[r]
  BY DEF Moves, Procs
<1>2. begun \in Nat
  BY DEF TypeOK
<1>3. \A r \in Runs : proc'[r].pc \in {"check", "start"} => lock' = proc'[r].run
  BY <1>1 DEF Exclusive
<1>4. ASSUME NEW r \in Runs, proc'[r].pc \in {"reread", "rename"} PROVE Dead(r)'
  <2>1. r # p /\ proc'[r] = proc[r] /\ Dead(r)
    BY <1>1, <1>4 DEF Exclusive
  <2>2. proc[r].seen \in 1..begun' /\ proc[r].seen # 0 /\ proc[r].seen # begun + 1
    BY <1>2, <2>1 DEF Dead
  <2>3. \A q \in Runs : proc'[q].run # proc[r].seen
    BY <1>1, <2>1, <2>2 DEF Dead
  <2>. QED
    BY <2>1, <2>2, <2>3 DEF Dead
<1>5. \A r \in Runs : proc'[r].pc = "rename" => lock' = proc'[r].seen
  BY <1>1 DEF Exclusive, At
<1>6. \A r, q \in Runs : proc'[r].pc = "rename" /\ proc'[q].pc = "rename" => r = q
  BY <1>1 DEF Exclusive, At
<1>. QED
  BY <1>3, <1>4, <1>5, <1>6 DEF Exclusive, At

\* Nobody relies on the lock while it is free.
LEMMA FreeForAll ==
  ASSUME TypeOK, Numbered, Exclusive, lock = Free
  PROVE  \A r \in Runs : proc[r].pc \notin {"check", "start", "rename"}
<1>. SUFFICES ASSUME NEW r \in Runs, proc[r].pc \in {"check", "start", "rename"} PROVE FALSE
  OBVIOUS
<1>1. proc[r].run \in Nat /\ begun \in Nat
  BY DEF TypeOK, Process, Procs
<1>2. CASE proc[r].pc \in {"check", "start"}
  BY <1>1, <1>2, LockAssumption DEF Numbered, Exclusive, AtLock
<1>3. CASE proc[r].pc = "rename"
  BY <1>1, <1>3, LockAssumption DEF Exclusive, Dead, At
<1>. QED
  BY <1>2, <1>3

\* The lock is freed where nobody relies on it, or taken when it is free.
LEMMA ExclusiveTakes ==
  ASSUME TypeOK, Numbered, Exclusive, NEW p \in Runs, Aside(p, {"check", "idle", "reacquire"}),
         begun' = begun, At(p, "check")' => lock' = proc'[p].run,
         \A r \in Runs : r # p => proc[r].pc \notin {"check", "start", "rename"}
  PROVE  Exclusive'
<1>1. \A r \in Runs : r # p => proc'[r] = proc[r]
  BY DEF Aside, Moves, Procs
<1>2. proc'[p].pc \in {"check", "idle", "reacquire"} /\ proc'[p].run \in {0, proc[p].run}
  BY DEF Aside
<1>3. \A r \in Runs : proc'[r].pc \in {"check", "start"} => lock' = proc'[r].run
  BY <1>1, <1>2 DEF At
<1>4. ASSUME NEW r \in Runs, proc'[r].pc \in {"reread", "rename"} PROVE Dead(r)'
  <2>1. r # p /\ proc'[r] = proc[r] /\ Dead(r)
    BY <1>1, <1>2, <1>4 DEF Exclusive
  <2>2. proc[r].seen # 0
    BY <2>1 DEF Dead, TypeOK
  <2>. QED
    BY <1>1, <1>2, <2>1, <2>2 DEF Dead
<1>5. \A r \in Runs : proc'[r].pc # "rename"
  BY <1>1, <1>2
<1>. QED
  BY <1>3, <1>4, <1>5 DEF Exclusive, At

\* What a step of a process that stays with its number leaves of the numbers.
LEMMA AsideNumbered ==
  ASSUME TypeOK, Numbered, NEW p \in Procs, NEW labels, Aside(p, labels), begun' = begun,
         lock' = lock \/ lock' = Free \/ (p \in Runs /\ proc[p].pc \in AtLock /\ lock' = proc[p].run),
         proc'[p].pc \in AtLock => p \in Runs /\ proc[p].pc \in AtLock,
         At(p, "judge")' => proc'[p].seen \in 1..begun
  PROVE  Numbered'
<1>1. begun \in Nat /\ proc[p].run \in Nat
  BY DEF TypeOK, Process
<1>2. p \in Runs /\ proc[p].pc \in AtLock => proc[p].run \in 1..begun
  BY <1>1 DEF Numbered
<1>3. lock' # Free => lock' \in 1..begun
  BY <1>2 DEF Numbered
<1>4. proc'[p].pc \in AtLock => proc'[p].run # 0
  BY <1>2 DEF Aside, AtLock
<1>5. Moves(p) /\ proc'[p].run \in {0, proc[p].run} /\ (At(p, "idle")' => proc'[p].run = 0)
  BY DEF Aside
<1>. QED
  BY <1>3, <1>4, <1>5, NumberedStays

\* Steps that are not at the lock.
LEMMA BesideLock ==
  ASSUME TypeOK, Numbered, Exclusive, [Next]_vars, NEW p \in Procs, Beside(p)
  PROVE  Numbered' /\ Exclusive'
<1>1. Aside(p, Ahead) /\ UNCHANGED <<lock, begun>>
  BY FilesGrow, BesideMoves
<1>2. proc'[p].pc \notin AtLock /\ ~At(p, "judge")'
  BY <1>1 DEF Aside, Ahead, AtLock, At
<1>3. Numbered'
  BY <1>1, <1>2, AsideNumbered
<1>4. Exclusive'
  BY <1>1, <1>2, ExclusiveStays DEF Aside, AtLock
<1>. QED
  BY <1>3, <1>4

\* A new run has a new number.
LEMMA BeginLock ==
  ASSUME TypeOK, Numbered, Exclusive, NEW r \in Runs, Begin(r) \/ BeginByHand(r)
  PROVE  Numbered' /\ Exclusive'
<1>1. Moves(r) /\ proc'[r].pc \in {"lock", "select"} /\ proc'[r].run = begun + 1
  BY BeginMoves
<1>2. begun' = begun + 1 /\ lock' = lock
  BY DEF Begin, BeginByHand, store
<1>3. /\ begun \in Nat /\ r \in Procs
      /\ \A q \in Runs : q \in Procs /\ proc[q].run \in Nat /\ (q # r => proc'[q] = proc[q])
  BY <1>1 DEF TypeOK, Process, Procs, Moves
<1>4. lock' # Free => lock' \in 1..begun'
  BY <1>2, <1>3 DEF Numbered
<1>5. \A q \in Runs : proc'[q].run <= begun' /\ (proc'[q].pc = "idle" => proc'[q].run = 0)
  BY <1>1, <1>2, <1>3 DEF Numbered, At
<1>6. \A q \in Runs : proc'[q].pc \in AtLock => proc'[q].run # 0
  BY <1>1, <1>3 DEF Numbered
<1>7. \A o, q \in Runs : proc'[o].run = proc'[q].run /\ proc'[o].run # 0 => o = q
  BY <1>1, <1>3 DEF Numbered
<1>8. \A q \in Runs : proc'[q].pc = "judge" => proc'[q].seen \in 1..begun'
  BY <1>1, <1>2, <1>3 DEF Numbered, At
<1>9. Numbered'
  BY <1>4, <1>5, <1>6, <1>7, <1>8 DEF Numbered, At
<1>. QED
  BY <1>1, <1>2, <1>3, <1>9, ExclusiveStays

\* A run that stops without the lock, or goes on at it.
LEMMA StaysAtLock ==
  ASSUME TypeOK, Numbered, Exclusive, NEW r \in Runs, NEW labels, Aside(r, labels), UNCHANGED <<lock, begun>>,
         proc[r].pc \in AtLock, proc'[r].pc \notin {"check", "start", "reread", "rename"},
         At(r, "judge")' => proc'[r].seen \in 1..begun
  PROVE  Numbered' /\ Exclusive'
<1>1. r \in Procs
  BY DEF Procs
<1>2. Numbered'
  BY <1>1, AsideNumbered
<1>3. Exclusive'
  BY <1>1, ExclusiveStays DEF Aside
<1>. QED
  BY <1>2, <1>3

\* Taking the lock, at once or after a rename: nobody relied on it.
LEMMA LockLock ==
  ASSUME TypeOK, Numbered, Exclusive, NEW r \in Runs, Lock(r) \/ Reacquire(r)
  PROVE  Numbered' /\ Exclusive'
<1>1. r \in Procs /\ proc[r].pc \in AtLock /\ begun' = begun
  BY DEF Procs, Lock, Reacquire, AtLock, At, aux
<1>2. CASE Aside(r, {"check"}) /\ lock = Free /\ lock' = proc[r].run
  <2>1. proc'[r].pc = "check" /\ proc'[r].run = proc[r].run
    BY <1>2 DEF Aside
  <2>2. Aside(r, {"check", "idle", "reacquire"})
    BY <1>2 DEF Aside
  <2>3. Numbered'
    BY <1>1, <1>2, <2>1, AsideNumbered DEF At
  <2>4. Exclusive'
    BY <1>1, <1>2, <2>1, <2>2, FreeForAll, ExclusiveTakes
  <2>. QED
    BY <2>3, <2>4
<1>3. CASE /\ Aside(r, {"judge"}) /\ proc'[r].seen = lock
           /\ lock # Free /\ lock' = lock
  <2>1. proc'[r].pc = "judge" /\ lock \in 1..begun
    BY <1>3 DEF Aside, Numbered
  <2>. QED
    BY <1>1, <1>3, <2>1, StaysAtLock
<1>4. CASE Aside(r, {"idle"}) /\ lock' = lock
  <2>1. proc'[r].pc = "idle"
    BY <1>4 DEF Aside
  <2>. QED
    BY <1>1, <1>4, <2>1, StaysAtLock DEF At
<1>. QED
  BY <1>2, <1>3, <1>4, LockMoves, ReacquireMoves

\* A run that proves an owner dead: it is gone for good.
LEMMA JudgeLock ==
  ASSUME TypeOK, Numbered, Exclusive, NEW r \in Runs, Judge(r)
  PROVE  Numbered' /\ Exclusive'
<1>1. r \in Procs /\ proc[r].pc \in AtLock /\ begun' = begun /\ lock' = lock
  BY DEF Procs, Judge, AtLock, At, aux, store
<1>2. CASE Becomes(r, Idle)
  <2>1. Aside(r, {"idle"}) /\ proc'[r].pc = "idle"
    BY <1>1, <1>2, IdleMoves DEF Aside
  <2>. QED
    BY <1>1, <2>1, StaysAtLock DEF At
<1>3. CASE ~OwnerLives(proc[r].seen) /\ Goes(r, "reread")
  <2>1. Aside(r, {"reread"}) /\ proc'[r].seen = proc[r].seen
    BY <1>3, JudgeMoves
  <2>2. proc'[r].pc = "reread" /\ proc'[r].run = proc[r].run
    BY <2>1 DEF Aside
  <2>3. Numbered'
    BY <1>1, <2>1, <2>2, AsideNumbered DEF At
  <2>4. proc[r].seen \in 1..begun /\ begun \in Nat
    BY DEF Judge, Numbered, TypeOK
  <2>5. \A q \in Runs : proc[q].run # proc[r].seen
    BY <1>3, <2>4 DEF OwnerLives, Numbered
  <2>6. \A q \in Runs : q # r => proc'[q] = proc[q]
    BY <2>1 DEF Aside, Moves, Procs
  <2>7. ASSUME NEW q \in Runs, proc'[q].pc \in {"reread", "rename"} PROVE Dead(q)'
    <3>1. CASE q = r
      BY <1>1, <2>1, <2>2, <2>4, <2>5, <2>6, <3>1 DEF Dead
    <3>2. CASE q # r
      BY <1>1, <2>2, <2>6, <2>7, <3>2 DEF Dead, Exclusive
    <3>. QED
      BY <3>1, <3>2
  <2>8. Exclusive'
    BY <1>1, <2>2, <2>6, <2>7 DEF Exclusive, At
  <2>. QED
    BY <2>3, <2>8
<1>. QED
  BY <1>2, <1>3 DEF Judge

\* Only one run at a time gets from the second reading of the lock to its renaming.
LEMMA RereadLock ==
  ASSUME TypeOK, Numbered, Exclusive, Reclaimers = 1, NEW r \in Runs, Reread(r)
  PROVE  Numbered' /\ Exclusive'
<1>1. r \in Procs /\ proc[r].pc = "reread" /\ begun' = begun /\ lock' = lock
  BY DEF Procs, Reread, At, aux, store
<1>2. CASE Becomes(r, Idle)
  <2>1. Aside(r, {"idle"}) /\ proc'[r].pc = "idle"
    BY <1>1, <1>2, IdleMoves DEF Aside
  <2>. QED
    BY <1>1, <2>1, StaysAtLock DEF At, AtLock
<1>3. CASE lock = proc[r].seen /\ Goes(r, "rename")
  <2>1. Aside(r, {"rename"}) /\ proc'[r].seen = proc[r].seen
    BY <1>3, JudgeMoves
  <2>2. proc'[r].pc = "rename" /\ proc'[r].run = proc[r].run
    BY <2>1 DEF Aside
  <2>3. Numbered'
    BY <1>1, <2>1, <2>2, AsideNumbered DEF At, AtLock
  <2>4. \A q \in Runs : q # r => proc'[q] = proc[q]
    BY <2>1 DEF Aside, Moves, Procs
  <2>5. \A q \in Runs : proc[q].pc # "rename"
    <3>. DEFINE S == {q \in Runs : At(q, "rename")}
    <3>1. IsFiniteSet(S)
      BY LockAssumption, FS_Subset
    <3>2. Cardinality(S) = 0
      BY <3>1, FS_CardinalityType DEF Reread
    <3>3. S = {}
      BY <3>1, <3>2, FS_EmptySet
    <3>. QED
      BY <3>3 DEF At
  <2>6. ASSUME NEW q \in Runs, proc'[q].pc \in {"reread", "rename"} PROVE Dead(q)'
    BY <1>1, <2>1, <2>2, <2>4, <2>6 DEF Dead, Exclusive
  <2>7. Exclusive'
    BY <1>1, <1>3, <2>1, <2>2, <2>4, <2>5, <2>6 DEF Exclusive, At
  <2>. QED
    BY <2>3, <2>7
<1>. QED
  BY <1>2, <1>3 DEF Reread

\* What is renamed is the lock that was proved dead.
LEMMA RenameLock ==
  ASSUME TypeOK, Numbered, Exclusive, NEW r \in Runs, Rename(r)
  PROVE  Numbered' /\ Exclusive'
<1>1. r \in Procs /\ proc[r].pc = "rename" /\ begun' = begun /\ lock' = Free
  BY DEF Procs, Rename, At, aux
<1>2. Aside(r, {"check", "idle", "reacquire"}) /\ ~At(r, "check")' /\ ~At(r, "judge")'
  <2>1. Aside(r, {"idle"}) \/ Aside(r, {"reacquire"})
    BY <1>1, IdleMoves, JudgeMoves DEF Rename
  <2>. QED
    BY <2>1 DEF Aside, At
<1>3. ASSUME NEW q \in Runs, q # r PROVE proc[q].pc \notin {"check", "start", "rename"}
  <2>1. Dead(r) /\ lock = proc[r].seen
    BY <1>1 DEF Exclusive, At
  <2>. QED
    BY <1>1, <1>3, <2>1 DEF Exclusive, Dead, At
<1>4. Numbered'
  BY <1>1, <1>2, AsideNumbered DEF AtLock
<1>. QED
  BY <1>1, <1>2, <1>3, <1>4, ExclusiveTakes

\* A run frees no lock but its own.
LEMMA ReleaseLock ==
  ASSUME TypeOK, Numbered, Exclusive, NEW r \in Runs, Release(r)
  PROVE  Numbered' /\ Exclusive'
<1>1. r \in Procs /\ proc[r].pc = "release" /\ begun' = begun /\ lock' = IF lock = proc[r].run THEN Free ELSE lock
  BY DEF Procs, Release, At, aux
<1>2. Aside(r, {"idle"}) /\ proc'[r].pc = "idle"
  BY <1>1, IdleMoves DEF Release, Aside
<1>3. Numbered'
  BY <1>1, <1>2, AsideNumbered DEF AtLock, At
<1>4. CASE lock # proc[r].run
  <2>1. lock' = lock /\ Moves(r) /\ proc'[r].run \in {0, proc[r].run}
    BY <1>1, <1>2, <1>4 DEF Aside
  <2>. QED
    BY <1>1, <1>2, <1>3, <2>1, ExclusiveStays
<1>5. CASE lock = proc[r].run
  <2>1. ASSUME NEW q \in Runs, q # r PROVE proc[q].pc \notin {"check", "start", "rename"}
    <3>1. CASE proc[q].pc \in {"check", "start"}
      BY <1>5, <2>1, <3>1 DEF Exclusive, Numbered, AtLock
    <3>2. CASE proc[q].pc = "rename"
      BY <1>5, <3>2 DEF Exclusive, Dead, At
    <3>. QED
      BY <3>1, <3>2
  <2>2. Aside(r, {"check", "idle", "reacquire"}) /\ ~At(r, "check")'
    BY <1>2 DEF Aside, At
  <2>. QED
    BY <1>1, <1>3, <2>1, <2>2, ExclusiveTakes
<1>. QED
  BY <1>3, <1>4, <1>5

\* From the check to the start the lock stays with the run.
LEMMA CheckLock ==
  ASSUME TypeOK, Numbered, Exclusive, NEW r \in Runs, Check(r) \/ Start(r)
  PROVE  Numbered' /\ Exclusive'
<1>1. r \in Procs /\ proc[r].pc \in {"check", "start"} /\ begun' = begun /\ lock' = lock
  BY DEF Procs, Check, Start, At, aux, store
<1>2. Aside(r, {"idle", "release"}) \/ (Aside(r, {"start"}) /\ At(r, "check")) \/ Aside(r, {"record"})
  <2>1. CASE Check(r)
    <3>1. CASE Stop(r)
      BY <1>1, <3>1, Stopping
    <3>2. CASE Goes(r, "start")
      <4>1. Aside(r, {"start"})
        BY <1>1, <3>2, GoesMoves
      <4>. QED
        BY <2>1, <4>1 DEF Check
    <3>. QED
      BY <2>1, <3>1, <3>2 DEF Check
  <2>2. CASE Start(r)
    BY <2>2, StartMoves
  <2>. QED
    BY <2>1, <2>2
<1>3. CASE Aside(r, {"idle", "release"}) \/ Aside(r, {"record"})
  <2>1. Aside(r, {"idle", "release", "record"}) /\ proc'[r].pc \in {"idle", "release", "record"}
    BY <1>3 DEF Aside
  <2>. QED
    BY <1>1, <2>1, StaysAtLock DEF At, AtLock
<1>4. CASE Aside(r, {"start"}) /\ At(r, "check")
  <2>1. proc'[r].pc = "start" /\ proc'[r].run = proc[r].run
    BY <1>4 DEF Aside
  <2>2. Numbered'
    BY <1>1, <1>4, <2>1, AsideNumbered DEF At, AtLock
  <2>3. \A q \in Runs : q # r => proc'[q] = proc[q]
    BY <1>4 DEF Aside, Moves, Procs
  <2>4. ASSUME NEW q \in Runs, proc'[q].pc \in {"reread", "rename"} PROVE Dead(q)'
    <3>1. q # r /\ proc'[q] = proc[q] /\ Dead(q)
      BY <2>1, <2>3, <2>4 DEF Exclusive
    <3>2. \A o \in Runs : proc'[o].run = proc[o].run
      BY <2>1, <2>3
    <3>. QED
      BY <1>1, <3>1, <3>2 DEF Dead
  <2>5. Exclusive'
    BY <1>1, <1>4, <2>1, <2>3, <2>4 DEF Exclusive, At
  <2>. QED
    BY <2>2, <2>5
<1>. QED
  BY <1>2, <1>3, <1>4

\* Every step keeps numbers and lock.
LEMMA LockStep ==
  ASSUME TypeOK, Numbered, Exclusive, Reclaimers = 1, [Next]_vars
  PROVE  Numbered' /\ Exclusive'
<1>1. ASSUME NEW r \in Runs, AtTheLock(r) PROVE Numbered' /\ Exclusive'
  BY <1>1, BeginLock, LockLock, JudgeLock, RereadLock, RenameLock, ReleaseLock, CheckLock DEF AtTheLock
<1>2. CASE Elsewhere
  <2>1. UNCHANGED <<lock, begun, proc>>
    BY <1>2 DEF Elsewhere, Revoke, NextDay, vars, store, aux
  <2>. QED
    BY <2>1 DEF Numbered, Exclusive, Dead, At
<1>. QED
  BY <1>1, <1>2, BesideLock, Steps

\* What a step adds to the records of starts: a scheduled run's own, once it is starting, and others
\* that count for no scheduled run.
LEMMA RecordsGrow ==
  ASSUME [Next]_vars
  PROVE  /\ started \subseteq started'
         /\ \A s \in started' : s \in started \/ s.run = 0
              \/ \E r \in Runs : Start(r) /\ s = [day |-> proc[r].day, run |-> proc[r].run]
<1>. DEFINE Goal == /\ started \subseteq started'
                    /\ \A s \in started' : s \in started \/ s.run = 0
                         \/ \E r \in Runs : Start(r) /\ s = [day |-> proc[r].day, run |-> proc[r].run]
<1>1. CASE UNCHANGED started
  BY <1>1
<1>2. ASSUME NEW r \in Runs, Start(r) PROVE Goal
  <2>1. started' = started \union {[day |-> proc[r].day, run |-> proc[r].run]}
    BY <1>2 DEF Start
  <2>. QED
    BY <1>2, <2>1
<1>3. ASSUME NEW p, BeginByHand(p) \/ Record(p) PROVE Goal
  <2>1. started' = started \union {[day |-> day, run |-> 0]}
    BY <1>3 DEF BeginByHand, Record
  <2>. QED
    BY <2>1
<1>4. ASSUME NEW r \in Runs, AtTheLock(r), ~Start(r), ~BeginByHand(r) PROVE UNCHANGED started
  BY <1>4 DEF AtTheLock, Begin, Lock, Judge, Reread, Rename, Reacquire, Release, Check, store
<1>5. ASSUME NEW p \in Procs, Beside(p), ~Record(p) PROVE UNCHANGED started
  <2>1. ASSUME NEW o \in Observations, NEW undo \in Undo, Review(p, o, undo) PROVE UNCHANGED started
    BY <2>1 DEF Review, store
  <2>2. CASE ApplyAutomatic(p) \/ ReadPrevious(p) \/ Select(p) \/ Recheck(p) \/ Die(p)
    BY <2>2 DEF ApplyAutomatic, ReadPrevious, Select, Recheck, Die, store
  <2>3. CASE Create(p) \/ Write(p) \/ Send(p) \/ Insert(p) \/ Lose(p)
    BY <2>3 DEF Create, Write, Send, Insert, Lose
  <2>. QED
    BY <1>5, <2>1, <2>2, <2>3, Zenon DEF Beside
<1>6. ASSUME Elsewhere PROVE UNCHANGED started
  BY <1>6 DEF Elsewhere, Revoke, NextDay, vars, store
<1>7. ASSUME NEW p \in Procs, Beside(p) PROVE Goal
  <2>1. CASE Record(p)
    BY <1>3, <2>1
  <2>2. CASE ~Record(p)
    BY <1>1, <1>5, <1>7, <2>2
  <2>. QED
    BY <2>1, <2>2
<1>8. ASSUME NEW r \in Runs, AtTheLock(r) PROVE Goal
  <2>1. CASE BeginByHand(r)
    BY <1>3, <2>1
  <2>2. CASE Start(r)
    BY <1>2, <2>2
  <2>3. CASE ~BeginByHand(r) /\ ~Start(r)
    BY <1>1, <1>4, <1>8, <2>3
  <2>. QED
    BY <2>1, <2>2, <2>3
<1>. QED
  BY <1>1, <1>6, <1>7, <1>8, Steps, Zenon

\* A run is starting after a step if it was and kept its day, or passed the check just now.
LEMMA Starting ==
  ASSUME TypeOK, [Next]_vars, NEW r \in Runs, At(r, "start")'
  PROVE  /\ proc'[r].day = proc[r].day
         /\ \/ At(r, "start") /\ ~Start(r)
            \/ ~RanToday(proc[r].day) /\ UNCHANGED started
<1>0. r \in Procs /\ proc[r] \in Process
  BY DEF TypeOK, Procs
<1>1. ASSUME proc'[r] = proc[r], ~Start(r)
      PROVE  proc'[r].day = proc[r].day /\ At(r, "start") /\ ~Start(r)
  BY <1>1 DEF At
<1>2. ASSUME NEW p \in Procs, Beside(p) PROVE proc'[r] = proc[r] /\ ~Start(r)
  <2>1. Aside(p, Ahead)
    BY <1>2, FilesGrow, BesideMoves
  <2>2. p # r
    BY <2>1 DEF Aside, Ahead, At
  <2>3. ~Start(r)
    BY <1>0, StartMoves DEF Aside, At
  <2>. QED
    BY <1>0, <2>1, <2>2, <2>3 DEF Aside, Moves
<1>3. ASSUME Elsewhere PROVE proc'[r] = proc[r] /\ ~Start(r)
  <2>1. ~Start(r)
    BY <1>0, StartMoves DEF Aside, At
  <2>. QED
    BY <1>3, <2>1 DEF Elsewhere, Revoke, NextDay, vars
<1>4. ASSUME NEW q \in Runs, AtTheLock(q), q # r PROVE proc'[r] = proc[r] /\ ~Start(r)
  <2>1. ~Start(r)
    BY <1>0, StartMoves DEF Aside, At
  <2>. QED
    BY <1>0, <1>4, <2>1, AtTheLockMoves DEF Moves
<1>5. ASSUME AtTheLock(r) PROVE Check(r)
  <2>1. ~Begin(r) /\ ~BeginByHand(r)
    BY BeginMoves DEF At
  <2>2. ~Lock(r) /\ ~Reacquire(r)
    BY LockMoves, ReacquireMoves DEF Aside, At
  <2>3. ~Judge(r)
    BY <1>0, IdleMoves, JudgeMoves DEF Judge, Aside, At
  <2>4. ~Reread(r)
    BY <1>0, IdleMoves, JudgeMoves DEF Reread, Aside, At
  <2>5. ~Rename(r)
    BY <1>0, IdleMoves, JudgeMoves DEF Rename, Aside, At
  <2>6. ~Release(r)
    BY <1>0, IdleMoves DEF Release, Aside, At
  <2>7. ~Start(r)
    BY <1>0, StartMoves DEF Aside, At
  <2>. QED
    BY <1>5, <2>1, <2>2, <2>3, <2>4, <2>5, <2>6, <2>7 DEF AtTheLock
<1>6. ASSUME Check(r)
      PROVE  proc'[r].day = proc[r].day /\ ~RanToday(proc[r].day) /\ UNCHANGED started
  <2>1. ~Stop(r)
    BY <1>0, Stopping DEF Aside, At
  <2>2. Goes(r, "start") /\ ~RanToday(proc[r].day) /\ UNCHANGED started
    BY <1>6, <2>1 DEF Check, store
  <2>3. proc'[r] = [proc[r] EXCEPT !.pc = "start"]
    BY <1>0, <2>2, GoesMoves
  <2>. QED
    BY <1>0, <2>2, <2>3 DEF Process
<1>. QED
  BY <1>1, <1>2, <1>3, <1>4, <1>5, <1>6, Steps

\* The run that starts is the only one that passed the check.
LEMMA DailyStep ==
  ASSUME TypeOK, Numbered, Exclusive, Daily, [Next]_vars
  PROVE  Daily'
<1>1. ASSUME NEW r \in Runs, Start(r)
      PROVE  /\ At(r, "start") /\ \A s \in started : s.day = proc[r].day => s.run = 0
             /\ \A q \in Runs : At(q, "start") => q = r
  <2>1. At(r, "start")
    BY <1>1 DEF Start
  <2>2. \A q \in Runs : At(q, "start") => q = r
    BY <2>1 DEF Exclusive, Numbered, AtLock, At
  <2>. QED
    BY <2>1, <2>2 DEF Daily
<1>2. ASSUME NEW r \in Runs, At(r, "start")', NEW s \in started', s.day = proc'[r].day PROVE s.run = 0
  <2>1. proc'[r].day = proc[r].day
    BY <1>2, Starting
  <2>2. CASE ~RanToday(proc[r].day) /\ UNCHANGED started
    BY <1>2, <2>1, <2>2 DEF RanToday
  <2>3. CASE At(r, "start") /\ ~Start(r)
    <3>1. s \in started \/ s.run = 0 \/ \E q \in Runs : Start(q)
      BY RecordsGrow
    <3>2. ASSUME NEW q \in Runs, Start(q) PROVE FALSE
      BY <1>1, <2>3, <3>2
    <3>. QED
      BY <1>2, <2>1, <2>3, <3>1, <3>2 DEF Daily
  <2>. QED
    BY <1>2, <2>2, <2>3, Starting
<1>3. ASSUME NEW s \in started', NEW t \in started', s.run # 0, t.run # 0, s.day = t.day PROVE s = t
  <2>1. CASE s \in started /\ t \in started
    BY <1>3, <2>1 DEF Daily, OneRunADay
  <2>2. ASSUME NEW r \in Runs, Start(r), NEW e \in started', e.run # 0, e \notin started
        PROVE  e = [day |-> proc[r].day, run |-> proc[r].run]
    <3>1. PICK q \in Runs : Start(q) /\ e = [day |-> proc[q].day, run |-> proc[q].run]
      BY <2>2, RecordsGrow
    <3>2. q = r
      BY <1>1, <2>2, <3>1
    <3>. QED
      BY <3>1, <3>2
  <2>3. CASE s \notin started \/ t \notin started
    <3>1. PICK r \in Runs : Start(r)
      BY <1>3, <2>3, RecordsGrow
    <3>. DEFINE e == [day |-> proc[r].day, run |-> proc[r].run]
    <3>2. /\ s \notin started => s = e
          /\ t \notin started => t = e
      BY <1>3, <2>2, <3>1
    <3>3. e.day = proc[r].day
      OBVIOUS
    <3>4. \A d \in started : d.day = e.day => d.run = 0
      BY <1>1, <3>1, <3>3
    <3>. HIDE DEF e
    <3>. QED
      BY <1>3, <2>3, <3>2, <3>4
  <2>. QED
    BY <2>1, <2>3
<1>4. OneRunADay'
  BY <1>3 DEF OneRunADay
<1>. QED
  BY <1>2, <1>4 DEF Daily

-----------------------------------------------------------------------------
(* The theorems *)

\* All of it holds at first.
LEMMA FirstState ==
  ASSUME Init
  PROVE  TypeOK /\ Faithful /\ Numbered /\ Exclusive /\ Daily
<1>. \A p \in Procs : proc[p] = Idle
  BY DEF Init
<1>. Idle.pc = "idle" /\ Idle.run = 0 /\ Idle \in Process
  BY IdleIsProcess DEF Idle
<1>1. TypeOK
  <2>1. files \in [Observations -> Seq(File)]
    BY EmptySeq DEF Init
  <2>2. rows \in [Attempts -> {None} \union SUBSET Observations] /\ proc \in [Procs -> Process]
    BY DEF Init, Attempts
  <2>3. approved \in BOOLEAN
    BY Zenon DEF Init
  <2>4. \A p \in Procs : HasItsWork(p)
    BY DEF HasItsWork, At
  <2>. QED
    BY <2>1, <2>2, <2>3, <2>4 DEF TypeOK, Init
<1>2. Faithful
  BY DEF Init, Faithful, SentAndRecorded, SentWasReviewed, RowsAreSent, Carries, At, Attempts
<1>3. Numbered /\ Exclusive /\ Daily
  BY DEF Init, Numbered, Exclusive, Daily, OneRunADay, AtLock, At, Procs
<1>. QED
  BY <1>1, <1>2, <1>3

\* Every process of every run and reviewer has work of its kind at hand, and every decision, row and
\* batch is of the observations and attempts there are.
THEOREM PublicationIsTyped == Spec => []TypeOK
<1>1. Init => TypeOK
  BY FirstState
<1>2. TypeOK /\ [Next]_vars => TypeOK'
  BY TypeStep
<1>. QED
  BY <1>1, <1>2, PTL DEF Spec

\* Whatever the broker holds was finally decided, and what is recorded as published is what it holds,
\* however decisions, deaths and lost batches fall between the two gates, the sending and the row.
THEOREM PublishedIsDecided == Spec => []SentAndRecorded
<1>1. Init => TypeOK /\ Faithful
  BY FirstState
<1>2. TypeOK /\ Faithful /\ [Next]_vars => TypeOK' /\ Faithful'
  BY TypeStep, FaithfulStep
<1>3. Faithful => SentAndRecorded
  BY DEF Faithful
<1>. QED
  BY <1>1, <1>2, <1>3, PTL DEF Spec

\* A row stays what it was: no slower run replaces it.
THEOREM RowsAreFinal == Spec => RowsStay
<1>1. TypeOK /\ [Next]_vars => [\A a \in Attempts : rows[a] # None => rows'[a] = rows[a]]_vars
  BY StoreGrows
<1>. QED
  BY <1>1, PublicationIsTyped, PTL DEF Spec, RowsStay

\* The lock lets one scheduled run through to its start, and the day's record stops the next, as long
\* as no two runs are between proving a lock dead and renaming it.
THEOREM OneStartADay ==
  ASSUME Reclaimers = 1
  PROVE  Spec => []OneRunADay
<1>. DEFINE I == TypeOK /\ Numbered /\ Exclusive /\ Daily
<1>1. Init => I
  BY FirstState
<1>2. I /\ [Next]_vars => I'
  BY TypeStep, LockStep, DailyStep
<1>3. I => OneRunADay
  BY DEF Daily
<1>. HIDE DEF I
<1>. QED
  BY <1>1, <1>2, <1>3, PTL DEF Spec

=============================================================================
