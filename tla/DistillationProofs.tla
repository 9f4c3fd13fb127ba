------------------------- MODULE DistillationProofs -------------------------
(* What TLAPS proves of Distillation: the lease is exclusive and results survive, for any number of *)
(* workers, slices, jobs and days, any budget, and any number of deaths.                            *)
EXTENDS Distillation, SequenceTheorems, FiniteSetTheorems, WellFoundedInduction, TLAPS

Ends == {"pending-review", "quota-unavailable", "interrupted-unknown", "invalid-output-or-source"}
Files == Ends \union {"none", "partial"}
Holding == {"bind", "dispatch", "launch", "running", "write", "settle", "pilotSettle"}

Typed == TypeOK /\ results \in Seq(Files)

\* Where a worker is tells whether it owns an attempt, and what it has of it.
Owns(w) ==
  /\ pc[w] \in Holding => token[w] # 0
  /\ token[w] # 0 => pc[w] \in Holding \union {"ending"}
  /\ pc[w] = "reserve" => picked[w] # NoPick
  /\ pc[w] \in {"write", "settle"} => ~IsPilot(attempts[token[w]]) /\ trees[token[w]] # "active"
  /\ pc[w] = "settle" => results[token[w]] \in Ends
  /\ pc[w] = "pilotSettle" => IsPilot(attempts[token[w]])

\* What OwnerHolds says of one worker.
Holds(w) ==
  token[w] # 0 =>
    LET a == attempts[token[w]]
    IN  /\ a.state = "running"
        /\ pc[w] \in {"bind", "dispatch"} => a.phase = "reserved"
        /\ pc[w] \in {"launch", "running", "write", "settle", "pilotSettle"} => a.phase = "dispatch-intent"
        /\ ~IsPilot(a) => slices[a.slice] = "pending"
        /\ \A v \in Workers : token[v] = token[w] => v = w

\* What recovery knows of the attempt it read, and what it has proved of it before it commits.
Judges(w) ==
  pc[w] \in {"probe", "commit"} =>
    LET t == snap[w].token
        a == snap[w].attempt
    IN  /\ snap[w] # NoSnap /\ t \in Tokens /\ ~IsPilot(a) /\ a.state = "running"
        /\ pc[w] = "commit" =>
             /\ ~OwnerAlive(t)
             /\ trees[t] = "empty" \/ a.phase = "reserved"
             /\ snap[w].file # "none" => snap[w].file = "pending-review" /\ a.phase = "dispatch-intent"

\* Only the last attempt may run, and only a tree of a dispatched attempt that runs is active.
OneAt(t) ==
  /\ attempts[t].state = "running" => t = Len(attempts) /\ attempts[t].phase \in {"reserved", "dispatch-intent"}
  /\ trees[t] = "active" => attempts[t].state = "running" /\ attempts[t].phase = "dispatch-intent"

Lease ==
  /\ \A w \in Workers : Owns(w) /\ Holds(w) /\ Judges(w)
  /\ \A t \in Tokens : OneAt(t)

-----------------------------------------------------------------------------
(* Sequences and sets *)

\* A set of natural numbers has a least element.
LEMMA Least ==
  ASSUME NEW T \in SUBSET Nat, T # {}
  PROVE  Min(T) \in T
<1>. DEFINE R == OpToRel(<, Nat)
<1>1. IsWellFoundedOn(R, Nat)
  BY NatLessThanWellFounded
<1>. HIDE DEF R
<1>2. PICK x \in T : \A y \in T : ~ (<<y, x>> \in R)
  BY <1>1, WFMin, Zenon
<1>3. \A a, b \in Nat : <<a, b>> \in R <=> a < b
  BY DEF R, OpToRel
<1>4. \A y \in T : y \in Nat /\ x \in Nat /\ ~(y < x)
  BY <1>2, <1>3
<1>5. \A y \in T : x <= y
  BY <1>4
<1>. QED
  BY <1>5, Zenon DEF Min

\* Queries are answered by slices of the queue.
LEMMA FirstIsOneOf ==
  ASSUME NEW S \in SUBSET Slices, S # {}
  PROVE  FirstOf(S) \in S
<1>. DEFINE T == {n \in 1..Len(Queue) : Queue[n] \in S}
<1>1. Len(Queue) \in Nat /\ DOMAIN Queue = 1..Len(Queue)
  BY QueueAssumption, LenProperties
<1>2. T # {} /\ T \in SUBSET Nat
  BY <1>1, QueueAssumption
<1>3. Min(T) \in T
  BY <1>2, Least
<1>. QED
  BY <1>3 DEF FirstOf

\* The tables as functions of the tokens.
LEMMA Rows ==
  ASSUME Typed
  PROVE  /\ Len(attempts) \in Nat /\ Len(results) = Len(attempts) /\ Len(trees) = Len(attempts)
         /\ DOMAIN attempts = Tokens /\ DOMAIN results = Tokens /\ DOMAIN trees = Tokens
         /\ \A t \in Tokens : /\ attempts[t] \in AttemptType /\ results[t] \in Files
                              /\ trees[t] \in {"none", "active", "empty"}
         /\ Tokens = 1..Len(attempts)
<1>1. attempts \in Seq(AttemptType) /\ results \in Seq(Files) /\ trees \in Seq({"none", "active", "empty"})
      /\ Len(results) = Len(attempts) /\ Len(trees) = Len(attempts)
  BY DEF Typed, TypeOK
<1>2. Len(attempts) \in Nat /\ DOMAIN attempts = 1..Len(attempts) /\ DOMAIN results = 1..Len(results)
      /\ DOMAIN trees = 1..Len(trees)
  BY <1>1, LenProperties
<1>3. \A t \in Tokens : attempts[t] \in AttemptType
  BY <1>1, ElementOfSeq DEF Tokens
<1>4. \A t \in Tokens : results[t] \in Files
  BY <1>1, ElementOfSeq DEF Tokens
<1>5. \A t \in Tokens : trees[t] \in {"none", "active", "empty"}
  BY <1>1, ElementOfSeq DEF Tokens
<1>. QED
  BY <1>1, <1>2, <1>3, <1>4, <1>5 DEF Tokens

\* A row is rewritten.
LEMMA RowRewritten ==
  ASSUME Typed, NEW t \in Tokens, NEW a \in AttemptType, attempts' = [attempts EXCEPT ![t] = a]
  PROVE  /\ attempts' \in Seq(AttemptType) /\ Len(attempts)' = Len(attempts) /\ Tokens' = Tokens
         /\ attempts'[t] = a /\ \A u \in Tokens : u # t => attempts'[u] = attempts[u]
  BY ExceptSeq DEF Typed, TypeOK, Tokens

\* A file of a result is rewritten.
LEMMA ResultRewritten ==
  ASSUME Typed, NEW t \in Tokens, NEW f \in Files, results' = [results EXCEPT ![t] = f]
  PROVE  /\ results' \in Seq(Files) /\ Len(results') = Len(results)
         /\ results'[t] = f /\ \A u \in Tokens : u # t => results'[u] = results[u]
<1>1. results \in Seq(Files) /\ t \in 1..Len(results)
  BY Rows DEF Typed
<1>2. \A u \in Tokens : u \in 1..Len(results)
  BY Rows
<1>. QED
  BY <1>1, <1>2, ExceptSeq

\* A process tree begins or ends.
LEMMA TreeRewritten ==
  ASSUME Typed, NEW t \in Tokens, NEW x \in {"none", "active", "empty"}, trees' = [trees EXCEPT ![t] = x]
  PROVE  /\ trees' \in Seq({"none", "active", "empty"}) /\ Len(trees') = Len(trees)
         /\ trees'[t] = x /\ \A u \in Tokens : u # t => trees'[u] = trees[u]
<1>1. trees \in Seq({"none", "active", "empty"}) /\ t \in 1..Len(trees)
  BY Rows DEF Typed, TypeOK
<1>2. \A u \in Tokens : u \in 1..Len(trees)
  BY Rows
<1>. QED
  BY <1>1, <1>2, ExceptSeq

\* A row is added, with its result and its tree.
LEMMA RowAdded ==
  ASSUME Typed, NEW a \in AttemptType, NEW w \in Workers, AddAttempt(w, a)
  PROVE  /\ attempts' \in Seq(AttemptType) /\ results' \in Seq(Files) /\ trees' \in Seq({"none", "active", "empty"})
         /\ Len(attempts') = Len(attempts) + 1 /\ Len(results') = Len(attempts') /\ Len(trees') = Len(attempts')
         /\ Tokens' = Tokens \union {Len(attempts) + 1} /\ Len(attempts) + 1 \notin Tokens
         /\ \A u \in Tokens : attempts'[u] = attempts[u] /\ results'[u] = results[u] /\ trees'[u] = trees[u]
         /\ attempts'[Len(attempts) + 1] = a /\ results'[Len(attempts) + 1] = "none"
         /\ trees'[Len(attempts) + 1] = "none"
<1>. DEFINE N == Len(attempts)
<1>1. N \in Nat /\ Len(results) = N /\ Len(trees) = N /\ Tokens = 1..N
      /\ attempts \in Seq(AttemptType) /\ results \in Seq(Files) /\ trees \in Seq({"none", "active", "empty"})
  BY Rows DEF Typed, TypeOK
<1>2. attempts' = Append(attempts, a) /\ results' = Append(results, "none") /\ trees' = Append(trees, "none")
  BY DEF AddAttempt
<1>3. "none" \in Files /\ "none" \in {"none", "active", "empty"}
  BY DEF Files
<1>4. attempts' \in Seq(AttemptType) /\ Len(attempts') = N + 1 /\ attempts'[N + 1] = a
      /\ \A u \in 1..N : attempts'[u] = attempts[u]
  BY <1>1, <1>2, AppendProperties
<1>5. results' \in Seq(Files) /\ Len(results') = N + 1 /\ results'[N + 1] = "none"
      /\ \A u \in 1..N : results'[u] = results[u]
  BY <1>1, <1>2, <1>3, AppendProperties
<1>6. trees' \in Seq({"none", "active", "empty"}) /\ Len(trees') = N + 1 /\ trees'[N + 1] = "none"
      /\ \A u \in 1..N : trees'[u] = trees[u]
  BY <1>1, <1>2, <1>3, AppendProperties
<1>7. 1..(N + 1) = 1..N \union {N + 1} /\ N + 1 \notin 1..N
  BY <1>1
<1>. QED
  BY <1>1, <1>4, <1>5, <1>6, <1>7 DEF Tokens

-----------------------------------------------------------------------------
(* Types *)

\* The label of one worker changes.
LEMMA Goes ==
  ASSUME Typed, NEW w \in Workers, NEW label, GoTo(w, label)
  PROVE  pc'[w] = label /\ \A v \in Workers \ {w} : pc'[v] = pc[v]
  BY DEF Typed, TypeOK, GoTo

\* What is selected is a slice.
LEMMA Selected ==
  ASSUME NEW w, Select(w)
  PROVE  \E s \in Slices : picked' = [picked EXCEPT ![w] = [slice |-> s, day |-> day]]
<1>. DEFINE lane == IF DocumentTurn THEN "document" ELSE "transcript"
<1>1. Candidates(lane) # {} /\ Candidates(lane) \in SUBSET Slices
  BY DEF Select, DocumentTurn, Candidates
<1>2. FirstOf(Candidates(lane)) \in Slices
  BY <1>1, FirstIsOneOf
<1>3. picked' = [picked EXCEPT ![w] = [slice |-> FirstOf(Candidates(lane)), day |-> day]]
  BY DEF Select
<1>. QED
  BY <1>2, <1>3

\* What is put into a row keeps it a row.
LEMMA Row ==
  ASSUME NEW a \in AttemptType, NEW state \in States, NEW phase \in Phases
  PROVE  /\ [a EXCEPT !.state = state, !.phase = phase] \in AttemptType
         /\ [a EXCEPT !.bound = TRUE] \in AttemptType
  BY DEF AttemptType

\* What a reservation puts into the table is a row of it.
LEMMA NewRow ==
  ASSUME Typed, NEW slice \in Slices \union {NoSlice}, NEW provider \in {"claude", "codex"},
         NEW seconds \in Nat, NEW phase \in {"reserved", "dispatch-intent"}, NEW bound \in BOOLEAN
  PROVE  Attempt(slice, provider, seconds, phase, bound) \in AttemptType
  BY DEF Typed, TypeOK, Attempt, AttemptType, States, Phases

\* An update of a row that exists.
LEMMA Updated ==
  ASSUME Typed, NEW t \in Tokens, NEW state \in States, NEW phase \in Phases, Update(t, state, phase)
  PROVE  /\ attempts' \in Seq(AttemptType) /\ Len(attempts)' = Len(attempts) /\ Tokens' = Tokens
         /\ attempts'[t] = [attempts[t] EXCEPT !.state = state, !.phase = phase]
         /\ \A u \in Tokens : u # t => attempts'[u] = attempts[u]
<1>1. attempts[t] \in AttemptType
  BY Rows
<1>2. [attempts[t] EXCEPT !.state = state, !.phase = phase] \in AttemptType
  BY <1>1, Row
<1>3. attempts' = [attempts EXCEPT ![t] = [attempts[t] EXCEPT !.state = state, !.phase = phase]]
  BY Rows DEF Update
<1>. QED
  BY <1>2, <1>3, RowRewritten

\* A worker whose label needs an attempt has one.
LEMMA Owned ==
  ASSUME Typed, Lease, NEW w \in Workers, pc[w] \in Holding
  PROVE  token[w] \in Tokens /\ attempts[token[w]].state = "running" /\ attempts[token[w]] \in AttemptType
<1>1. token[w] \in 0..Len(attempts) /\ token[w] # 0
  BY DEF Typed, TypeOK, Lease, Owns
<1>2. token[w] \in Tokens
  BY <1>1, Rows
<1>. QED
  BY <1>1, <1>2, Rows DEF Lease, Holds

\* A label stays one of the labels.
LEMMA GoesType ==
  ASSUME Typed, NEW w, NEW label \in Labels, GoTo(w, label)
  PROVE  pc' \in [Workers -> Labels]
  BY DEF Typed, TypeOK, GoTo

\* A job is pending or awaits review.
LEMMA ReviewableType ==
  ASSUME Typed, NEW s \in Slices, NEW new
  PROVE  Reviewable(s, new) \in [Jobs -> {"pending", "pending-review"}]
  BY DEF Typed, TypeOK, Reviewable

\* What a recovery writes.
LEMMA RecoveredType ==
  ASSUME NEW a, NEW file
  PROVE  Recovered(a, file).state \in States /\ Recovered(a, file).phase \in Phases
         /\ (a.phase # "reserved" \/ file # "none" => Recovered(a, file).state \in SliceStates \ {"pending"})
  BY DEF Recovered, States, Phases, SliceStates

\* What a process forgets.
LEMMA ForgetType ==
  ASSUME Typed, NEW w \in Workers, Forget(w)
  PROVE  /\ policy' \in [Workers -> SUBSET Jobs] /\ calls' \in [Workers -> Nat]
         /\ picked' \in [Workers -> {NoPick} \union [slice : Slices, day : Nat]]
         /\ token' \in [Workers -> 0..Len(attempts)] /\ snap' \in [Workers -> SnapType]
<1>1. Len(attempts) \in Nat
  BY Rows
<1>2. policy' \in [Workers -> SUBSET Jobs] /\ calls' \in [Workers -> Nat]
  BY DEF Forget, Typed, TypeOK
<1>3. picked' \in [Workers -> {NoPick} \union [slice : Slices, day : Nat]]
  BY DEF Forget, Typed, TypeOK
<1>4. token' \in [Workers -> 0..Len(attempts)]
  BY <1>1 DEF Forget, Typed, TypeOK
<1>5. snap' \in [Workers -> SnapType]
  BY DEF Forget, Typed, TypeOK, SnapType
<1>. QED
  BY <1>2, <1>3, <1>4, <1>5

\* Every step keeps the types.
LEMMA TypedStep ==
  ASSUME Typed, Lease, [Next]_vars
  PROVE  Typed'
<1>. USE BoundsAssumption DEF table, locals, bounds
<1>1. Labels = {"down", "recover", "probe", "commit", "consume", "reserve", "bind", "dispatch",
                "launch", "running", "write", "settle", "pilotSettle", "ending"}
  BY DEF Labels
<1>2. ASSUME NEW w \in Workers, StartDaily(w) PROVE Typed'
  <2>1. pc' \in [Workers -> Labels]
    BY <1>1, <1>2, GoesType DEF StartDaily
  <2>. QED
    BY <1>2, <2>1 DEF StartDaily, Typed, TypeOK
<1>3. ASSUME NEW w \in Workers, Stop(w) PROVE Typed'
  <2>1. pc' \in [Workers -> Labels]
    BY <1>1, <1>3, GoesType DEF Stop
  <2>. QED
    BY <1>3, <2>1, ForgetType DEF Stop, Typed, TypeOK
<1>4. ASSUME NEW w \in Workers, Throw(w) PROVE Typed'
  <2>1. pc' \in [Workers -> Labels]
    BY <1>1, <1>4, GoesType DEF Throw
  <2>. QED
    BY <1>4, <2>1 DEF Throw, Typed, TypeOK
<1>5. ASSUME NEW w \in Workers, Crash(w) PROVE Typed'
  <2>1. pc' \in [Workers -> Labels]
    BY <1>1, <1>5, GoesType DEF Crash
  <2>2. Len(attempts) \in Nat /\ Len(results) = Len(attempts)
    BY Rows
  <2>3. results' \in Seq(Files) /\ Len(results') = Len(results)
    <3>1. CASE UNCHANGED results
      BY <3>1 DEF Typed
    <3>2. CASE pc[w] = "write" /\ results' = [results EXCEPT ![token[w]] = "partial"]
      <4>1. token[w] \in Tokens
        BY <3>2, Owned DEF Holding
      <4>2. "partial" \in Files
        BY DEF Files
      <4>. QED
        BY <3>2, <4>1, <4>2, ResultRewritten
    <3>. QED
      BY <1>5, <3>1, <3>2 DEF Crash
  <2>4. results' \in Seq(SliceStates \union {"none", "partial"})
    BY <2>3, SeqMonotonic DEF Files, Ends, SliceStates
  <2>5. Forget(w) /\ UNCHANGED <<table, trees, excluded, day, edits>> /\ crashes' = crashes + 1
    BY <1>5 DEF Crash
  <2>6. Len(results') = Len(attempts') /\ crashes' \in Nat
    BY <2>2, <2>3, <2>5 DEF Typed, TypeOK
  <2>. QED
    BY <2>1, <2>3, <2>4, <2>5, <2>6, ForgetType DEF Typed, TypeOK
<1>6. ASSUME NEW w \in Workers, PolicyChanged(w) \/ Idle(w) \/ Unresolved(w) PROVE Typed'
  <2>1. pc' \in [Workers -> Labels]
    BY <1>1, <1>6, GoesType DEF PolicyChanged, Idle, Unresolved
  <2>. QED
    BY <1>6, <2>1 DEF PolicyChanged, Idle, Unresolved, Typed, TypeOK
<1>7. ASSUME NEW w \in Workers, Select(w) PROVE Typed'
  <2>1. pc' \in [Workers -> Labels]
    BY <1>1, <1>7, GoesType DEF Select
  <2>2. picked' \in [Workers -> {NoPick} \union [slice : Slices, day : Nat]]
    BY <1>7, Selected DEF Typed, TypeOK
  <2>3. calls' \in [Workers -> Nat]
    BY <1>7 DEF Select, Typed, TypeOK
  <2>. QED
    BY <1>7, <2>1, <2>2, <2>3 DEF Select, Typed, TypeOK
<1>8. ASSUME NEW w \in Workers, Refused(w) PROVE Typed'
  <2>1. pc' \in [Workers -> Labels]
    BY <1>1, <1>8, GoesType DEF Refused
  <2>. QED
    BY <1>8, <2>1 DEF Refused, Typed, TypeOK
<1>9. ASSUME NEW w \in Workers, NEW a \in AttemptType, AddAttempt(w, a), a.seconds \in Nat
      PROVE  /\ attempts' \in Seq(AttemptType) /\ results' \in Seq(Files) /\ Len(results') = Len(attempts')
             /\ results' \in Seq(SliceStates \union {"none", "partial"})
             /\ trees' \in Seq({"none", "active", "empty"}) /\ Len(trees') = Len(attempts')
             /\ token' \in [Workers -> 0..Len(attempts')] /\ budget' \in [0..MaxDay -> Nat]
  <2>1. results' \in Seq(SliceStates \union {"none", "partial"})
    BY <1>9, RowAdded, SeqMonotonic DEF Files, Ends, SliceStates
  <2>2. Len(attempts) \in Nat /\ Len(attempts') = Len(attempts) + 1
    BY <1>9, RowAdded, Rows
  <2>3. token' \in [Workers -> 0..Len(attempts')]
    BY <1>9, <2>2 DEF AddAttempt, Typed, TypeOK
  <2>4. budget' \in [0..MaxDay -> Nat]
    <3>1. budget \in [0..MaxDay -> Nat] /\ day \in 0..MaxDay /\ budget' = [budget EXCEPT ![day] = @ + a.seconds]
      BY <1>9 DEF AddAttempt, Typed, TypeOK
    <3>2. budget[day] + a.seconds \in Nat
      BY <1>9, <3>1
    <3>. QED
      BY <3>1, <3>2
  <2>. QED
    BY <1>9, <2>1, <2>3, <2>4, RowAdded
<1>10. ASSUME NEW w \in Workers, Reserve(w) PROVE Typed'
  <2>1. pc' \in [Workers -> Labels]
    BY <1>1, <1>10, GoesType DEF Reserve
  <2>2. picked[w].slice \in Slices
    BY <1>10 DEF Reserve, Lease, Owns, Typed, TypeOK
  <2>. DEFINE a == Attempt(picked[w].slice, Provider, AttemptSeconds, "reserved", FALSE)
  <2>3. a \in AttemptType /\ a.seconds \in Nat
    BY <2>2, NewRow DEF Provider, Attempt
  <2>4. AddAttempt(w, a)
    BY <1>10 DEF Reserve
  <2>. HIDE DEF a
  <2>. QED
    BY <1>9, <1>10, <2>1, <2>3, <2>4 DEF Reserve, Typed, TypeOK
<1>11. ASSUME NEW w \in Workers, NEW approval \in Approvals, PilotReserve(w, approval) PROVE Typed'
  <2>1. pc' \in [Workers -> Labels]
    BY <1>1, <1>11, GoesType DEF PilotReserve
  <2>. DEFINE a == Attempt(NoSlice, "claude", PilotSeconds, "dispatch-intent", TRUE)
  <2>3. a \in AttemptType /\ a.seconds \in Nat
    BY NewRow DEF Attempt
  <2>4. AddAttempt(w, a)
    BY <1>11 DEF PilotReserve
  <2>. HIDE DEF a
  <2>. QED
    BY <1>9, <1>11, <2>1, <2>3, <2>4 DEF PilotReserve, Typed, TypeOK
<1>12. ASSUME NEW w \in Workers, Bind(w) PROVE Typed'
  <2>1. pc' \in [Workers -> Labels]
    BY <1>1, <1>12, GoesType DEF Bind
  <2>2. token[w] \in Tokens /\ attempts[token[w]] \in AttemptType
    BY <1>12, Owned DEF Bind, Holding
  <2>3. [attempts[token[w]] EXCEPT !.bound = TRUE] \in AttemptType
    BY <2>2 DEF AttemptType
  <2>4. attempts' = [attempts EXCEPT ![token[w]] = [attempts[token[w]] EXCEPT !.bound = TRUE]]
    BY <1>12, <2>2, Rows DEF Bind
  <2>5. attempts' \in Seq(AttemptType) /\ Len(attempts)' = Len(attempts)
    BY <2>2, <2>3, <2>4, RowRewritten
  <2>. QED
    BY <1>12, <2>1, <2>5 DEF Bind, Typed, TypeOK
<1>13. ASSUME NEW w \in Workers, MarkDispatch(w) PROVE Typed'
  <2>1. pc' \in [Workers -> Labels]
    BY <1>1, <1>13, GoesType DEF MarkDispatch
  <2>2. token[w] \in Tokens
    BY <1>13, Owned DEF MarkDispatch, Holding
  <2>3. "running" \in States /\ "dispatch-intent" \in Phases
    BY DEF States, Phases
  <2>4. attempts' \in Seq(AttemptType) /\ Len(attempts)' = Len(attempts)
    BY <1>13, <2>2, <2>3, Updated DEF MarkDispatch
  <2>. QED
    BY <1>13, <2>1, <2>4 DEF MarkDispatch, Typed, TypeOK
<1>14. ASSUME NEW w \in Workers, Launch(w) \/ Finish(w) PROVE Typed'
  <2>1. pc' \in [Workers -> Labels]
    BY <1>1, <1>14, GoesType DEF Launch, Finish
  <2>2. token[w] \in Tokens
    BY <1>14, Owned DEF Launch, Finish, Holding
  <2>3. PICK x \in {"none", "active", "empty"} : trees' = [trees EXCEPT ![token[w]] = x]
    BY <1>14 DEF Launch, Finish
  <2>4. trees' \in Seq({"none", "active", "empty"}) /\ Len(trees') = Len(trees)
    BY <2>2, <2>3, TreeRewritten
  <2>. QED
    BY <1>14, <2>1, <2>4 DEF Launch, Finish, Typed, TypeOK
<1>15. ASSUME NEW t \in Tokens, TreeEnds(t) PROVE Typed'
  <2>1. trees' \in Seq({"none", "active", "empty"}) /\ Len(trees') = Len(trees)
    BY <1>15, TreeRewritten DEF TreeEnds
  <2>. QED
    BY <1>15, <2>1 DEF TreeEnds, Typed, TypeOK
<1>16. ASSUME NEW w \in Workers, WriteResult(w) PROVE Typed'
  <2>1. pc' \in [Workers -> Labels]
    BY <1>1, <1>16, GoesType DEF WriteResult
  <2>2. token[w] \in Tokens
    BY <1>16, Owned DEF WriteResult, Holding
  <2>3. PICK f \in Files : results' = [results EXCEPT ![token[w]] = f]
    BY <1>16 DEF WriteResult, ResultState, Files, Ends
  <2>4. results' \in Seq(Files) /\ Len(results') = Len(results)
    BY <2>2, <2>3, ResultRewritten
  <2>5. results' \in Seq(SliceStates \union {"none", "partial"})
    BY <2>4, SeqMonotonic DEF Files, Ends, SliceStates
  <2>. QED
    BY <1>16, <2>1, <2>4, <2>5 DEF WriteResult, Typed, TypeOK
<1>17. ASSUME NEW w \in Workers, Settle(w) PROVE Typed'
  <2>1. pc' \in [Workers -> Labels]
    BY <1>1, <1>17, GoesType DEF Settle, After
  <2>. DEFINE t == token[w]
  <2>2. t \in Tokens /\ attempts[t] \in AttemptType /\ attempts[t].slice \in Slices
        /\ results[t] \in Ends
    BY <1>17, Owned DEF Settle, Holding, Lease, Owns, IsPilot, AttemptType
  <2>3. results[t] \in States /\ "finished" \in Phases /\ results[t] \in SliceStates /\ "pending" \in SliceStates
    BY <2>2 DEF Ends, States, Phases, SliceStates
  <2>4. attempts' \in Seq(AttemptType) /\ Len(attempts)' = Len(attempts)
    BY <1>17, <2>2, <2>3, Updated DEF Settle
  <2>5. slices' \in [Slices -> SliceStates]
    BY <1>17, <2>3 DEF Settle, Typed, TypeOK
  <2>6. jobs' \in [Jobs -> {"pending", "pending-review"}]
    BY <1>17, <2>2, ReviewableType DEF Settle
  <2>7. token' \in [Workers -> 0..Len(attempts')]
    BY <1>17, <2>4, Rows DEF Settle, Typed, TypeOK
  <2>8. quota' \in BOOLEAN
    BY <1>17 DEF Settle
  <2>. QED
    BY <1>17, <2>1, <2>4, <2>5, <2>6, <2>7, <2>8 DEF Settle, Typed, TypeOK
<1>18. ASSUME NEW w \in Workers, PilotSettle(w) PROVE Typed'
  <2>1. pc' \in [Workers -> Labels]
    BY <1>1, <1>18, GoesType DEF PilotSettle
  <2>2. token[w] \in Tokens
    BY <1>18, Owned DEF PilotSettle, Holding
  <2>3. "pilot-process-ended" \in States /\ "finished" \in Phases
    BY DEF States, Phases
  <2>4. attempts' \in Seq(AttemptType) /\ Len(attempts)' = Len(attempts)
    BY <1>18, <2>2, <2>3, Updated DEF PilotSettle
  <2>5. token' \in [Workers -> 0..Len(attempts')]
    BY <1>18, <2>4, Rows DEF PilotSettle, Typed, TypeOK
  <2>. QED
    BY <1>18, <2>1, <2>4, <2>5 DEF PilotSettle, Typed, TypeOK
<1>19. ASSUME NEW w \in Workers, RecoverRead(w) PROVE Typed'
  <2>1. pc' \in [Workers -> Labels]
    BY <1>1, <1>19, GoesType DEF RecoverRead
  <2>2. ASSUME NEW t \in Tokens
        PROVE  [token |-> t, attempt |-> attempts[t], file |-> results[t]] \in SnapType
    BY Rows DEF SnapType, Files, Ends, States
  <2>3. snap' \in [Workers -> SnapType]
    <3>1. CASE \E t \in Running : Readable(t)
      <4>. DEFINE t == CHOOSE u \in Running : Readable(u)
      <4>1. t \in Tokens
        BY <3>1 DEF Running
      <4>2. snap' = [snap EXCEPT ![w] = [token |-> t, attempt |-> attempts[t], file |-> results[t]]]
        BY <1>19, <3>1 DEF RecoverRead
      <4>. HIDE DEF t
      <4>. QED
        BY <2>2, <4>1, <4>2 DEF Typed, TypeOK
    <3>2. CASE ~\E t \in Running : Readable(t)
      BY <1>19, <3>2 DEF RecoverRead, Typed, TypeOK
    <3>. QED
      BY <3>1, <3>2
  <2>. QED
    BY <1>19, <2>1, <2>3 DEF RecoverRead, Typed, TypeOK
<1>20. ASSUME NEW w \in Workers, RecoverCheck(w) PROVE Typed'
  <2>1. pc' \in [Workers -> Labels]
    BY <1>1, <1>20, GoesType DEF RecoverCheck
  <2>2. snap' \in [Workers -> SnapType]
    BY <1>20 DEF RecoverCheck, Typed, TypeOK, SnapType
  <2>. QED
    BY <1>20, <2>1, <2>2 DEF RecoverCheck, Typed, TypeOK
<1>21. ASSUME NEW w \in Workers, RecoverCommit(w) PROVE Typed'
  <2>1. pc' \in [Workers -> Labels]
    BY <1>1, <1>21, GoesType DEF RecoverCommit
  <2>2. snap' \in [Workers -> SnapType]
    BY <1>21 DEF RecoverCommit, Typed, TypeOK, SnapType
  <2>. DEFINE t == snap[w].token
              end == Recovered(snap[w].attempt, snap[w].file)
  <2>3. t \in Tokens
    BY <1>21 DEF RecoverCommit, Lease, Judges
  <2>4. CASE ~Same(w)
    BY <1>21, <2>1, <2>2, <2>4 DEF RecoverCommit, Typed, TypeOK
  <2>5. CASE Same(w)
    <3>1. attempts[t].slice \in Slices
      BY <1>21, <2>3, <2>5, Rows DEF Same, RecoverCommit, Lease, Judges, IsPilot, AttemptType
    <3>2. attempts' \in Seq(AttemptType) /\ Len(attempts)' = Len(attempts)
      BY <1>21, <2>3, <2>5, Updated, RecoveredType DEF RecoverCommit
    <3>3. slices' \in [Slices -> SliceStates]
      <4>1. slices' = IF snap[w].attempt.phase = "reserved" THEN slices ELSE [slices EXCEPT ![attempts[t].slice] = end.state]
        BY <1>21, <2>5 DEF RecoverCommit
      <4>2. snap[w].attempt.phase # "reserved" => end.state \in SliceStates
        BY RecoveredType
      <4>. HIDE DEF end
      <4>. QED
        BY <4>1, <4>2 DEF Typed, TypeOK
    <3>4. jobs' \in [Jobs -> {"pending", "pending-review"}]
      <4>1. jobs' = jobs \/ jobs' = Reviewable(attempts[t].slice, slices')
        BY <1>21, <2>5 DEF RecoverCommit
      <4>. QED
        BY <3>1, <4>1, ReviewableType DEF Typed, TypeOK
    <3>. QED
      BY <1>21, <2>1, <2>2, <3>2, <3>3, <3>4 DEF RecoverCommit, Typed, TypeOK
  <2>. QED
    BY <2>4, <2>5
<1>22. ASSUME \/ \E seconds \in Limits : ConfigureBudget(seconds)
              \/ \E j \in Jobs : EditPolicy(j)
              \/ NextDay \/ UNCHANGED vars
       PROVE  Typed'
  <2>1. ASSUME NEW seconds \in Limits, ConfigureBudget(seconds) PROVE Typed'
    BY <2>1 DEF ConfigureBudget, Typed, TypeOK
  <2>2. ASSUME NEW j \in Jobs, EditPolicy(j) PROVE Typed'
    BY <2>2 DEF EditPolicy, Typed, TypeOK
  <2>3. CASE NextDay
    BY <2>3 DEF NextDay, Typed, TypeOK
  <2>4. CASE UNCHANGED vars
    BY <2>4 DEF vars, Typed, TypeOK
  <2>. QED
    BY <1>22, <2>1, <2>2, <2>3, <2>4
<1>. QED
  BY <1>2, <1>3, <1>4, <1>5, <1>6, <1>7, <1>8, <1>10, <1>11, <1>12, <1>13, <1>14, <1>15, <1>16, <1>17,
     <1>18, <1>19, <1>20, <1>21, <1>22 DEF Next, Proceed

-----------------------------------------------------------------------------
(* The lease *)

\* OwnerHolds, worker by worker.
LEMMA HoldsAll ==
  ASSUME Typed
  PROVE  OwnerHolds <=> \A w \in Workers : Holds(w)
<1>1. DOMAIN token = Workers
  BY DEF Typed, TypeOK
<1>. QED
  BY <1>1 DEF OwnerHolds, Holds

\* There is one owner at most: what runs is the last attempt.
LEMMA OneOwner ==
  ASSUME Typed, Lease, NEW v \in Workers, NEW w \in Workers, token[v] # 0, token[w] # 0
  PROVE  v = w
<1>1. token[v] \in Tokens /\ token[w] \in Tokens
  BY Rows DEF Typed, TypeOK
<1>2. token[v] = Len(attempts) /\ token[w] = Len(attempts)
  BY <1>1 DEF Lease, Holds, OneAt
<1>. QED
  BY <1>2 DEF Lease, Holds

\* The other workers stay where they are.
Aside(w) ==
  \A v \in Workers \ {w} : pc'[v] = pc[v] /\ token'[v] = token[v] /\ picked'[v] = picked[v] /\ snap'[v] = snap[v]

\* What a step of a worker leaves of the attempts, of which others may own or judge one.
Spares(w) ==
  /\ Aside(w)
  /\ token'[w] \in {0, token[w]} \/ token'[w] \notin Tokens
  /\ Tokens \subseteq Tokens'
  /\ \A v \in Workers \ {w} : token[v] # 0 =>
       /\ attempts'[token[v]] = attempts[token[v]] /\ results'[token[v]] = results[token[v]]
       /\ trees'[token[v]] = trees[token[v]]
       /\ ~IsPilot(attempts[token[v]]) => slices'[attempts[token[v]].slice] = "pending"
  /\ \A t \in Tokens : trees[t] = "empty" /\ ~OwnerAlive(t) => trees'[t] = "empty"

\* A step that spares the others leaves what is known of them true.
LEMMA OthersStand ==
  ASSUME Typed, Lease, NEW w \in Workers, Spares(w)
  PROVE  \A v \in Workers \ {w} : Owns(v)' /\ Holds(v)' /\ Judges(v)'
<1>. TAKE v \in Workers \ {w}
<1>1. /\ pc'[v] = pc[v] /\ token'[v] = token[v] /\ picked'[v] = picked[v] /\ snap'[v] = snap[v]
      /\ Owns(v) /\ Holds(v) /\ Judges(v)
  BY DEF Spares, Aside, Lease
<1>2. token[v] # 0 => token[v] \in Tokens
  BY Rows DEF Typed, TypeOK
<1>3. Owns(v)'
  <2>1. CASE token[v] = 0
    BY <1>1, <2>1 DEF Owns, Holding
  <2>2. CASE token[v] # 0
    BY <1>1, <2>2 DEF Owns, Spares, IsPilot
  <2>. QED
    BY <2>1, <2>2
<1>4. Holds(v)'
  <2>1. token[v] # 0 => \A x \in Workers : token'[x] = token[v] => x = v
    <3>1. token[v] # 0 => token'[w] # token[v]
      BY <1>1, <1>2 DEF Spares, Holds
    <3>. QED
      BY <1>1, <3>1 DEF Spares, Aside, Holds
  <2>. QED
    BY <1>1, <2>1 DEF Holds, Spares, IsPilot
<1>5. Judges(v)'
  <2>1. \A t \in Tokens : ~OwnerAlive(t) => ~OwnerAlive(t)'
    BY Rows DEF Spares, Aside, OwnerAlive
  <2>. QED
    BY <1>1, <2>1 DEF Judges, Spares, IsPilot
<1>. QED
  BY <1>3, <1>4, <1>5

\* A step that leaves attempts and trees as they are.
LEMMA QuietStep ==
  ASSUME Typed, Lease, NEW w \in Workers, Aside(w), UNCHANGED <<attempts, slices, trees>>,
         token'[w] \in {0, token[w]}, results' = results \/ token[w] # 0,
         Owns(w)', Holds(w)', Judges(w)'
  PROVE  Lease'
<1>1. Tokens' = Tokens
  BY DEF Tokens
<1>2. \A v \in Workers \ {w} : token[v] # 0 => results' = results
  BY OneOwner
<1>3. Spares(w)
  BY <1>1, <1>2 DEF Spares, Lease, Holds
<1>4. \A t \in Tokens' : OneAt(t)'
  BY <1>1 DEF Lease, OneAt
<1>. QED
  BY <1>3, <1>4, OthersStand DEF Lease

\* A step by which the owner changes its own attempt only.
LEMMA OwnerStep ==
  ASSUME Typed, Lease, NEW w \in Workers, pc[w] \in Holding, Aside(w), NEW own \in Tokens, own = token[w],
         Tokens' = Tokens, Len(attempts)' = Len(attempts),
         \A t \in Tokens : t # own => attempts'[t] = attempts[t] /\ trees'[t] = trees[t],
         token'[w] \in {0, token[w]},
         OneAt(own)', Owns(w)', Holds(w)', Judges(w)'
  PROVE  Lease'
<1>1. token[w] \in Tokens /\ token[w] # 0
  BY Owned DEF Lease, Owns
<1>2. \A v \in Workers \ {w} : token[v] = 0
  BY <1>1, OneOwner
<1>3. \A t \in Tokens : ~OwnerAlive(t) => t # own
  BY DEF OwnerAlive
<1>4. Spares(w)
  BY <1>2, <1>3 DEF Spares
<1>5. ASSUME NEW t \in Tokens', t # own PROVE OneAt(t)'
  <2>1. OneAt(t) /\ attempts'[t] = attempts[t] /\ trees'[t] = trees[t]
    BY <1>5 DEF Lease
  <2>. QED
    BY <2>1 DEF OneAt
<1>6. \A t \in Tokens' : OneAt(t)'
  BY <1>1, <1>5
<1>. QED
  BY <1>4, <1>6, OthersStand DEF Lease

\* Without a lease there is no owner, nothing runs, and no tree is active.
LEMMA NoLease ==
  ASSUME Typed, Lease, ~Leased
  PROVE  /\ \A w \in Workers : token[w] = 0
         /\ \A t \in Tokens : attempts[t].state # "running" /\ trees[t] # "active"
<1>1. \A w \in Workers : token[w] # 0 => token[w] \in Tokens
  BY Rows DEF Typed, TypeOK
<1>2. \A t \in Tokens : attempts[t].state # "running"
  BY DEF Leased, Running
<1>. QED
  BY <1>1, <1>2 DEF Lease, Holds, OneAt

\* A new attempt is the last one, and it is its owner's.
LEMMA NewLease ==
  ASSUME Typed, Lease, ~Leased, NEW w \in Workers, NEW a \in AttemptType, AddAttempt(w, a), Aside(w),
         a.state = "running", slices' = slices,
         \/ pc'[w] = "bind" /\ a.phase = "reserved"
         \/ pc'[w] = "launch" /\ a.phase = "dispatch-intent",
         ~IsPilot(a) => slices[a.slice] = "pending"
  PROVE  Lease'
<1>. PICK N : N = Len(attempts) + 1
  OBVIOUS
<1>1. /\ N \in Nat \ {0} /\ N \notin Tokens /\ Tokens' = Tokens \union {N} /\ Len(attempts') = N
      /\ \A u \in Tokens : attempts'[u] = attempts[u] /\ trees'[u] = trees[u]
      /\ attempts'[N] = a /\ trees'[N] = "none"
  BY RowAdded, Rows
<1>2. token' = [token EXCEPT ![w] = N] /\ token'[w] = N
  BY DEF AddAttempt, Typed, TypeOK
<1>3. Spares(w)
  BY <1>1, <1>2, NoLease DEF Spares
<1>4. \A t \in Tokens' : OneAt(t)'
  <2>1. \A t \in Tokens : attempts'[t].state # "running" /\ trees'[t] # "active"
    BY <1>1, NoLease
  <2>2. OneAt(N)'
    BY <1>1 DEF OneAt
  <2>. QED
    BY <1>1, <2>1, <2>2 DEF OneAt
<1>5. Owns(w)' /\ Judges(w)'
  BY <1>1, <1>2 DEF Owns, Judges, Holding
<1>6. Holds(w)'
  <2>1. \A v \in Workers : token'[v] = N => v = w
    BY <1>1, <1>2, NoLease DEF Aside
  <2>. QED
    BY <1>1, <1>2, <2>1 DEF Holds, IsPilot
<1>. QED
  BY <1>3, <1>4, <1>5, <1>6, OthersStand DEF Lease

\* A step after which the worker owns nothing, or only waits for its end.
LEMMA LeaveStep ==
  ASSUME Typed, Lease, NEW w \in Workers, Aside(w), UNCHANGED <<attempts, slices, trees>>,
         token'[w] \in {0, token[w]}, results' = results \/ token[w] # 0,
         pc'[w] \notin Holding \union {"probe", "commit"}, pc'[w] = "reserve" => picked'[w] # NoPick,
         token'[w] # 0 => pc'[w] = "ending"
  PROVE  Lease'
<1>1. Owns(w)' /\ Judges(w)'
  BY DEF Owns, Judges, Holding
<1>2. Holds(w)'
  <2>1. CASE token'[w] = 0
    BY <2>1 DEF Holds
  <2>2. CASE token'[w] # 0
    <3>1. token'[w] = token[w] /\ Holds(w) /\ \A v \in Workers : token'[v] = token[v]
      BY <2>2 DEF Lease, Aside
    <3>. QED
      BY <2>2, <3>1 DEF Holds, IsPilot
  <2>. QED
    BY <2>1, <2>2
<1>. QED
  BY <1>1, <1>2, QuietStep

\* What an owner knows.
LEMMA OwnerKnows ==
  ASSUME Typed, Lease, NEW w \in Workers, pc[w] \in Holding
  PROVE  /\ token[w] \in Tokens /\ token[w] # 0 /\ token[w] = Len(attempts)
         /\ attempts[token[w]] \in AttemptType /\ attempts[token[w]].state = "running"
         /\ Owns(w) /\ Holds(w) /\ OneAt(token[w])
         /\ \A v \in Workers : token[v] = token[w] => v = w
<1>1. token[w] \in Tokens /\ attempts[token[w]] \in AttemptType /\ attempts[token[w]].state = "running"
  BY Owned
<1>2. Owns(w) /\ Holds(w) /\ OneAt(token[w]) /\ token[w] # 0
  BY <1>1 DEF Lease, Owns
<1>. QED
  BY <1>1, <1>2 DEF OneAt, Holds

\* Every step keeps the lease exclusive and what its owner, and a recovery, know of it.
LEMMA LeaseStep ==
  ASSUME Typed, Lease, [Next]_vars
  PROVE  Lease'
<1>. USE DEF table, locals, bounds
<1>1. ASSUME NEW w \in Workers, pc[w] \notin Holding \union {"ending"} PROVE token[w] = 0
  BY <1>1 DEF Lease, Owns
<1>2. ASSUME NEW w \in Workers, StartDaily(w) PROVE Lease'
  <2>1. pc'[w] = "recover" /\ Aside(w)
    BY <1>2, Goes DEF StartDaily, Aside
  <2>. QED
    BY <1>1, <1>2, <2>1, LeaveStep DEF StartDaily, Holding
<1>3. ASSUME NEW w \in Workers, Stop(w) PROVE Lease'
  <2>1. pc'[w] = "down" /\ Aside(w) /\ token'[w] = 0
    BY <1>3, Goes DEF Stop, Aside, Forget, Typed, TypeOK
  <2>. QED
    BY <1>3, <2>1, LeaveStep DEF Stop, Holding
<1>4. ASSUME NEW w \in Workers, Throw(w) \/ Unresolved(w) PROVE Lease'
  <2>1. pc'[w] = "ending" /\ Aside(w)
    BY <1>4, Goes DEF Throw, Unresolved, Aside
  <2>. QED
    BY <1>4, <2>1, LeaveStep DEF Throw, Unresolved, Holding
<1>5. ASSUME NEW w \in Workers, Crash(w) PROVE Lease'
  <2>1. pc'[w] = "down" /\ Aside(w) /\ token'[w] = 0
    BY <1>5, Goes DEF Crash, Aside, Forget, Typed, TypeOK
  <2>2. results' = results \/ token[w] # 0
    BY <1>5 DEF Crash, Lease, Owns, Holding
  <2>. QED
    BY <1>5, <2>1, <2>2, LeaveStep DEF Crash, Holding
<1>6. ASSUME NEW w \in Workers, PolicyChanged(w) \/ Idle(w) \/ Refused(w) PROVE Lease'
  <2>1. pc'[w] = "ending" /\ Aside(w)
    BY <1>6, Goes DEF PolicyChanged, Idle, Refused, Aside, Typed, TypeOK
  <2>. QED
    BY <1>6, <2>1, LeaveStep DEF PolicyChanged, Idle, Refused, Holding
<1>7. ASSUME NEW w \in Workers, Select(w) PROVE Lease'
  <2>1. PICK s \in Slices : picked' = [picked EXCEPT ![w] = [slice |-> s, day |-> day]]
    BY <1>7, Selected
  <2>2. pc'[w] = "reserve" /\ Aside(w) /\ picked'[w] = [slice |-> s, day |-> day]
    BY <1>7, <2>1, Goes DEF Select, Aside, Typed, TypeOK
  <2>3. picked'[w] # NoPick
    BY <2>2, QueueAssumption DEF NoPick
  <2>. QED
    BY <1>1, <1>7, <2>2, <2>3, LeaveStep DEF Select, Holding
<1>8. ASSUME NEW w \in Workers, Reserve(w) PROVE Lease'
  <2>1. pc'[w] = "bind" /\ Aside(w)
    <3>1. \A v \in Workers \ {w} : picked'[v] = picked[v] /\ token'[v] = token[v]
      BY <1>8 DEF Reserve, AddAttempt, Typed, TypeOK
    <3>. QED
      BY <1>8, <3>1, Goes DEF Reserve, Aside
  <2>2. picked[w].slice \in Slices
    BY <1>8 DEF Reserve, Lease, Owns, Typed, TypeOK
  <2>. DEFINE a == Attempt(picked[w].slice, Provider, AttemptSeconds, "reserved", FALSE)
  <2>3. a \in AttemptType /\ a.state = "running" /\ a.phase = "reserved" /\ a.slice = picked[w].slice
    BY <2>2, NewRow, BoundsAssumption DEF Provider, Attempt
  <2>4. AddAttempt(w, a) /\ ~Leased /\ slices' = slices /\ slices[a.slice] = "pending"
    BY <1>8, <2>3 DEF Reserve, Reservable, Selectable
  <2>. HIDE DEF a
  <2>. QED
    BY <2>1, <2>3, <2>4, NewLease
<1>9. ASSUME NEW w \in Workers, NEW approval \in Approvals, PilotReserve(w, approval) PROVE Lease'
  <2>1. pc'[w] = "launch" /\ Aside(w)
    <3>1. \A v \in Workers \ {w} : token'[v] = token[v]
      BY <1>9 DEF PilotReserve, AddAttempt, Typed, TypeOK
    <3>. QED
      BY <1>9, <3>1, Goes DEF PilotReserve, Aside
  <2>. DEFINE a == Attempt(NoSlice, "claude", PilotSeconds, "dispatch-intent", TRUE)
  <2>3. a \in AttemptType /\ a.state = "running" /\ a.phase = "dispatch-intent" /\ IsPilot(a)
    BY NewRow, BoundsAssumption DEF Attempt, IsPilot
  <2>4. AddAttempt(w, a) /\ ~Leased /\ slices' = slices
    BY <1>9 DEF PilotReserve
  <2>. HIDE DEF a
  <2>. QED
    BY <2>1, <2>3, <2>4, NewLease
<1>10. ASSUME NEW w \in Workers, Bind(w) PROVE Lease'
  <2>0. pc[w] \in Holding
    BY <1>10 DEF Bind, Holding
  <2>1. PICK t \in Tokens : t = token[w]
    BY <2>0, OwnerKnows
  <2>2. pc'[w] = "dispatch" /\ Aside(w) /\ token' = token
    BY <1>10, Goes DEF Bind, Aside
  <2>3. attempts' = [attempts EXCEPT ![t] = [attempts[t] EXCEPT !.bound = TRUE]]
    BY <1>10, <2>1, Rows DEF Bind
  <2>4. [attempts[t] EXCEPT !.bound = TRUE] \in AttemptType
    BY Rows DEF AttemptType
  <2>5. /\ Tokens' = Tokens /\ Len(attempts)' = Len(attempts) /\ \A u \in Tokens : u # t => attempts'[u] = attempts[u]
        /\ attempts'[t] = [attempts[t] EXCEPT !.bound = TRUE]
    BY <2>3, <2>4, RowRewritten
  <2>6. /\ attempts'[t].state = attempts[t].state /\ attempts'[t].phase = attempts[t].phase
        /\ attempts'[t].slice = attempts[t].slice
    BY <2>5, Rows DEF AttemptType
  <2>7. OneAt(t)'
    BY <1>10, <2>0, <2>1, <2>5, <2>6, OwnerKnows DEF OneAt, Bind
  <2>8. Owns(w)' /\ Judges(w)'
    BY <2>0, <2>1, <2>2, OwnerKnows DEF Owns, Judges, Holding
  <2>9. Holds(w)'
    BY <1>10, <2>0, <2>1, <2>2, <2>6, OwnerKnows DEF Holds, IsPilot, Bind
  <2>. QED
    BY <1>10, <2>0, <2>1, <2>2, <2>5, <2>7, <2>8, <2>9, OwnerStep DEF Bind
<1>11. ASSUME NEW w \in Workers, MarkDispatch(w) PROVE Lease'
  <2>0. pc[w] \in Holding
    BY <1>11 DEF MarkDispatch, Holding
  <2>1. PICK t \in Tokens : t = token[w]
    BY <2>0, OwnerKnows
  <2>2. pc'[w] = "launch" /\ Aside(w) /\ token' = token
    BY <1>11, Goes DEF MarkDispatch, Aside
  <2>3. "running" \in States /\ "dispatch-intent" \in Phases /\ Update(t, "running", "dispatch-intent")
    BY <1>11, <2>1 DEF MarkDispatch, States, Phases
  <2>4. /\ Tokens' = Tokens /\ Len(attempts)' = Len(attempts) /\ \A u \in Tokens : u # t => attempts'[u] = attempts[u]
        /\ attempts'[t] = [attempts[t] EXCEPT !.state = "running", !.phase = "dispatch-intent"]
    BY <2>3, Updated
  <2>5. /\ attempts'[t].state = "running" /\ attempts'[t].phase = "dispatch-intent"
        /\ attempts'[t].slice = attempts[t].slice
    BY <2>4, Rows DEF AttemptType
  <2>6. OneAt(t)'
    BY <1>11, <2>0, <2>1, <2>4, <2>5, OwnerKnows DEF OneAt, MarkDispatch
  <2>7. Owns(w)' /\ Judges(w)'
    BY <2>0, <2>1, <2>2, OwnerKnows DEF Owns, Judges, Holding
  <2>8. Holds(w)'
    BY <1>11, <2>0, <2>1, <2>2, <2>5, OwnerKnows DEF Holds, IsPilot, MarkDispatch
  <2>. QED
    BY <1>11, <2>0, <2>1, <2>2, <2>4, <2>6, <2>7, <2>8, OwnerStep DEF MarkDispatch
<1>12. ASSUME NEW w \in Workers, Launch(w) \/ Finish(w) PROVE Lease'
  <2>0. pc[w] \in Holding
    BY <1>12 DEF Launch, Finish, Holding
  <2>1. PICK t \in Tokens : t = token[w]
    BY <2>0, OwnerKnows
  <2>2. /\ Aside(w) /\ token' = token
        /\ \/ pc'[w] = "running"
           \/ pc'[w] = "write" /\ ~IsPilot(attempts[t]) /\ trees' = [trees EXCEPT ![t] = "empty"]
           \/ pc'[w] = "pilotSettle" /\ IsPilot(attempts[t])
    BY <1>12, <2>1, Goes DEF Launch, Finish, Aside
  <2>3. PICK x \in {"none", "active", "empty"} : trees' = [trees EXCEPT ![t] = x]
    BY <1>12, <2>1 DEF Launch, Finish
  <2>4. Tokens' = Tokens /\ attempts' = attempts /\ slices' = slices
    BY <1>12 DEF Launch, Finish, Tokens
  <2>5. trees'[t] = x /\ \A u \in Tokens : u # t => trees'[u] = trees[u]
    BY <2>3, TreeRewritten
  <2>6. attempts[t].phase = "dispatch-intent"
    BY <1>12, <2>0, <2>1, OwnerKnows DEF Holds, Launch, Finish
  <2>7. OneAt(t)'
    BY <2>0, <2>1, <2>4, <2>6, OwnerKnows DEF OneAt
  <2>8. Owns(w)' /\ Judges(w)'
    <3>1. pc'[w] = "write" => trees'[t] = "empty"
      BY <2>2, Rows
    <3>. QED
      BY <2>0, <2>1, <2>2, <2>4, <3>1, OwnerKnows DEF Owns, Judges, Holding, IsPilot
  <2>9. Holds(w)'
    BY <2>0, <2>1, <2>2, <2>4, <2>6, OwnerKnows DEF Holds, IsPilot
  <2>. QED
    BY <2>0, <2>1, <2>2, <2>4, <2>5, <2>7, <2>8, <2>9, OwnerStep
<1>13. ASSUME NEW w \in Workers, WriteResult(w) PROVE Lease'
  <2>0. pc[w] \in Holding
    BY <1>13 DEF WriteResult, Holding
  <2>1. PICK t \in Tokens : t = token[w]
    BY <2>0, OwnerKnows
  <2>2. pc'[w] = "settle" /\ Aside(w) /\ token' = token
    BY <1>13, Goes DEF WriteResult, Aside
  <2>3. PICK f \in Ends : results' = [results EXCEPT ![t] = f]
    BY <1>13, <2>1 DEF WriteResult, ResultState, Ends
  <2>4. Tokens' = Tokens /\ attempts' = attempts /\ slices' = slices /\ trees' = trees
    BY <1>13 DEF WriteResult, Tokens
  <2>5. results'[t] = f
    BY <2>3, ResultRewritten DEF Files
  <2>6. OneAt(t)'
    BY <2>0, <2>1, <2>4, OwnerKnows DEF OneAt
  <2>7. Owns(w)' /\ Judges(w)'
    BY <1>13, <2>0, <2>1, <2>2, <2>4, <2>5, OwnerKnows DEF WriteResult, Owns, Judges, Holding, IsPilot
  <2>8. Holds(w)'
    BY <1>13, <2>0, <2>1, <2>2, <2>4, OwnerKnows DEF WriteResult, Holds, IsPilot
  <2>. QED
    BY <2>0, <2>1, <2>2, <2>4, <2>6, <2>7, <2>8, OwnerStep
<1>14. ASSUME NEW w \in Workers, Settle(w) \/ PilotSettle(w) PROVE Lease'
  <2>0. pc[w] \in Holding
    BY <1>14 DEF Settle, PilotSettle, Holding
  <2>1. PICK t \in Tokens : t = token[w]
    BY <2>0, OwnerKnows
  <2>2. pc'[w] \in {"consume", "ending"} /\ Aside(w) /\ token'[w] = 0
    BY <1>14, Goes DEF Settle, PilotSettle, After, Aside, Typed, TypeOK
  <2>3. PICK state \in States \ {"running"} : Update(t, state, "finished")
    BY <1>14, <2>0, <2>1, OwnerKnows DEF Settle, PilotSettle, Owns, Ends, States
  <2>4. /\ Tokens' = Tokens /\ Len(attempts)' = Len(attempts) /\ \A u \in Tokens : u # t => attempts'[u] = attempts[u]
        /\ attempts'[t] = [attempts[t] EXCEPT !.state = state, !.phase = "finished"]
    BY <2>3, Updated DEF Phases
  <2>5. attempts'[t].state # "running"
    BY <2>4, Rows DEF AttemptType
  <2>6. trees' = trees /\ trees[t] # "active"
    BY <1>14, <2>0, <2>1, OwnerKnows DEF Settle, PilotSettle, Owns
  <2>7. OneAt(t)'
    BY <2>5, <2>6 DEF OneAt
  <2>8. Owns(w)' /\ Judges(w)' /\ Holds(w)'
    BY <2>2 DEF Owns, Judges, Holds, Holding
  <2>. QED
    BY <2>0, <2>1, <2>2, <2>4, <2>6, <2>7, <2>8, OwnerStep
<1>15. ASSUME NEW w \in Workers, RecoverRead(w) PROVE Lease'
  <2>1. token[w] = 0 /\ token' = token
    BY <1>1, <1>15 DEF RecoverRead, Holding
  <2>2. CASE \E t \in Running : Readable(t)
    <3>1. PICK t \in Running : /\ Readable(t)
                               /\ snap' = [snap EXCEPT ![w] = [token |-> t, attempt |-> attempts[t], file |-> results[t]]]
      BY <1>15, <2>2 DEF RecoverRead
    <3>2. pc'[w] = "probe" /\ Aside(w) /\ snap'[w] = [token |-> t, attempt |-> attempts[t], file |-> results[t]]
      BY <1>15, <2>2, <3>1, Goes DEF RecoverRead, Aside, Typed, TypeOK
    <3>3. t \in Tokens /\ t # 0 /\ Tokens' = Tokens
      BY <1>15, Rows DEF Running, RecoverRead, Tokens
    <3>4. snap'[w] # NoSnap
      BY <3>2, <3>3 DEF NoSnap
    <3>5. Judges(w)'
      BY <3>1, <3>2, <3>3, <3>4 DEF Judges, Running, Readable, IsPilot
    <3>6. Owns(w)' /\ Holds(w)'
      BY <2>1, <3>2 DEF Owns, Holds, Holding
    <3>. QED
      BY <1>15, <2>1, <3>2, <3>5, <3>6, QuietStep DEF RecoverRead
  <2>3. CASE ~\E t \in Running : Readable(t)
    <3>1. pc'[w] = "consume" /\ Aside(w)
      BY <1>15, <2>3, Goes DEF RecoverRead, Aside
    <3>. QED
      BY <1>15, <2>1, <3>1, LeaveStep DEF RecoverRead, Holding
  <2>. QED
    BY <2>2, <2>3
<1>16. ASSUME NEW w \in Workers, RecoverCheck(w) PROVE Lease'
  <2>1. token[w] = 0 /\ token' = token /\ Judges(w) /\ Tokens' = Tokens
    BY <1>1, <1>16 DEF RecoverCheck, Holding, Lease, Tokens
  <2>2. CASE Proof(w) /\ Acceptable(w)
    <3>1. pc'[w] = "commit" /\ Aside(w) /\ snap'[w] = snap[w]
      BY <1>16, <2>2, Goes DEF RecoverCheck, Aside, Typed, TypeOK
    <3>2. Judges(w)'
      BY <1>16, <2>1, <2>2, <3>1 DEF RecoverCheck, Judges, Proof, Acceptable, OwnerAlive, IsPilot
    <3>3. Owns(w)' /\ Holds(w)'
      BY <2>1, <3>1 DEF Owns, Holds, Holding
    <3>. QED
      BY <1>16, <2>1, <3>1, <3>2, <3>3, QuietStep DEF RecoverCheck
  <2>3. CASE ~(Proof(w) /\ Acceptable(w))
    <3>1. pc'[w] = "consume" /\ Aside(w)
      BY <1>16, <2>3, Goes DEF RecoverCheck, Aside, Typed, TypeOK
    <3>. QED
      BY <1>16, <2>1, <3>1, LeaveStep DEF RecoverCheck, Holding
  <2>. QED
    BY <2>2, <2>3
<1>17. ASSUME NEW w \in Workers, RecoverCommit(w) PROVE Lease'
  <2>1. token[w] = 0 /\ token' = token /\ Judges(w) /\ pc'[w] = "consume" /\ Aside(w) /\ trees' = trees
    BY <1>1, <1>17, Goes DEF RecoverCommit, Holding, Lease, Aside, Typed, TypeOK
  <2>2. CASE ~Same(w)
    BY <1>17, <2>1, <2>2, LeaveStep DEF RecoverCommit, Holding
  <2>3. CASE Same(w)
    <3>1. PICK t \in Tokens : t = snap[w].token
      BY <1>17, <2>1 DEF RecoverCommit, Judges
    <3>2. /\ attempts[t] = snap[w].attempt /\ attempts[t].state = "running" /\ ~OwnerAlive(t)
          /\ trees[t] = "empty" \/ attempts[t].phase = "reserved"
      BY <1>17, <2>1, <2>3, <3>1 DEF RecoverCommit, Judges, Same
    <3>3. \A v \in Workers : token[v] = 0
      <4>. SUFFICES ASSUME NEW v \in Workers, token[v] # 0 PROVE FALSE
        OBVIOUS
      <4>1. token[v] \in Tokens
        BY Rows DEF Typed, TypeOK
      <4>2. token[v] = Len(attempts) /\ t = Len(attempts)
        BY <3>1, <3>2, <4>1 DEF Lease, Holds, OneAt
      <4>. QED
        BY <3>2, <4>2 DEF OwnerAlive
    <3>4. PICK state \in States \ {"running"}, phase \in Phases : Update(t, state, phase)
      <4>1. Update(t, Recovered(snap[w].attempt, snap[w].file).state, Recovered(snap[w].attempt, snap[w].file).phase)
        BY <1>17, <2>3, <3>1 DEF RecoverCommit
      <4>2. Recovered(snap[w].attempt, snap[w].file).state # "running"
        BY DEF Recovered
      <4>. QED
        BY <4>1, <4>2, RecoveredType
    <3>5. /\ Tokens' = Tokens /\ Len(attempts)' = Len(attempts) /\ \A u \in Tokens : u # t => attempts'[u] = attempts[u]
          /\ attempts'[t] = [attempts[t] EXCEPT !.state = state, !.phase = phase]
      BY <3>4, Updated
    <3>6. attempts'[t].state # "running" /\ trees[t] # "active"
      BY <3>2, <3>5, Rows DEF AttemptType, Lease, OneAt
    <3>7. \A u \in Tokens' : OneAt(u)'
      BY <2>1, <3>5, <3>6 DEF Lease, OneAt
    <3>8. Spares(w)
      BY <2>1, <3>3, <3>5 DEF Spares
    <3>9. Owns(w)' /\ Judges(w)' /\ Holds(w)'
      BY <2>1 DEF Owns, Judges, Holds, Holding
    <3>. QED
      BY <3>7, <3>8, <3>9, OthersStand DEF Lease
  <2>. QED
    BY <2>2, <2>3
<1>18. ASSUME NEW t \in Tokens, TreeEnds(t) PROVE Lease'
  <2>1. trees'[t] = "empty" /\ \A u \in Tokens : u # t => trees'[u] = trees[u]
    BY <1>18, TreeRewritten DEF TreeEnds
  <2>2. Tokens' = Tokens /\ \A w \in Workers : token[w] # 0 => token[w] \in Tokens
    BY <1>18, Rows DEF TreeEnds, Tokens, Typed, TypeOK
  <2>3. \A u \in Tokens' : OneAt(u)'
    BY <1>18, <2>1, <2>2 DEF TreeEnds, Lease, OneAt
  <2>4. ASSUME NEW w \in Workers PROVE Owns(w)' /\ Holds(w)' /\ Judges(w)'
    <3>1. Owns(w) /\ Holds(w) /\ Judges(w)
      BY DEF Lease
    <3>2. Owns(w)'
      BY <1>18, <2>1, <2>2, <3>1 DEF TreeEnds, Owns, Holding, IsPilot
    <3>3. Holds(w)' /\ Judges(w)'
      BY <1>18, <2>1, <2>2, <3>1 DEF TreeEnds, Holds, Judges, IsPilot, OwnerAlive
    <3>. QED
      BY <3>2, <3>3
  <2>. QED
    BY <2>3, <2>4 DEF Lease
<1>19. ASSUME \/ \E seconds \in Limits : ConfigureBudget(seconds)
              \/ \E j \in Jobs : EditPolicy(j)
              \/ NextDay \/ UNCHANGED vars
       PROVE  Lease'
  <2>1. UNCHANGED <<attempts, slices, results, trees, pc, token, picked, snap>>
    BY <1>19 DEF ConfigureBudget, EditPolicy, NextDay, vars
  <2>. QED
    BY <2>1 DEF Lease, Owns, Holds, Judges, OneAt, Tokens, IsPilot, OwnerAlive
<1>. QED
  BY <1>2, <1>3, <1>4, <1>5, <1>6, <1>7, <1>8, <1>9, <1>10, <1>11, <1>12, <1>13, <1>14, <1>15, <1>16, <1>17,
     <1>18, <1>19 DEF Next, Proceed

-----------------------------------------------------------------------------
(* Results *)

\* What is true of every attempt and its file: ResultsKept; a live probe has no result; and what was
\* dispatched and has ended was turned away for quota, or took its slice off the queue.
Retried(t) == attempts[t].state = "quota-unavailable" /\ attempts[t].provider = "claude"
Kept(t) ==
  /\ results[t] = "pending-review" => attempts[t].state \in {"running", "pending-review"}
  /\ attempts[t].state = "pending-review" => results[t] = "pending-review"
  /\ IsPilot(attempts[t]) => results[t] = "none"
  /\ Dispatched(t) /\ attempts[t].state # "running" => Retried(t) \/ slices[attempts[t].slice] # "pending"

Survival == (\A t \in Tokens : Kept(t)) /\ SentOnce /\ JobsFollow

\* Only the attempt that runs changes, and slices do not come back to the queue.
LEMMA LastChanges ==
  ASSUME Typed, Lease, Survival, NEW own \in Tokens, attempts[own].state = "running",
         ~IsPilot(attempts[own]) => slices[attempts[own].slice] = "pending",
         Tokens' = Tokens, attempts'[own].slice = attempts[own].slice,
         \A t \in Tokens : t # own => attempts'[t] = attempts[t] /\ results'[t] = results[t],
         \A s \in Slices : slices[s] # "pending" => slices'[s] # "pending",
         Kept(own)', JobsFollow'
  PROVE  Survival'
<1>1. own = Len(attempts) /\ Tokens = 1..Len(attempts) /\ Len(attempts) \in Nat
  BY Rows DEF Lease, OneAt
<1>2. \A t \in Tokens : t # own => attempts[t].state # "running"
  BY <1>1 DEF Lease, OneAt
<1>3. ASSUME NEW t \in Tokens, t # own PROVE Kept(t)'
  <2>1. Kept(t) /\ attempts'[t] = attempts[t] /\ results'[t] = results[t]
    BY <1>3 DEF Survival
  <2>2. Dispatched(t) => attempts[t].slice \in Slices
    BY Rows DEF Dispatched, IsPilot, AttemptType
  <2>3. /\ (Dispatched(t)' <=> Dispatched(t)) /\ (Retried(t)' <=> Retried(t))
        /\ (IsPilot(attempts[t])' <=> IsPilot(attempts[t]))
    BY <2>1 DEF Dispatched, Retried, IsPilot
  <2>. QED
    BY <2>1, <2>2, <2>3 DEF Kept
<1>4. SentOnce'
  <2>. SUFFICES ASSUME NEW t \in Tokens, NEW u \in Tokens, t < u, Dispatched(t)', Dispatched(u)',
                       attempts'[t].slice = attempts'[u].slice
                PROVE  Retried(t)'
    BY DEF SentOnce, Retried
  <2>1. t # own /\ attempts'[t] = attempts[t]
    BY <1>1
  <2>2. Dispatched(t)
    BY <2>1 DEF Dispatched, IsPilot
  <2>3. CASE u # own
    <3>1. Dispatched(u) /\ attempts[t].slice = attempts[u].slice
      BY <2>1, <2>3 DEF Dispatched, IsPilot
    <3>. QED
      BY <2>1, <2>2, <3>1 DEF Survival, SentOnce, Retried
  <2>4. CASE u = own
    <3>1. slices[attempts[t].slice] = "pending"
      BY <2>1, <2>4 DEF Dispatched, IsPilot
    <3>2. Retried(t)
      BY <1>2, <2>1, <2>2, <3>1 DEF Survival, Kept
    <3>. QED
      BY <2>1, <3>2 DEF Retried
  <2>. QED
    BY <2>3, <2>4
<1>. QED
  BY <1>3, <1>4 DEF Survival

\* A slice that leaves the queue, with its job when it is the last one.
LEMMA JobFollows ==
  ASSUME Typed, JobsFollow, NEW s \in Slices, NEW state \in SliceStates, slices[s] = "pending",
         slices' = [slices EXCEPT ![s] = state],
         \/ jobs' = Reviewable(s, slices')
         \/ jobs' = jobs /\ state # "pending-review"
  PROVE  JobsFollow'
<1>1. /\ slices \in [Slices -> SliceStates] /\ DOMAIN slices' = Slices
      /\ jobs \in [Jobs -> {"pending", "pending-review"}] /\ DOMAIN jobs = Jobs /\ DOMAIN slices = Slices
      /\ slices'[s] = state /\ \A r \in Slices : r # s => slices'[r] = slices[r]
  BY DEF Typed, TypeOK
<1>2. DOMAIN jobs' = Jobs
  BY <1>1 DEF Reviewable
<1>3. ASSUME NEW j \in Jobs, j # JobOf[s]
      PROVE  jobs'[j] = "pending-review" <=> \A r \in Slices : JobOf[r] = j => slices'[r] = "pending-review"
  <2>1. jobs'[j] = jobs[j]
    BY <1>1, <1>3 DEF Reviewable
  <2>. QED
    BY <1>1, <1>3, <2>1 DEF JobsFollow
<1>4. JobOf[s] \in Jobs /\ jobs[JobOf[s]] # "pending-review"
  BY <1>1, QueueAssumption DEF JobsFollow
<1>5. jobs'[JobOf[s]] = "pending-review" <=> \A r \in Slices : JobOf[r] = JobOf[s] => slices'[r] = "pending-review"
  BY <1>1, <1>4 DEF Reviewable
<1>. QED
  BY <1>1, <1>2, <1>3, <1>5 DEF JobsFollow

\* A new attempt is not dispatched yet, or is a live probe.
LEMMA NewSurvives ==
  ASSUME Typed, Survival, NEW w \in Workers, NEW a \in AttemptType, AddAttempt(w, a),
         a.state = "running", IsPilot(a) \/ a.phase = "reserved", UNCHANGED <<slices, jobs>>
  PROVE  Survival'
<1>. PICK N : N = Len(attempts) + 1
  OBVIOUS
<1>1. /\ N \notin Tokens /\ Tokens' = Tokens \union {N}
      /\ \A u \in Tokens : attempts'[u] = attempts[u] /\ results'[u] = results[u]
      /\ attempts'[N] = a /\ results'[N] = "none"
  BY RowAdded
<1>2. ~Dispatched(N)'
  BY <1>1 DEF Dispatched, IsPilot
<1>3. Kept(N)'
  BY <1>1, <1>2 DEF Kept, IsPilot
<1>4. ASSUME NEW t \in Tokens PROVE Kept(t)' /\ (Dispatched(t)' <=> Dispatched(t))
  BY <1>1, <1>4 DEF Survival, Kept, Dispatched, IsPilot, Retried
<1>5. SentOnce'
  <2>1. \A t \in Tokens' : Dispatched(t)' => t \in Tokens /\ Dispatched(t)
    BY <1>1, <1>2, <1>4
  <2>. QED
    BY <1>1, <2>1 DEF SentOnce, Survival
<1>6. JobsFollow'
  BY DEF Survival, JobsFollow
<1>. QED
  BY <1>1, <1>3, <1>4, <1>5, <1>6 DEF Survival

\* Every step keeps the results.
LEMMA SurvivalStep ==
  ASSUME Typed, Lease, Survival, [Next]_vars
  PROVE  Survival'
<1>. USE DEF table, locals, bounds
<1>1. ASSUME UNCHANGED <<attempts, slices, jobs, results>> PROVE Survival'
  BY <1>1 DEF Survival, Kept, SentOnce, JobsFollow, Tokens, Dispatched, Retried, IsPilot
<1>2. ASSUME UNCHANGED <<slices, jobs>> PROVE JobsFollow' /\ \A s \in Slices : slices[s] # "pending" => slices'[s] # "pending"
  BY <1>2 DEF Survival, JobsFollow
<1>3. ASSUME NEW w \in Workers, Reserve(w) PROVE Survival'
  <2>1. picked[w].slice \in Slices
    BY <1>3 DEF Reserve, Lease, Owns, Typed, TypeOK
  <2>. DEFINE a == Attempt(picked[w].slice, Provider, AttemptSeconds, "reserved", FALSE)
  <2>2. a \in AttemptType /\ a.state = "running" /\ a.phase = "reserved"
    BY <2>1, NewRow, BoundsAssumption DEF Provider, Attempt
  <2>3. AddAttempt(w, a) /\ UNCHANGED <<slices, jobs>>
    BY <1>3 DEF Reserve
  <2>. HIDE DEF a
  <2>. QED
    BY <2>2, <2>3, NewSurvives
<1>4. ASSUME NEW w \in Workers, NEW approval \in Approvals, PilotReserve(w, approval) PROVE Survival'
  <2>. DEFINE a == Attempt(NoSlice, "claude", PilotSeconds, "dispatch-intent", TRUE)
  <2>1. a \in AttemptType /\ a.state = "running" /\ IsPilot(a)
    BY NewRow, BoundsAssumption DEF Attempt, IsPilot
  <2>2. AddAttempt(w, a) /\ UNCHANGED <<slices, jobs>>
    BY <1>4 DEF PilotReserve
  <2>. HIDE DEF a
  <2>. QED
    BY <2>1, <2>2, NewSurvives
<1>5. ASSUME NEW w \in Workers, Bind(w) \/ MarkDispatch(w) PROVE Survival'
  <2>0. pc[w] \in Holding
    BY <1>5 DEF Bind, MarkDispatch, Holding
  <2>1. PICK t \in Tokens : t = token[w] /\ attempts[t].state = "running" /\ Holds(w) /\ token[w] # 0
    BY <2>0, OwnerKnows
  <2>2. /\ Tokens' = Tokens /\ attempts'[t].state = "running" /\ attempts'[t].slice = attempts[t].slice
        /\ \A u \in Tokens : u # t => attempts'[u] = attempts[u]
    <3>1. CASE Bind(w)
      <4>1. [attempts[t] EXCEPT !.bound = TRUE] \in AttemptType
        BY Rows DEF AttemptType
      <4>2. attempts' = [attempts EXCEPT ![t] = [attempts[t] EXCEPT !.bound = TRUE]]
        BY <2>1, <3>1, Rows DEF Bind
      <4>3. /\ Tokens' = Tokens /\ attempts'[t] = [attempts[t] EXCEPT !.bound = TRUE]
            /\ \A u \in Tokens : u # t => attempts'[u] = attempts[u]
        BY <4>1, <4>2, RowRewritten
      <4>. QED
        BY <2>1, <4>3, Rows DEF AttemptType
    <3>2. CASE MarkDispatch(w)
      <4>1. Update(t, "running", "dispatch-intent") /\ "running" \in States /\ "dispatch-intent" \in Phases
        BY <2>1, <3>2 DEF MarkDispatch, States, Phases
      <4>2. /\ Tokens' = Tokens /\ attempts'[t] = [attempts[t] EXCEPT !.state = "running", !.phase = "dispatch-intent"]
            /\ \A u \in Tokens : u # t => attempts'[u] = attempts[u]
        BY <4>1, Updated
      <4>. QED
        BY <4>2, Rows DEF AttemptType
    <3>. QED
      BY <1>5, <3>1, <3>2
  <2>3. UNCHANGED <<slices, jobs, results>>
    BY <1>5 DEF Bind, MarkDispatch
  <2>4. Kept(t)'
    BY <2>2, <2>3 DEF Survival, Kept, IsPilot
  <2>. QED
    BY <1>2, <2>1, <2>2, <2>3, <2>4, LastChanges DEF Holds
<1>6. ASSUME NEW w \in Workers, pc[w] = "write", NEW f \in Files, results' = [results EXCEPT ![token[w]] = f],
             UNCHANGED table
      PROVE  Survival'
  <2>0. pc[w] \in Holding
    BY <1>6 DEF Holding
  <2>1. PICK t \in Tokens : t = token[w] /\ attempts[t].state = "running" /\ Holds(w) /\ Owns(w) /\ token[w] # 0
    BY <2>0, OwnerKnows
  <2>2. results'[t] = f /\ \A u \in Tokens : u # t => results'[u] = results[u]
    BY <1>6, <2>1, ResultRewritten
  <2>3. Tokens' = Tokens /\ UNCHANGED <<attempts, slices, jobs>>
    BY <1>6 DEF Tokens
  <2>4. Kept(t)'
    BY <1>6, <2>1, <2>3 DEF Kept, Owns, IsPilot
  <2>. QED
    BY <1>2, <2>1, <2>2, <2>3, <2>4, LastChanges DEF Holds
<1>7. ASSUME NEW w \in Workers, WriteResult(w) PROVE Survival'
  <2>1. PICK f \in Files : results' = [results EXCEPT ![token[w]] = f]
    BY <1>7 DEF WriteResult, ResultState, Files, Ends
  <2>. QED
    BY <1>6, <1>7, <2>1 DEF WriteResult
<1>8. ASSUME NEW w \in Workers, Crash(w) PROVE Survival'
  <2>1. CASE UNCHANGED results
    BY <1>1, <1>8, <2>1 DEF Crash
  <2>2. CASE pc[w] = "write" /\ results' = [results EXCEPT ![token[w]] = "partial"]
    BY <1>6, <1>8, <2>2 DEF Crash, Files
  <2>. QED
    BY <1>8, <2>1, <2>2 DEF Crash
<1>9. ASSUME NEW w \in Workers, Settle(w) PROVE Survival'
  <2>0. pc[w] \in Holding
    BY <1>9 DEF Settle, Holding
  <2>1. PICK t \in Tokens : t = token[w] /\ attempts[t].state = "running" /\ Holds(w) /\ Owns(w) /\ token[w] # 0
    BY <2>0, OwnerKnows
  <2>. PICK s : s = attempts[t].slice
    OBVIOUS
  <2>2. s \in Slices /\ results[t] \in Ends /\ results[t] \in States /\ ~IsPilot(attempts[t])
    BY <1>9, <2>1, Rows DEF Settle, Owns, IsPilot, AttemptType, Ends, States
  <2>. PICK state : state = results[t]
    OBVIOUS
  <2>3. Update(t, state, "finished") /\ "finished" \in Phases
    BY <1>9, <2>1 DEF Settle, Phases
  <2>4. /\ Tokens' = Tokens /\ \A u \in Tokens : u # t => attempts'[u] = attempts[u]
        /\ attempts'[t] = [attempts[t] EXCEPT !.state = state, !.phase = "finished"]
    BY <2>2, <2>3, Updated
  <2>5. /\ attempts'[t].state = state /\ attempts'[t].slice = s /\ attempts'[t].provider = attempts[t].provider
    BY <2>4, Rows DEF AttemptType
  <2>. PICK new : new = IF Retriable(t, state) THEN "pending" ELSE state
    OBVIOUS
  <2>6. /\ slices[s] = "pending" /\ slices' = [slices EXCEPT ![s] = new]
        /\ jobs' = Reviewable(s, slices') /\ results' = results
    BY <1>9, <2>1 DEF Settle
  <2>7. new \in SliceStates /\ (new = "pending" => Retriable(t, state))
    BY <2>2 DEF Ends, SliceStates
  <2>8. JobsFollow'
    BY <2>2, <2>6, <2>7, JobFollows DEF Survival
  <2>9. slices'[s] = new /\ \A r \in Slices : slices[r] # "pending" => slices'[r] # "pending"
    BY <2>2, <2>6 DEF Typed, TypeOK
  <2>10. Kept(t)'
    <3>1. Retried(t)' \/ slices'[s] # "pending"
      BY <2>5, <2>7, <2>9 DEF Retried, Retriable
    <3>. QED
      BY <2>2, <2>5, <2>6, <3>1 DEF Kept, IsPilot
  <2>. QED
    BY <2>1, <2>4, <2>5, <2>6, <2>8, <2>9, <2>10, LastChanges DEF Holds
<1>10. ASSUME NEW w \in Workers, PilotSettle(w) PROVE Survival'
  <2>0. pc[w] \in Holding
    BY <1>10 DEF PilotSettle, Holding
  <2>1. PICK t \in Tokens : t = token[w] /\ attempts[t].state = "running" /\ Holds(w) /\ Owns(w) /\ token[w] # 0
    BY <2>0, OwnerKnows
  <2>2. IsPilot(attempts[t])
    BY <1>10, <2>1 DEF PilotSettle, Owns
  <2>3. Update(t, "pilot-process-ended", "finished") /\ "pilot-process-ended" \in States /\ "finished" \in Phases
    BY <1>10, <2>1 DEF PilotSettle, States, Phases
  <2>4. /\ Tokens' = Tokens /\ \A u \in Tokens : u # t => attempts'[u] = attempts[u]
        /\ attempts'[t] = [attempts[t] EXCEPT !.state = "pilot-process-ended", !.phase = "finished"]
    BY <2>3, Updated
  <2>5. attempts'[t].state = "pilot-process-ended" /\ attempts'[t].slice = attempts[t].slice
    BY <2>4, Rows DEF AttemptType
  <2>6. UNCHANGED <<slices, jobs, results>>
    BY <1>10 DEF PilotSettle
  <2>7. Kept(t)'
    BY <2>2, <2>5, <2>6 DEF Survival, Kept, Dispatched, IsPilot
  <2>. QED
    BY <1>2, <2>1, <2>2, <2>4, <2>5, <2>6, <2>7, LastChanges
<1>11. ASSUME NEW w \in Workers, RecoverCommit(w) PROVE Survival'
  <2>1. Judges(w) /\ results' = results
    BY <1>11 DEF RecoverCommit, Lease
  <2>2. CASE ~Same(w)
    BY <1>1, <1>11, <2>1, <2>2 DEF RecoverCommit
  <2>3. CASE Same(w)
    <3>1. PICK t \in Tokens : t = snap[w].token
      BY <1>11, <2>1 DEF RecoverCommit, Judges
    <3>. PICK a : a = attempts[t]
      OBVIOUS
    <3>. PICK end : end = Recovered(a, results[t])
      OBVIOUS
    <3>2. /\ a = snap[w].attempt /\ results[t] = snap[w].file /\ a.state = "running" /\ ~IsPilot(a)
          /\ slices[a.slice] = "pending"
          /\ results[t] # "none" => results[t] = "pending-review" /\ a.phase = "dispatch-intent"
      BY <1>11, <2>1, <2>3, <3>1 DEF RecoverCommit, Judges, Same, Selectable
    <3>3. a.slice \in Slices
      BY <3>2, Rows DEF IsPilot, AttemptType
    <3>4. /\ Update(t, end.state, end.phase)
          /\ slices' = IF a.phase = "reserved" THEN slices ELSE [slices EXCEPT ![a.slice] = end.state]
          /\ jobs' = IF end.state = "pending-review" THEN Reviewable(a.slice, slices') ELSE jobs
      BY <1>11, <2>3, <3>1, <3>2 DEF RecoverCommit
    <3>5. /\ end.state \in States /\ end.phase \in Phases
          /\ end.state = "pending-review" <=> results[t] # "none"
          /\ a.phase = "reserved" => results[t] = "none" /\ end.phase = "recovered"
          /\ a.phase # "reserved" => end.state \in SliceStates \ {"pending"}
      BY <3>2, RecoveredType DEF Recovered
    <3>6. /\ Tokens' = Tokens /\ \A u \in Tokens : u # t => attempts'[u] = attempts[u]
          /\ attempts'[t] = [attempts[t] EXCEPT !.state = end.state, !.phase = end.phase]
      <4>1. end.state \in States /\ end.phase \in Phases
        BY <3>5
      <4>2. Update(t, end.state, end.phase)
        BY <3>4
      <4>3. \E state \in States, phase \in Phases : state = end.state /\ phase = end.phase
        BY <4>1
      <4>4. PICK state \in States, phase \in Phases : state = end.state /\ phase = end.phase
        BY <4>3
      <4>5. Update(t, state, phase)
        BY <4>2, <4>4
      <4>6. /\ Tokens' = Tokens /\ \A u \in Tokens : u # t => attempts'[u] = attempts[u]
            /\ attempts'[t] = [attempts[t] EXCEPT !.state = state, !.phase = phase]
        BY <4>5, Updated
      <4>. QED
        BY <4>4, <4>6
    <3>7. attempts'[t].state = end.state /\ attempts'[t].phase = end.phase /\ attempts'[t].slice = a.slice
      BY <3>6, Rows DEF AttemptType
    <3>8. JobsFollow' /\ \A r \in Slices : slices[r] # "pending" => slices'[r] # "pending"
      <4>1. CASE a.phase = "reserved"
        BY <1>2, <3>4, <3>5, <4>1
      <4>2. CASE a.phase # "reserved"
        <5>1. JobsFollow'
          BY <3>2, <3>3, <3>4, <3>5, <4>2, JobFollows DEF Survival
        <5>2. \A r \in Slices : slices[r] # "pending" => slices'[r] # "pending"
          BY <3>2, <3>3, <3>4, <4>2 DEF Typed, TypeOK
        <5>. QED
          BY <5>1, <5>2
      <4>. QED
        BY <4>1, <4>2
    <3>9. Kept(t)'
      <4>1. ~Dispatched(t)' \/ slices'[a.slice] # "pending"
        <5>1. CASE a.phase = "reserved"
          BY <3>5, <3>7, <5>1 DEF Dispatched
        <5>2. CASE a.phase # "reserved"
          BY <3>3, <3>4, <3>5, <5>2 DEF Typed, TypeOK
        <5>. QED
          BY <5>1, <5>2
      <4>. QED
        BY <2>1, <3>2, <3>5, <3>7, <4>1 DEF Kept, IsPilot
    <3>. QED
      BY <2>1, <3>1, <3>2, <3>6, <3>7, <3>8, <3>9, LastChanges
  <2>. QED
    BY <2>2, <2>3
<1>12. ASSUME NEW w \in Workers,
              \/ StartDaily(w) \/ Stop(w) \/ Throw(w) \/ RecoverRead(w) \/ RecoverCheck(w) \/ PolicyChanged(w)
              \/ Idle(w) \/ Select(w) \/ Refused(w) \/ Launch(w) \/ Finish(w) \/ Unresolved(w)
       PROVE  Survival'
  BY <1>1, <1>12 DEF StartDaily, Stop, Throw, RecoverRead, RecoverCheck, PolicyChanged, Idle, Select, Refused,
     Launch, Finish, Unresolved
<1>13. ASSUME \/ \E t \in Tokens : TreeEnds(t)
              \/ \E seconds \in Limits : ConfigureBudget(seconds)
              \/ \E j \in Jobs : EditPolicy(j)
              \/ NextDay \/ UNCHANGED vars
       PROVE  Survival'
  BY <1>1, <1>13 DEF TreeEnds, ConfigureBudget, EditPolicy, NextDay, vars
<1>. QED
  BY <1>3, <1>4, <1>5, <1>7, <1>8, <1>9, <1>10, <1>11, <1>12, <1>13 DEF Next, Proceed

-----------------------------------------------------------------------------
(* The theorems *)

\* The empty queue.
LEMMA InitHolds ==
  ASSUME Init
  PROVE  Typed /\ Lease /\ Survival
<1>. USE QueueAssumption, BoundsAssumption
<1>1. /\ attempts = <<>> /\ Len(attempts) = 0 /\ Len(results) = 0 /\ Len(trees) = 0 /\ Tokens = {}
      /\ attempts \in Seq(AttemptType) /\ results \in Seq(Files)
      /\ results \in Seq(SliceStates \union {"none", "partial"}) /\ trees \in Seq({"none", "active", "empty"})
  BY EmptySeq DEF Init, Tokens
<1>2. Typed
  <2>1. /\ slices \in [Slices -> SliceStates] /\ jobs \in [Jobs -> {"pending", "pending-review"}]
        /\ budget \in [0..MaxDay -> Nat] /\ limit \in Limits /\ quota \in BOOLEAN /\ probed \subseteq Approvals
        /\ excluded \subseteq Jobs
    BY DEF Init, SliceStates
  <2>2. /\ pc \in [Workers -> Labels] /\ policy \in [Workers -> SUBSET Jobs] /\ calls \in [Workers -> Nat]
        /\ picked \in [Workers -> {NoPick} \union [slice : Slices, day : Nat]]
    BY DEF Init, Labels
  <2>3. token \in [Workers -> 0..Len(attempts)] /\ snap \in [Workers -> SnapType]
    BY <1>1 DEF Init, SnapType
  <2>4. day \in 0..MaxDay /\ crashes \in Nat /\ edits \in Nat
    BY DEF Init
  <2>. QED
    BY <1>1, <2>1, <2>2, <2>3, <2>4 DEF Typed, TypeOK
<1>3. Lease
  BY <1>1 DEF Init, Lease, Owns, Holds, Judges, Holding
<1>4. Survival
  BY <1>1 DEF Init, Survival, SentOnce, JobsFollow
<1>. QED
  BY <1>2, <1>3, <1>4

\* The three together are inductive.
LEMMA Inductive ==
  Typed /\ Lease /\ Survival /\ [Next]_vars => Typed' /\ Lease' /\ Survival'
  BY TypedStep, LeaseStep, SurvivalStep

\* The type invariant, for any number of workers, slices and days.
THEOREM QueueIsTyped ==
  Spec => []TypeOK
<1>1. Typed => TypeOK
  BY DEF Typed
<1>. QED
  BY <1>1, InitHolds, Inductive, PTL DEF Spec

\* The lease is exclusive: no two process trees of models at a time, whoever died and whoever recovered,
\* and no recovery takes a lease from a worker that lives.
THEOREM LeaseExcludes ==
  Spec => []LeaseIsExclusive
<1>1. Typed /\ Lease => LeaseIsExclusive
  <2>. SUFFICES ASSUME Typed, Lease PROVE LeaseIsExclusive
    OBVIOUS
  <2>1. OwnerHolds
    BY HoldsAll DEF Lease
  <2>2. OneTree
    <3>. DEFINE active == {t \in Tokens : trees[t] = "active"}
    <3>1. active \subseteq {Len(attempts)}
      BY DEF Lease, OneAt
    <3>2. active = {} \/ active = {Len(attempts)}
      BY <3>1
    <3>3. Cardinality(active) = 0 \/ Cardinality(active) = 1
      BY <3>2, FS_EmptySet, FS_Singleton
    <3>. HIDE DEF active
    <3>4. Cardinality(active) <= 1
      BY <3>3
    <3>. QED
      BY <3>4 DEF OneTree, active
  <2>. QED
    BY <2>1, <2>2 DEF LeaseIsExclusive
<1>. QED
  BY <1>1, InitHolds, Inductive, PTL DEF Spec

\* Results survive: no slice is sent twice except after a rejection for quota, no finished result is
\* written off, and a job awaits review exactly when all its slices do.
THEOREM QueueKeepsResults ==
  Spec => []ResultsSurvive
<1>1. Survival => ResultsSurvive
  BY DEF Survival, Kept, ResultsSurvive, ResultsKept
<1>. QED
  BY <1>1, InitHolds, Inductive, PTL DEF Spec
=============================================================================
