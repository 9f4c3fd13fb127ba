------------------------- MODULE PeerProgressProofs -------------------------
(***************************************************************************)
(* What TLAPS proves of PeerProgress, for all values of its constants that *)
(* let one waiter at a time reclaim a lock: the ledger and the             *)
(* publications keep their promises whoever waits, gives up or dies.       *)
(*                                                                         *)
(* The argument: who writes the ledger holds ledger.lock and who publishes *)
(* holds publish.lock (Held), so what a call read when it planned still    *)
(* holds when it writes.  What is left of a plan may follow the ledger     *)
(* (Follow), and after its first line the rest may (FollowRest); a grant   *)
(* has the number of the call that opened it, so no two are alike (Named); *)
(* a publication knows its actor's last event and its use is recorded      *)
(* (Informed).                                                             *)
(***************************************************************************)
EXTENDS PeerProgress, FiniteSetTheorems, SequenceTheorems, WellFoundedInduction, TLAPS

(* Lemmas on the data *)

\* A finite set as a sequence: each of its elements once.
LEMMA SetAsSequence ==
  ASSUME NEW S, IsFiniteSet(S)
  PROVE  /\ SetToSeq(S) \in Seq(S) /\ Len(SetToSeq(S)) = Cardinality(S) /\ Cardinality(S) \in Nat
         /\ \A i, j \in 1..Len(SetToSeq(S)) : SetToSeq(S)[i] = SetToSeq(S)[j] => i = j
         /\ S # {} => SetToSeq(S) # <<>>
<1>1. Cardinality(S) \in Nat /\ ExistsBijection(1..Cardinality(S), S)
  BY FS_CardinalityType
<1>2. PICK n \in Nat : n = Cardinality(S)
  BY <1>1
<1>3. \E f \in [1..n -> S] : IsInjective(f)
  BY <1>1, <1>2 DEF ExistsBijection, Bijection, Injection, IsInjective
<1>4. SetToSeq(S) \in [1..n -> S] /\ IsInjective(SetToSeq(S))
  BY <1>2, <1>3, Zenon DEF SetToSeq
<1>5. PICK s : s = SetToSeq(S)
  OBVIOUS
<1>6. s \in Seq(S) /\ Len(s) = n /\ DOMAIN s = 1..n
  BY <1>4, <1>5, LenProperties
<1>7. S # {} => s # <<>>
  BY <1>2, <1>6, FS_EmptySet, EmptySeq
<1>. QED
  BY <1>2, <1>4, <1>5, <1>6, <1>7 DEF IsInjective

\* What a function ranges over on a finite set is finite.
LEMMA ImageIsFinite ==
  ASSUME NEW D, IsFiniteSet(D), NEW T, NEW f \in [D -> T], \A t \in T : \E i \in D : f[i] = t
  PROVE  IsFiniteSet(T)
<1>1. f \in Surjection(D, T)
  BY DEF Surjection
<1>. QED
  BY <1>1, FS_Surjection

\* A nonempty set of numbers up to n has a greatest: the least of its bounds.
LEMMA GreatestExists ==
  ASSUME NEW n \in Nat, NEW S \in SUBSET (1..n), S # {}
  PROVE  \E m \in S : \A k \in S : k <= m
<1>. DEFINE Less == {p \in Nat \X Nat : p[1] < p[2]}
<1>. DEFINE Bounds == {m \in Nat : \A k \in S : k <= m}
<1>1. Less = OpToRel(<, Nat)
  BY Zenon DEF OpToRel
<1>2. \E x \in Bounds : \A y \in Bounds : ~ (<<y, x>> \in Less)
  <2>1. IsWellFoundedOn(Less, Nat)
    BY <1>1, NatLessThanWellFounded, Zenon
  <2>2. n \in Bounds /\ Bounds \in SUBSET Nat
    OBVIOUS
  <2>. HIDE DEF Less, Bounds
  <2>3. Bounds # {}
    BY <2>2
  <2>. QED
    BY <2>1, <2>2, <2>3, WFMin, Zenon
<1>3. PICK m \in Bounds : \A y \in Bounds : ~ (<<y, m>> \in Less)
  BY <1>2
<1>4. ASSUME NEW y \in Bounds PROVE m <= y
  <2>1. <<y, m>> \in Nat \X Nat /\ <<y, m>>[1] = y /\ <<y, m>>[2] = m
    OBVIOUS
  <2>2. ~ (y < m)
    BY <1>3, <2>1
  <2>. QED
    BY <2>2
<1>5. m \in S
  <2>. SUFFICES ASSUME m \notin S PROVE FALSE
    OBVIOUS
  <2>1. \A k \in S : k \in Nat /\ 1 <= k /\ k <= m - 1
    OBVIOUS
  <2>2. m - 1 \in Nat
    <3>1. PICK k \in S : k \in Nat /\ 1 <= k /\ k <= m - 1
      BY <2>1
    <3>. QED
      BY <3>1
  <2>3. m - 1 \in Bounds
    BY <2>1, <2>2
  <2>. QED
    BY <1>4, <2>3
<1>. QED
  BY <1>5

----------------------------------------------------------------------------
(* The ledger *)

Entry == [type : {"opened", "closed", "used"}, grant : Nat, provider : Providers, expires : Nat,
          item : Items \union {None}, at : Nat]
Line == [type : {"opened", "closed", "used"}, grant : Nat, provider : Providers, expires : Nat,
         item : Items \union {None}, at : Nat, prev : Nat]
Event == [item : Items, replaces : Items \union {None}]

\* The ledger, the artifacts and the events are what their writers write.
FilesTyped ==
  /\ lines \in Seq(Line) /\ head \in Nat /\ summarised \subseteq Nat
  /\ artifacts \subseteq Items /\ events \in Seq(Event)
  /\ clock \in Nat /\ calls \in Nat /\ deaths \in Nat /\ undone \in Nat

\* The lines under which a grant is open are lines that open one.
LEMMA OpenLines ==
  ASSUME FilesTyped
  PROVE  /\ Len(lines) \in Nat /\ \A i \in 1..Len(lines) : lines[i] \in Line
         /\ DOMAIN lines = 1..Len(lines)
         /\ \A i \in OpenAfter(Len(lines)) : i \in 1..Len(lines) /\ Opened(i) /\ lines[i] \in Line
         /\ \A g \in OpenGrants : g \in Line /\ \E i \in OpenAfter(Len(lines)) : lines[i] = g
<1>1. Len(lines) \in Nat /\ DOMAIN lines = 1..Len(lines) /\ \A i \in 1..Len(lines) : lines[i] \in Line
  BY LenProperties, ElementOfSeq DEF FilesTyped
<1>2. \A i \in OpenAfter(Len(lines)) : i \in 1..Len(lines) /\ Opened(i)
  BY DEF OpenAfter
<1>. QED
  BY <1>1, <1>2 DEF OpenGrants

\* Records made of some open grants: a sequence of entries of that type, one for each.
RecordsFrom(type, G, item, t) == SetToSeq({Record(type, g, item, t) : g \in G})
AreRecords(s, type, G, item, t) ==
  /\ s \in Seq(Entry) /\ Len(s) \in Nat
  /\ \A i, j \in 1..Len(s) : s[i] = s[j] => i = j
  /\ \A j \in 1..Len(s) : \E g \in G : s[j] = Record(type, g, item, t)
  /\ G # {} => s # <<>>

LEMMA RecordsOf ==
  ASSUME FilesTyped, NEW G \in SUBSET OpenGrants,
         NEW type \in {"opened", "closed", "used"}, NEW item \in Items \union {None}, NEW t \in Nat,
         NEW s, s = RecordsFrom(type, G, item, t)
  PROVE  AreRecords(s, type, G, item, t)
<1>1. OpenGrants \in SUBSET Line
  BY OpenLines
<1>2. IsFiniteSet(G)
  <2>1. 1 \in Int /\ Len(lines) \in Int
    BY OpenLines
  <2>2. IsFiniteSet(1..Len(lines))
    BY <2>1, FS_Interval, ZenonT(60)
  <2>3. OpenAfter(Len(lines)) \in SUBSET (1..Len(lines))
    BY OpenLines
  <2>4. IsFiniteSet(OpenAfter(Len(lines)))
    BY <2>2, <2>3, FS_Subset, ZenonT(60)
  <2>5. PICK f : f = [i \in OpenAfter(Len(lines)) |-> lines[i]]
    OBVIOUS
  <2>6. /\ f \in [OpenAfter(Len(lines)) -> OpenGrants]
        /\ \A g \in OpenGrants : \E i \in OpenAfter(Len(lines)) : f[i] = g
    BY <2>5, OpenLines DEF OpenGrants
  <2>7. IsFiniteSet(OpenGrants)
    BY <2>4, <2>6, ImageIsFinite
  <2>. QED
    BY <2>7, FS_Subset, ZenonT(60)
<1>s. PICK S : S = {Record(type, g, item, t) : g \in G}
  OBVIOUS
<1>3. \A g \in G : Record(type, g, item, t) \in Entry
  BY <1>1 DEF Record, Entry, Line
<1>4. IsFiniteSet(S)
  <2>1. PICK f : f = [g \in G |-> Record(type, g, item, t)]
    OBVIOUS
  <2>2. f \in [G -> S] /\ \A x \in S : \E g \in G : f[g] = x
    BY <1>s, <2>1
  <2>. QED
    BY <1>2, <2>2, ImageIsFinite
<1>5. /\ s \in Seq(S) /\ Len(s) \in Nat /\ (S # {} => s # <<>>)
      /\ \A i, j \in 1..Len(s) : s[i] = s[j] => i = j
  BY <1>s, <1>4, SetAsSequence DEF RecordsFrom
<1>6. \A j \in 1..Len(s) : s[j] \in S
  BY <1>5, ElementOfSeq
<1>7. s \in Seq(Entry)
  <2>1. S \in SUBSET Entry
    BY <1>s, <1>3
  <2>2. \A j \in 1..Len(s) : s[j] \in Entry
    BY <1>6, <2>1
  <2>3. DOMAIN s = 1..Len(s) /\ s \in [1..Len(s) -> S]
    BY <1>5, LenProperties
  <2>4. s \in [1..Len(s) -> Entry]
    BY <2>2, <2>3
  <2>. QED
    BY <1>5, <2>4
<1>. QED
  <2>1. G # {} => S # {}
    BY <1>s
  <2>2. \A j \in 1..Len(s) : \E g \in G : s[j] = Record(type, g, item, t)
    BY <1>s, <1>6
  <2>. QED
    BY <1>5, <1>7, <2>1, <2>2 DEF AreRecords

\* A line closes what it closes and replaces what it replaces: the rest stays open.
LEMMA OpenAfterAppend ==
  ASSUME FilesTyped, NEW e \in Line, lines' = Append(lines, e), NEW n \in Nat, n = Len(lines)
  PROVE  /\ Len(lines') = n + 1 /\ lines'[n + 1] = e
         /\ \A i \in 1..n : lines'[i] = lines[i]
         /\ \A k \in Nat : k <= n => OpenAfter(k)' = OpenAfter(k)
         /\ OpenAfter(n + 1)' =
              {i \in OpenAfter(n) :
                 /\ ~(e.type = "opened" /\ e.provider = lines[i].provider)
                 /\ ~(e.type = "closed" /\ e.grant = lines[i].grant)}
              \union (IF e.type = "opened" THEN {n + 1} ELSE {})
<1>2. /\ Len(lines') = n + 1 /\ lines'[n + 1] = e
      /\ \A i \in 1..n : lines'[i] = lines[i]
  BY AppendProperties DEF FilesTyped
<1>3. ASSUME NEW k \in Nat, k <= n PROVE OpenAfter(k)' = OpenAfter(k)
  <2>1. \A i \in 1..k : lines'[i] = lines[i]
    BY <1>2, <1>3
  <2>2. \A i \in 1..k : \A j \in (i + 1)..k : j \in 1..k
    OBVIOUS
  <2>3. \A i \in 1..k : i \in OpenAfter(k)' <=> i \in OpenAfter(k)
    BY <2>1, <2>2 DEF OpenAfter, Opened
  <2>. QED
    BY <2>3 DEF OpenAfter
<1>. DEFINE Stays(i) == /\ ~(e.type = "opened" /\ e.provider = lines[i].provider)
                        /\ ~(e.type = "closed" /\ e.grant = lines[i].grant)
<1>4. ASSUME NEW i \in 1..n PROVE i \in OpenAfter(n + 1)' <=> i \in OpenAfter(n) /\ Stays(i)
  <2>1. \A j \in (i + 1)..n : lines'[j] = lines[j]
    BY <1>2
  <2>2. lines'[i] = lines[i] /\ i \in 1..(n + 1) /\ lines'[n + 1] = e
    BY <1>2
  <2>3. (i + 1)..(n + 1) = ((i + 1)..n) \union {n + 1}
    OBVIOUS
  <2>. QED
    BY <2>1, <2>2, <2>3 DEF OpenAfter, Opened
<1>5. n + 1 \in OpenAfter(n + 1)' <=> e.type = "opened"
  <2>1. n + 1 \in 1..(n + 1) /\ ((n + 1) + 1)..(n + 1) = {}
    OBVIOUS
  <2>. QED
    BY <1>2, <2>1 DEF OpenAfter, Opened
<1>6. OpenAfter(n + 1)' \in SUBSET ((1..n) \union {n + 1}) /\ OpenAfter(n) \in SUBSET (1..n)
  BY DEF OpenAfter
<1>7. n + 1 \notin 1..n
  OBVIOUS
<1>8. OpenAfter(n + 1)' = {i \in OpenAfter(n) : Stays(i)} \union (IF e.type = "opened" THEN {n + 1} ELSE {})
  <2>. HIDE DEF Stays
  <2>. QED
    BY <1>4, <1>5, <1>6, <1>7
<1>. QED
  BY <1>2, <1>3, <1>8

----------------------------------------------------------------------------
(* What a call has at hand at each label *)

Writing == {"held", "verify", "line", "head"}
Labels == Writing \union {"idle", "wait", "remove", "granted", "prepare", "artifact", "event"}
Phases == {"none", "sweep", "open", "close", "advise", "use", "publish"}
Call == [kind : {"open", "close", "status", "query", "advise", "publish"}, provider : Providers,
         item : Items \union {None}, until : Nat, id : Nat]
Local == [pc : Labels, call : Call \union {None}, phase : Phases, want : {"none", "ledger", "publish"},
          mine : SUBSET {"ledger", "publish"}, em : Nat \union {None}, now : Nat, todo : Seq(Entry),
          base : Nat, current : Items \union {None}]

\* A publication names one of the proposals and is by its provider.
Proper(c) == c \in Call /\ (c.kind = "publish" => c.item \in Items /\ c.provider = ProviderOf[c.item])

\* The lock of publications is held while the use of a grant is recorded for one.
Uses(r) == r.phase = "use" /\ r.call.kind = "publish"
Beside(r) == IF Uses(r) THEN {"publish"} ELSE {}

Fits(r) ==
  /\ r.pc = "idle" => r.mine = {}
  /\ r.pc # "idle" =>
       /\ Proper(r.call)
       /\ r.phase = "sweep" => r.call.kind \notin {"open", "close"}
       /\ r.phase \in {"open", "close", "advise", "publish"} => r.call.kind = r.phase
       /\ r.phase = "use" => r.call.kind \in {"query", "publish"}
  /\ r.pc \in {"wait", "remove"} =>
       /\ r.phase # "none" /\ r.want = (IF r.phase = "publish" THEN "publish" ELSE "ledger")
       /\ r.mine = Beside(r)
  /\ r.pc \in Writing => r.phase \notin {"none", "publish"} /\ r.mine = {"ledger"} \union Beside(r)
  /\ r.pc = "granted" => r.phase = "sweep" /\ r.mine = {}
  /\ r.pc = "prepare" => r.phase = "publish"
  /\ r.pc \in {"prepare", "artifact", "event"} => r.call.kind = "publish" /\ r.mine = {"publish"}

\* A lock is the process's that says it is, and one that is about to be removed is stale.
Locked ==
  /\ lock \in [{"ledger", "publish"} -> Procs \union {Free, Gone}]
  /\ \A p \in Procs : \A l \in proc[p].mine : lock[l] = p
  /\ \A p \in Procs : At(p, "remove") => lock[proc[p].want] = Gone
  /\ \A p, q \in Procs : At(p, "remove") /\ At(q, "remove") => p = q

Held ==
  /\ proc \in [Procs -> Local] /\ \A p \in Procs : Fits(proc[p])
  /\ Locked

LEMMA IdleFits == Idle \in Local /\ Fits(Idle)
BY EmptySeq DEF Idle, Local, Fits, Labels, Phases, Writing

\* What a waiting call is made of.
LEMMA WaitingFits ==
  ASSUME NEW r \in Local, NEW l \in {"ledger", "publish"}, NEW phase \in Phases
  PROVE  /\ Waiting(r, l, phase) \in Local
         /\ Waiting(r, l, phase).pc = "wait" /\ Waiting(r, l, phase).want = l
         /\ Waiting(r, l, phase).phase = phase /\ Waiting(r, l, phase).mine = r.mine
         /\ Waiting(r, l, phase).call = r.call /\ Waiting(r, l, phase).current = r.current
BY DEF Waiting, Local, Labels

\* A grant that is found has a number.
LEMMA GrantType ==
  ASSUME FilesTyped, NEW provider, NEW t
  PROVE  GrantFor(provider, t) \in Nat \union {None}
<1>. DEFINE mine == {g \in OpenGrants : g.provider = provider /\ ~Expired(g, t)}
<1>1. \A g \in mine : g.grant \in Nat
  BY OpenLines DEF Line
<1>2. mine # {} => (CHOOSE g \in mine : TRUE) \in mine
  OBVIOUS
<1>. HIDE DEF mine
<1>3. (IF Valid /\ mine # {} THEN (CHOOSE g \in mine : TRUE).grant ELSE None) \in Nat \union {None}
  BY <1>1, <1>2
<1>. QED
  BY <1>3 DEF mine, GrantFor

\* What a call does once its grant is evaluated: it ends, or waits for a lock.
LEMMA EvaluatedFits ==
  ASSUME FilesTyped, NEW r \in Local, Proper(r.call), r.call.kind \notin {"open", "close"}, r.mine = {}
  PROVE  /\ Evaluated(r) \in Local /\ Fits(Evaluated(r))
         /\ Evaluated(r).mine = {}
         /\ Evaluated(r).pc = "idle" \/ (/\ Evaluated(r).pc = "wait" /\ Evaluated(r).call = r.call
                                         /\ ~Uses(Evaluated(r)))
<1>1. PICK g \in Nat \union {None} : g = GrantFor(r.call.provider, r.now)
  BY GrantType
<1>2. r.call.kind \in {"status", "advise", "query", "publish"}
  BY DEF Proper, Call
<1>3. CASE Evaluated(r) = Idle
  BY <1>3, IdleFits DEF Idle
<1>4. ASSUME NEW l \in {"ledger", "publish"}, NEW phase \in Phases, NEW s \in Local,
             s.call = r.call /\ s.mine = {}, Evaluated(r) = Waiting(s, l, phase),
             \/ r.call.kind = "advise" /\ l = "ledger" /\ phase = "advise"
             \/ r.call.kind = "query" /\ l = "ledger" /\ phase = "use"
             \/ r.call.kind = "publish" /\ l = "publish" /\ phase = "publish"
      PROVE  /\ Evaluated(r) \in Local /\ Fits(Evaluated(r)) /\ Evaluated(r).mine = {}
             /\ Evaluated(r).pc = "wait" /\ Evaluated(r).call = r.call /\ ~Uses(Evaluated(r))
  <2>1. PICK e : e = Evaluated(r)
    OBVIOUS
  <2>2. /\ e \in Local /\ e.pc = "wait" /\ e.want = l /\ e.phase = phase /\ e.mine = {} /\ e.call = r.call
    BY <1>4, <2>1, WaitingFits
  <2>3. ~Uses(e) /\ Beside(e) = {}
    BY <1>4, <2>2 DEF Uses, Beside
  <2>4. Fits(e)
    BY <1>4, <2>2, <2>3 DEF Fits, Writing
  <2>. QED
    BY <2>1, <2>2, <2>3, <2>4
<1>5. PICK s : s = [r EXCEPT !.em = g]
  OBVIOUS
<1>6. s \in Local /\ s.call = r.call /\ s.mine = r.mine
  BY <1>5 DEF Local
<1>7. \/ Evaluated(r) = Idle
      \/ r.call.kind = "advise" /\ Evaluated(r) = Waiting(r, "ledger", "advise")
      \/ r.call.kind = "query" /\ Evaluated(r) = Waiting(s, "ledger", "use")
      \/ r.call.kind = "publish" /\ Evaluated(r) = Waiting(s, "publish", "publish")
  BY <1>1, <1>2, <1>5 DEF Evaluated
<1>. QED
  BY <1>3, <1>4, <1>6, <1>7 DEF Phases

\* A process moves to where it fits; the locks that change were its own, free, or the one
\* it judged.
LEMMA MovedHolds ==
  ASSUME Held, NEW p \in Procs, NEW r \in Local, Fits(r), Becomes(p, r),
         lock' \in [{"ledger", "publish"} -> Procs \union {Free, Gone}],
         \A l \in {"ledger", "publish"} :
           lock'[l] = lock[l] \/ lock[l] \in {p, Free} \/ (At(p, "remove") /\ l = proc[p].want),
         \A l \in r.mine : lock'[l] = p,
         r.pc = "remove" => lock'[r.want] = Gone /\ \A q \in Procs : ~At(q, "remove")
  PROVE  Held' /\ proc'[p] = r /\ \A q \in Procs \ {p} : proc'[q] = proc[q]
<1>1. /\ proc' \in [Procs -> Local] /\ proc'[p] = r /\ \A q \in Procs \ {p} : proc'[q] = proc[q]
  BY DEF Held, Becomes
<1>2. Free \notin Procs /\ Gone \notin Procs /\ Free # Gone
  BY ProcsAssumption
<1>3. \A q \in Procs : proc[q].mine \in SUBSET {"ledger", "publish"}
  BY DEF Held, Local
<1>4. ASSUME NEW q \in Procs, NEW l \in proc'[q].mine PROVE lock'[l] = q
  <2>1. CASE q = p
    BY <1>1, <1>4, <2>1
  <2>2. CASE q # p
    <3>1. lock[l] = q /\ l \in {"ledger", "publish"}
      BY <1>1, <1>3, <1>4, <2>2 DEF Held, Locked
    <3>2. At(p, "remove") => lock[proc[p].want] = Gone
      BY DEF Held, Locked
    <3>. QED
      BY <1>2, <2>2, <3>1, <3>2
  <2>. QED
    BY <2>1, <2>2
<1>5. ASSUME NEW q \in Procs, proc'[q].pc = "remove" PROVE lock'[proc'[q].want] = Gone
  <2>1. CASE q = p
    BY <1>1, <1>5, <2>1
  <2>2. CASE q # p
    <3>1. At(q, "remove") /\ proc'[q] = proc[q] /\ lock[proc[q].want] = Gone
      BY <1>1, <1>5, <2>2 DEF At, Held, Locked
    <3>2. ~At(p, "remove")
      BY <2>2, <3>1 DEF Held, Locked
    <3>3. proc[q].want \in {"ledger", "publish"}
      <4>1. Fits(proc[q])
        BY DEF Held
      <4>. QED
        BY <3>1, <4>1 DEF Fits, At
    <3>4. lock[proc[q].want] \notin {p, Free}
      BY <1>2, <3>1
    <3>. QED
      BY <3>1, <3>2, <3>3, <3>4
  <2>. QED
    BY <2>1, <2>2
<1>6. ASSUME NEW q \in Procs, NEW s \in Procs, proc'[q].pc = "remove", proc'[s].pc = "remove" PROVE q = s
  BY <1>1, <1>6 DEF At, Held, Locked
<1>7. Locked'
  BY <1>4, <1>5, <1>6 DEF Locked, At
<1>8. \A q \in Procs : Fits(proc[q])'
  BY <1>1 DEF Held, Fits, Beside, Uses
<1>. QED
  BY <1>1, <1>7, <1>8 DEF Held

\* A call that fails ends, or goes on without its sweep; either way it has no lock.
LEMMA ThrowHolds ==
  ASSUME Held, NEW p \in Procs, ~At(p, "idle"), Throw(p)
  PROVE  /\ Held' /\ \A q \in Procs \ {p} : proc'[q] = proc[q]
         /\ proc'[p].mine = {}
         /\ proc'[p].pc = "idle" \/ (proc'[p].pc = "granted" /\ proc'[p].call = proc[p].call)
         /\ proc[p].phase # "sweep" => proc'[p].pc = "idle"
<1>1. proc[p] \in Local /\ Fits(proc[p])
  BY DEF Held
<1>2. PICK r : r = IF proc[p].phase = "sweep"
                     THEN [proc[p] EXCEPT !.pc = "granted", !.mine = {}, !.todo = <<>>] ELSE Idle
  OBVIOUS
<1>3. /\ r \in Local /\ Fits(r) /\ r.mine = {}
      /\ r.pc = "idle" \/ (proc[p].phase = "sweep" /\ r.pc = "granted" /\ r.call = proc[p].call)
  <2>1. CASE proc[p].phase # "sweep"
    BY <1>2, <2>1, IdleFits DEF Idle
  <2>2. CASE proc[p].phase = "sweep"
    <3>1. /\ r \in Local /\ r.pc = "granted" /\ r.mine = {} /\ r.phase = "sweep" /\ r.call = proc[p].call
      BY <1>1, <1>2, <2>2, EmptySeq DEF Local, Labels
    <3>. QED
      BY <1>1, <2>2, <3>1 DEF Fits, At, Writing
  <2>. QED
    BY <2>1, <2>2
<1>4. Becomes(p, r)
  BY <1>2 DEF Throw
<1>5. /\ lock' \in [{"ledger", "publish"} -> Procs \union {Free, Gone}]
      /\ \A l \in {"ledger", "publish"} : lock'[l] = lock[l] \/ lock[l] = p
  BY DEF Throw, Held, Locked
<1>6. Held' /\ proc'[p] = r /\ \A q \in Procs \ {p} : proc'[q] = proc[q]
  BY <1>3, <1>4, <1>5, MovedHolds
<1>. QED
  BY <1>3, <1>6

\* Leaving ledger.lock ends a call, a sweep, or the asking before a publication.
LEMMA LeaveHolds ==
  ASSUME Held, NEW p \in Procs, proc[p].pc \in Writing, Leave(p)
  PROVE  /\ Held' /\ \A q \in Procs \ {p} : proc'[q] = proc[q]
         /\ \/ proc'[p].pc = "idle"
            \/ proc'[p].pc = "granted" /\ proc[p].phase = "sweep" /\ proc'[p].call = proc[p].call
            \/ /\ proc'[p].pc = "artifact" /\ Uses(proc[p])
               /\ proc'[p].call = proc[p].call /\ proc'[p].current = proc[p].current
<1>1. proc[p] \in Local /\ Fits(proc[p])
  BY DEF Held
<1>2. /\ proc[p].mine = {"ledger"} \union Beside(proc[p]) /\ proc[p].phase \notin {"none", "publish"}
      /\ Proper(proc[p].call) /\ (proc[p].phase = "sweep" => proc[p].call.kind \notin {"open", "close"})
  BY <1>1 DEF Fits, Writing
<1>3. PICK s : s = Without(proc[p], "ledger")
  OBVIOUS
<1>4. s \in Local /\ s.mine = Beside(proc[p]) /\ s.call = proc[p].call /\ s.phase = proc[p].phase
        /\ s.current = proc[p].current
  <2>1. proc[p].mine \ {"ledger"} = Beside(proc[p])
    BY <1>2 DEF Beside
  <2>2. s = [proc[p] EXCEPT !.mine = Beside(proc[p])]
    BY <1>3, <2>1 DEF Without
  <2>3. Beside(proc[p]) \in SUBSET {"ledger", "publish"}
    BY DEF Beside
  <2>. QED
    BY <1>1, <2>2, <2>3 DEF Local
<1>5. PICK r : r = CASE s.phase = "sweep" -> [s EXCEPT !.pc = "granted", !.todo = <<>>]
                     [] s.phase = "use" /\ s.call.kind = "publish" -> [s EXCEPT !.pc = "artifact", !.todo = <<>>]
                     [] OTHER -> Idle
  OBVIOUS
<1>6. /\ r \in Local /\ Fits(r) /\ r.mine \in SUBSET Beside(proc[p])
      /\ \/ r.pc = "idle"
         \/ r.pc = "granted" /\ proc[p].phase = "sweep" /\ r.call = proc[p].call
         \/ r.pc = "artifact" /\ Uses(proc[p]) /\ r.call = proc[p].call /\ r.current = proc[p].current
  <2>1. CASE s.phase = "sweep"
    <3>1. r = [s EXCEPT !.pc = "granted", !.todo = <<>>]
      BY <1>5, <2>1
    <3>2. /\ r \in Local /\ r.pc = "granted" /\ r.mine = s.mine /\ r.phase = s.phase /\ r.call = s.call
      BY <1>4, <3>1, EmptySeq DEF Local, Labels
    <3>3. Beside(proc[p]) = {}
      BY <1>4, <2>1 DEF Beside, Uses
    <3>. QED
      BY <1>2, <1>4, <2>1, <3>2, <3>3 DEF Fits, Writing
  <2>2. CASE s.phase = "use" /\ s.call.kind = "publish"
    <3>1. r = [s EXCEPT !.pc = "artifact", !.todo = <<>>]
      BY <1>5, <2>2
    <3>2. /\ r \in Local /\ r.pc = "artifact" /\ r.mine = s.mine /\ r.phase = s.phase /\ r.call = s.call
          /\ r.current = s.current
      BY <1>4, <3>1, EmptySeq DEF Local, Labels
    <3>3. Uses(proc[p]) /\ Beside(proc[p]) = {"publish"}
      BY <1>4, <2>2 DEF Beside, Uses
    <3>. QED
      BY <1>2, <1>4, <2>2, <3>2, <3>3 DEF Fits, Writing
  <2>3. CASE s.phase # "sweep" /\ ~(s.phase = "use" /\ s.call.kind = "publish")
    <3>1. r = Idle
      BY <1>5, <2>3
    <3>. QED
      BY <3>1, IdleFits DEF Idle
  <2>. QED
    BY <2>1, <2>2, <2>3
<1>7. Becomes(p, r)
  BY <1>3, <1>5 DEF Leave
<1>8. \A l \in proc[p].mine : lock[l] = p
  BY DEF Held, Locked
<1>9. /\ lock' = [lock EXCEPT !["ledger"] = Free] /\ lock["ledger"] = p
      /\ lock \in [{"ledger", "publish"} -> Procs \union {Free, Gone}]
  BY <1>2, <1>8 DEF Leave, Held, Locked
<1>10. \A l \in r.mine : lock'[l] = p
  <2>1. \A l \in r.mine : l = "publish" /\ l \in proc[p].mine
    BY <1>2, <1>6 DEF Beside
  <2>. QED
    BY <1>8, <1>9, <2>1
<1>11. Held' /\ proc'[p] = r /\ \A q \in Procs \ {p} : proc'[q] = proc[q]
  BY <1>6, <1>7, <1>9, <1>10, MovedHolds
<1>. QED
  BY <1>6, <1>11

\* What is planned under the lock is a sequence of entries to write, or nothing.
LEMMA PlanHolds ==
  ASSUME Held, NEW p \in Procs, At(p, "held"), NEW records \in Seq(Entry), records # <<>>, Plan(p, records)
  PROVE  /\ Held' /\ \A q \in Procs \ {p} : proc'[q] = proc[q]
         /\ proc'[p].pc = "verify" /\ proc'[p].todo = records /\ proc'[p].call = proc[p].call
         /\ proc'[p].phase = proc[p].phase /\ proc'[p].current = proc[p].current
         /\ lock' = lock
<1>1. proc[p] \in Local /\ Fits(proc[p]) /\ proc[p].pc = "held"
  BY DEF Held, At
<1>2. PICK r : r = [proc[p] EXCEPT !.pc = "verify", !.todo = records]
  OBVIOUS
<1>3. /\ r \in Local /\ r.pc = "verify" /\ r.todo = records /\ r.call = proc[p].call
      /\ r.phase = proc[p].phase /\ r.current = proc[p].current /\ r.mine = proc[p].mine
  BY <1>1, <1>2 DEF Local, Labels, Writing
<1>4. Fits(r)
  BY <1>1, <1>3 DEF Fits, Writing, Beside, Uses
<1>5. Becomes(p, r) /\ lock' = lock
  BY <1>2 DEF Plan
<1>6. Held' /\ proc'[p] = r /\ \A q \in Procs \ {p} : proc'[q] = proc[q]
  <2>1. lock' \in [{"ledger", "publish"} -> Procs \union {Free, Gone}] /\ \A l \in r.mine : lock'[l] = p
    BY <1>3, <1>5 DEF Held, Locked
  <2>. QED
    BY <1>3, <1>4, <1>5, <2>1, MovedHolds
<1>. QED
  BY <1>3, <1>5, <1>6

----------------------------------------------------------------------------
(* Steps that write none of the files a call relies on *)

\* Who publishes under publish.lock knows the last event of its actor.
Knows(r) ==
  (Uses(r) /\ r.pc \in {"wait", "remove"} \union Writing) \/ r.pc \in {"artifact", "event"} =>
    r.current = Current(ActorOf[r.call.item])

\* A step of a call that is neither planned nor writing afterwards.
Quiet(p) ==
  /\ UNCHANGED <<lines, head, artifacts, events, calls, undone>>
  /\ \A q \in Procs \ {p} : proc'[q] = proc[q]
  /\ ~At(p, "idle") /\ ~At(p, "head")
  /\ proc'[p].pc \notin {"verify", "line", "head", "event"}
  /\ proc'[p].pc # "idle" => proc'[p].call = proc[p].call
  /\ proc'[p].pc = "artifact" => proc[p].call.provider \notin Restricted
  /\ Knows(proc[p]) => Knows(proc'[p])

LEMMA CurrentType ==
  ASSUME FilesTyped, NEW actor
  PROVE  Current(actor) \in Items \union {None}
<1>. DEFINE own == {i \in DOMAIN events : ActorOf[events[i].item] = actor}
<1>1. Len(events) \in Nat /\ DOMAIN events = 1..Len(events) /\ \A i \in 1..Len(events) : events[i] \in Event
  BY LenProperties, ElementOfSeq DEF FilesTyped
<1>2. own \in SUBSET (1..Len(events))
  BY <1>1
<1>3. CASE own = {}
  BY <1>3 DEF Current
<1>4. CASE own # {}
  <2>1. \E i \in own : \A j \in own : j <= i
    <3>. HIDE DEF own
    <3>. QED
      BY <1>1, <1>2, <1>4, GreatestExists
  <2>2. (CHOOSE i \in own : \A j \in own : j <= i) \in own
    <3>. HIDE DEF own
    <3>. QED
      BY <2>1
  <2>3. PICK c \in own : c = CHOOSE i \in own : \A j \in own : j <= i
    BY <2>2
  <2>4. Current(actor) = events[c].item
    BY <1>4, <2>3, Zenon DEF Current
  <2>5. events[c] \in Event
    BY <1>1, <1>2
  <2>. QED
    BY <2>4, <2>5 DEF Event
<1>. QED
  BY <1>3, <1>4

LEMMA ThrowIsQuiet ==
  ASSUME Held, NEW p \in Procs, ~At(p, "idle"), ~At(p, "head"), Throw(p),
         UNCHANGED <<lines, head, artifacts, events, calls, undone>>
  PROVE  Held' /\ Quiet(p)
<1>1. /\ Held' /\ \A q \in Procs \ {p} : proc'[q] = proc[q]
      /\ proc'[p].pc = "idle" \/ (proc'[p].pc = "granted" /\ proc'[p].call = proc[p].call)
  BY ThrowHolds
<1>2. Knows(proc'[p])
  BY <1>1 DEF Knows, Writing
<1>. QED
  BY <1>1, <1>2 DEF Quiet

\* Acquiring, judging, removing and giving up.
LEMMA LockHolds ==
  ASSUME FilesTyped, Held, Reclaimers = 1, NEW p \in Procs, Lock(p)
  PROVE  Held' /\ Quiet(p)
<1>. USE DEF files, aux
<1>1. proc[p] \in Local /\ Fits(proc[p])
  BY DEF Held
<1>2. lock \in [{"ledger", "publish"} -> Procs \union {Free, Gone}]
  BY DEF Held, Locked
<1>3. UNCHANGED <<lines, head, artifacts, events, calls, undone>>
  BY DEF Lock, Acquire, Judge, Unlink, GiveUp
<1>4. CASE GiveUp(p)
  BY <1>3, <1>4, ThrowIsQuiet DEF GiveUp, At
<1>5. ASSUME NEW r \in Local, Fits(r), Becomes(p, r),
             lock' \in [{"ledger", "publish"} -> Procs \union {Free, Gone}],
             \A l \in {"ledger", "publish"} :
               lock'[l] = lock[l] \/ lock[l] \in {p, Free} \/ (At(p, "remove") /\ l = proc[p].want),
             \A l \in r.mine : lock'[l] = p,
             r.pc = "remove" => lock'[r.want] = Gone /\ \A q \in Procs : ~At(q, "remove"),
             proc[p].pc \in {"wait", "remove"}, r.pc \in {"wait", "remove", "held", "prepare"},
             r.call = proc[p].call, r.phase = proc[p].phase, r.current = proc[p].current
      PROVE  Held' /\ Quiet(p)
  <2>1. Held' /\ proc'[p] = r /\ \A q \in Procs \ {p} : proc'[q] = proc[q]
    BY <1>5, MovedHolds
  <2>2. Knows(proc[p]) => Knows(r)
    BY <1>5 DEF Knows, Uses, Writing
  <2>. QED
    BY <1>3, <1>5, <2>1, <2>2 DEF Quiet, At
<1>6. CASE Acquire(p)
  <2>1. PICK l \in {"ledger", "publish"} : l = proc[p].want
    BY <1>1, <1>6 DEF Acquire, Fits, At
  <2>2. At(p, "wait") /\ lock[l] = Free /\ lock' = [lock EXCEPT ![l] = p]
    BY <1>6, <2>1 DEF Acquire
  <2>3. PICK r : r = [proc[p] EXCEPT !.pc = IF l = "ledger" THEN "held" ELSE "prepare", !.mine = @ \union {l}]
    OBVIOUS
  <2>4. /\ r \in Local /\ r.pc = (IF l = "ledger" THEN "held" ELSE "prepare") /\ r.mine = proc[p].mine \union {l}
        /\ r.call = proc[p].call /\ r.phase = proc[p].phase /\ r.current = proc[p].current
    BY <1>1, <2>3 DEF Local, Labels, Writing
  <2>5. Fits(r)
    <3>1. /\ proc[p].phase # "none" /\ l = (IF proc[p].phase = "publish" THEN "publish" ELSE "ledger")
          /\ proc[p].mine = Beside(proc[p])
      BY <1>1, <2>1, <2>2 DEF Fits, At
    <3>2. Beside(r) = Beside(proc[p]) /\ (proc[p].phase = "publish" => Beside(r) = {})
      BY <2>4 DEF Beside, Uses
    <3>. QED
      BY <1>1, <2>2, <2>4, <3>1, <3>2 DEF Fits, At, Writing
  <2>6. \A k \in r.mine : lock'[k] = p
    BY <1>2, <2>2, <2>4 DEF Held, Locked
  <2>7. Becomes(p, r)
    BY <1>6, <2>1, <2>3 DEF Acquire
  <2>. QED
    BY <1>2, <1>5, <2>2, <2>4, <2>5, <2>6, <2>7 DEF At
<1>7. CASE Judge(p)
  <2>1. At(p, "wait") /\ lock[proc[p].want] = Gone /\ lock' = lock
    BY <1>7 DEF Judge
  <2>2. \A q \in Procs : ~At(q, "remove")
    <3>1. PICK S : S = {q \in Procs : At(q, "remove")}
      OBVIOUS
    <3>2. IsFiniteSet(S)
      BY <3>1, ProcsAssumption, FS_Subset, ZenonT(60)
    <3>3. Cardinality(S) < 1
      BY <1>7, <3>1 DEF Judge
    <3>4. Cardinality(S) = 0
      BY <3>2, <3>3, FS_CardinalityType
    <3>. QED
      BY <3>1, <3>2, <3>4, FS_EmptySet
  <2>3. PICK r : r = [proc[p] EXCEPT !.pc = "remove"]
    OBVIOUS
  <2>4. /\ r \in Local /\ r.pc = "remove" /\ r.mine = proc[p].mine /\ r.want = proc[p].want
        /\ r.call = proc[p].call /\ r.phase = proc[p].phase /\ r.current = proc[p].current
    BY <1>1, <2>3 DEF Local, Labels
  <2>5. Fits(r)
    BY <1>1, <2>1, <2>4 DEF Fits, At, Writing, Beside, Uses
  <2>6. \A k \in r.mine : lock'[k] = p
    BY <2>1, <2>4 DEF Held, Locked
  <2>7. Becomes(p, r)
    BY <1>7, <2>3 DEF Judge
  <2>. QED
    BY <1>2, <1>5, <2>1, <2>2, <2>4, <2>5, <2>6, <2>7 DEF At
<1>8. CASE Unlink(p)
  <2>1. At(p, "remove") /\ lock' = [lock EXCEPT ![proc[p].want] = Free] /\ lock[proc[p].want] = Gone
    BY <1>8 DEF Unlink, Held, Locked
  <2>2. PICK r : r = [proc[p] EXCEPT !.pc = "wait"]
    OBVIOUS
  <2>3. /\ r \in Local /\ r.pc = "wait" /\ r.mine = proc[p].mine /\ r.want = proc[p].want
        /\ r.call = proc[p].call /\ r.phase = proc[p].phase /\ r.current = proc[p].current
    BY <1>1, <2>2 DEF Local, Labels
  <2>4. Fits(r)
    BY <1>1, <2>1, <2>3 DEF Fits, At, Writing, Beside, Uses
  <2>5. \A k \in r.mine : lock'[k] = p
    <3>1. \A k \in proc[p].mine : lock[k] = p /\ k \in {"ledger", "publish"}
      BY <1>1 DEF Held, Locked, Local
    <3>2. Gone # p
      BY ProcsAssumption
    <3>. QED
      BY <1>2, <2>1, <2>3, <3>1, <3>2
  <2>6. Becomes(p, r)
    BY <1>8, <2>2 DEF Unlink
  <2>. QED
    BY <1>2, <1>5, <2>1, <2>3, <2>4, <2>5, <2>6 DEF At
<1>. QED
  BY <1>4, <1>6, <1>7, <1>8 DEF Lock

LEMMA LeaveIsQuiet ==
  ASSUME Held, NEW p \in Procs, At(p, "held"), ~Uses(proc[p]), Leave(p),
         UNCHANGED <<lines, head, artifacts, events, calls, undone>>
  PROVE  Held' /\ Quiet(p)
<1>1. /\ Held' /\ \A q \in Procs \ {p} : proc'[q] = proc[q]
      /\ proc'[p].pc = "idle" \/ (proc'[p].pc = "granted" /\ proc'[p].call = proc[p].call)
  BY LeaveHolds DEF At, Writing
<1>2. Knows(proc'[p])
  BY <1>1 DEF Knows, Writing
<1>. QED
  BY <1>1, <1>2 DEF Quiet, At

\* A call has entries to write.
Planned(p, records) ==
  /\ UNCHANGED <<lines, head, artifacts, events, calls, undone>>
  /\ \A q \in Procs \ {p} : proc'[q] = proc[q]
  /\ At(p, "held") /\ records \in Seq(Entry) /\ records # <<>>
  /\ proc'[p].pc = "verify" /\ proc'[p].todo = records /\ proc'[p].call = proc[p].call
  /\ proc'[p].phase = proc[p].phase /\ proc'[p].current = proc[p].current

LEMMA PlanIsQuiet ==
  ASSUME Held, NEW p \in Procs, At(p, "held"), NEW records \in Seq(Entry),
         records = <<>> => ~Uses(proc[p]), Plan(p, records),
         UNCHANGED <<lines, head, artifacts, events, calls, undone>>
  PROVE  Held' /\ (Quiet(p) \/ Planned(p, records))
<1>1. CASE records = <<>>
  BY <1>1, LeaveIsQuiet DEF Plan
<1>2. CASE records # <<>>
  BY <1>2, PlanHolds DEF Planned
<1>. QED
  BY <1>1, <1>2

\* The entries that close what has expired.
LEMMA ClosesAreRecords ==
  ASSUME FilesTyped, NEW t \in Nat
  PROVE  AreRecords(ClosesOf(t), "closed", {o \in OpenGrants : Expired(o, t)}, None, t)
<1>1. PICK G \in SUBSET OpenGrants : G = {o \in OpenGrants : Expired(o, t)}
  OBVIOUS
<1>2. PICK s : s = ClosesOf(t)
  OBVIOUS
<1>3. PICK type \in {"opened", "closed", "used"} : type = "closed"
  OBVIOUS
<1>4. PICK x \in Items \union {None} : x = None
  OBVIOUS
<1>5. s = RecordsFrom(type, G, x, t)
  BY <1>1, <1>2, <1>3, <1>4 DEF ClosesOf, RecordsFrom
<1>6. AreRecords(s, type, G, x, t)
  BY <1>5, RecordsOf
<1>. QED
  BY <1>1, <1>2, <1>3, <1>4, <1>6, Zenon

LEMMA SweepHolds ==
  ASSUME FilesTyped, Held, NEW p \in Procs, SweepExpired(p)
  PROVE  Held' /\ (Quiet(p) \/ (Planned(p, ClosesOf(proc[p].now)) /\ proc[p].phase = "sweep"))
<1>1. At(p, "held") /\ proc[p].phase = "sweep" /\ UNCHANGED <<lines, head, artifacts, events, calls, undone>>
  BY DEF SweepExpired, Under, files, aux
<1>2. ~Uses(proc[p]) /\ ~At(p, "idle") /\ ~At(p, "head")
  BY <1>1 DEF Uses, At
<1>3. ClosesOf(proc[p].now) \in Seq(Entry)
  BY ClosesAreRecords DEF Held, Local, AreRecords
<1>4. CASE Throw(p)
  BY <1>1, <1>2, <1>4, ThrowIsQuiet
<1>5. CASE Plan(p, ClosesOf(proc[p].now))
  BY <1>1, <1>2, <1>3, <1>5, PlanIsQuiet
<1>. QED
  BY <1>4, <1>5 DEF SweepExpired

\* The grant a call opens is an entry.
LEMMA NewGrantIsEntry ==
  ASSUME NEW r \in Local, r.call \in Call
  PROVE  NewGrant(r) \in Entry /\ NewGrant(r).type = "opened" /\ NewGrant(r).grant = r.call.id
         /\ NewGrant(r).provider = r.call.provider /\ NewGrant(r).expires = r.call.until
         /\ NewGrant(r).at = r.now
BY DEF NewGrant, Record, Entry, Local, Call

LEMMA OpenHolds ==
  ASSUME FilesTyped, Held, NEW p \in Procs, OpenGrant(p)
  PROVE  /\ Held'
         /\ \/ Quiet(p)
            \/ /\ Planned(p, Append(ClosesOf(proc[p].now), NewGrant(proc[p]))) /\ proc[p].phase = "open"
               /\ \A g \in OpenGrants : g.provider = proc[p].call.provider =>
                    Expired(g, proc[p].now) \/ proc[p].call.until > g.expires
<1>1. At(p, "held") /\ proc[p].phase = "open" /\ UNCHANGED <<lines, head, artifacts, events, calls, undone>>
  BY DEF OpenGrant, Under, files, aux
<1>2. ~Uses(proc[p]) /\ ~At(p, "idle") /\ ~At(p, "head")
  BY <1>1 DEF Uses, At
<1>3. proc[p] \in Local /\ proc[p].call \in Call
  BY <1>1 DEF Held, Fits, At, Proper
<1>4. Append(ClosesOf(proc[p].now), NewGrant(proc[p])) \in Seq(Entry)
  <2>1. ClosesOf(proc[p].now) \in Seq(Entry)
    BY <1>3, ClosesAreRecords DEF Local, AreRecords
  <2>. QED
    BY <1>3, <2>1, NewGrantIsEntry, AppendProperties
<1>5. CASE Throw(p)
  BY <1>1, <1>2, <1>5, ThrowIsQuiet
<1>6. CASE ~Throw(p)
  <2>1. PICK prior : prior = {g \in OpenGrants : g.provider = proc[p].call.provider /\ ~Expired(g, proc[p].now)}
    OBVIOUS
  <2>2. /\ Plan(p, Append(ClosesOf(proc[p].now), NewGrant(proc[p])))
        /\ \A g \in prior : proc[p].call.until > g.expires
    BY <1>6, <2>1 DEF OpenGrant
  <2>. QED
    BY <1>1, <1>2, <1>4, <2>1, <2>2, PlanIsQuiet
<1>. QED
  BY <1>5, <1>6

\* The entries of a closing, and of a use.
Closing(p) == SetToSeq({Record("closed", g, None, clock) :
                g \in {o \in OpenGrants : o.provider = proc[p].call.provider}})
Active(p) == {g \in OpenGrants : g.grant = proc[p].em /\ ~Expired(g, clock)}
Using(p) == SetToSeq({Record("used", g, proc[p].call.item, clock) : g \in Active(p)})

LEMMA CloseHolds ==
  ASSUME FilesTyped, Held, NEW p \in Procs, CloseGrant(p)
  PROVE  /\ Held'
         /\ \/ Quiet(p)
            \/ /\ Planned(p, Closing(p)) /\ proc[p].phase = "close"
               /\ AreRecords(Closing(p), "closed", {o \in OpenGrants : o.provider = proc[p].call.provider},
                             None, clock)
<1>1. At(p, "held") /\ proc[p].phase = "close" /\ UNCHANGED <<lines, head, artifacts, events, calls, undone>>
  BY DEF CloseGrant, Under, files, aux
<1>2. ~Uses(proc[p]) /\ ~At(p, "idle") /\ ~At(p, "head")
  BY <1>1 DEF Uses, At
<1>3. AreRecords(Closing(p), "closed", {o \in OpenGrants : o.provider = proc[p].call.provider}, None, clock)
  <2>1. PICK G \in SUBSET OpenGrants : G = {o \in OpenGrants : o.provider = proc[p].call.provider}
    OBVIOUS
  <2>2. PICK s : s = Closing(p)
    OBVIOUS
  <2>3. PICK type \in {"opened", "closed", "used"} : type = "closed"
    OBVIOUS
  <2>4. PICK x \in Items \union {None} : x = None
    OBVIOUS
  <2>5. PICK t \in Nat : t = clock
    BY DEF FilesTyped
  <2>6. s = RecordsFrom(type, G, x, t)
    BY <2>1, <2>2, <2>3, <2>4, <2>5 DEF Closing, RecordsFrom
  <2>7. AreRecords(s, type, G, x, t)
    BY <2>6, RecordsOf
  <2>. QED
    BY <2>1, <2>2, <2>3, <2>4, <2>5, <2>7, Zenon
<1>4. CASE Throw(p)
  BY <1>1, <1>2, <1>4, ThrowIsQuiet
<1>5. CASE Plan(p, Closing(p))
  BY <1>1, <1>2, <1>3, <1>5, PlanIsQuiet DEF AreRecords
<1>. QED
  BY <1>4, <1>5 DEF CloseGrant, Closing

LEMMA UseHolds ==
  ASSUME FilesTyped, Held, NEW p \in Procs, UseGrant(p)
  PROVE  /\ Held'
         /\ \/ Quiet(p)
            \/ /\ Planned(p, Using(p)) /\ proc[p].phase = "use"
               /\ AreRecords(Using(p), "used", Active(p), proc[p].call.item, clock)
<1>1. At(p, "held") /\ proc[p].phase = "use" /\ UNCHANGED <<lines, head, artifacts, events, calls, undone>>
  BY DEF UseGrant, Under, files, aux
<1>2. ~At(p, "idle") /\ ~At(p, "head")
  BY <1>1 DEF At
<1>3. AreRecords(Using(p), "used", Active(p), proc[p].call.item, clock)
  <2>1. Active(p) \in SUBSET OpenGrants /\ clock \in Nat
    BY DEF FilesTyped, Active
  <2>2. proc[p].call.item \in Items \union {None}
    BY <1>1 DEF Held, Fits, At, Proper, Call
  <2>3. PICK G \in SUBSET OpenGrants : G = Active(p)
    BY <2>1
  <2>4. PICK x \in Items \union {None} : x = proc[p].call.item
    BY <2>2
  <2>5. PICK s : s = Using(p)
    OBVIOUS
  <2>6. PICK type \in {"opened", "closed", "used"} : type = "used"
    OBVIOUS
  <2>t. PICK t \in Nat : t = clock
    BY <2>1
  <2>s. s = RecordsFrom(type, G, x, t)
    BY <2>3, <2>4, <2>5, <2>6, <2>t DEF Using, RecordsFrom
  <2>7. AreRecords(s, type, G, x, t)
    BY <2>s, RecordsOf
  <2>. QED
    BY <2>3, <2>4, <2>5, <2>6, <2>7, <2>t, Zenon
<1>4. CASE Throw(p)
  BY <1>1, <1>2, <1>4, ThrowIsQuiet
<1>5. CASE Active(p) # {} /\ Plan(p, Using(p))
  BY <1>1, <1>2, <1>3, <1>5, PlanIsQuiet DEF AreRecords
<1>. QED
  BY <1>4, <1>5 DEF UseGrant, Using, Active

LEMMA SummariseHolds ==
  ASSUME FilesTyped, Held, NEW p \in Procs, Summarise(p)
  PROVE  Held' /\ Quiet(p)
<1>1. At(p, "held") /\ proc[p].phase = "advise" /\ UNCHANGED <<lines, head, artifacts, events, calls, undone>>
  BY DEF Summarise, aux
<1>2. ~Uses(proc[p]) /\ ~At(p, "idle") /\ ~At(p, "head")
  BY <1>1 DEF Uses, At
<1>. QED
  BY <1>1, <1>2, ThrowIsQuiet, LeaveIsQuiet DEF Summarise

LEMMA GrantedHolds ==
  ASSUME FilesTyped, Held, NEW p \in Procs, Granted(p)
  PROVE  Held' /\ Quiet(p)
<1>1. /\ At(p, "granted") /\ Becomes(p, Evaluated(proc[p])) /\ lock' = lock
      /\ UNCHANGED <<lines, head, artifacts, events, calls, undone>>
  BY DEF Granted, files, aux
<1>2. proc[p] \in Local /\ Proper(proc[p].call) /\ proc[p].call.kind \notin {"open", "close"} /\ proc[p].mine = {}
  BY <1>1 DEF Held, Fits, At
<1>3. PICK r : r = Evaluated(proc[p])
  OBVIOUS
<1>4. /\ r \in Local /\ Fits(r) /\ r.mine = {}
      /\ r.pc = "idle" \/ (r.pc = "wait" /\ r.call = proc[p].call /\ ~Uses(r))
  BY <1>2, <1>3, EvaluatedFits
<1>5. Held' /\ proc'[p] = r /\ \A q \in Procs \ {p} : proc'[q] = proc[q]
  <2>1. lock' \in [{"ledger", "publish"} -> Procs \union {Free, Gone}]
    BY <1>1 DEF Held, Locked
  <2>. QED
    BY <1>1, <1>3, <1>4, <2>1, MovedHolds
<1>6. Knows(r)
  BY <1>4 DEF Knows, Writing
<1>. QED
  BY <1>1, <1>4, <1>5, <1>6 DEF Quiet, At

\* A call begins: it waits for a lock, or is over.
LEMMA BeginHolds ==
  ASSUME FilesTyped, Held, NEW p \in Procs, NEW c \in CallsNow, Begin(p, c)
  PROVE  /\ Held' /\ UNCHANGED <<lines, head, artifacts, events, undone>> /\ calls' = calls + 1
         /\ \A q \in Procs \ {p} : proc'[q] = proc[q]
         /\ At(p, "idle") /\ lock' = lock
         /\ proc'[p].pc = "idle" \/ (/\ proc'[p].pc = "wait" /\ proc'[p].call.id = calls + 1
                                     /\ ~Uses(proc'[p]))
<1>1. /\ At(p, "idle") /\ calls' = calls + 1 /\ lock' = lock
      /\ UNCHANGED <<lines, head, artifacts, events, undone>>
  BY DEF Begin, files
<1>2. calls + 1 \in Nat /\ clock \in Nat
  BY DEF FilesTyped
<1>3. PICK n \in Nat : n = calls + 1
  BY <1>2
<1>4. PICK d : d = [kind |-> c.kind, provider |-> c.provider, item |-> c.item, until |-> c.until, id |-> n]
  OBVIOUS
<1>5. Proper(d) /\ d.kind = c.kind /\ d.id = n
  <2>1. /\ c.kind \in {"open", "close", "status", "query", "advise", "publish"}
        /\ c.provider \in Providers /\ c.item \in Items \union {None} /\ c.until \in Nat
        /\ c.kind = "publish" => c.item \in Items /\ c.provider = ProviderOf[c.item]
    <3>1. (clock + 1)..MaxTime \in SUBSET Nat
      BY <1>2, BoundsAssumption
    <3>2. \A x \in Items : ProviderOf[x] \in Providers
      BY ItemsAssumption DEF Providers
    <3>. QED
      BY <3>1, <3>2 DEF CallsNow, Providers
  <2>2. d \in Call
    BY <1>4, <2>1 DEF Call
  <2>. QED
    BY <1>4, <2>1, <2>2 DEF Proper
<1>6. PICK r : r = [Idle EXCEPT !.call = d, !.now = clock]
  OBVIOUS
<1>7. r \in Local /\ r.call = d /\ r.mine = {} /\ r.pc = "idle"
  <2>1. d \in Call
    BY <1>5 DEF Proper
  <2>. QED
    BY <1>2, <1>6, <2>1, IdleFits DEF Idle, Local
<1>8. PICK s : Becomes(p, s) /\ (\/ c.kind \in {"open", "close"} /\ s = Waiting(r, "ledger", c.kind)
                                 \/ c.kind \notin {"open", "close"} /\ s = Waiting(r, "ledger", "sweep")
                                 \/ c.kind \notin {"open", "close"} /\ s = Evaluated(r))
  <2>1. r = [Idle EXCEPT !.call = [kind |-> c.kind, provider |-> c.provider, item |-> c.item,
                                   until |-> c.until, id |-> calls + 1], !.now = clock]
    BY <1>3, <1>4, <1>6
  <2>2. Becomes(p, IF c.kind \in {"open", "close"} THEN Waiting(r, "ledger", c.kind)
                   ELSE IF Valid /\ ClosesOf(clock) # <<>> THEN Waiting(r, "ledger", "sweep")
                   ELSE Evaluated(r))
    BY <2>1, Zenon DEF Begin
  <2>3. CASE c.kind \in {"open", "close"}
    BY <2>2, <2>3
  <2>4. CASE c.kind \notin {"open", "close"} /\ Valid /\ ClosesOf(clock) # <<>>
    BY <2>2, <2>4
  <2>5. CASE c.kind \notin {"open", "close"} /\ ~(Valid /\ ClosesOf(clock) # <<>>)
    BY <2>2, <2>5
  <2>. QED
    BY <2>3, <2>4, <2>5
<1>9. /\ s \in Local /\ Fits(s) /\ s.mine = {}
      /\ s.pc = "idle" \/ (s.pc = "wait" /\ s.call = d /\ ~Uses(s))
  <2>1. CASE c.kind \notin {"open", "close"} /\ s = Evaluated(r)
    BY <1>5, <1>7, <2>1, EvaluatedFits
  <2>2. ASSUME NEW phase \in {"open", "close", "sweep"}, s = Waiting(r, "ledger", phase),
               IF phase = "sweep" THEN c.kind \notin {"open", "close"} ELSE c.kind = phase
        PROVE  s \in Local /\ Fits(s) /\ s.mine = {} /\ s.pc = "wait" /\ s.call = d /\ ~Uses(s)
    <3>1. /\ s \in Local /\ s.pc = "wait" /\ s.want = "ledger" /\ s.phase = phase /\ s.mine = {} /\ s.call = d
      BY <1>7, <2>2, WaitingFits DEF Phases
    <3>2. ~Uses(s) /\ Beside(s) = {}
      BY <2>2, <3>1 DEF Uses, Beside
    <3>3. Fits(s)
      BY <1>5, <2>2, <3>1, <3>2 DEF Fits, Writing
    <3>. QED
      BY <3>1, <3>2, <3>3
  <2>. QED
    BY <1>8, <2>1, <2>2
<1>10. Held' /\ proc'[p] = s /\ \A q \in Procs \ {p} : proc'[q] = proc[q]
  <2>1. lock' \in [{"ledger", "publish"} -> Procs \union {Free, Gone}]
    BY <1>1 DEF Held, Locked
  <2>. QED
    BY <1>1, <1>8, <1>9, <2>1, MovedHolds
<1>. QED
  BY <1>1, <1>3, <1>5, <1>9, <1>10
----------------------------------------------------------------------------
(* Steps that write a line, its head, an artifact or an event; and deaths *)

\* A call goes on to a label, with what it is and what it knows.
Goes(p, label) ==
  /\ \A q \in Procs \ {p} : proc'[q] = proc[q]
  /\ proc'[p].pc = label /\ proc'[p].call = proc[p].call /\ proc'[p].phase = proc[p].phase
  /\ proc'[p].current = proc[p].current

\* A call that keeps its locks and goes on.
LEMMA GoesOn ==
  ASSUME Held, NEW p \in Procs, NEW r \in Local, Fits(r), Becomes(p, r), lock' = lock,
         NEW label \in Labels \ {"remove"}, r.pc = label, r.mine = proc[p].mine,
         r.call = proc[p].call, r.phase = proc[p].phase, r.current = proc[p].current
  PROVE  Held' /\ Goes(p, label) /\ proc'[p] = r
<1>1. /\ lock' \in [{"ledger", "publish"} -> Procs \union {Free, Gone}]
      /\ \A l \in r.mine : lock'[l] = p
  BY DEF Held, Locked
<1>2. Held' /\ proc'[p] = r /\ \A q \in Procs \ {p} : proc'[q] = proc[q]
  BY <1>1, MovedHolds
<1>. QED
  BY <1>2 DEF Goes

Verified(p) ==
  /\ UNCHANGED <<lines, head, artifacts, events, calls, undone>> /\ Goes(p, "line")
  /\ At(p, "verify") /\ Valid /\ proc'[p].todo = proc[p].todo /\ proc'[p].base = Len(lines)

LEMMA VerifyHolds ==
  ASSUME FilesTyped, Held, NEW p \in Procs, Verify(p)
  PROVE  Held' /\ (Quiet(p) \/ Verified(p))
<1>1. At(p, "verify") /\ UNCHANGED <<lines, head, artifacts, events, calls, undone>>
  BY DEF Verify, files, aux
<1>2. CASE Throw(p)
  BY <1>1, <1>2, ThrowIsQuiet DEF At
<1>3. CASE ~Throw(p)
  <2>1. Valid /\ Becomes(p, [proc[p] EXCEPT !.pc = "line", !.base = Len(lines)]) /\ lock' = lock
    BY <1>3 DEF Verify
  <2>2. PICK r : r = [proc[p] EXCEPT !.pc = "line", !.base = Len(lines)]
    OBVIOUS
  <2>3. proc[p] \in Local /\ Fits(proc[p]) /\ Len(lines) \in Nat
    BY OpenLines DEF Held
  <2>4. /\ r \in Local /\ r.pc = "line" /\ r.base = Len(lines) /\ r.todo = proc[p].todo
        /\ r.call = proc[p].call /\ r.phase = proc[p].phase /\ r.current = proc[p].current
        /\ r.mine = proc[p].mine
    BY <2>2, <2>3 DEF Local, Labels, Writing
  <2>5. Fits(r)
    BY <1>1, <2>3, <2>4 DEF Fits, Writing, Beside, Uses, At
  <2>6. Held' /\ Goes(p, "line") /\ proc'[p] = r
    <3>1. PICK label \in Labels \ {"remove"} : label = "line"
      BY DEF Labels, Writing
    <3>. QED
      BY <2>1, <2>2, <2>4, <2>5, <3>1, GoesOn
  <2>. QED
    BY <1>1, <2>1, <2>4, <2>6 DEF Verified
<1>. QED
  BY <1>2, <1>3

Appended(p, e) ==
  /\ lines' = Append(lines, e) /\ e \in Line
  /\ UNCHANGED <<head, artifacts, events, calls, undone>> /\ Goes(p, "head")
  /\ At(p, "line") /\ proc'[p].todo = proc[p].todo /\ proc'[p].base = proc[p].base
  /\ e.prev = proc[p].base /\ e.type = proc[p].todo[1].type /\ e.grant = proc[p].todo[1].grant
  /\ e.provider = proc[p].todo[1].provider /\ e.expires = proc[p].todo[1].expires
  /\ e.item = proc[p].todo[1].item /\ e.at = proc[p].todo[1].at

LEMMA AppendLineHolds ==
  ASSUME FilesTyped, Held, NEW p \in Procs, proc[p].todo # <<>>, AppendLine(p)
  PROVE  Held' /\ \E e : Appended(p, e)
<1>1. /\ At(p, "line") /\ UNCHANGED <<head, artifacts, events, calls, undone>> /\ lock' = lock
      /\ Becomes(p, [proc[p] EXCEPT !.pc = "head"])
  BY DEF AppendLine, aux
<1>2. proc[p] \in Local /\ Fits(proc[p])
  BY DEF Held
<1>3. PICK h : h = Head(proc[p].todo)
  OBVIOUS
<1>4. h \in Entry /\ h = proc[p].todo[1]
  BY <1>2, <1>3, HeadTailProperties DEF Local
<1>5. PICK e : e = [type |-> h.type, grant |-> h.grant, provider |-> h.provider,
                    expires |-> h.expires, item |-> h.item, at |-> h.at, prev |-> proc[p].base]
  OBVIOUS
<1>6. lines' = Append(lines, e)
  BY <1>3, <1>5 DEF AppendLine
<1>7. e \in Line
  <2>1. proc[p].base \in Nat
    BY <1>2 DEF Local
  <2>. QED
    BY <1>4, <1>5, <2>1 DEF Entry, Line
<1>8. PICK r : r = [proc[p] EXCEPT !.pc = "head"]
  OBVIOUS
<1>9. /\ r \in Local /\ r.pc = "head" /\ r.base = proc[p].base /\ r.todo = proc[p].todo
      /\ r.call = proc[p].call /\ r.phase = proc[p].phase /\ r.current = proc[p].current
      /\ r.mine = proc[p].mine
  BY <1>2, <1>8 DEF Local, Labels, Writing
<1>10. Fits(r)
  BY <1>1, <1>2, <1>9 DEF Fits, Writing, Beside, Uses, At
<1>11. Held' /\ Goes(p, "head") /\ proc'[p] = r
  <2>1. PICK label \in Labels \ {"remove"} : label = "head"
    BY DEF Labels, Writing
  <2>. QED
    BY <1>1, <1>8, <1>9, <1>10, <2>1, GoesOn
<1>12. Appended(p, e)
  <2>1. /\ e.type = h.type /\ e.grant = h.grant /\ e.provider = h.provider /\ e.expires = h.expires
        /\ e.item = h.item /\ e.at = h.at /\ e.prev = proc[p].base
    BY <1>5
  <2>. QED
    BY <1>1, <1>4, <1>6, <1>7, <1>9, <1>11, <2>1 DEF Appended
<1>. QED
  BY <1>11, <1>12

Counted(p) ==
  /\ head' = proc[p].base + 1 /\ undone' = 0 /\ At(p, "head")
  /\ UNCHANGED <<lines, artifacts, events, calls>>
  /\ \A q \in Procs \ {p} : proc'[q] = proc[q]

LEMMA WriteHeadHolds ==
  ASSUME FilesTyped, Held, NEW p \in Procs, WriteHead(p)
  PROVE  /\ Held' /\ Counted(p)
         /\ \/ /\ Len(proc[p].todo) > 1 /\ Goes(p, "verify") /\ proc'[p].todo = Tail(proc[p].todo)
            \/ proc'[p].pc = "idle"
            \/ proc'[p].pc = "granted" /\ proc[p].phase = "sweep" /\ proc'[p].call = proc[p].call
            \/ /\ proc'[p].pc = "artifact" /\ Uses(proc[p])
               /\ proc'[p].call = proc[p].call /\ proc'[p].current = proc[p].current
<1>1. /\ At(p, "head") /\ head' = proc[p].base + 1 /\ undone' = 0
      /\ UNCHANGED <<lines, artifacts, events, calls>>
  BY DEF WriteHead
<1>2. proc[p] \in Local /\ Fits(proc[p])
  BY DEF Held
<1>3. CASE ~(Len(proc[p].todo) > 1)
  <2>1. Leave(p) /\ proc[p].pc \in Writing
    BY <1>1, <1>3 DEF WriteHead, At, Writing
  <2>. QED
    BY <1>1, <2>1, LeaveHolds DEF Counted
<1>4. CASE Len(proc[p].todo) > 1
  <2>1. Becomes(p, [proc[p] EXCEPT !.pc = "verify", !.todo = Tail(@)]) /\ lock' = lock
    BY <1>4 DEF WriteHead
  <2>2. PICK r : r = [proc[p] EXCEPT !.pc = "verify", !.todo = Tail(proc[p].todo)]
    OBVIOUS
  <2>3. Tail(proc[p].todo) \in Seq(Entry)
    BY <1>2, <1>4, HeadTailProperties, EmptySeq DEF Local
  <2>4. /\ r \in Local /\ r.pc = "verify" /\ r.todo = Tail(proc[p].todo)
        /\ r.call = proc[p].call /\ r.phase = proc[p].phase /\ r.current = proc[p].current
        /\ r.mine = proc[p].mine
    BY <1>2, <2>2, <2>3 DEF Local, Labels, Writing
  <2>5. Fits(r)
    BY <1>1, <1>2, <2>4 DEF Fits, Writing, Beside, Uses, At
  <2>6. Held' /\ Goes(p, "verify") /\ proc'[p] = r
    <3>1. PICK label \in Labels \ {"remove"} : label = "verify"
      BY DEF Labels, Writing
    <3>. QED
      BY <2>1, <2>2, <2>4, <2>5, <3>1, GoesOn
  <2>. QED
    BY <1>1, <1>4, <2>4, <2>6 DEF Counted, Goes
<1>. QED
  BY <1>3, <1>4

LEMMA PrepareHolds ==
  ASSUME FilesTyped, Held, NEW p \in Procs, Prepare(p)
  PROVE  Held' /\ Quiet(p)
<1>1. At(p, "prepare") /\ UNCHANGED <<lines, head, artifacts, events, calls, undone>>
  BY DEF Prepare, files, aux
<1>2. proc[p] \in Local /\ Fits(proc[p])
  BY DEF Held
<1>3. PICK c : c = Current(ActorOf[proc[p].call.item])
  OBVIOUS
<1>4. c \in Items \union {None}
  BY <1>3, CurrentType
<1>5. PICK r : r = [proc[p] EXCEPT !.current = c]
  OBVIOUS
<1>6. /\ r \in Local /\ r.pc = "prepare" /\ r.mine = {"publish"} /\ r.call = proc[p].call
      /\ r.em = proc[p].em /\ r.current = c /\ r.phase = "publish"
      /\ Proper(r.call) /\ r.call.kind = "publish"
  BY <1>1, <1>2, <1>4, <1>5 DEF Local, Fits, At
<1>7. CASE Throw(p)
  BY <1>1, <1>7, ThrowIsQuiet DEF At
<1>8. ASSUME NEW s \in Local, Fits(s), Becomes(p, s), lock' = lock,
             s.pc \in {"artifact", "wait"}, s.mine = {"publish"}, s.call = r.call, s.current = c,
             s.pc = "artifact" => proc[p].call.provider \notin Restricted
      PROVE  Held' /\ Quiet(p)
  <2>1. /\ lock' \in [{"ledger", "publish"} -> Procs \union {Free, Gone}]
        /\ \A l \in s.mine : lock'[l] = p
    BY <1>1, <1>2, <1>8 DEF Held, Locked, Fits, At
  <2>2. Held' /\ proc'[p] = s /\ \A q \in Procs \ {p} : proc'[q] = proc[q]
    BY <1>8, <2>1, MovedHolds
  <2>3. Current(ActorOf[s.call.item]) = c /\ s.call = proc[p].call
    BY <1>3, <1>6, <1>8
  <2>4. Knows(s)
    BY <1>8, <2>3 DEF Knows
  <2>5. Knows(proc'[p])
    BY <2>2, <2>4
  <2>. QED
    BY <1>1, <1>6, <1>8, <2>2, <2>5 DEF Quiet, At
<1>9. CASE Permitted(r) /\ r.em = None /\ ~Throw(p)
  <2>1. PICK s : s = [r EXCEPT !.pc = "artifact"]
    OBVIOUS
  <2>2. Becomes(p, s) /\ lock' = lock
    BY <1>3, <1>5, <1>9, <2>1 DEF Prepare
  <2>3. /\ s \in Local /\ s.pc = "artifact" /\ s.mine = {"publish"} /\ s.call = r.call /\ s.current = c
        /\ s.phase = "publish"
    BY <1>6, <2>1 DEF Local, Labels
  <2>4. Fits(s)
    BY <1>6, <1>1, <1>2, <2>1, <2>3 DEF Fits, Writing, At
  <2>5. proc[p].call.provider \notin Restricted
    BY <1>6, <1>9 DEF Permitted
  <2>. QED
    BY <1>8, <2>2, <2>3, <2>4, <2>5
<1>10. CASE Permitted(r) /\ r.em # None /\ ~Throw(p)
  <2>1. PICK s : s = Waiting(r, "ledger", "use")
    OBVIOUS
  <2>2. Becomes(p, s) /\ lock' = lock
    BY <1>3, <1>5, <1>10, <2>1 DEF Prepare
  <2>3. /\ s \in Local /\ s.pc = "wait" /\ s.want = "ledger" /\ s.phase = "use"
        /\ s.mine = {"publish"} /\ s.call = r.call /\ s.current = c
    BY <1>6, <2>1, WaitingFits DEF Phases
  <2>4. Fits(s)
    <3>1. Beside(s) = {"publish"}
      BY <1>6, <2>3 DEF Beside, Uses
    <3>. QED
      BY <1>6, <2>3, <3>1 DEF Fits, Writing
  <2>. QED
    BY <1>8, <2>2, <2>3, <2>4
<1>11. CASE ~Permitted(r) /\ ~Throw(p)
  BY <1>3, <1>5, <1>11 DEF Prepare
<1>. QED
  BY <1>7, <1>9, <1>10, <1>11

LEMMA WriteArtifactHolds ==
  ASSUME FilesTyped, Held, NEW p \in Procs, WriteArtifact(p)
  PROVE  /\ Held' /\ At(p, "artifact") /\ Goes(p, "event")
         /\ artifacts' = artifacts \union {proc[p].call.item}
         /\ UNCHANGED <<lines, head, events, calls, undone>>
<1>1. /\ At(p, "artifact") /\ artifacts' = artifacts \union {proc[p].call.item} /\ lock' = lock
      /\ Becomes(p, [proc[p] EXCEPT !.pc = "event"])
      /\ UNCHANGED <<lines, head, events, calls, undone>>
  BY DEF WriteArtifact, aux
<1>2. proc[p] \in Local /\ Fits(proc[p])
  BY DEF Held
<1>3. PICK r : r = [proc[p] EXCEPT !.pc = "event"]
  OBVIOUS
<1>4. /\ r \in Local /\ r.pc = "event" /\ r.mine = proc[p].mine
      /\ r.call = proc[p].call /\ r.phase = proc[p].phase /\ r.current = proc[p].current
  BY <1>2, <1>3 DEF Local, Labels
<1>5. Fits(r)
  BY <1>1, <1>2, <1>4 DEF Fits, Writing, At
<1>6. PICK label \in Labels \ {"remove"} : label = "event"
  BY DEF Labels
<1>. QED
  BY <1>1, <1>3, <1>4, <1>5, <1>6, GoesOn

LEMMA AppendEventHolds ==
  ASSUME FilesTyped, Held, NEW p \in Procs, AppendEvent(p)
  PROVE  /\ Held' /\ At(p, "event") /\ \A q \in Procs \ {p} : proc'[q] = proc[q]
         /\ proc'[p].pc = "idle"
         /\ UNCHANGED <<lines, head, artifacts, calls, undone>>
<1>1. /\ At(p, "event") /\ Becomes(p, Idle) /\ lock' = [lock EXCEPT !["publish"] = Free]
      /\ UNCHANGED <<lines, head, artifacts, calls, undone>>
  BY DEF AppendEvent, aux
<1>2. proc[p] \in Local /\ Fits(proc[p])
  BY DEF Held
<1>3. PICK r : r = Idle
  OBVIOUS
<1>4. r \in Local /\ Fits(r) /\ r.mine = {} /\ r.pc = "idle"
  BY <1>3, IdleFits DEF Idle
<1>5. /\ lock' \in [{"ledger", "publish"} -> Procs \union {Free, Gone}]
      /\ \A l \in {"ledger", "publish"} : lock'[l] = lock[l] \/ lock[l] = p
  BY <1>1, <1>2 DEF Held, Locked, Fits, At
<1>6. Held' /\ proc'[p] = r /\ \A q \in Procs \ {p} : proc'[q] = proc[q]
  BY <1>1, <1>3, <1>4, <1>5, MovedHolds
<1>. QED
  BY <1>1, <1>4, <1>6

\* A call dies: its lock files stay, and say that their owner is gone.
LEMMA DieHolds ==
  ASSUME FilesTyped, Held, NEW p \in Procs, Die(p)
  PROVE  /\ Held' /\ ~At(p, "idle") /\ \A q \in Procs \ {p} : proc'[q] = proc[q]
         /\ proc'[p].pc = "idle"
         /\ UNCHANGED <<lines, head, artifacts, events, calls>>
         /\ undone' = undone + (IF At(p, "head") THEN 1 ELSE 0)
<1>1. /\ ~At(p, "idle") /\ Becomes(p, Idle) /\ UNCHANGED <<lines, head, artifacts, events, calls>>
      /\ undone' = undone + (IF At(p, "head") THEN 1 ELSE 0)
      /\ lock' = [l \in DOMAIN lock |-> IF lock[l] = p THEN Gone ELSE lock[l]]
  BY DEF Die, files
<1>2. PICK r : r = Idle
  OBVIOUS
<1>3. r \in Local /\ Fits(r) /\ r.mine = {} /\ r.pc = "idle"
  BY <1>2, IdleFits DEF Idle
<1>4. /\ lock' \in [{"ledger", "publish"} -> Procs \union {Free, Gone}]
      /\ \A l \in {"ledger", "publish"} : lock'[l] = lock[l] \/ lock[l] = p
  BY <1>1 DEF Held, Locked
<1>5. Held' /\ proc'[p] = r /\ \A q \in Procs \ {p} : proc'[q] = proc[q]
  BY <1>1, <1>2, <1>3, <1>4, MovedHolds
<1>. QED
  BY <1>1, <1>3, <1>5

\* Time passes, and touches nothing else.
LEMMA TickHolds ==
  ASSUME Held, Tick
  PROVE  /\ Held' /\ UNCHANGED <<lines, head, summarised, artifacts, events, proc, calls, deaths, undone>>
         /\ clock' = clock + 1
BY DEF Held, Tick, files, Locked, Fits, At, Beside, Uses

----------------------------------------------------------------------------
(* What the next lines of the ledger are, and who is about to write them *)

Writers == {"verify", "line", "head"}
Recorded(item) == \E i \in DOMAIN lines : lines[i].type = "used" /\ lines[i].item = item

\* What is still to be written of what a call planned.
Rest(r) == IF r.pc = "head" THEN Tail(r.todo) ELSE r.todo

\* These entries may follow the ledger, in this order: each grant that is closed is open
\* and closed once; a grant is opened last, by the call whose number it has, and extends
\* what it replaces; every grant used is open and not expired.
Fit(s, j, r) ==
  CASE s[j].type = "closed" ->
         /\ \E i \in OpenAfter(Len(lines)) : lines[i].grant = s[j].grant
         /\ \A k \in 1..(j - 1) : s[k].grant # s[j].grant
    [] s[j].type = "opened" ->
         /\ j = Len(s) /\ r.phase = "open" /\ s[j].grant = r.call.id
         /\ \A i \in OpenAfter(Len(lines)) : lines[i].provider = s[j].provider =>
              Expired(lines[i], s[j].at) \/ s[j].expires > lines[i].expires
    [] s[j].type = "used" ->
         \E i \in OpenAfter(Len(lines)) : lines[i].grant = s[j].grant /\ ~Expired(lines[i], s[j].at)
Follow(s, r) ==
  /\ \A j \in 1..Len(s) : Fit(s, j, r)
  /\ (r.phase = "use" \/ \E j \in 1..Len(s) : s[j].type = "used") =>
       \A j \in 1..Len(s) : s[j].type = "used" /\ s[j].item = r.call.item

\* A writer has what it planned at hand; no grant has the number of a call under way,
\* unless that call is about to count the line.
Work(r) ==
  /\ r.pc \in Writers => r.todo # <<>> /\ Follow(Rest(r), r)
  /\ r.pc = "line" => r.base = Len(lines)
  /\ r.pc = "head" => r.base + 1 = Len(lines) /\ (r.phase = "use" => Recorded(r.call.item))
  /\ r.pc # "idle" =>
       /\ r.call.id <= calls
       /\ \A i \in DOMAIN lines : Opened(i) /\ lines[i].grant = r.call.id =>
            r.pc = "head" /\ r.phase = "open" /\ Len(r.todo) = 1

\* The lines are numbered, the head counts those whose writers went on, and each grant was
\* opened once, by one of the calls begun.
Numbered ==
  /\ \A i \in DOMAIN lines : lines[i].prev = i - 1
  /\ Len(lines) = head + undone + (IF \E p \in Procs : At(p, "head") THEN 1 ELSE 0)
Named ==
  /\ \A i \in DOMAIN lines : Opened(i) => lines[i].grant <= calls
  /\ \A i, j \in DOMAIN lines : Opened(i) /\ Opened(j) /\ lines[i].grant = lines[j].grant => i = j
  /\ \A p, q \in Procs : ~At(p, "idle") /\ ~At(q, "idle") /\ proc[p].call.id = proc[q].call.id => p = q

LedgerInv == Numbered /\ Named /\ LedgerSound /\ \A p \in Procs : Work(proc[p])

\* What a publication has at hand: the last event of its actor, its use, its artifact.
Informed(r) ==
  /\ Knows(r)
  /\ r.pc \in {"artifact", "event"} /\ r.call.provider \in Restricted => Recorded(r.call.item)
  /\ r.pc = "event" => r.call.item \in artifacts
PublishInv == UsesAreRecorded /\ ReplacesTheLast /\ \A p \in Procs : Informed(proc[p])

\* What a call reads under the lock it may write: closings ...
LEMMA ClosingsFollow ==
  ASSUME FilesTyped, Named, NEW G \in SUBSET OpenGrants, NEW t \in Nat, NEW s,
         AreRecords(s, "closed", G, None, t), NEW r, r.phase # "use"
  PROVE  Follow(s, r) /\ \A j \in 1..Len(s) : s[j].type = "closed"
<1>1. ASSUME NEW j \in 1..Len(s)
      PROVE  /\ s[j].type = "closed"
             /\ \E i \in OpenAfter(Len(lines)) : lines[i].grant = s[j].grant /\ s[j] = Record("closed", lines[i], None, t)
  <2>1. PICK g \in G : s[j] = Record("closed", g, None, t)
    BY DEF AreRecords
  <2>2. PICK i \in OpenAfter(Len(lines)) : lines[i] = g
    BY OpenLines
  <2>. QED
    BY <2>1, <2>2 DEF Record
<1>2. ASSUME NEW j \in 1..Len(s), NEW k \in 1..(j - 1) PROVE s[k].grant # s[j].grant
  <2>1. k \in 1..Len(s) /\ k # j
    BY DEF AreRecords
  <2>2. PICK i \in OpenAfter(Len(lines)) : lines[i].grant = s[j].grant /\ s[j] = Record("closed", lines[i], None, t)
    BY <1>1
  <2>3. PICK h \in OpenAfter(Len(lines)) : lines[h].grant = s[k].grant /\ s[k] = Record("closed", lines[h], None, t)
    BY <1>1, <2>1
  <2>4. i \in DOMAIN lines /\ h \in DOMAIN lines /\ Opened(i) /\ Opened(h)
    BY OpenLines
  <2>5. s[k].grant = s[j].grant => i = h
    BY <2>2, <2>3, <2>4 DEF Named
  <2>. QED
    BY <2>1, <2>2, <2>3, <2>5 DEF AreRecords
<1>3. \A j \in 1..Len(s) : Fit(s, j, r)
  BY <1>1, <1>2 DEF Fit
<1>. QED
  BY <1>1, <1>3 DEF Follow

\* ... uses ...
LEMMA UsesFollow ==
  ASSUME FilesTyped, NEW G \in SUBSET OpenGrants, NEW t \in Nat, NEW s, NEW item,
         AreRecords(s, "used", G, item, t), NEW r, r.phase = "use", r.call.item = item,
         \A g \in G : ~Expired(g, t)
  PROVE  Follow(s, r)
<1>1. ASSUME NEW j \in 1..Len(s)
      PROVE  /\ s[j].type = "used" /\ s[j].item = item
             /\ \E i \in OpenAfter(Len(lines)) : lines[i].grant = s[j].grant /\ ~Expired(lines[i], s[j].at)
  <2>1. PICK g \in G : s[j] = Record("used", g, item, t)
    BY DEF AreRecords
  <2>2. PICK i \in OpenAfter(Len(lines)) : lines[i] = g
    BY OpenLines
  <2>. QED
    BY <2>1, <2>2 DEF Record
<1>2. \A j \in 1..Len(s) : Fit(s, j, r)
  BY <1>1 DEF Fit
<1>. QED
  BY <1>1, <1>2 DEF Follow

\* ... and a grant after the closing of what it replaces.
LEMMA OpeningFollows ==
  ASSUME FilesTyped, Named, NEW G \in SUBSET OpenGrants, NEW t \in Nat, NEW s,
         AreRecords(s, "closed", G, None, t), NEW r, r.phase = "open",
         NEW e \in Entry, e.type = "opened", e.grant = r.call.id,
         \A g \in OpenGrants : g.provider = e.provider => Expired(g, e.at) \/ e.expires > g.expires,
         NEW a, a = Append(s, e)
  PROVE  Follow(a, r)
<1>1. Follow(s, r) /\ \A j \in 1..Len(s) : s[j].type = "closed"
  BY ClosingsFollow
<1>2. PICK n \in Nat : n = Len(s)
  BY DEF AreRecords
<1>3. /\ Len(a) = n + 1 /\ a[n + 1] = e /\ \A j \in 1..n : a[j] = s[j]
  BY <1>2, AppendProperties DEF AreRecords
<1>4. ASSUME NEW j \in 1..n PROVE Fit(a, j, r)
  <2>1. a[j] = s[j] /\ s[j].type = "closed" /\ Fit(s, j, r)
    BY <1>1, <1>2, <1>3 DEF Follow
  <2>2. \A k \in 1..(j - 1) : a[k] = s[k]
    BY <1>3
  <2>. QED
    BY <2>1, <2>2 DEF Fit
<1>5. Fit(a, n + 1, r)
  <2>1. \A i \in OpenAfter(Len(lines)) : lines[i] \in OpenGrants
    BY DEF OpenGrants
  <2>. QED
    BY <1>3, <2>1 DEF Fit
<1>6. \A j \in 1..Len(a) : a[j].type # "used"
  BY <1>1, <1>2, <1>3
<1>. QED
  BY <1>3, <1>4, <1>5, <1>6 DEF Follow

\* The four calls that plan: each has read, under the lock, what its entries may follow.
Plans(p) == \E s : Planned(p, s) /\ Follow(s, proc[p])

LEMMA PlansFollow ==
  ASSUME FilesTyped, Held, Named, NEW p \in Procs,
         SweepExpired(p) \/ OpenGrant(p) \/ CloseGrant(p) \/ UseGrant(p)
  PROVE  Held' /\ (Quiet(p) \/ Plans(p))
<1>1. proc[p] \in Local /\ Fits(proc[p])
  BY DEF Held
<1>2. proc[p].now \in Nat /\ clock \in Nat
  BY <1>1 DEF Local, FilesTyped
<1>t. PICK t \in Nat : t = proc[p].now
  BY <1>2
<1>s. PICK s : s = ClosesOf(t)
  OBVIOUS
<1>G. PICK G \in SUBSET OpenGrants : G = {o \in OpenGrants : Expired(o, t)}
  OBVIOUS
<1>3. AreRecords(s, "closed", G, None, t)
  BY <1>s, <1>G, ClosesAreRecords
<1>4. CASE SweepExpired(p)
  <2>1. CASE Planned(p, s) /\ proc[p].phase = "sweep"
    <3>1. PICK r : r = proc[p]
      OBVIOUS
    <3>2. r.phase # "use"
      BY <2>1, <3>1
    <3>3. Follow(s, r)
      BY <1>3, <3>2, ClosingsFollow
    <3>. QED
      BY <1>4, <2>1, <3>1, <3>3, SweepHolds DEF Plans
  <2>. QED
    BY <1>4, <2>1, <1>s, <1>t, SweepHolds
<1>5. CASE OpenGrant(p)
  <2>1. CASE /\ Planned(p, Append(s, NewGrant(proc[p]))) /\ proc[p].phase = "open"
             /\ \A g \in OpenGrants : g.provider = proc[p].call.provider =>
                  Expired(g, proc[p].now) \/ proc[p].call.until > g.expires
    <3>1. PICK r : r = proc[p]
      OBVIOUS
    <3>2. proc[p].call \in Call
      BY <1>1, <2>1 DEF Planned, At, Fits, Proper
    <3>3. PICK e \in Entry : e = NewGrant(r)
      BY <1>1, <3>1, <3>2, NewGrantIsEntry
    <3>4. /\ e.type = "opened" /\ e.grant = r.call.id
          /\ e.provider = r.call.provider /\ e.expires = r.call.until /\ e.at = r.now
      BY <1>1, <3>1, <3>2, <3>3, NewGrantIsEntry
    <3>5. \A g \in OpenGrants : g.provider = e.provider => Expired(g, e.at) \/ e.expires > g.expires
      BY <2>1, <3>1, <3>4
    <3>6. PICK a : a = Append(s, e)
      OBVIOUS
    <3>7. r.phase = "open"
      BY <2>1, <3>1
    <3>8. Follow(a, r)
      BY <1>3, <3>4, <3>5, <3>6, <3>7, OpeningFollows
    <3>9. Planned(p, a)
      BY <2>1, <3>1, <3>3, <3>6
    <3>. QED
      BY <1>5, <3>1, <3>8, <3>9, OpenHolds DEF Plans
  <2>. QED
    BY <1>5, <2>1, <1>s, <1>t, OpenHolds
<1>6. CASE CloseGrant(p)
  <2>1. CASE /\ Planned(p, Closing(p)) /\ proc[p].phase = "close"
             /\ AreRecords(Closing(p), "closed", {o \in OpenGrants : o.provider = proc[p].call.provider},
                           None, clock)
    <3>1. PICK r : r = proc[p]
      OBVIOUS
    <3>2. PICK H \in SUBSET OpenGrants : H = {o \in OpenGrants : o.provider = proc[p].call.provider}
      OBVIOUS
    <3>3. PICK c \in Nat : c = clock
      BY <1>2
    <3>4. PICK k : k = Closing(p)
      OBVIOUS
    <3>5. AreRecords(k, "closed", H, None, c) /\ r.phase # "use"
      BY <2>1, <3>1, <3>2, <3>3, <3>4
    <3>6. Follow(k, r)
      BY <3>5, ClosingsFollow
    <3>. QED
      BY <1>6, <2>1, <3>1, <3>4, <3>6, CloseHolds DEF Plans
  <2>. QED
    BY <1>6, <2>1, CloseHolds
<1>7. CASE UseGrant(p)
  <2>1. CASE /\ Planned(p, Using(p)) /\ proc[p].phase = "use"
             /\ AreRecords(Using(p), "used", Active(p), proc[p].call.item, clock)
    <3>1. PICK r : r = proc[p]
      OBVIOUS
    <3>2. PICK H \in SUBSET OpenGrants : H = Active(p)
      BY DEF Active
    <3>3. PICK c \in Nat : c = clock
      BY <1>2
    <3>4. PICK k : k = Using(p)
      OBVIOUS
    <3>5. PICK x : x = r.call.item
      OBVIOUS
    <3>6. AreRecords(k, "used", H, x, c) /\ r.phase = "use" /\ r.call.item = x
      BY <2>1, <3>1, <3>2, <3>3, <3>4, <3>5
    <3>7. \A g \in H : ~Expired(g, c)
      BY <3>2, <3>3 DEF Active
    <3>8. Follow(k, r)
      BY <3>6, <3>7, UsesFollow
    <3>. QED
      BY <1>7, <2>1, <3>1, <3>4, <3>8, UseHolds DEF Plans
  <2>. QED
    BY <1>7, <2>1, UseHolds
<1>. QED
  BY <1>4, <1>5, <1>6, <1>7

----------------------------------------------------------------------------
(* The ledger's invariant is kept *)

\* Who writes holds ledger.lock, and is alone.
LEMMA OneWriter ==
  ASSUME Held, NEW p \in Procs, NEW q \in Procs, proc[p].pc \in Writing, proc[q].pc \in Writing
  PROVE  p = q
<1>1. "ledger" \in proc[p].mine /\ "ledger" \in proc[q].mine
  BY DEF Held, Fits
<1>. QED
  BY <1>1 DEF Held, Locked

\* Once the first of some entries is written, the others may follow.
LEMMA FollowRest ==
  ASSUME FilesTyped, NEW s \in Seq(Entry), s # <<>>, NEW u, Follow(s, u),
         NEW e \in Line, lines' = Append(lines, e),
         e.type = s[1].type, e.grant = s[1].grant, e.provider = s[1].provider
  PROVE  Follow(Tail(s), u)'
<1>1. PICK n \in Nat : n = Len(lines)
  BY OpenLines
<1>2. /\ Len(lines') = n + 1 /\ \A i \in 1..n : lines'[i] = lines[i]
      /\ OpenAfter(n + 1)' = {i \in OpenAfter(n) :
                 /\ ~(e.type = "opened" /\ e.provider = lines[i].provider)
                 /\ ~(e.type = "closed" /\ e.grant = lines[i].grant)}
              \union (IF e.type = "opened" THEN {n + 1} ELSE {})
  BY <1>1, OpenAfterAppend
<1>3. PICK m \in Nat : m = Len(s) /\ m > 0
  BY EmptySeq, LenProperties
<1>4. PICK a : a = Tail(s)
  OBVIOUS
<1>5. Len(a) = m - 1 /\ \A j \in 1..(m - 1) : a[j] = s[j + 1] /\ s[j + 1] \in Entry
  BY <1>3, <1>4, HeadTailProperties, ElementOfSeq
<1>6. 1 \in 1..m /\ Fit(s, 1, u) /\ s[1] \in Entry
  BY <1>3, ElementOfSeq DEF Follow
<1>7. OpenAfter(n) \in SUBSET (1..n)
  BY <1>1, OpenLines
<1>8. PICK O : O = OpenAfter(n + 1)'
  OBVIOUS
<1>9. ASSUME NEW j \in 1..(m - 1) PROVE Fit(a, j, u)'
  <2>1. /\ j + 1 \in 1..m /\ Fit(s, j + 1, u) /\ a[j] = s[j + 1] /\ 1 # m
        /\ a[j].type \in {"opened", "closed", "used"}
    <3>1. PICK k \in 1..m : k = j + 1
      BY <1>3
    <3>2. Fit(s, k, u)
      BY <1>3 DEF Follow
    <3>3. a[j] = s[j + 1] /\ a[j] \in Entry /\ 1 # m
      BY <1>5, <3>1
    <3>. QED
      BY <3>1, <3>2, <3>3 DEF Entry
  <2>2. s[1].type \in {"closed", "used"}
    BY <1>3, <1>6, <2>1 DEF Fit, Entry
  <2>3. O \in SUBSET OpenAfter(n) /\ \A i \in O : lines'[i] = lines[i]
    BY <1>2, <1>7, <1>8, <2>2
  <2>4. CASE a[j].type = "closed"
    <3>1. PICK i \in OpenAfter(n) : lines[i].grant = a[j].grant
      BY <1>1, <2>1, <2>4 DEF Fit
    <3>2. \A k \in 1..j : s[k].grant # a[j].grant
      BY <2>1, <2>4 DEF Fit
    <3>3. s[1].grant # a[j].grant
      BY <3>2
    <3>4. i \in O
      BY <1>2, <1>8, <2>2, <3>1, <3>3
    <3>5. \A k \in 1..(j - 1) : a[k].grant # a[j].grant
      <4>1. ASSUME NEW k \in 1..(j - 1) PROVE a[k].grant # a[j].grant
        <5>1. k \in 1..(m - 1) /\ k + 1 \in 1..j
          OBVIOUS
        <5>2. a[k] = s[k + 1]
          BY <1>5, <5>1
        <5>. QED
          BY <3>2, <5>1, <5>2
      <4>. QED
        BY <4>1
    <3>6. \E h \in OpenAfter(Len(lines))' : lines'[h].grant = a[j].grant
      BY <1>2, <1>8, <2>3, <3>1, <3>4
    <3>. QED
      BY <2>4, <3>5, <3>6 DEF Fit
  <2>5. CASE a[j].type = "opened"
    <3>1. /\ j + 1 = m /\ u.phase = "open" /\ a[j].grant = u.call.id
          /\ \A i \in OpenAfter(n) : lines[i].provider = a[j].provider =>
               Expired(lines[i], a[j].at) \/ a[j].expires > lines[i].expires
      BY <1>1, <1>3, <2>1, <2>5 DEF Fit
    <3>2. \A i \in O : lines'[i].provider = a[j].provider =>
            Expired(lines'[i], a[j].at) \/ a[j].expires > lines'[i].expires
      BY <2>3, <3>1
    <3>3. j = Len(a) /\ OpenAfter(Len(lines))' = O
      BY <1>2, <1>5, <1>8, <3>1
    <3>. QED
      BY <2>5, <3>1, <3>2, <3>3 DEF Fit, Expired
  <2>6. CASE a[j].type = "used"
    <3>1. s[1].type = "used"
      BY <1>3, <1>6, <2>1, <2>6 DEF Follow
    <3>2. O = OpenAfter(n)
      BY <1>2, <1>8, <3>1
    <3>3. \E i \in O : lines'[i].grant = a[j].grant /\ ~Expired(lines'[i], a[j].at)
      BY <1>1, <2>1, <2>3, <2>6, <3>2 DEF Fit
    <3>4. OpenAfter(Len(lines))' = O
      BY <1>2, <1>8
    <3>. QED
      BY <2>6, <3>3, <3>4 DEF Fit, Expired
  <2>. QED
    BY <2>1, <2>4, <2>5, <2>6
<1>10. (u.phase = "use" \/ \E j \in 1..Len(a) : a[j].type = "used") =>
         \A j \in 1..Len(a) : a[j].type = "used" /\ a[j].item = u.call.item
  <2>1. \A j \in 1..Len(a) : j + 1 \in 1..Len(s) /\ a[j] = s[j + 1]
    BY <1>3, <1>5
  <2>. QED
    BY <2>1 DEF Follow
<1>11. Follow(a, u)'
  BY <1>5, <1>9, <1>10 DEF Follow
<1>. QED
  BY <1>4, <1>11

\* What LedgerSound says of one line, after these open grants.
LineHolds(x, open) ==
  CASE x.type = "opened" ->
         \A g \in open : g.provider = x.provider => Expired(g, x.at) \/ x.expires > g.expires
    [] x.type = "closed" -> \E g \in open : g.grant = x.grant
    [] x.type = "used"   -> \E g \in open : g.grant = x.grant /\ ~Expired(g, x.at)

\* What may follow depends on the call's number, item and phase alone, and on the ledger.
LEMMA SameFollow ==
  ASSUME NEW s, NEW r, NEW u, Follow(s, r), u.call = r.call, u.phase = r.phase
  PROVE  Follow(s, u)
<1>1. ASSUME NEW j \in 1..Len(s) PROVE Fit(s, j, u)
  <2>1. Fit(s, j, r)
    BY DEF Follow
  <2>. QED
    BY <2>1 DEF Fit
<1>2. (u.phase = "use" \/ \E j \in 1..Len(s) : s[j].type = "used") =>
        \A j \in 1..Len(s) : s[j].type = "used" /\ s[j].item = u.call.item
  BY DEF Follow
<1>. QED
  BY <1>1, <1>2 DEF Follow

LEMMA FollowStays ==
  ASSUME NEW s, NEW u, Follow(s, u), lines' = lines
  PROVE  Follow(s, u)'
<1>1. PICK O : O = OpenAfter(Len(lines))
  OBVIOUS
<1>2. OpenAfter(Len(lines))' = O
  BY <1>1 DEF OpenAfter, Opened
<1>3. ASSUME NEW j \in 1..Len(s) PROVE Fit(s, j, u)'
  <2>1. Fit(s, j, u)
    BY DEF Follow
  <2>. QED
    BY <1>1, <1>2, <2>1 DEF Fit, Expired
<1>. QED
  BY <1>3 DEF Follow

LEMMA SoundStays ==
  ASSUME LedgerSound, lines' = lines
  PROVE  LedgerSound'
<1>1. \A k : OpenAfter(k)' = OpenAfter(k)
  BY DEF OpenAfter, Opened
<1>2. ASSUME NEW i \in DOMAIN lines PROVE LineHolds(lines'[i], {lines'[j] : j \in OpenAfter(i - 1)'})
  <2>1. LineHolds(lines[i], {lines[j] : j \in OpenAfter(i - 1)})
    BY DEF LedgerSound, LineHolds
  <2>2. {lines'[j] : j \in OpenAfter(i - 1)'} = {lines[j] : j \in OpenAfter(i - 1)}
    <3>1. PICK k : k = i - 1
      OBVIOUS
    <3>2. {lines'[j] : j \in OpenAfter(k)'} = {lines[j] : j \in OpenAfter(k)}
      BY <1>1
    <3>. QED
      BY <3>1, <3>2
  <2>. QED
    BY <2>1, <2>2
<1>. QED
  BY <1>2 DEF LedgerSound, LineHolds, Expired

\* A step that writes no line keeps the sound lines, and leaves the other calls theirs.
LEMMA LinesStay ==
  ASSUME FilesTyped, Held, Held', Named, LedgerSound, \A q \in Procs : Work(proc[q]),
         NEW p \in Procs, lines' = lines, calls' \in Nat, calls' >= calls,
         \A q \in Procs \ {p} : proc'[q] = proc[q], Work(proc[p])',
         proc'[p].pc # "idle" =>
           (~At(p, "idle") /\ proc'[p].call.id = proc[p].call.id) \/ proc'[p].call.id = calls + 1
  PROVE  Named' /\ LedgerSound' /\ (\A q \in Procs : Work(proc[q]))'
<1>1. /\ calls \in Nat /\ DOMAIN lines = 1..Len(lines) /\ \A i \in DOMAIN lines : lines[i].grant \in Nat
      /\ \A q \in Procs : ~At(q, "idle") => proc[q].call.id \in Nat /\ proc[q].call.id <= calls
  <2>1. \A i \in DOMAIN lines : lines[i].grant \in Nat
    BY OpenLines DEF Line
  <2>2. \A q \in Procs : ~At(q, "idle") => proc[q].call \in Call /\ proc[q].call.id <= calls
    BY DEF Held, Fits, At, Proper, Work
  <2>. QED
    BY <2>1, <2>2, OpenLines DEF FilesTyped, Call
<1>2. LedgerSound'
  BY SoundStays
<1>3. Named'
  <2>1. ASSUME NEW q \in Procs, NEW s \in Procs, ~At(q, "idle")', ~At(s, "idle")',
               proc'[q].call.id = proc'[s].call.id
        PROVE  q = s
    <3>1. CASE q # p /\ s # p
      BY <2>1, <3>1 DEF Named, At
    <3>2. CASE q = p /\ s # p
      <4>1. ~At(s, "idle") /\ proc'[s] = proc[s] /\ proc[s].call.id \in Nat /\ proc[s].call.id <= calls
        BY <1>1, <2>1, <3>2 DEF At
      <4>2. proc'[p].call.id # calls + 1
        BY <1>1, <2>1, <3>2, <4>1
      <4>. QED
        BY <2>1, <3>2, <4>1, <4>2 DEF Named, At
    <3>3. CASE q # p /\ s = p
      <4>1. ~At(q, "idle") /\ proc'[q] = proc[q] /\ proc[q].call.id \in Nat /\ proc[q].call.id <= calls
        BY <1>1, <2>1, <3>3 DEF At
      <4>2. proc'[p].call.id # calls + 1
        BY <1>1, <2>1, <3>3, <4>1
      <4>. QED
        BY <2>1, <3>3, <4>1, <4>2 DEF Named, At
    <3>. QED
      BY <3>1, <3>2, <3>3
  <2>2. \A i \in DOMAIN lines : Opened(i) => lines[i].grant <= calls'
    BY <1>1 DEF Named
  <2>. QED
    BY <2>1, <2>2 DEF Named, Opened
<1>4. ASSUME NEW q \in Procs PROVE Work(proc[q])'
  <2>1. CASE q = p
    BY <2>1
  <2>2. CASE q # p
    <3>1. PICK r : r = proc[q]
      OBVIOUS
    <3>2. Work(r) /\ (r.pc # "idle" => r.call.id \in Nat)
      BY <1>1, <3>1 DEF At
    <3>s. PICK s : s = Rest(r)
      OBVIOUS
    <3>3. Follow(s, r) => Follow(s, r)'
      BY FollowStays
    <3>4. r.pc # "idle" => r.call.id <= calls'
      BY <1>1, <3>2 DEF Work
    <3>5. Work(r)'
      BY <3>s, <3>2, <3>3, <3>4 DEF Rest, Work, Recorded, Opened
    <3>6. proc'[q] = r
      BY <2>2, <3>1
    <3>. QED
      BY <3>5, <3>6
  <2>. QED
    BY <2>1, <2>2
<1>. QED
  BY <1>2, <1>3, <1>4

\* A line that may follow, follows: it is sound, and what is left to write still may.
LEMMA LineFollows ==
  ASSUME FilesTyped, Held, Numbered, Named, LedgerSound, \A q \in Procs : Work(proc[q]),
         NEW p \in Procs, NEW e, Appended(p, e)
  PROVE  Numbered' /\ Named' /\ LedgerSound' /\ (\A q \in Procs : Work(proc[q]))'
<1>1. /\ e \in Line /\ lines' = Append(lines, e) /\ calls' = calls /\ head' = head /\ undone' = undone
      /\ At(p, "line") /\ Goes(p, "head") /\ proc'[p].todo = proc[p].todo /\ proc'[p].base = proc[p].base
  BY DEF Appended
<1>2. PICK n \in Nat : n = Len(lines)
  BY OpenLines
<1>3. /\ Len(lines') = n + 1 /\ lines'[n + 1] = e /\ \A i \in 1..n : lines'[i] = lines[i]
      /\ \A k \in Nat : k <= n => OpenAfter(k)' = OpenAfter(k)
      /\ OpenAfter(n) \in SUBSET (1..n)
      /\ DOMAIN lines = 1..n /\ DOMAIN lines' = (1..n) \union {n + 1}
      /\ \A i \in 1..n : lines[i].grant \in Nat
  <2>1. lines' \in Seq(Line)
    BY <1>1, AppendProperties DEF FilesTyped
  <2>2. /\ Len(lines') = n + 1 /\ lines'[n + 1] = e /\ \A i \in 1..n : lines'[i] = lines[i]
        /\ \A k \in Nat : k <= n => OpenAfter(k)' = OpenAfter(k)
    BY <1>1, <1>2, OpenAfterAppend
  <2>3. DOMAIN lines' = 1..(n + 1)
    BY <2>1, <2>2, LenProperties
  <2>4. \A i \in 1..n : lines[i].grant \in Nat
    BY <1>2, OpenLines DEF Line
  <2>. QED
    BY <1>2, <2>2, <2>3, <2>4, OpenLines
<1>4. PICK r : r = proc[p]
  OBVIOUS
<1>5. /\ r \in Local /\ Fits(r) /\ r.pc = "line" /\ r.todo # <<>> /\ Follow(r.todo, r) /\ r.base = n
      /\ r.call.id \in Nat /\ r.call.id <= calls /\ r.todo \in Seq(Entry)
      /\ \A i \in 1..n : Opened(i) => lines[i].grant # r.call.id
  <2>1. r \in Local /\ Fits(r) /\ r.pc = "line" /\ Work(r)
    BY <1>1, <1>4 DEF Held, At
  <2>2. r.call \in Call
    BY <2>1 DEF Fits, Proper
  <2>. QED
    BY <1>2, <1>3, <2>1, <2>2 DEF Work, Writers, Rest, Call, Local
<1>6. PICK f : f = r.todo[1]
  OBVIOUS
<1>7. /\ f \in Entry /\ Fit(r.todo, 1, r) /\ 1 \in 1..Len(r.todo)
      /\ (r.phase = "use" => f.type = "used" /\ f.item = r.call.item)
      /\ e.type = f.type /\ e.grant = f.grant /\ e.provider = f.provider /\ e.expires = f.expires
      /\ e.item = f.item /\ e.at = f.at /\ e.prev = n
  <2>1. 1 \in 1..Len(r.todo)
    BY <1>5, EmptySeq, LenProperties
  <2>2. f \in Entry
    BY <1>5, <1>6, <2>1, ElementOfSeq
  <2>. QED
    BY <1>4, <1>5, <1>6, <2>1, <2>2 DEF Follow, Appended
<1>8. \A q \in Procs \ {p} : proc'[q] = proc[q] /\ proc[q].pc \notin Writing
  BY <1>1, <1>4, <1>5, OneWriter DEF Goes, Writing
<1>9. proc'[p].pc = "head" /\ proc'[p].call = r.call /\ proc'[p].phase = r.phase /\ proc'[p].todo = r.todo
        /\ proc'[p].base = n
  BY <1>1, <1>4, <1>5 DEF Goes
<1>10. Numbered'
  <2>1. \A i \in DOMAIN lines' : lines'[i].prev = i - 1
    BY <1>3, <1>7 DEF Numbered
  <2>2. ~ \E q \in Procs : At(q, "head")
    BY <1>4, <1>5, <1>8 DEF At, Writing
  <2>3. \E q \in Procs : proc'[q].pc = "head"
    BY <1>9
  <2>4. n = head + undone
    BY <1>2, <2>2 DEF Numbered, FilesTyped
  <2>. QED
    BY <1>1, <1>3, <2>1, <2>3, <2>4 DEF Numbered, At, FilesTyped
<1>11. e.type = "opened" => e.grant = r.call.id /\ Len(r.todo) = 1 /\ r.phase = "open"
  BY <1>6, <1>7 DEF Fit
<1>12. Named'
  <2>1. \A i \in DOMAIN lines' : lines'[i].type = "opened" => lines'[i].grant <= calls'
    BY <1>1, <1>3, <1>5, <1>11 DEF Named, Opened
  <2>2. ASSUME NEW i \in DOMAIN lines', NEW j \in DOMAIN lines', lines'[i].type = "opened",
               lines'[j].type = "opened", lines'[i].grant = lines'[j].grant
        PROVE  i = j
    <3>1. CASE i \in 1..n /\ j \in 1..n
      BY <1>3, <2>2, <3>1 DEF Named, Opened
    <3>2. CASE i = n + 1 /\ j \in 1..n
      BY <1>3, <1>5, <1>11, <2>2, <3>2 DEF Opened
    <3>3. CASE j = n + 1 /\ i \in 1..n
      BY <1>3, <1>5, <1>11, <2>2, <3>3 DEF Opened
    <3>. QED
      BY <1>3, <3>1, <3>2, <3>3
  <2>3. \A q \in Procs : proc'[q].call = proc[q].call /\ (proc'[q].pc # "idle" => proc[q].pc # "idle")
    BY <1>4, <1>5, <1>8, <1>9
  <2>. QED
    BY <2>1, <2>2, <2>3 DEF Named, Opened, At
<1>13. LedgerSound'
  <2>1. ASSUME NEW i \in 1..n PROVE LineHolds(lines'[i], {lines'[j] : j \in OpenAfter(i - 1)'})
    <3>1. LineHolds(lines[i], {lines[j] : j \in OpenAfter(i - 1)})
      BY <1>3 DEF LedgerSound, LineHolds
    <3>2. PICK k \in Nat : k = i - 1 /\ k <= n
      OBVIOUS
    <3>s. OpenAfter(k)' = OpenAfter(k) /\ OpenAfter(k) \in SUBSET (1..n)
      <4>1. OpenAfter(k)' = OpenAfter(k)
        BY <1>3, <3>2
      <4>2. 1..k \in SUBSET (1..n) /\ OpenAfter(k) \in SUBSET (1..k)
        BY <3>2 DEF OpenAfter
      <4>. QED
        BY <4>1, <4>2
    <3>k. {lines'[j] : j \in OpenAfter(k)'} = {lines[j] : j \in OpenAfter(k)}
      BY <1>3, <3>s
    <3>3. {lines'[j] : j \in OpenAfter(i - 1)'} = {lines[j] : j \in OpenAfter(i - 1)}
      BY <3>2, <3>k
    <3>4. lines'[i] = lines[i]
      BY <1>3
    <3>. QED
      BY <3>1, <3>3, <3>4
  <2>2. LineHolds(lines'[n + 1], {lines'[j] : j \in OpenAfter((n + 1) - 1)'})
    <3>1. (n + 1) - 1 = n
      OBVIOUS
    <3>2. PICK O : O = OpenAfter(n) /\ O = OpenAfter((n + 1) - 1)' /\ O \in SUBSET (1..n)
      BY <1>3, <3>1
    <3>o. PICK open : open = {lines'[j] : j \in O}
      OBVIOUS
    <3>3. \A j \in O : lines'[j] = lines[j] /\ lines[j] \in open
      BY <1>3, <3>2, <3>o
    <3>4. \A g \in open : \E j \in O : lines[j] = g
      BY <3>3, <3>o
    <3>5. LineHolds(e, open)
      <4>1. CASE f.type = "opened"
        BY <1>2, <1>6, <1>7, <3>2, <3>4, <4>1 DEF Fit, LineHolds
      <4>2. CASE f.type = "closed"
        BY <1>2, <1>6, <1>7, <3>2, <3>3, <4>2 DEF Fit, LineHolds
      <4>3. CASE f.type = "used"
        BY <1>2, <1>6, <1>7, <3>2, <3>3, <4>3 DEF Fit, LineHolds
      <4>. QED
        BY <1>7, <4>1, <4>2, <4>3 DEF Entry
    <3>. QED
      BY <1>3, <3>2, <3>o, <3>5
  <2>. QED
    BY <1>3, <2>1, <2>2 DEF LedgerSound, LineHolds, Expired
<1>14. Work(proc[p])'
  <2>1. PICK u : u = proc'[p]
    OBVIOUS
  <2>2. Follow(r.todo, u)
    BY <1>5, <1>9, <2>1 DEF Follow, Fit
  <2>3. PICK s \in Seq(Entry) : s = r.todo
    BY <1>5
  <2>4. Follow(Tail(s), u)'
    BY <1>1, <1>5, <1>6, <1>7, <2>2, <2>3, FollowRest
  <2>5. r.phase = "use" => Recorded(r.call.item)'
    BY <1>3, <1>7 DEF Recorded
  <2>6. \A i \in DOMAIN lines' : lines'[i].type = "opened" /\ lines'[i].grant = r.call.id =>
          r.phase = "open" /\ Len(r.todo) = 1
    BY <1>3, <1>5, <1>11 DEF Opened
  <2>7. u.pc = "head" /\ u.call = r.call /\ u.phase = r.phase /\ u.todo = s /\ u.base = n /\ s # <<>>
    BY <1>5, <1>9, <2>1, <2>3
  <2>8. Work(u)'
    BY <1>1, <1>3, <1>5, <2>3, <2>4, <2>5, <2>6, <2>7 DEF Work, Rest, Writers, Opened
  <2>. QED
    BY <2>1, <2>8
<1>15. ASSUME NEW q \in Procs \ {p} PROVE Work(proc[q])'
  <2>1. PICK u : u = proc[q]
    OBVIOUS
  <2>2. Work(u) /\ u.pc \notin Writing /\ proc'[q] = u
    BY <1>8, <2>1
  <2>3. u.pc # "idle" => u.call.id # r.call.id
    BY <1>4, <1>5, <2>1 DEF Named, At
  <2>4. u.pc # "idle" => \A i \in DOMAIN lines' : ~(lines'[i].type = "opened" /\ lines'[i].grant = u.call.id)
    BY <1>3, <1>11, <2>2, <2>3 DEF Work, Opened, Writing
  <2>5. Work(u)'
    BY <1>1, <2>2, <2>4 DEF Work, Opened, Writing, Writers
  <2>. QED
    BY <2>2, <2>5
<1>. QED
  BY <1>10, <1>12, <1>13, <1>14, <1>15

\* A call that is not at a line's head, before or after, counts none.
LEMMA NumberedStays ==
  ASSUME Numbered, NEW p \in Procs, UNCHANGED <<lines, head, undone>>,
         \A q \in Procs \ {p} : proc'[q] = proc[q], ~At(p, "head"), proc'[p].pc # "head"
  PROVE  Numbered'
<1>1. (\E q \in Procs : proc'[q].pc = "head") <=> (\E q \in Procs : proc[q].pc = "head")
  BY DEF At
<1>. QED
  BY <1>1 DEF Numbered, At

\* A step of one call that writes no line keeps the ledger's invariant.
LEMMA LedgerStays ==
  ASSUME FilesTyped, Held, Held', LedgerInv, NEW p \in Procs, lines' = lines, calls' \in Nat, calls' >= calls,
         \A q \in Procs \ {p} : proc'[q] = proc[q], Work(proc[p])', Numbered',
         proc'[p].pc # "idle" =>
           (~At(p, "idle") /\ proc'[p].call.id = proc[p].call.id) \/ proc'[p].call.id = calls + 1
  PROVE  LedgerInv'
<1>1. Named' /\ LedgerSound' /\ (\A q \in Procs : Work(proc[q]))'
  BY LinesStay DEF LedgerInv
<1>. QED
  BY <1>1 DEF LedgerInv

\* What a call that is not writing is to know of the ledger.
LEMMA NotWriting ==
  ASSUME NEW u, u.pc \notin Writers, lines' = lines, calls' \in Nat,
         u.pc # "idle" => /\ u.call.id \in Nat /\ u.call.id <= calls'
                          /\ \A i \in DOMAIN lines : ~(Opened(i) /\ lines[i].grant = u.call.id)
  PROVE  Work(u)'
BY DEF Work, Writers, Opened

LEMMA QuietKeeps ==
  ASSUME FilesTyped, Held, Held', LedgerInv, NEW p \in Procs, Quiet(p)
  PROVE  LedgerInv'
<1>1. PICK u : u = proc'[p]
  OBVIOUS
<1>2. calls \in Nat /\ Work(proc[p]) /\ Numbered
  BY DEF FilesTyped, LedgerInv
<1>3. ~At(p, "idle") /\ ~At(p, "head") /\ lines' = lines /\ calls' = calls
      /\ u.pc \notin Writers /\ (u.pc # "idle" => u.call = proc[p].call)
  BY <1>1 DEF Quiet, Writers
<1>4. proc[p].call.id \in Nat
  BY <1>3 DEF Held, Fits, At, Proper, Call
<1>5. Work(u)'
  <2>1. proc[p].call.id <= calls /\ \A i \in DOMAIN lines : ~(Opened(i) /\ lines[i].grant = proc[p].call.id)
    BY <1>2, <1>3 DEF Work, At
  <2>. QED
    BY <1>2, <1>3, <1>4, <2>1, NotWriting
<1>6. Numbered'
  BY <1>2, NumberedStays DEF Quiet
<1>7. Work(proc[p])'
  BY <1>1, <1>5
<1>. QED
  BY <1>1, <1>2, <1>3, <1>6, <1>7, LedgerStays DEF Quiet

LEMMA BeginKeeps ==
  ASSUME FilesTyped, Held, LedgerInv, NEW p \in Procs, NEW c \in CallsNow, Begin(p, c)
  PROVE  LedgerInv'
<1>1. /\ Held' /\ UNCHANGED <<lines, head, artifacts, events, undone>> /\ calls' = calls + 1
      /\ \A q \in Procs \ {p} : proc'[q] = proc[q]
      /\ At(p, "idle")
      /\ proc'[p].pc = "idle" \/ (proc'[p].pc = "wait" /\ proc'[p].call.id = calls + 1)
  BY BeginHolds
<1>2. PICK u : u = proc'[p]
  OBVIOUS
<1>3. calls \in Nat /\ calls' \in Nat /\ calls' >= calls /\ Named /\ Numbered
  BY <1>1 DEF FilesTyped, LedgerInv
<1>4. \A i \in DOMAIN lines : Opened(i) => lines[i].grant <= calls /\ lines[i].grant \in Nat
  BY <1>3, OpenLines DEF Named, Line
<1>5. Work(u)'
  <2>1. u.pc \notin Writers
    BY <1>1, <1>2 DEF Writers
  <2>2. u.pc # "idle" => /\ u.call.id \in Nat /\ u.call.id <= calls'
                         /\ \A i \in DOMAIN lines : ~(Opened(i) /\ lines[i].grant = u.call.id)
    BY <1>1, <1>2, <1>3, <1>4
  <2>. QED
    BY <1>1, <1>3, <2>1, <2>2, NotWriting
<1>6. Numbered'
  BY <1>1, <1>3, NumberedStays DEF At
<1>7. Work(proc[p])'
  BY <1>2, <1>5
<1>. QED
  BY <1>1, <1>3, <1>6, <1>7, LedgerStays

LEMMA PlanKeeps ==
  ASSUME FilesTyped, Held, Held', LedgerInv, NEW p \in Procs, Plans(p)
  PROVE  LedgerInv'
<1>1. PICK s : Planned(p, s) /\ Follow(s, proc[p])
  BY DEF Plans
<1>2. PICK u : u = proc'[p]
  OBVIOUS
<1>3. /\ lines' = lines /\ calls' = calls /\ calls \in Nat /\ At(p, "held")
      /\ \A q \in Procs \ {p} : proc'[q] = proc[q]
      /\ u.pc = "verify" /\ u.todo = s /\ s # <<>> /\ u.call = proc[p].call /\ u.phase = proc[p].phase
  BY <1>1, <1>2 DEF Planned, FilesTyped
<1>4. Work(proc[p]) /\ Numbered
  BY DEF LedgerInv
<1>5. Work(u)'
  <2>1. Follow(s, u)
    BY <1>1, <1>3, SameFollow
  <2>2. Follow(s, u)'
    BY <1>3, <2>1, FollowStays
  <2>. QED
    BY <1>3, <1>4, <2>2 DEF Work, Writers, Rest, Opened, At
<1>6. Numbered'
  BY <1>1, <1>2, <1>3, <1>4, NumberedStays DEF At, Planned
<1>7. Work(proc[p])'
  BY <1>2, <1>5
<1>. QED
  BY <1>2, <1>3, <1>6, <1>7, LedgerStays DEF At

LEMMA VerifyKeeps ==
  ASSUME FilesTyped, Held, Held', LedgerInv, NEW p \in Procs, Verified(p)
  PROVE  LedgerInv'
<1>2. PICK u : u = proc'[p]
  OBVIOUS
<1>3. /\ lines' = lines /\ calls' = calls /\ calls \in Nat /\ At(p, "verify")
      /\ \A q \in Procs \ {p} : proc'[q] = proc[q]
      /\ u.pc = "line" /\ u.todo = proc[p].todo /\ u.base = Len(lines)
      /\ u.call = proc[p].call /\ u.phase = proc[p].phase
  BY <1>2 DEF Verified, Goes, FilesTyped
<1>4. Work(proc[p]) /\ Numbered
  BY DEF LedgerInv
<1>5. Work(u)'
  <2>1. Follow(u.todo, proc[p]) /\ u.todo # <<>>
    BY <1>3, <1>4 DEF Work, Writers, Rest, At
  <2>s. PICK s : s = u.todo
    OBVIOUS
  <2>2. Follow(s, u)
    BY <1>3, <2>1, <2>s, SameFollow
  <2>3. Follow(s, u)'
    BY <1>3, <2>2, FollowStays
  <2>. QED
    BY <1>3, <1>4, <2>1, <2>s, <2>3 DEF Work, Writers, Rest, Opened, At
<1>6. Numbered'
  BY <1>2, <1>3, <1>4, NumberedStays DEF At, Verified
<1>7. Work(proc[p])'
  BY <1>2, <1>5
<1>. QED
  BY <1>2, <1>3, <1>6, <1>7, LedgerStays DEF At

LEMMA LineKeeps ==
  ASSUME FilesTyped, Held, LedgerInv, NEW p \in Procs, NEW e, Appended(p, e)
  PROVE  LedgerInv'
<1>1. Numbered /\ Named /\ LedgerSound /\ \A q \in Procs : Work(proc[q])
  BY DEF LedgerInv
<1>2. Numbered' /\ Named' /\ LedgerSound' /\ (\A q \in Procs : Work(proc[q]))'
  BY <1>1, LineFollows
<1>. QED
  BY <1>2 DEF LedgerInv

\* The head counts the line, and the lines before it whose writers died.
LEMMA HeadKeeps ==
  ASSUME FilesTyped, Held, LedgerInv, NEW p \in Procs, WriteHead(p)
  PROVE  LedgerInv'
<1>1. Held' /\ Counted(p)
  BY WriteHeadHolds
<1>2. PICK u : u = proc'[p]
  OBVIOUS
<1>3. \/ Len(proc[p].todo) > 1 /\ Goes(p, "verify") /\ u.todo = Tail(proc[p].todo)
      \/ u.pc = "idle"
      \/ u.pc = "granted" /\ proc[p].phase = "sweep" /\ u.call = proc[p].call
      \/ u.pc = "artifact" /\ Uses(proc[p]) /\ u.call = proc[p].call
  BY <1>2, WriteHeadHolds
<1>4. /\ lines' = lines /\ calls' = calls /\ calls \in Nat /\ At(p, "head")
      /\ \A q \in Procs \ {p} : proc'[q] = proc[q]
  BY <1>1 DEF Counted, FilesTyped
<1>5. Work(proc[p]) /\ Numbered
  BY DEF LedgerInv
<1>6. /\ proc[p].base + 1 = Len(lines) /\ Follow(Tail(proc[p].todo), proc[p])
      /\ proc[p].call.id <= calls /\ proc[p].call.id \in Nat /\ proc[p].todo \in Seq(Entry)
      /\ \A i \in DOMAIN lines : Opened(i) /\ lines[i].grant = proc[p].call.id =>
            proc[p].phase = "open" /\ ~(Len(proc[p].todo) > 1)
  <2>1. proc[p].call \in Call /\ proc[p].todo \in Seq(Entry)
    BY <1>4 DEF Held, Fits, At, Proper, Local
  <2>2. /\ proc[p].base + 1 = Len(lines) /\ Follow(Tail(proc[p].todo), proc[p])
        /\ proc[p].call.id <= calls /\ proc[p].call.id \in Nat
        /\ \A i \in DOMAIN lines : Opened(i) /\ lines[i].grant = proc[p].call.id =>
             proc[p].phase = "open" /\ Len(proc[p].todo) = 1
    BY <1>4, <1>5, <2>1 DEF Work, Writers, Rest, At, Call
  <2>3. Len(proc[p].todo) = 1 => ~(Len(proc[p].todo) > 1)
    OBVIOUS
  <2>. QED
    BY <2>1, <2>2, <2>3
<1>7. Numbered'
  <2>1. ~ \E q \in Procs : proc'[q].pc = "head"
    <3>1. \A q \in Procs \ {p} : proc[q].pc # "head"
      BY <1>4, OneWriter DEF At, Writing
    <3>2. u.pc # "head"
      BY <1>2, <1>3 DEF Goes
    <3>. QED
      BY <1>2, <1>4, <3>1, <3>2
  <2>2. head' = Len(lines) /\ undone' = 0 /\ Len(lines) \in Nat
    BY <1>1, <1>6, OpenLines DEF Counted
  <2>. QED
    BY <1>4, <1>5, <2>1, <2>2 DEF Numbered, At
<1>8. Work(u)'
  <2>1. CASE Len(proc[p].todo) > 1 /\ Goes(p, "verify") /\ u.todo = Tail(proc[p].todo)
    <3>s. PICK s : s = Tail(proc[p].todo)
      OBVIOUS
    <3>1. s # <<>>
      <4>1. Len(s) = Len(proc[p].todo) - 1 /\ Len(proc[p].todo) \in Nat
        BY <1>6, <2>1, <3>s, HeadTailProperties, EmptySeq, LenProperties
      <4>. QED
        BY <2>1, <4>1, EmptySeq
    <3>2. u.pc = "verify" /\ u.call = proc[p].call /\ u.phase = proc[p].phase /\ u.todo = s
      BY <1>2, <2>1, <3>s DEF Goes
    <3>3. Follow(s, u)
      BY <1>6, <3>s, <3>2, SameFollow
    <3>4. Follow(s, u)'
      BY <1>4, <3>3, FollowStays
    <3>5. \A i \in DOMAIN lines : ~(Opened(i) /\ lines[i].grant = proc[p].call.id)
      BY <1>6, <2>1
    <3>. QED
      BY <1>4, <1>6, <3>1, <3>2, <3>4, <3>5 DEF Work, Writers, Rest, Opened
  <2>2. CASE u.pc = "idle"
    BY <1>4, <2>2, NotWriting DEF Writers
  <2>3. CASE u.pc \in {"granted", "artifact"} /\ proc[p].phase # "open" /\ u.call = proc[p].call
    <3>1. u.pc \notin Writers
      BY <2>3 DEF Writers
    <3>2. u.pc # "idle" => /\ u.call.id \in Nat /\ u.call.id <= calls'
                           /\ \A i \in DOMAIN lines : ~(Opened(i) /\ lines[i].grant = u.call.id)
      BY <1>4, <1>6, <2>3
    <3>. QED
      BY <1>4, <3>1, <3>2, NotWriting
  <2>. QED
    BY <1>3, <2>1, <2>2, <2>3 DEF Uses
<1>9. Work(proc[p])'
  BY <1>2, <1>8
<1>10. u.pc # "idle" => ~At(p, "idle") /\ u.call.id = proc[p].call.id
  BY <1>2, <1>3, <1>4 DEF At, Goes
<1>. QED
  BY <1>1, <1>2, <1>4, <1>7, <1>9, <1>10, LedgerStays

\* A call that ends, or goes on to its event, leaves the ledger alone.
LEMMA ArtifactKeeps ==
  ASSUME FilesTyped, Held, LedgerInv, NEW p \in Procs, WriteArtifact(p)
  PROVE  LedgerInv'
<1>1. /\ Held' /\ At(p, "artifact") /\ Goes(p, "event") /\ UNCHANGED <<lines, head, calls, undone>>
  BY WriteArtifactHolds
<1>2. PICK u : u = proc'[p]
  OBVIOUS
<1>3. u.pc = "event" /\ u.call = proc[p].call /\ calls \in Nat /\ calls' \in Nat /\ calls' >= calls
      /\ Work(proc[p]) /\ Numbered /\ proc[p].call.id \in Nat
      /\ \A q \in Procs \ {p} : proc'[q] = proc[q]
  <2>1. proc[p].call \in Call
    BY <1>1 DEF Held, Fits, At, Proper
  <2>. QED
    BY <1>1, <1>2, <2>1 DEF Goes, FilesTyped, LedgerInv, Call
<1>4. Work(u)'
  <2>1. u.pc \notin Writers
    BY <1>3 DEF Writers
  <2>2. u.pc # "idle" => /\ u.call.id \in Nat /\ u.call.id <= calls'
                         /\ \A i \in DOMAIN lines : ~(Opened(i) /\ lines[i].grant = u.call.id)
    BY <1>1, <1>3 DEF Work, At
  <2>. QED
    BY <1>1, <1>3, <2>1, <2>2, NotWriting
<1>5. Numbered'
  BY <1>1, <1>2, <1>3, NumberedStays DEF At
<1>6. Work(proc[p])'
  BY <1>2, <1>4
<1>. QED
  BY <1>1, <1>2, <1>3, <1>5, <1>6, LedgerStays DEF At

LEMMA EndKeeps ==
  ASSUME FilesTyped, Held, LedgerInv, NEW p \in Procs, AppendEvent(p) \/ Die(p)
  PROVE  LedgerInv'
<1>1. /\ Held' /\ proc'[p].pc = "idle" /\ UNCHANGED <<lines, head, calls>>
      /\ \A q \in Procs \ {p} : proc'[q] = proc[q]
      /\ undone' = undone + (IF At(p, "head") THEN 1 ELSE 0)
  <2>1. CASE AppendEvent(p)
    BY <2>1, AppendEventHolds DEF At, FilesTyped
  <2>2. CASE Die(p)
    BY <2>2, DieHolds
  <2>. QED
    BY <2>1, <2>2
<1>2. PICK u : u = proc'[p]
  OBVIOUS
<1>3. calls \in Nat /\ calls' \in Nat /\ calls' >= calls /\ Numbered /\ head \in Nat /\ undone \in Nat
  BY <1>1 DEF FilesTyped, LedgerInv
<1>4. Work(u)'
  <2>1. u.pc \notin Writers /\ u.pc = "idle"
    BY <1>1, <1>2 DEF Writers
  <2>. QED
    BY <1>1, <1>3, <2>1, NotWriting
<1>5. Numbered'
  <2>1. CASE At(p, "head")
    <3>1. ~ \E q \in Procs : proc'[q].pc = "head"
      <4>1. \A q \in Procs \ {p} : proc[q].pc # "head"
        BY <2>1, OneWriter DEF At, Writing
      <4>. QED
        BY <1>1, <4>1
    <3>2. Len(lines) = head + undone + 1 /\ undone' = undone + 1
      BY <1>1, <2>1, <1>3 DEF Numbered
    <3>. QED
      BY <1>1, <1>3, <3>1, <3>2 DEF Numbered, At
  <2>2. CASE ~At(p, "head")
    BY <1>1, <1>3, <2>2, NumberedStays
  <2>. QED
    BY <2>1, <2>2
<1>6. Work(proc[p])'
  BY <1>2, <1>4
<1>. QED
  BY <1>1, <1>3, <1>5, <1>6, LedgerStays

----------------------------------------------------------------------------
(* Every step is one of these, and writes what it should *)

LEMMA FilesStayTyped ==
  ASSUME FilesTyped, Held, LedgerInv, Next
  PROVE  FilesTyped'
<1>. USE DEF FilesTyped
<1>1. CASE Tick
  BY <1>1 DEF Tick, files
<1>2. ASSUME NEW p \in Procs, UNCHANGED <<files, aux>> PROVE FilesTyped'
  BY <1>2 DEF files, aux
<1>3. ASSUME NEW p \in Procs, NEW c \in CallsNow, Begin(p, c) PROVE FilesTyped'
  BY <1>3 DEF Begin, files
<1>4. ASSUME NEW p \in Procs, Die(p) PROVE FilesTyped'
  BY <1>4 DEF Die, files
<1>5. ASSUME NEW p \in Procs, AppendLine(p) PROVE FilesTyped'
  <2>1. proc[p].todo # <<>>
    BY <1>5 DEF AppendLine, At, LedgerInv, Work, Writers
  <2>2. PICK e : Appended(p, e)
    BY <1>5, <2>1, AppendLineHolds
  <2>3. lines' \in Seq(Line)
    BY <2>2, AppendProperties DEF Appended
  <2>. QED
    BY <1>5, <2>3 DEF AppendLine, aux
<1>6. ASSUME NEW p \in Procs, WriteHead(p) PROVE FilesTyped'
  <2>1. proc[p].base \in Nat
    BY DEF Held, Local
  <2>. QED
    BY <1>6, <2>1 DEF WriteHead
<1>7. ASSUME NEW p \in Procs, Summarise(p) PROVE FilesTyped'
  <2>1. \A i \in DOMAIN lines : lines[i].grant \in Nat
    BY OpenLines DEF Line
  <2>2. PICK G : G = {lines[i].grant : i \in {j \in DOMAIN lines : Opened(j) /\ lines[j].provider # Primary}}
    OBVIOUS
  <2>3. G \in SUBSET Nat
    BY <2>1, <2>2
  <2>4. summarised' = summarised \union G \/ summarised' = summarised
    BY <1>7, <2>2 DEF Summarise
  <2>. QED
    BY <1>7, <2>3, <2>4 DEF Summarise, aux
<1>8. ASSUME NEW p \in Procs, WriteArtifact(p) PROVE FilesTyped'
  <2>1. proc[p].call.item \in Items
    BY <1>8 DEF WriteArtifact, Held, Fits, At, Proper
  <2>. QED
    BY <1>8, <2>1 DEF WriteArtifact, aux
<1>9. ASSUME NEW p \in Procs, AppendEvent(p) PROVE FilesTyped'
  <2>1. proc[p].call.item \in Items /\ proc[p].current \in Items \union {None}
    BY <1>9 DEF AppendEvent, Held, Fits, At, Proper, Local
  <2>2. PICK e : e = [item |-> proc[p].call.item, replaces |-> proc[p].current]
    OBVIOUS
  <2>3. e \in Event
    BY <2>1, <2>2 DEF Event
  <2>4. events' = events \/ events' = Append(events, e)
    BY <1>9, <2>2 DEF AppendEvent
  <2>5. events' \in Seq(Event)
    BY <2>3, <2>4, AppendProperties
  <2>. QED
    BY <1>9, <2>5 DEF AppendEvent, aux
<1>10. ASSUME NEW p \in Procs,
              Granted(p) \/ Lock(p) \/ SweepExpired(p) \/ OpenGrant(p) \/ CloseGrant(p) \/ UseGrant(p)
                \/ Verify(p) \/ Prepare(p)
       PROVE  FilesTyped'
  <2>1. UNCHANGED <<files, aux>>
    BY <1>10 DEF Granted, Lock, Acquire, Judge, Unlink, GiveUp, SweepExpired, OpenGrant, CloseGrant,
                 UseGrant, Under, Verify, Prepare
  <2>. QED
    BY <1>2, <1>10, <2>1
<1>. QED
  BY <1>1, <1>3, <1>4, <1>5, <1>6, <1>7, <1>8, <1>9, <1>10 DEF Next, Ledger, Publish

Does(p) ==
  \/ Quiet(p) \/ Plans(p) \/ Verified(p) \/ (\E e : Appended(p, e))
  \/ (\E c \in CallsNow : Begin(p, c)) \/ WriteHead(p) \/ WriteArtifact(p) \/ AppendEvent(p) \/ Die(p)

LEMMA StepDoes ==
  ASSUME FilesTyped, Held, LedgerInv, Reclaimers = 1, Next
  PROVE  Held' /\ (Tick \/ \E p \in Procs : Does(p))
<1>1. CASE Tick
  BY <1>1, TickHolds
<1>2. ASSUME NEW p \in Procs, NEW c \in CallsNow, Begin(p, c) PROVE Held' /\ Does(p)
  BY <1>2, BeginHolds DEF Does
<1>3. ASSUME NEW p \in Procs, Granted(p) \/ Lock(p) PROVE Held' /\ Does(p)
  BY <1>3, GrantedHolds, LockHolds DEF Does
<1>4. ASSUME NEW p \in Procs, SweepExpired(p) \/ OpenGrant(p) \/ CloseGrant(p) \/ UseGrant(p)
      PROVE  Held' /\ Does(p)
  <2>1. Named
    BY DEF LedgerInv
  <2>. QED
    BY <1>4, <2>1, PlansFollow DEF Does
<1>5. ASSUME NEW p \in Procs, Summarise(p) \/ Prepare(p) PROVE Held' /\ Does(p)
  BY <1>5, SummariseHolds, PrepareHolds DEF Does
<1>6. ASSUME NEW p \in Procs, Verify(p) PROVE Held' /\ Does(p)
  BY <1>6, VerifyHolds DEF Does
<1>7. ASSUME NEW p \in Procs, AppendLine(p) PROVE Held' /\ Does(p)
  <2>1. proc[p].todo # <<>>
    BY <1>7 DEF AppendLine, At, LedgerInv, Work, Writers
  <2>. QED
    BY <1>7, <2>1, AppendLineHolds DEF Does
<1>8. ASSUME NEW p \in Procs, WriteHead(p) \/ WriteArtifact(p) \/ AppendEvent(p) \/ Die(p) PROVE Held' /\ Does(p)
  BY <1>8, WriteHeadHolds, WriteArtifactHolds, AppendEventHolds, DieHolds DEF Does
<1>. QED
  BY <1>1, <1>2, <1>3, <1>4, <1>5, <1>6, <1>7, <1>8 DEF Next, Ledger, Publish

LEMMA LedgerStep ==
  ASSUME FilesTyped, Held, LedgerInv, Held', NEW p \in Procs, Does(p)
  PROVE  LedgerInv'
BY QuietKeeps, PlanKeeps, VerifyKeeps, LineKeeps, BeginKeeps, HeadKeeps, ArtifactKeeps, EndKeeps DEF Does

----------------------------------------------------------------------------
(* The publications' invariant is kept *)

\* ReplacesTheLast of one event, among these events and artifacts.
Replaced(es, B) == IF B = {} THEN None ELSE es[CHOOSE j \in B : \A k \in B : k <= j].item
Before(es, i) == {j \in 1..(i - 1) : ActorOf[es[j].item] = ActorOf[es[i].item]}
InPlace(es, i, A) ==
  /\ es[i].item \in A
  /\ \A j \in Before(es, i) : es[j].item # es[i].item
  /\ es[i].replaces = Replaced(es, Before(es, i))

LEMMA ReplacesInPlace ==
  ReplacesTheLast <=> \A i \in DOMAIN events : InPlace(events, i, artifacts)
BY DEF ReplacesTheLast, InPlace, Before, Replaced

Agree(es, fs, n) == \A i \in 1..n : fs[i] = es[i]

LEMMA ReplacedBefore ==
  ASSUME NEW n \in Nat, NEW es, NEW fs, Agree(es, fs, n), NEW B \in SUBSET (1..n)
  PROVE  Replaced(fs, B) = Replaced(es, B)
<1>1. CASE B = {}
  BY <1>1 DEF Replaced
<1>2. CASE B # {}
  <2>1. \E i \in B : \A j \in B : j <= i
    BY <1>2, GreatestExists
  <2>2. PICK c \in B : c = CHOOSE i \in B : \A j \in B : j <= i
    BY <2>1
  <2>3. fs[c] = es[c]
    BY DEF Agree
  <2>4. Replaced(es, B) = es[c].item
    BY <1>2, <2>2, Zenon DEF Replaced
  <2>5. Replaced(fs, B) = fs[c].item
    BY <1>2, <2>2, Zenon DEF Replaced
  <2>. QED
    BY <2>3, <2>4, <2>5
<1>. QED
  BY <1>1, <1>2

\* Another event changes nothing for those before it; it is in its place if it replaces
\* the last one of its actor.
LEMMA EventFollows ==
  ASSUME NEW es \in Seq(Event), NEW e \in Event, NEW fs, fs = Append(es, e), NEW A, e.item \in A,
         \A i \in DOMAIN es : InPlace(es, i, A) /\ es[i].item # e.item,
         e.replaces = Replaced(es, {i \in DOMAIN es : ActorOf[es[i].item] = ActorOf[e.item]})
  PROVE  \A i \in DOMAIN fs : InPlace(fs, i, A)
<1>1. PICK n \in Nat : n = Len(es) /\ DOMAIN es = 1..n
  BY LenProperties
<1>2. /\ fs \in Seq(Event) /\ Len(fs) = n + 1 /\ fs[n + 1] = e /\ \A i \in 1..n : fs[i] = es[i]
      /\ DOMAIN fs = 1..(n + 1)
  <2>1. fs \in Seq(Event) /\ Len(fs) = n + 1 /\ fs[n + 1] = e /\ \A i \in 1..n : fs[i] = es[i]
    BY <1>1, AppendProperties
  <2>. QED
    BY <2>1, LenProperties
<1>a. Agree(es, fs, n)
  BY <1>2 DEF Agree
<1>3. ASSUME NEW i \in 1..n PROVE InPlace(fs, i, A)
  <2>1. PICK B : B = Before(es, i)
    OBVIOUS
  <2>2. B \in SUBSET (1..n)
    BY <2>1 DEF Before
  <2>3. Before(fs, i) = B
    <3>1. \A j \in 1..(i - 1) : fs[j] = es[j]
      BY <1>2
    <3>2. fs[i] = es[i]
      BY <1>2
    <3>. QED
      BY <2>1, <3>1, <3>2 DEF Before
  <2>4. InPlace(es, i, A)
    BY <1>1
  <2>5. Replaced(fs, B) = Replaced(es, B)
    BY <1>a, <2>2, ReplacedBefore
  <2>6. fs[i] = es[i] /\ \A j \in B : fs[j] = es[j]
    BY <1>2, <2>2
  <2>. QED
    BY <2>1, <2>3, <2>4, <2>5, <2>6 DEF InPlace
<1>4. InPlace(fs, n + 1, A)
  <2>1. PICK B : B = {i \in 1..n : ActorOf[es[i].item] = ActorOf[e.item]}
    OBVIOUS
  <2>2. PICK m \in Nat : m = n + 1
    OBVIOUS
  <2>3. Before(fs, m) = B
    <3>1. m - 1 = n /\ fs[m] = e
      BY <1>2, <2>2
    <3>. QED
      BY <1>2, <2>1, <3>1 DEF Before
  <2>4. Replaced(fs, B) = Replaced(es, B)
    BY <1>a, <2>1, ReplacedBefore
  <2>5. e.replaces = Replaced(es, B)
    BY <1>1, <2>1
  <2>6. \A j \in B : fs[j].item # e.item
    BY <1>1, <1>2, <2>1
  <2>7. fs[m] = e
    BY <1>2, <2>2
  <2>8. InPlace(fs, m, A)
    BY <2>3, <2>4, <2>5, <2>6, <2>7 DEF InPlace
  <2>. QED
    BY <2>2, <2>8
<1>. QED
  BY <1>2, <1>3, <1>4

\* What was recorded stays recorded.
LEMMA RecordedStays ==
  ASSUME FilesTyped, NEW x, Recorded(x), lines' = lines \/ \E e \in Line : lines' = Append(lines, e)
  PROVE  Recorded(x)'
<1>1. CASE lines' = lines
  BY <1>1 DEF Recorded
<1>2. ASSUME NEW e \in Line, lines' = Append(lines, e) PROVE Recorded(x)'
  <2>1. PICK i \in 1..Len(lines) : lines[i].type = "used" /\ lines[i].item = x
    BY OpenLines DEF Recorded
  <2>2. lines' \in Seq(Line) /\ Len(lines') = Len(lines) + 1 /\ lines'[i] = lines[i]
    BY <1>2, AppendProperties DEF FilesTyped
  <2>3. i \in DOMAIN lines'
    <3>1. DOMAIN lines' = 1..(Len(lines) + 1) /\ Len(lines) \in Nat
      BY <2>2, LenProperties, OpenLines
    <3>. QED
      BY <3>1
  <2>. QED
    BY <2>1, <2>2, <2>3 DEF Recorded
<1>. QED
  BY <1>1, <1>2

\* A step of one call that tells no event keeps the publications' invariant.
LEMMA PublicationsStay ==
  ASSUME FilesTyped, PublishInv, NEW p \in Procs, events' = events,
         lines' = lines \/ \E e \in Line : lines' = Append(lines, e),
         artifacts \subseteq artifacts',
         \A x \in artifacts' : x \in artifacts \/ (ProviderOf[x] \in Restricted => Recorded(x)),
         \A q \in Procs \ {p} : proc'[q] = proc[q], Informed(proc[p])'
  PROVE  PublishInv'
<1>1. \A x : Recorded(x) => Recorded(x)'
  BY RecordedStays
<1>2. UsesAreRecorded'
  <2>1. \A x \in artifacts' : ProviderOf[x] \in Restricted => Recorded(x)
    BY DEF PublishInv, UsesAreRecorded, Recorded
  <2>2. \A x \in artifacts' : ProviderOf[x] \in Restricted => Recorded(x)'
    BY <1>1, <2>1
  <2>. QED
    BY <2>2 DEF UsesAreRecorded, Recorded
<1>3. ReplacesTheLast'
  <2>1. \A i \in DOMAIN events : InPlace(events, i, artifacts)
    BY ReplacesInPlace DEF PublishInv
  <2>2. \A i \in DOMAIN events : InPlace(events', i, artifacts')
    BY <2>1 DEF InPlace
  <2>. QED
    BY <2>2 DEF ReplacesTheLast, InPlace, Before, Replaced
<1>4. \A a : Current(a)' = Current(a)
  BY DEF Current
<1>5. ASSUME NEW q \in Procs \ {p} PROVE Informed(proc[q])'
  <2>1. PICK u : u = proc[q]
    OBVIOUS
  <2>2. Informed(u) /\ proc'[q] = u
    BY <2>1 DEF PublishInv
  <2>3. Knows(u)'
    BY <1>4, <2>2 DEF Informed, Knows, Uses
  <2>4. Informed(u)'
    BY <1>1, <2>2, <2>3 DEF Informed
  <2>. QED
    BY <2>2, <2>4
<1>. QED
  BY <1>2, <1>3, <1>5 DEF PublishInv

\* Who publishes holds publish.lock from when it knows its actor's last event.
LEMMA OnePublisher ==
  ASSUME Held, NEW p \in Procs, NEW q \in Procs, At(p, "event"),
         (Uses(proc[q]) /\ proc[q].pc \in {"wait", "remove"} \union Writing) \/ proc[q].pc \in {"artifact", "event"}
  PROVE  p = q
<1>1. Fits(proc[p]) /\ Fits(proc[q])
  BY DEF Held
<1>2. "publish" \in proc[p].mine
  BY <1>1 DEF Fits, At
<1>3. "publish" \in proc[q].mine
  BY <1>1 DEF Fits, Beside
<1>. QED
  BY <1>2, <1>3 DEF Held, Locked

LEMMA EventKeeps ==
  ASSUME FilesTyped, FilesTyped', Held, PublishInv, NEW p \in Procs, AppendEvent(p)
  PROVE  PublishInv'
<1>1. /\ At(p, "event") /\ proc'[p].pc = "idle" /\ UNCHANGED <<lines, artifacts>>
      /\ \A q \in Procs \ {p} : proc'[q] = proc[q]
  BY AppendEventHolds
<1>2. PICK x : x = proc[p].call.item
  OBVIOUS
<1>3. PICK e : e = [item |-> x, replaces |-> proc[p].current]
  OBVIOUS
<1>4. /\ x \in Items /\ x \in artifacts /\ proc[p].current = Current(ActorOf[x])
      /\ proc[p].current \in Items \union {None}
  BY <1>1, <1>2 DEF Held, Fits, At, Proper, Local, PublishInv, Informed, Knows
<1>5. e \in Event /\ e.item = x /\ e.replaces = Current(ActorOf[x])
  BY <1>3, <1>4 DEF Event
<1>6. \/ events' = events
      \/ events' = Append(events, e) /\ \A i \in DOMAIN events : events[i].item # x
  BY <1>2, <1>3 DEF AppendEvent
<1>7. ReplacesTheLast'
  <2>1. \A i \in DOMAIN events : InPlace(events, i, artifacts)
    BY ReplacesInPlace DEF PublishInv
  <2>2. \A i \in DOMAIN events' : InPlace(events', i, artifacts)
    <3>1. CASE events' = events
      BY <2>1, <3>1
    <3>2. CASE events' = Append(events, e) /\ \A i \in DOMAIN events : events[i].item # x
      <4>1. PICK es \in Seq(Event) : es = events
        BY DEF FilesTyped
      <4>2. PICK fs : fs = Append(es, e)
        OBVIOUS
      <4>3. e.replaces = Replaced(es, {i \in DOMAIN es : ActorOf[es[i].item] = ActorOf[e.item]})
        BY <1>5, <4>1 DEF Current, Replaced
      <4>4. \A i \in DOMAIN es : InPlace(es, i, artifacts) /\ es[i].item # e.item
        BY <1>5, <2>1, <3>2, <4>1
      <4>5. PICK A : A = artifacts
        OBVIOUS
      <4>6. \A i \in DOMAIN fs : InPlace(fs, i, A)
        BY <1>4, <1>5, <4>2, <4>3, <4>4, <4>5, EventFollows
      <4>. QED
        BY <3>2, <4>1, <4>2, <4>5, <4>6
    <3>. QED
      BY <1>6, <3>1, <3>2
  <2>. QED
    BY <1>1, <2>2 DEF ReplacesTheLast, InPlace, Before, Replaced
<1>8. UsesAreRecorded'
  BY <1>1 DEF PublishInv, UsesAreRecorded
<1>9. ASSUME NEW q \in Procs PROVE Informed(proc[q])'
  <2>1. PICK u : u = proc'[q]
    OBVIOUS
  <2>2. CASE q = p
    BY <1>1, <2>1, <2>2 DEF Informed, Knows, Uses, Writing
  <2>3. CASE q # p
    <3>1. u = proc[q] /\ Informed(u)
      BY <1>1, <2>1, <2>3 DEF PublishInv
    <3>2. ~((Uses(u) /\ u.pc \in {"wait", "remove"} \union Writing) \/ u.pc \in {"artifact", "event"})
      BY <1>1, <2>3, <3>1, OnePublisher
    <3>3. Informed(u)'
      BY <3>2 DEF Informed, Knows, Uses
    <3>. QED
      BY <2>1, <3>3
  <2>. QED
    BY <2>2, <2>3
<1>. QED
  BY <1>7, <1>8, <1>9 DEF PublishInv

LEMMA PublishStep ==
  ASSUME FilesTyped, FilesTyped', Held, LedgerInv, PublishInv, NEW p \in Procs, Does(p)
  PROVE  PublishInv'
<1>. DEFINE Stays ==
       /\ events' = events /\ artifacts' = artifacts
       /\ lines' = lines \/ \E e \in Line : lines' = Append(lines, e)
       /\ \A q \in Procs \ {p} : proc'[q] = proc[q]
<1>1. PICK u : u = proc'[p]
  OBVIOUS
<1>2. Informed(proc[p]) /\ Work(proc[p])
  BY DEF PublishInv, LedgerInv
<1>3. events' = events => \A a : Current(a)' = Current(a)
  BY DEF Current
<1>4. ASSUME Stays, Knows(u),
             u.pc \in {"artifact", "event"} /\ u.call.provider \in Restricted => Recorded(u.call.item),
             u.pc # "event"
      PROVE  PublishInv'
  <2>1. Knows(u)'
    BY <1>3, <1>4 DEF Knows, Uses
  <2>2. \A x : Recorded(x) => Recorded(x)'
    BY <1>4, RecordedStays
  <2>3. Informed(u)'
    BY <1>4, <2>1, <2>2 DEF Informed
  <2>4. Informed(proc[p])'
    BY <1>1, <2>3
  <2>. QED
    BY <1>4, <2>4, PublicationsStay
<1>5. CASE Quiet(p)
  <2>1. Stays /\ Knows(u) /\ u.pc # "event" /\ (u.pc = "artifact" => u.call.provider \notin Restricted)
    BY <1>1, <1>2, <1>5 DEF Quiet, Informed
  <2>. QED
    BY <1>4, <2>1
<1>6. CASE Plans(p)
  <2>1. Stays /\ u.pc = "verify" /\ At(p, "held") /\ u.call = proc[p].call /\ u.phase = proc[p].phase
        /\ u.current = proc[p].current
    BY <1>1, <1>6 DEF Plans, Planned
  <2>2. Knows(u)
    BY <1>2, <2>1 DEF Informed, Knows, Uses, Writing, At
  <2>. QED
    BY <1>4, <2>1, <2>2
<1>7. CASE Verified(p) \/ \E e : Appended(p, e)
  <2>1. Stays /\ u.pc \in {"line", "head"} /\ proc[p].pc \in {"verify", "line"} /\ u.call = proc[p].call
        /\ u.phase = proc[p].phase /\ u.current = proc[p].current
    BY <1>1, <1>7 DEF Verified, Appended, Goes, At
  <2>2. Knows(u)
    BY <1>2, <2>1 DEF Informed, Knows, Uses, Writing
  <2>. QED
    BY <1>4, <2>1, <2>2
<1>8. ASSUME NEW c \in CallsNow, Begin(p, c) PROVE PublishInv'
  <2>1. Stays /\ (u.pc = "idle" \/ (u.pc = "wait" /\ ~Uses(u)))
    BY <1>1, <1>8, BeginHolds
  <2>2. Knows(u)
    BY <2>1 DEF Knows, Writing
  <2>. QED
    BY <1>4, <2>1, <2>2
<1>9. CASE WriteHead(p)
  <2>1. Stays /\ At(p, "head")
    BY <1>9, WriteHeadHolds DEF Counted
  <2>2. \/ /\ u.pc = "verify" /\ u.call = proc[p].call /\ u.phase = proc[p].phase
           /\ u.current = proc[p].current
        \/ u.pc \in {"idle", "granted"}
        \/ u.pc = "artifact" /\ Uses(proc[p]) /\ u.call = proc[p].call /\ u.current = proc[p].current
    BY <1>1, <1>9, WriteHeadHolds DEF Goes
  <2>3. Knows(u)
    BY <1>2, <2>1, <2>2 DEF Informed, Knows, Uses, Writing, At
  <2>4. u.pc = "artifact" => Recorded(u.call.item)
    BY <1>2, <2>1, <2>2 DEF Work, Uses, At
  <2>5. u.pc # "event"
    BY <2>2
  <2>. QED
    BY <1>4, <2>1, <2>3, <2>4, <2>5
<1>10. CASE WriteArtifact(p)
  <2>1. /\ At(p, "artifact") /\ events' = events /\ lines' = lines
        /\ artifacts' = artifacts \union {proc[p].call.item}
        /\ \A q \in Procs \ {p} : proc'[q] = proc[q]
        /\ u.pc = "event" /\ u.call = proc[p].call /\ u.current = proc[p].current
    BY <1>1, <1>10, WriteArtifactHolds DEF Goes
  <2>2. proc[p].call.provider = ProviderOf[proc[p].call.item]
    BY <2>1 DEF Held, Fits, At, Proper
  <2>3. proc[p].call.provider \in Restricted => Recorded(proc[p].call.item)
    BY <1>2, <2>1 DEF Informed, At
  <2>4. Knows(u)
    BY <1>2, <2>1 DEF Informed, Knows, At
  <2>5. Knows(u)'
    BY <1>3, <2>1, <2>4 DEF Knows, Uses
  <2>6. u.call.provider \in Restricted => Recorded(u.call.item)'
    BY <2>1, <2>3, RecordedStays
  <2>7. Informed(u)'
    BY <2>1, <2>5, <2>6 DEF Informed
  <2>8. Informed(proc[p])'
    BY <1>1, <2>7
  <2>9. \A x \in artifacts' : x \in artifacts \/ (ProviderOf[x] \in Restricted => Recorded(x))
    BY <2>1, <2>2, <2>3
  <2>10. artifacts \subseteq artifacts'
    BY <2>1
  <2>. QED
    BY <2>1, <2>8, <2>9, <2>10, PublicationsStay
<1>11. CASE AppendEvent(p)
  BY <1>11, EventKeeps
<1>12. CASE Die(p)
  <2>1. Stays /\ u.pc = "idle"
    BY <1>1, <1>12, DieHolds
  <2>2. Knows(u)
    BY <2>1 DEF Knows, Writing
  <2>. QED
    BY <1>4, <2>1, <2>2
<1>. QED
  BY <1>5, <1>6, <1>7, <1>8, <1>9, <1>10, <1>11, <1>12 DEF Does

----------------------------------------------------------------------------
(* The theorems *)

IInv == FilesTyped /\ Held /\ LedgerInv /\ PublishInv

LEMMA InitHolds ==
  ASSUME Init
  PROVE  IInv
<1>. USE DEF Init
<1>1. lines = <<>> /\ events = <<>> /\ DOMAIN lines = {} /\ DOMAIN events = {} /\ Len(lines) = 0
  BY EmptySeq
<1>2. FilesTyped
  BY <1>1, EmptySeq DEF FilesTyped
<1>3. \A p \in Procs : proc[p] = Idle
  OBVIOUS
<1>4. Idle.pc = "idle" /\ Idle.mine = {}
  BY DEF Idle
<1>5. Held
  <2>1. proc \in [Procs -> Local] /\ \A p \in Procs : Fits(proc[p])
    BY <1>3, IdleFits
  <2>2. Locked
    BY <1>3, <1>4, ProcsAssumption DEF Locked, At
  <2>. QED
    BY <2>1, <2>2 DEF Held
<1>6. LedgerInv
  <2>1. Numbered
    BY <1>1, <1>3, <1>4 DEF Numbered, At
  <2>2. Named
    BY <1>1, <1>3, <1>4 DEF Named, At
  <2>3. LedgerSound
    BY <1>1 DEF LedgerSound
  <2>4. \A p \in Procs : Work(proc[p])
    BY <1>3, <1>4 DEF Work, Writers
  <2>. QED
    BY <2>1, <2>2, <2>3, <2>4 DEF LedgerInv
<1>7. PublishInv
  <2>1. UsesAreRecorded
    BY DEF UsesAreRecorded
  <2>2. ReplacesTheLast
    BY <1>1 DEF ReplacesTheLast
  <2>3. \A p \in Procs : Informed(proc[p])
    BY <1>3, <1>4 DEF Informed, Knows, Writing
  <2>. QED
    BY <2>1, <2>2, <2>3 DEF PublishInv
<1>. QED
  BY <1>2, <1>5, <1>6, <1>7 DEF IInv

\* A step that touches neither the files nor a call.
LEMMA NothingHappens ==
  ASSUME IInv, UNCHANGED <<lines, head, artifacts, events, proc, calls, undone>>
  PROVE  LedgerInv' /\ PublishInv'
<1>1. LedgerSound'
  BY SoundStays DEF IInv, LedgerInv
<1>2. Numbered' /\ Named'
  BY DEF IInv, LedgerInv, Numbered, Named, At, Opened
<1>3. ASSUME NEW q \in Procs PROVE Work(proc[q])' /\ Informed(proc[q])'
  <2>1. PICK u : u = proc[q]
    OBVIOUS
  <2>2. Work(u) /\ Informed(u) /\ proc'[q] = u
    BY <2>1 DEF IInv, LedgerInv, PublishInv
  <2>3. PICK s : s = Rest(u)
    OBVIOUS
  <2>4. Follow(s, u) => Follow(s, u)'
    BY FollowStays
  <2>5. Work(u)'
    BY <2>2, <2>3, <2>4 DEF Work, Rest, Recorded, Opened
  <2>6. \A a : Current(a)' = Current(a)
    BY DEF Current
  <2>7. Informed(u)'
    BY <2>2, <2>6 DEF Informed, Knows, Uses, Recorded
  <2>. QED
    BY <2>2, <2>5, <2>7
<1>4. UsesAreRecorded' /\ ReplacesTheLast'
  BY DEF IInv, PublishInv, UsesAreRecorded, ReplacesTheLast
<1>. QED
  BY <1>1, <1>2, <1>3, <1>4 DEF LedgerInv, PublishInv

LEMMA StepHolds ==
  ASSUME IInv, Reclaimers = 1, [Next]_vars
  PROVE  IInv'
<1>. USE DEF IInv
<1>1. CASE UNCHANGED vars
  <2>1. FilesTyped' /\ UNCHANGED <<lines, head, artifacts, events, proc, lock, calls, undone>>
    BY <1>1 DEF vars, files, aux, FilesTyped
  <2>2. Held'
    BY <2>1 DEF Held, Locked, Fits, At, Beside, Uses
  <2>. QED
    BY <2>1, <2>2, NothingHappens
<1>2. CASE Tick
  BY <1>2, TickHolds, FilesStayTyped, NothingHappens DEF Next
<1>3. CASE Next /\ ~Tick
  <2>1. FilesTyped' /\ Held' /\ \E p \in Procs : Does(p)
    BY <1>3, FilesStayTyped, StepDoes
  <2>. QED
    BY <2>1, LedgerStep, PublishStep
<1>. QED
  BY <1>1, <1>2, <1>3

LEMMA AlwaysIInv ==
  ASSUME Reclaimers = 1
  PROVE  Spec => []IInv
<1>1. Init => IInv
  BY InitHolds
<1>2. IInv /\ [Next]_vars => IInv'
  BY StepHolds
<1>. QED
  BY <1>1, <1>2, PTL DEF Spec

\* With one writer at its head, the lines are those counted, those of the dead, and its own.
LEMMA Survives ==
  ASSUME IInv
  PROVE  LedgerSurvives
<1>. DEFINE H == {p \in Procs : At(p, "head")}
<1>1. SUFFICES ASSUME undone + Cardinality(H) < 2 PROVE Valid
  BY DEF LedgerSurvives
<1>2. /\ head \in Nat /\ undone \in Nat /\ Len(lines) \in Nat
      /\ Len(lines) = head + undone + (IF \E p \in Procs : At(p, "head") THEN 1 ELSE 0)
      /\ \A i \in DOMAIN lines : lines[i].prev = i - 1
  BY OpenLines DEF IInv, FilesTyped, LedgerInv, Numbered
<1>3. CASE \E p \in Procs : At(p, "head")
  <2>1. PICK p \in Procs : At(p, "head")
    BY <1>3
  <2>2. H = {p}
    BY <2>1, OneWriter DEF IInv, At, Writing
  <2>3. Cardinality(H) = 1
    BY <2>2, FS_Singleton
  <2>4. undone = 0 /\ Len(lines) = head + 1
    BY <1>1, <1>2, <1>3, <2>3
  <2>. QED
    BY <1>2, <2>4 DEF Valid
<1>4. CASE ~ \E p \in Procs : At(p, "head")
  <2>1. H = {}
    BY <1>4
  <2>2. Cardinality(H) = 0
    BY <2>1, FS_EmptySet
  <2>3. undone \in {0, 1} /\ Len(lines) = head + undone
    BY <1>1, <1>2, <1>4, <2>2
  <2>. QED
    BY <1>2, <2>3 DEF Valid
<1>. QED
  BY <1>3, <1>4

\* Whoever waits, dies or gives up, while at most one waiter reclaims a lock at a time: the
\* lines of the ledger follow from each other, its head can be trusted, and what a
\* restricted provider published stands in it (withEmergencyLock, appendUnlocked,
\* openEmergency, closeEmergency, emergencyUse).
THEOREM LedgerIsSound ==
  ASSUME Reclaimers = 1
  PROVE  Spec => []LedgerHolds
<1>1. IInv => LedgerHolds
  BY Survives DEF IInv, LedgerInv, PublishInv, LedgerHolds
<1>. QED
  BY <1>1, AlwaysIInv, PTL

\* Under the same condition every event replaces the last one of its actor, none is told
\* twice, and its artifact is there (publishPeerProgress, currentProgressEvents).
THEOREM EventsReplaceTheLast ==
  ASSUME Reclaimers = 1
  PROVE  Spec => []ReplacesTheLast
<1>1. IInv => ReplacesTheLast
  BY DEF IInv, PublishInv
<1>. QED
  BY <1>1, AlwaysIInv, PTL

\* And a waiter removes only the lock that it judged: what the comment in
\* withEmergencyLock says holds when one waiter reclaims at a time.
THEOREM OnlyTheJudgedIsRemoved ==
  ASSUME Reclaimers = 1
  PROVE  Spec => []RemovesOnlyTheJudged
<1>1. IInv => RemovesOnlyTheJudged
  BY DEF IInv, Held, Locked, RemovesOnlyTheJudged
<1>. QED
  BY <1>1, AlwaysIInv, PTL
=============================================================================
