------------------------- MODULE EventStoreProofs -------------------------
(* What TLAPS proves of EventStore, for all values of its constants. *)
EXTENDS EventStore, FiniteSetTheorems, SequenceTheorems, NaturalsInduction, TLAPS

(* Lemmas on the data *)

\* The rows a rebuild derives from a chain are well-formed rows, one per record.
LEMMA RowsOfType ==
  ASSUME NEW chain \in Seq(Keys \union {Hole})
  PROVE  /\ RowsOf(chain) \in Seq(Row)
         /\ Len(RowsOf(chain)) = Len(chain)
         /\ \A i \in 1..Len(chain) : RowsOf(chain)[i] = [key |-> chain[i], seq |-> i]
<1>1. Len(chain) \in Nat
  BY LenProperties
<1>2. \A i \in 1..Len(chain) : [key |-> chain[i], seq |-> i] \in Row
  BY <1>1, ElementOfSeq DEF Row
<1>3. RowsOf(chain) \in [1..Len(chain) -> Row]
  BY <1>2 DEF RowsOf
<1>. QED
  BY <1>1, <1>3, LenProperties DEF RowsOf

\* What a sequence ranges over lies in the set it is drawn from.
LEMMA RangeOfSeqOf ==
  ASSUME NEW S, NEW s \in Seq(S)
  PROVE  /\ Range(s) \in SUBSET S
         /\ \A x \in Range(s) : \E i \in 1..Len(s) : s[i] = x
         /\ \A i \in 1..Len(s) : s[i] \in Range(s)
         /\ IsFiniteSet(Range(s)) /\ Cardinality(Range(s)) <= Len(s)
<1>1. Len(s) \in Nat /\ DOMAIN s = 1..Len(s)
  BY LenProperties
<1>2. s \in Surjection(1..Len(s), Range(s))
  BY <1>1, LenProperties DEF Range, Surjection
<1>3. IsFiniteSet(1..Len(s)) /\ Cardinality(1..Len(s)) = Len(s)
  <2>1. 1 \in Int /\ Len(s) \in Int
    BY <1>1
  <2>2. /\ IsFiniteSet(1..Len(s))
        /\ Cardinality(1..Len(s)) = IF 1 > Len(s) THEN 0 ELSE Len(s) - 1 + 1
    BY <2>1, FS_Interval, ZenonT(60)
  <2>. QED
    BY <1>1, <2>2
<1>4. IsFiniteSet(Range(s)) /\ Cardinality(Range(s)) <= Cardinality(1..Len(s))
  BY <1>2, <1>3, FS_Surjection
<1>. QED
  BY <1>1, <1>3, <1>4, LenProperties, ElementOfSeq DEF Range

\* The next input of a call and what is left after it.
LEMMA HeadOfTodo ==
  ASSUME NEW s \in Seq(Keys), s # <<>>
  PROVE  /\ Len(s) >= 1 /\ s[1] \in Keys /\ Tail(s) \in Seq(Keys)
         /\ Len(Tail(s)) = Len(s) - 1
         /\ \A i \in 1..Len(Tail(s)) : Tail(s)[i] = s[i + 1]
<1>1. Len(s) \in Nat \ {0}
  BY EmptySeq
<1>. QED
  BY <1>1, HeadTailProperties, ElementOfSeq

\* A batch is a sequence of keys without repetition.
LEMMA BatchType ==
  ASSUME NEW b \in Batches
  PROVE  b \in Seq(Keys) /\ b # <<>> /\ IsInjective(b)
<1>1. PICK n \in 1..MaxBatch : b \in [1..n -> Keys] /\ IsInjective(b)
  BY DEF Batches
<1>2. n \in Nat /\ n >= 1
  BY <1>1, BoundsAssumption
<1>. QED
  BY <1>1, <1>2

\* A nonempty set of positive numbers has a least element, and Min is it.
LEMMA MinProperties ==
  ASSUME NEW S \in SUBSET Nat, S # {}
  PROVE  Min(S) \in S /\ \A x \in S : Min(S) <= x
<1>. DEFINE Less == {p \in Nat \X Nat : p[1] < p[2]}
<1>1. Less = OpToRel(<, Nat)
  BY Zenon DEF OpToRel
<1>2. \E x \in S : \A y \in S : ~ (<<y, x>> \in Less)
  <2>1. IsWellFoundedOn(Less, Nat)
    BY <1>1, NatLessThanWellFounded, Zenon
  <2>. QED
    BY <2>1, WFMin, Zenon
<1>3. PICK x \in S : \A y \in S : ~ (<<y, x>> \in Less)
  BY <1>2
<1>4. ASSUME NEW y \in S PROVE x <= y
  <2>1. <<y, x>> \in Nat \X Nat /\ <<y, x>>[1] = y /\ <<y, x>>[2] = x
    OBVIOUS
  <2>2. ~ (y < x)
    BY <1>3, <2>1
  <2>. QED
    BY <2>2
<1>. QED
  BY <1>4 DEF Min

----------------------------------------------------------------------------
(* Type correctness *)

\* The steps of a writer, so that proofs can split on them once.
LEMMA NextCases ==
  ASSUME Next
  PROVE  \/ \E w \in Writers : Step(w) \/ CallRepair(w) \/ Crash(w) \/ Restart(w)
         \/ \E w \in Writers : \E b \in Batches : Call(w, b)
         \/ \E r \in Readers : ReadStep(r) \/ ReadStart(r)
         \/ DamageIndex
BY DEF Next

\* Resetting the local variables of a call keeps them in their types.
LEMMA ForgetType ==
  ASSUME TypeOK, NEW w \in Writers, Forget(w)
  PROVE  /\ todo' \in [Writers -> Seq(Keys)] /\ base' \in [Writers -> Nat]
         /\ rows' \in [Writers -> SUBSET Row]
         /\ \A v \in Writers : IsFiniteSet(rows'[v])
         /\ fresh' \in [Writers -> Seq(Row)]
         /\ out' \in [Writers -> SUBSET Row]
BY EmptySeq, FS_EmptySet DEF TypeOK, Forget

\* The rows a rebuild takes over are rows.
LEMMA RebuiltRows ==
  ASSUME TypeOK
  PROVE  /\ RowsOf(records) \in Seq(Row)
         /\ Range(RowsOf(records)) \in SUBSET Row
         /\ IsFiniteSet(Range(RowsOf(records)))
BY RowsOfType, RangeOfSeqOf DEF TypeOK

\* The lock protocol keeps the types.
LEMMA LockType ==
  ASSUME TypeOK, NEW w \in Writers, LockStep(w)
  PROVE  TypeOK'
<1>. USE DEF GoTo, files, locals, history, Labels, Waiting
<1>1. CASE Acquire(w)
  BY <1>1 DEF TypeOK, Acquire
<1>2. CASE TimeOut(w)
  BY <1>2, ForgetType DEF TypeOK, TimeOut
<1>3. CASE JudgeDead(w)
  BY <1>3 DEF TypeOK, JudgeDead
<1>4. CASE Reclaim(w)
  BY <1>4 DEF TypeOK, Reclaim
<1>5. CASE Release(w)
  BY <1>5, ForgetType DEF TypeOK, Release
<1>. QED
  BY <1>1, <1>2, <1>3, <1>4, <1>5 DEF LockStep

\* The steps of an append keep the types.
LEMMA AppendType ==
  ASSUME TypeOK, NEW w \in Writers, AppendStep(w)
  PROVE  TypeOK'
<1>. USE DEF GoTo, files, locals, history
<1>1. CASE VerifyTip(w)
  BY <1>1 DEF TypeOK, VerifyTip, Labels
<1>2. CASE LoadIndex(w)
  <2>1. IndexTrusted(base[w]) => Range(index) \in SUBSET Row /\ IsFiniteSet(Range(index))
    BY RangeOfSeqOf DEF TypeOK, IndexTrusted
  <2>2. rows' \in [Writers -> SUBSET Row]
    BY <1>2, <2>1 DEF TypeOK, LoadIndex
  <2>3. \A v \in Writers : IsFiniteSet(rows'[v])
    BY <1>2, <2>1 DEF TypeOK, LoadIndex
  <2>4. pc' \in [Writers -> Labels]
    BY <1>2 DEF TypeOK, LoadIndex, Labels
  <2>. QED
    BY <1>2, <2>2, <2>3, <2>4 DEF TypeOK, LoadIndex
<1>3. CASE RebuildIndex(w)
  <2>1. rows' \in [Writers -> SUBSET Row]
    BY <1>3, RebuiltRows DEF TypeOK, RebuildIndex
  <2>2. \A v \in Writers : IsFiniteSet(rows'[v])
    BY <1>3, RebuiltRows DEF TypeOK, RebuildIndex
  <2>3. pc' \in [Writers -> Labels]
    BY <1>3 DEF TypeOK, RebuildIndex, Labels
  <2>4. index' = NoFile \/ index' \in Seq(Row)
    BY <1>3, RebuiltRows DEF TypeOK, RebuildIndex
  <2>. QED
    BY <1>3, <2>1, <2>2, <2>3, <2>4 DEF TypeOK, RebuildIndex
<1>4. CASE RebuildBinding(w)
  BY <1>4, FS_CardinalityType DEF TypeOK, RebuildBinding, Labels
<1>5. CASE Replay(w)
  <2>1. Tail(todo[w]) \in Seq(Keys)
    BY <1>5, HeadOfTodo DEF TypeOK, Replay
  <2>2. pc' \in [Writers -> Labels]
    BY <1>5 DEF TypeOK, Replay, Labels
  <2>a. ASSUME forked PROVE todo' \in [Writers -> Seq(Keys)] /\ out' \in [Writers -> SUBSET Row]
    BY <1>5, <2>a DEF TypeOK, Replay
  <2>b. ASSUME ~forked PROVE todo' \in [Writers -> Seq(Keys)] /\ out' \in [Writers -> SUBSET Row]
    <3>1. PICK r \in Named(w, todo[w][1]) : out' = [out EXCEPT ![w] = @ \union {r}]
      BY <1>5, <2>b DEF Replay
    <3>2. r \in Row
      BY DEF Named, TypeOK
    <3>3. todo' = [todo EXCEPT ![w] = Tail(@)]
      BY <1>5, <2>b DEF Replay
    <3>. QED
      BY <3>1, <3>2, <3>3, <2>1 DEF TypeOK
  <2>3. todo' \in [Writers -> Seq(Keys)] /\ out' \in [Writers -> SUBSET Row]
    BY <2>a, <2>b
  <2>. QED
    BY <1>5, <2>2, <2>3 DEF TypeOK, Replay
<1>6. CASE RecoverIndex(w)
  BY <1>6, RebuiltRows DEF TypeOK, RecoverIndex, Labels
<1>12. CASE RecoverBinding(w)
  <2>1. todo[w] \in Seq(Keys) /\ todo[w] # <<>> /\ Len(records) \in Nat
    BY <1>12, LenProperties DEF TypeOK, RecoverBinding
  <2>2. todo[w][1] \in Keys /\ Tail(todo[w]) \in Seq(Keys)
    BY <2>1, HeadOfTodo
  <2>3. /\ binding' \in Nat /\ pc' \in [Writers -> Labels]
        /\ UNCHANGED <<records, forked, head, index, lock, base, fresh, rd, history>>
    BY <1>12, <2>1 DEF RecoverBinding, TypeOK, Labels
  <2>. DEFINE k == todo[w][1]
              found == {i \in 1..Len(records) : records[i] = k}
              Narrowed == /\ out' \in [Writers -> SUBSET Row] /\ todo' \in [Writers -> Seq(Keys)]
                          /\ rows' \in [Writers -> SUBSET Row]
                          /\ \A v \in Writers : rows'[v] \in SUBSET rows[v]
  <2>. HIDE DEF k
  <2>a. \A i \in found : [key |-> k, seq |-> i] \in Row
    BY <2>1, <2>2 DEF Row, k
  <2>b. ASSUME found # {} PROVE Narrowed
    <3>1. PICK i \in found : out' = [out EXCEPT ![w] = @ \union {[key |-> k, seq |-> i]}]
      BY <1>12, <2>b DEF RecoverBinding, k
    <3>2. todo' = [todo EXCEPT ![w] = Tail(@)] /\ rows' = rows
      BY <1>12, <2>b DEF RecoverBinding, k
    <3>. QED
      BY <3>1, <3>2, <2>a, <2>2 DEF TypeOK
  <2>c. ASSUME found = {} PROVE Narrowed
    <3>1. rows' = [rows EXCEPT ![w] = {r \in @ : r.key # k}] /\ out' = out /\ todo' = todo
      BY <1>12, <2>c DEF RecoverBinding, k
    <3>. QED
      BY <3>1 DEF TypeOK
  <2>4. Narrowed
    BY <2>b, <2>c
  <2>5. \A v \in Writers : IsFiniteSet(rows'[v])
    BY <2>4, FS_Subset DEF TypeOK
  <2>. QED
    BY <2>3, <2>4, <2>5 DEF TypeOK
<1>7. CASE WriteRecord(w)
  <2>. DEFINE k == todo[w][1]
              row == [key |-> k, seq |-> base[w] + 1]
  <2>1. todo[w] \in Seq(Keys) /\ todo[w] # <<>>
    BY <1>7 DEF TypeOK, WriteRecord
  <2>2. k \in Keys /\ Tail(todo[w]) \in Seq(Keys)
    BY <2>1, HeadOfTodo
  <2>3. row \in Row /\ row.seq \in Nat
    BY <2>2 DEF TypeOK, Row
  <2>. HIDE DEF k, row
  <2>4. records' \in Seq(Keys \union {Hole}) /\ forked' \in BOOLEAN
    <3>1. Append(records, k) \in Seq(Keys \union {Hole})
      BY <2>2, AppendProperties DEF TypeOK
    <3>2. records' = records \/ records' = Append(records, k)
      BY <1>7 DEF WriteRecord, k
    <3>3. forked' = forked \/ forked' = TRUE
      BY <1>7 DEF WriteRecord
    <3>. QED
      BY <3>1, <3>2, <3>3 DEF TypeOK
  <2>6. /\ out' = [out EXCEPT ![w] = @ \union {row}] /\ fresh' = [fresh EXCEPT ![w] = Append(@, row)]
        /\ base' = [base EXCEPT ![w] = row.seq] /\ todo' = [todo EXCEPT ![w] = Tail(@)]
    BY <1>7 DEF WriteRecord, k, row
  <2>7. Append(fresh[w], row) \in Seq(Row)
    BY <2>3, AppendProperties DEF TypeOK
  <2>5. /\ out' \in [Writers -> SUBSET Row] /\ fresh' \in [Writers -> Seq(Row)]
        /\ base' \in [Writers -> Nat] /\ todo' \in [Writers -> Seq(Keys)]
    BY <2>2, <2>3, <2>6, <2>7 DEF TypeOK
  <2>. QED
    BY <1>7, <2>4, <2>5 DEF TypeOK, WriteRecord
<1>8. CASE NothingNew(w)
  BY <1>8 DEF TypeOK, NothingNew, Labels
<1>9. CASE PublishHead(w)
  BY <1>9 DEF TypeOK, PublishHead, Labels
<1>10. CASE AppendRows(w)
  BY <1>10 DEF TypeOK, AppendRows, Labels
<1>11. CASE WriteBinding(w)
  BY <1>11 DEF TypeOK, WriteBinding, Labels
<1>. QED
  BY <1>1, <1>2, <1>3, <1>4, <1>5, <1>6, <1>7, <1>8, <1>9, <1>10, <1>11, <1>12 DEF AppendStep

\* The steps of a repair keep the types.
LEMMA RepairType ==
  ASSUME TypeOK, NEW w \in Writers, RepairStep(w)
  PROVE  TypeOK'
<1>. USE DEF GoTo, files, locals, history, Labels
<1>1. CASE RepairScan(w)
  <2>1. head' \in Nat /\ base' \in [Writers -> Nat]
    BY <1>1 DEF TypeOK, RepairScan
  <2>2. pc' \in [Writers -> Labels]
    BY <1>1 DEF TypeOK, RepairScan
  <2>. QED
    BY <1>1, <2>1, <2>2 DEF TypeOK, RepairScan
<1>2. CASE RepairRefuse(w)
  BY <1>2 DEF TypeOK, RepairRefuse
<1>3. CASE Quarantine(w)
  <2>. DEFINE cut == IF pc[w] = "walk" THEN FirstDuplicate(records) - 1 ELSE base[w]
              rest == {i \in (cut + 1)..Len(records) : records[i] # Hole}
              last == Cardinality(rest) = 1
  <2>1. Len(records) \in Nat
    BY LenProperties DEF TypeOK
  <2>2. cut \in Nat
    <3>1. CASE pc[w] = "walk"
      <4>1. HasDuplicate(records)
        BY <1>3, <3>1 DEF Quarantine
      <4>. DEFINE D == {i \in 1..Len(records) : Repeats(records, i)}
      <4>2. D # {} /\ D \in SUBSET Nat
        BY <4>1, <2>1 DEF HasDuplicate
      <4>3. Min(D) \in D
        BY <4>2, MinProperties
      <4>4. FirstDuplicate(records) \in 1..Len(records)
        BY <4>3 DEF FirstDuplicate
      <4>. QED
        BY <3>1, <4>4, <2>1
    <3>. QED
      BY <3>1 DEF TypeOK
  <2>. HIDE DEF cut
  <2>3. last => SubSeq(records, 1, cut) \in Seq(Keys \union {Hole})
    <3>1. last => rest # {}
      <4>1. Cardinality({}) = 0
        BY FS_EmptySet
      <4>. HIDE DEF rest
      <4>. QED
        BY <4>1
    <3>2. last => cut < Len(records)
      BY <3>1, <2>1, <2>2
    <3>3. last => \A i \in 1..cut : records[i] \in Keys \union {Hole}
      BY <3>2, <2>1, <2>2, ElementOfSeq DEF TypeOK
    <3>. QED
      BY <3>3, <2>1, <2>2, SubSeqProperties
  <2>4. [records EXCEPT ![Min(rest)] = Hole] \in Seq(Keys \union {Hole})
    <3>. DEFINE m == Min(rest)
    <3>. HIDE DEF m
    <3>1. records \in [1..Len(records) -> Keys \union {Hole}]
      BY LenProperties DEF TypeOK
    <3>2. [records EXCEPT ![m] = Hole] \in [1..Len(records) -> Keys \union {Hole}]
      BY <3>1
    <3>. DEFINE f == [records EXCEPT ![m] = Hole]
    <3>3. f \in Seq(Keys \union {Hole})
      <4>. HIDE DEF f
      <4>1. f \in [1..Len(records) -> Keys \union {Hole}]
        BY <3>2 DEF f
      <4>. QED
        BY <4>1, <2>1
    <3>. QED
      BY <3>3 DEF m
  <2>5. records' \in Seq(Keys \union {Hole})
    BY <1>3, <2>3, <2>4 DEF Quarantine, cut
  <2>6. base' \in [Writers -> Nat] /\ pc' \in [Writers -> Labels]
    BY <1>3, <2>2 DEF Quarantine, cut, TypeOK
  <2>. QED
    BY <1>3, <2>5, <2>6 DEF TypeOK, Quarantine
<1>4. CASE RepairHead(w)
  BY <1>4, LenProperties DEF TypeOK, RepairHead
<1>. QED
  BY <1>1, <1>2, <1>3, <1>4 DEF RepairStep

\* What is done to the index files from outside leaves rows in them.
LEMMA DamageType ==
  ASSUME TypeOK, DamageIndex
  PROVE  TypeOK'
<1>1. index' = NoFile \/ index' \in Seq(Row)
  <2>1. CASE index # NoFile /\ \E i \in 1..Len(index) : index' = SubSeq(index, 1, i - 1)
    <3>1. PICK i \in 1..Len(index) : index' = SubSeq(index, 1, i - 1)
      BY <2>1
    <3>2. \A j \in 1..(i - 1) : index[j] \in Row
      BY <2>1, LenProperties, ElementOfSeq DEF TypeOK
    <3>. QED
      BY <3>1, <3>2, <2>1, LenProperties, SubSeqProperties DEF TypeOK
  <2>2. CASE index # NoFile /\ \E i, j \in 1..Len(index) : index' = [index EXCEPT ![i] = index[j]]
    BY <2>2, ElementOfSeq, ExceptSeq DEF TypeOK
  <2>3. CASE index # NoFile /\ \E i, j \in 1..Len(index) :
               index' = [index EXCEPT ![i].key = index[j].key, ![j].key = index[i].key]
    <3>1. PICK i, j \in 1..Len(index) :
               index' = [index EXCEPT ![i].key = index[j].key, ![j].key = index[i].key]
      BY <2>3
    <3>2. index \in [1..Len(index) -> Row] /\ Len(index) \in Nat
      BY <2>3, LenProperties DEF TypeOK
    <3>3. index' \in [1..Len(index) -> Row]
      BY <3>1, <3>2 DEF Row
    <3>. QED
      BY <3>2, <3>3
  <2>. QED
    BY <2>1, <2>2, <2>3 DEF DamageIndex, TypeOK
<1>2. binding' = NoFile \/ binding' \in Nat
  BY DEF DamageIndex, TypeOK
<1>3. damage' \in Nat /\ UNCHANGED <<records, forked, head, lock, pc, locals, crashes, stolen, acked>>
  BY DEF DamageIndex, TypeOK
<1>. QED
  BY <1>1, <1>2, <1>3 DEF locals, TypeOK

\* Every file and every local variable of every call keeps its type.
THEOREM TypeCorrect == Spec => []TypeOK
<1>1. Init => TypeOK
  <2>1. InitialChain \in Seq(Keys \union {Hole}) /\ Len(InitialChain) \in Nat
    BY ChainAssumption, LenProperties, SeqMonotonic
  <2>2. \A w \in Writers : IsFiniteSet([v \in Writers |-> {}][w])
    BY FS_EmptySet
  <2>3. <<>> \in Seq(Keys) /\ <<>> \in Seq(Row)
    BY EmptySeq
  <2>4. Init => /\ todo \in [Writers -> Seq(Keys)] /\ base \in [Writers -> Nat]
                /\ rows \in [Writers -> SUBSET Row] /\ fresh \in [Writers -> Seq(Row)]
                /\ out \in [Writers -> SUBSET Row] /\ pc \in [Writers -> Labels]
    BY <2>3 DEF Init, Labels
  <2>5. Init => \A w \in Writers : IsFiniteSet(rows[w])
    BY <2>2 DEF Init
  <2>6. Init => /\ records \in Seq(Keys \union {Hole}) /\ forked \in BOOLEAN /\ head \in Nat
                /\ (index = NoFile \/ index \in Seq(Row)) /\ (binding = NoFile \/ binding \in Nat)
    BY <2>1 DEF Init
  <2>7. Init => lock \in Writers \union {Free, Dead} /\ acked \subseteq Row
    BY DEF Init
  <2>8. Init => crashes \in Nat /\ damage \in Nat
    BY DEF Init
  <2>9. Init => stolen \in BOOLEAN
    BY Zenon DEF Init
  <2>. QED
    BY <2>4, <2>5, <2>6, <2>7, <2>8, <2>9 DEF TypeOK
<1>2. TypeOK /\ [Next]_vars => TypeOK'
  <2>. SUFFICES ASSUME TypeOK, [Next]_vars PROVE TypeOK'
    OBVIOUS
  <2>1. ASSUME NEW w \in Writers, Step(w) PROVE TypeOK'
    BY <2>1, LockType, AppendType, RepairType DEF Step
  <2>2. ASSUME NEW w \in Writers, CallRepair(w) PROVE TypeOK'
    BY <2>2 DEF CallRepair, GoTo, Labels, TypeOK, files, locals, history
  <2>3. ASSUME NEW w \in Writers, Crash(w) PROVE TypeOK'
    BY <2>3, ForgetType, BoundsAssumption DEF Crash, GoTo, Labels, TypeOK, files
  <2>4. ASSUME NEW w \in Writers, Restart(w) PROVE TypeOK'
    BY <2>4 DEF Restart, GoTo, Labels, TypeOK, files, locals, history
  <2>5. ASSUME NEW w \in Writers, NEW b \in Batches, Call(w, b) PROVE TypeOK'
    BY <2>5, BatchType DEF Call, GoTo, Labels, TypeOK, files, history
  <2>6. ASSUME NEW r \in Readers, ReadStep(r) \/ ReadStart(r) PROVE TypeOK'
    BY <2>6 DEF ReadStep, ReadStart, ReadBefore, ReadRecords, ReadAfter, ReadLock,
                TypeOK, files, locals, history
  <2>7. CASE DamageIndex
    BY <2>7, DamageType
  <2>8. CASE UNCHANGED vars
    BY <2>8 DEF vars, files, locals, history, TypeOK
  <2>. QED
    BY <2>1, <2>2, <2>3, <2>4, <2>5, <2>6, <2>7, <2>8, NextCases
<1>. QED
  BY <1>1, <1>2, PTL DEF Spec

----------------------------------------------------------------------------
(* Mutual exclusion *)

\* A call at work inside the lock changes neither the lock nor another call.
LEMMA WorkFrame ==
  ASSUME TypeOK, NEW w \in Writers, AppendStep(w) \/ RepairStep(w)
  PROVE  /\ pc[w] \in Inside /\ \A v \in Writers \ {w} : pc'[v] = pc[v]
         /\ UNCHANGED <<lock, stolen, acked>>
<1>. USE DEF GoTo, files, locals, history, Inside, Labels
<1>1. pc \in [Writers -> Labels]
  BY DEF TypeOK
<1>2. CASE AppendStep(w)
  BY <1>1, <1>2 DEF AppendStep, VerifyTip, LoadIndex, RebuildIndex, RebuildBinding, Replay,
     RecoverIndex, RecoverBinding, WriteRecord, NothingNew, PublishHead, AppendRows, WriteBinding
<1>3. CASE RepairStep(w)
  BY <1>1, <1>3 DEF RepairStep, RepairScan, RepairRefuse, Quarantine, RepairHead
<1>. QED
  BY <1>2, <1>3

\* Once an unlink took a live holder's lock, the history remembers it.
LEMMA StolenIsForever ==
  ASSUME TypeOK, [Next]_vars, stolen
  PROVE  stolen'
<1>. USE DEF files, locals, history
<1>1. ASSUME NEW w \in Writers, LockStep(w) PROVE stolen'
  BY <1>1 DEF LockStep, Acquire, TimeOut, JudgeDead, Reclaim, Release
<1>2. ASSUME NEW w \in Writers, AppendStep(w) \/ RepairStep(w) PROVE stolen'
  BY <1>2, WorkFrame
<1>3. ASSUME NEW w \in Writers, CallRepair(w) \/ Crash(w) \/ Restart(w) PROVE stolen'
  BY <1>3 DEF CallRepair, Crash, Restart
<1>4. ASSUME NEW w \in Writers, NEW b \in Batches, Call(w, b) PROVE stolen'
  BY <1>4 DEF Call
<1>5. ASSUME NEW r \in Readers, ReadStep(r) \/ ReadStart(r) PROVE stolen'
  BY <1>5 DEF ReadStep, ReadStart, ReadBefore, ReadRecords, ReadAfter, ReadLock
<1>6. CASE DamageIndex
  BY <1>6 DEF DamageIndex
<1>7. CASE UNCHANGED vars
  BY <1>7 DEF vars
<1>. QED
  BY <1>1, <1>2, <1>3, <1>4, <1>5, <1>6, <1>7, NextCases DEF Step

\* No step lets a call work inside a lock that names another process.
LEMMA HolderStep ==
  ASSUME TypeOK, InsideHoldsLock, [Next]_vars, ~stolen'
  PROVE  InsideHoldsLock'
<1>. USE DEF InsideHoldsLock, Inside, Labels, Waiting, GoTo, files, locals, history
<1>1. pc \in [Writers -> Labels] /\ Free \notin Writers /\ Dead \notin Writers
  BY WritersAssumption DEF TypeOK
<1>2. ASSUME NEW w \in Writers, LockStep(w) PROVE InsideHoldsLock'
  <2>1. CASE Acquire(w)
    BY <1>1, <2>1 DEF Acquire
  <2>2. CASE TimeOut(w) \/ JudgeDead(w)
    BY <1>1, <2>2 DEF TimeOut, JudgeDead
  <2>3. CASE Reclaim(w)
    <3>1. lock \notin Writers
      BY <2>3 DEF Reclaim
    <3>. QED
      BY <1>1, <2>3, <3>1 DEF Reclaim
  <2>4. CASE Release(w)
    <3>1. lock \notin Writers \ {w}
      BY <2>4 DEF Release
    <3>. QED
      BY <1>1, <2>4, <3>1 DEF Release
  <2>. QED
    BY <1>2, <2>1, <2>2, <2>3, <2>4 DEF LockStep
<1>3. ASSUME NEW w \in Writers, AppendStep(w) \/ RepairStep(w) PROVE InsideHoldsLock'
  <2>1. lock' = lock /\ lock = w /\ \A v \in Writers \ {w} : pc'[v] = pc[v]
    BY <1>3, WorkFrame
  <2>. QED
    BY <2>1
<1>4. ASSUME NEW w \in Writers, CallRepair(w) \/ Crash(w) \/ Restart(w) PROVE InsideHoldsLock'
  BY <1>1, <1>4 DEF CallRepair, Crash, Restart
<1>5. ASSUME NEW w \in Writers, NEW b \in Batches, Call(w, b) PROVE InsideHoldsLock'
  BY <1>1, <1>5 DEF Call
<1>6. ASSUME NEW r \in Readers, ReadStep(r) \/ ReadStart(r) PROVE InsideHoldsLock'
  BY <1>6 DEF ReadStep, ReadStart, ReadBefore, ReadRecords, ReadAfter, ReadLock
<1>7. CASE DamageIndex
  BY <1>7 DEF DamageIndex
<1>8. CASE UNCHANGED vars
  BY <1>8 DEF vars
<1>. QED
  BY <1>2, <1>3, <1>4, <1>5, <1>6, <1>7, <1>8, NextCases DEF Step

\* As long as no unlink removed the lock of a live holder, one call at a time
\* works inside withLock: deaths, time-outs and reclaims included.
THEOREM Exclusion == Spec => []OneInside
<1>. DEFINE Inv == ~stolen => InsideHoldsLock
<1>1. Init => Inv
  BY DEF Init, InsideHoldsLock, Inside
<1>2. TypeOK /\ Inv /\ [Next]_vars => Inv'
  BY HolderStep, StolenIsForever
<1>3. Inv => OneInside
  BY DEF InsideHoldsLock, OneInside
<1>. QED
  BY <1>1, <1>2, <1>3, TypeCorrect, PTL DEF Spec

----------------------------------------------------------------------------
(* One chain of distinct keys *)

\* The chain only got longer.
Grown == /\ Len(records) <= Len(records')
         /\ \A i \in 1..Len(records) : records'[i] = records[i]

\* A consistent chain has neither gaps nor repeated keys.
LEMMA CleanChain ==
  ASSUME ChainConsistent
  PROVE  /\ Len(records) \in Nat /\ ~HasGap(records) /\ ~HasDuplicate(records)
         /\ DOMAIN records = 1..Len(records)
         /\ \A i \in 1..Len(records) : records[i] \in Keys
         /\ \A i, j \in 1..Len(records) : records[i] = records[j] => i = j
         /\ \A x : x \in Range(records) <=> \E i \in 1..Len(records) : records[i] = x
<1>1. /\ Len(records) \in Nat /\ DOMAIN records = 1..Len(records)
      /\ \A i \in 1..Len(records) : records[i] \in Keys
  BY LenProperties, ElementOfSeq DEF ChainConsistent
<1>2. \A i, j \in 1..Len(records) : records[i] = records[j] => i = j
  BY <1>1 DEF ChainConsistent, IsInjective
<1>3. ~HasGap(records)
  BY <1>1, ChainAssumption DEF HasGap
<1>4. ~HasDuplicate(records)
  BY <1>1, <1>2 DEF HasDuplicate, Repeats
<1>. QED
  BY <1>1, <1>2, <1>3, <1>4 DEF Range

\* What a call knows of a chain stays so while the chain grows.
LEMMA GrowthKeeps ==
  ASSUME Len(records) \in Nat, DOMAIN records = 1..Len(records),
         Len(records') \in Nat, DOMAIN (records') = 1..Len(records'), Grown
  PROVE  /\ \A r \in Row : Names(r) => Names(r)'
         /\ \A x : x \in Range(records) => x \in Range(records')
BY DEF Grown, Names, Row, Range

\* A call at work leaves the local variables of the others alone.
LEMMA LocalsFrame ==
  ASSUME TypeOK, NEW w \in Writers, AppendStep(w) \/ RepairStep(w), NEW v \in Writers \ {w}
  PROVE  UNCHANGED <<todo[v], fresh[v], out[v]>>
<1>. USE DEF locals
<1>1. /\ todo \in [Writers -> Seq(Keys)] /\ fresh \in [Writers -> Seq(Row)]
      /\ out \in [Writers -> SUBSET Row]
  BY DEF TypeOK
<1>2. CASE AppendStep(w)
  BY <1>1, <1>2 DEF AppendStep, VerifyTip, LoadIndex, RebuildIndex, RebuildBinding, Replay,
     RecoverIndex, RecoverBinding, WriteRecord, NothingNew, PublishHead, AppendRows, WriteBinding
<1>3. CASE RepairStep(w)
  BY <1>1, <1>3 DEF RepairStep, RepairScan, RepairRefuse, Quarantine, RepairHead
<1>. QED
  BY <1>2, <1>3

\* While one call works inside the lock, the others rely on nothing that changes.
LEMMA OtherCalls ==
  ASSUME TypeOK, InsideHoldsLock, NEW w \in Writers, AppendStep(w) \/ RepairStep(w),
         ChainConsistent, ChainConsistent', Grown, NEW v \in Writers \ {w}, CallConsistent(v)
  PROVE  CallConsistent(v)'
<1>1. pc[v] \notin Inside /\ pc'[v] = pc[v]
  BY WorkFrame DEF InsideHoldsLock
<1>2. UNCHANGED <<todo[v], fresh[v], out[v]>>
  BY LocalsFrame
<1>3. out[v] \in SUBSET Row
  BY DEF TypeOK
<1>4. /\ Len(records) \in Nat /\ DOMAIN records = 1..Len(records)
      /\ Len(records') \in Nat /\ DOMAIN (records') = 1..Len(records')
  BY LenProperties DEF ChainConsistent
<1>5. \A r \in out[v] : Names(r)'
  BY <1>3, <1>4, GrowthKeeps DEF CallConsistent
<1>6. \A i \in 1..Len(fresh[v]) : fresh[v][i].key \in Range(records')
  BY <1>4, GrowthKeeps DEF CallConsistent
<1>. QED
  BY <1>1, <1>2, <1>5, <1>6 DEF CallConsistent, Inside, Labels

\* The keys of a trusted index are exactly the keys on the chain.
LEMMA TrustedIndexKeys ==
  ASSUME TypeOK, ChainConsistent, IndexTrusted(Len(records)), NEW x \in Range(records)
  PROVE  \E r \in Range(index) : r.key = x
<1>. DEFINE K == {r.key : r \in Range(index)}
<1>1. index \in Seq(Row)
  BY DEF TypeOK, IndexTrusted
<1>2. K \in SUBSET Range(records)
  BY <1>1, RangeOfSeqOf DEF ChainConsistent, IndexTrusted
<1>3. IsFiniteSet(Range(records)) /\ Cardinality(Range(records)) <= Len(records)
  BY RangeOfSeqOf DEF ChainConsistent
<1>4. Cardinality(K) = Len(records) /\ Len(records) \in Nat
  BY LenProperties DEF IndexTrusted, ChainConsistent
<1>5. Cardinality(K) <= Cardinality(Range(records)) /\ Cardinality(Range(records)) \in Nat
  BY <1>2, <1>3, FS_Subset, FS_CardinalityType
<1>6. Cardinality(K) = Cardinality(Range(records))
  BY <1>3, <1>4, <1>5
<1>7. K = Range(records)
  BY <1>2, <1>3, <1>6, FS_Subset
<1>. QED
  BY <1>7

\* A rebuilt index holds the keys on the chain and no other.
LEMMA RebuiltIndexKeys ==
  ASSUME TypeOK, ChainConsistent
  PROVE  /\ \A i \in 1..Len(RowsOf(records)) : RowsOf(records)[i].key \in Range(records)
         /\ \A i \in 1..Len(records) : \E r \in Range(RowsOf(records)) : r.key = records[i]
<1>1. /\ RowsOf(records) \in Seq(Row) /\ Len(RowsOf(records)) = Len(records)
      /\ \A i \in 1..Len(records) : RowsOf(records)[i] = [key |-> records[i], seq |-> i]
  BY RowsOfType DEF TypeOK
<1>2. ASSUME NEW i \in 1..Len(records) PROVE RowsOf(records)[i].key = records[i]
  <2>1. RowsOf(records)[i] = [key |-> records[i], seq |-> i]
    BY <1>1
  <2>. QED
    BY <2>1
<1>. QED
  BY <1>1, <1>2, CleanChain, RangeOfSeqOf

\* What is left of a batch is part of it, and repeats no key either.
LEMMA TailOfBatch ==
  ASSUME NEW s \in Seq(Keys), s # <<>>, IsInjective(s)
  PROVE  /\ IsInjective(Tail(s)) /\ s[1] \in Range(s) /\ s[1] \notin Range(Tail(s))
         /\ Range(Tail(s)) \in SUBSET Range(s)
<1>1. /\ Len(s) \in Nat /\ Len(s) >= 1 /\ DOMAIN s = 1..Len(s)
      /\ Len(Tail(s)) = Len(s) - 1 /\ \A i \in 1..Len(Tail(s)) : Tail(s)[i] = s[i + 1]
      /\ DOMAIN Tail(s) = 1..Len(Tail(s))
  BY HeadOfTodo, LenProperties
<1>. QED
  BY <1>1 DEF IsInjective, Range

\* WriteRecord extends the chain by a key that is not on it.
LEMMA WriteKeeps ==
  ASSUME TypeOK, ChainConsistent, NEW w \in Writers, CallConsistent(w), WriteRecord(w)
  PROVE  ChainConsistent' /\ CallConsistent(w)' /\ Grown
<1>. DEFINE k == todo[w][1]
<1>1. /\ pc[w] = "loop" /\ todo[w] # <<>> /\ todo[w] \in Seq(Keys) /\ IsInjective(todo[w])
      /\ base[w] = Len(records) /\ Len(records) \in Nat /\ records \in Seq(Keys)
  BY CleanChain DEF WriteRecord, CallConsistent, TypeOK, ChainConsistent
<1>2. k \in Keys /\ k \in Range(todo[w]) /\ k \notin Range(Tail(todo[w]))
      /\ IsInjective(Tail(todo[w])) /\ Range(Tail(todo[w])) \in SUBSET Range(todo[w])
  BY <1>1, TailOfBatch, HeadOfTodo
<1>3. k \notin Range(records)
  <2>1. ~\E r \in rows[w] : r.key = k
    BY DEF WriteRecord
  <2>2. \A i \in 1..Len(records) : records[i] \in Range(todo[w]) => \E r \in rows[w] : r.key = records[i]
    BY <1>1 DEF CallConsistent
  <2>. HIDE DEF k
  <2>3. \A i \in 1..Len(records) : records[i] # k
    BY <2>1, <2>2, <1>2
  <2>. QED
    BY <2>3, CleanChain
<1>. HIDE DEF k
<1>0. PICK row : row = [key |-> k, seq |-> Len(records) + 1]
  OBVIOUS
<1>a. row.key = k /\ row.seq = Len(records) + 1 /\ row \in Row
  BY <1>0, <1>1, <1>2 DEF Row
<1>b. fresh[w] \in Seq(Row) /\ rows[w] \in SUBSET Row /\ out[w] \in SUBSET Row
  BY DEF TypeOK
<1>4. records' = Append(records, k) /\ forked' = forked
  BY <1>1 DEF WriteRecord, k
<1>5. /\ todo'[w] = Tail(todo[w]) /\ out'[w] = out[w] \union {row}
      /\ fresh'[w] = Append(fresh[w], row) /\ base'[w] = Len(records) + 1
      /\ UNCHANGED <<pc, rows, head, index, acked>>
  BY <1>0, <1>1 DEF WriteRecord, TypeOK, k, history
<1>6. /\ records' \in Seq(Keys) /\ Len(records') = Len(records) + 1
      /\ \A i \in 1..Len(records) : records'[i] = records[i]
      /\ records'[Len(records) + 1] = k /\ DOMAIN (records') = 1..Len(records')
  BY <1>1, <1>2, <1>4, AppendProperties, LenProperties
<1>7. Grown
  BY <1>1, <1>6 DEF Grown
<1>8. (\A r \in Row : Names(r) => Names(r)') /\ \A x : x \in Range(records) => x \in Range(records')
  BY <1>1, <1>6, <1>7, CleanChain, GrowthKeeps
<1>9. ChainConsistent'
  <2>1. IsInjective(records')
    <3>1. \A i \in 1..Len(records) : records[i] # k
      BY <1>3, CleanChain
    <3>. QED
      BY <1>1, <1>6, <3>1, CleanChain DEF IsInjective
  <2>2. head' <= Len(records')
    BY <1>1, <1>5, <1>6 DEF ChainConsistent, TypeOK
  <2>3. \A r \in acked' : Names(r)' /\ (head' # 0 => r.seq <= head')
    BY <1>5, <1>8 DEF ChainConsistent, TypeOK
  <2>4. index' # NoFile => \A i \in 1..Len(index') : index'[i].key \in Range(records')
    BY <1>5, <1>8 DEF ChainConsistent
  <2>. QED
    BY <1>4, <1>6, <2>1, <2>2, <2>3, <2>4 DEF ChainConsistent
<1>10. CallConsistent(w)'
  <2>1. \A r \in out'[w] : Names(r)'
    <3>1. Names(row)'
      BY <1>1, <1>6, <1>a DEF Names
    <3>2. \A r \in out[w] : Names(r)'
      BY <1>8, <1>b DEF CallConsistent
    <3>. QED
      BY <1>5, <3>1, <3>2
  <2>2. \A i \in 1..Len(fresh'[w]) : fresh'[w][i].key \in Range(records')
    <3>2. /\ Len(fresh'[w]) = Len(fresh[w]) + 1 /\ fresh'[w][Len(fresh[w]) + 1] = row
          /\ \A i \in 1..Len(fresh[w]) : fresh'[w][i] = fresh[w][i]
      BY <1>5, <1>a, <1>b, AppendProperties
    <3>3. row.key \in Range(records')
      BY <1>1, <1>6, <1>a DEF Range
    <3>4. \A i \in 1..Len(fresh[w]) : fresh[w][i].key \in Range(records')
      BY <1>8 DEF CallConsistent
    <3>. QED
      BY <1>b, <3>2, <3>3, <3>4, LenProperties
  <2>3. fresh'[w] # <<>>
    BY <1>5, <1>a, <1>b, AppendProperties
  <2>4. \A i \in 1..Len(records') :
          records'[i] \in Range(todo'[w]) => \E r \in rows'[w] : r.key = records'[i]
    BY <1>1, <1>2, <1>5, <1>6 DEF CallConsistent
  <2>. QED
    BY <1>1, <1>2, <1>5, <1>6, <2>1, <2>2, <2>3, <2>4 DEF CallConsistent
<1>. QED
  BY <1>7, <1>9, <1>10

\* The steps that write no record keep the chain and what the call relies on.
LEMMA AppendKeeps ==
  ASSUME TypeOK, ChainConsistent, NEW w \in Writers, CallConsistent(w), AppendStep(w)
  PROVE  ChainConsistent' /\ CallConsistent(w)' /\ Grown
<1>. USE DEF GoTo, files, locals, history
<1>1. /\ pc \in [Writers -> Labels] /\ todo \in [Writers -> Seq(Keys)] /\ base \in [Writers -> Nat]
      /\ rows \in [Writers -> SUBSET Row] /\ fresh \in [Writers -> Seq(Row)]
      /\ out \in [Writers -> SUBSET Row] /\ Len(records) \in Nat /\ records \in Seq(Keys)
  BY CleanChain DEF TypeOK, ChainConsistent
<1>2. ASSUME records' = records PROVE Grown
  BY <1>1, <1>2 DEF Grown
<1>3. ASSUME UNCHANGED <<records, forked, head, index, acked>> PROVE ChainConsistent'
  BY <1>3 DEF ChainConsistent, Names
<1>4. ASSUME NEW r PROVE records' = records => (Names(r)' <=> Names(r))
  BY DEF Names
<1>5. CASE VerifyTip(w)
  BY <1>1, <1>2, <1>3, <1>5 DEF VerifyTip, CallConsistent, Names
<1>6. CASE LoadIndex(w)
  <2>1. UNCHANGED <<records, forked, head, index, acked>>
    BY <1>6 DEF LoadIndex
  <2>2. base[w] = Len(records)
    BY <1>6 DEF LoadIndex, CallConsistent
  <2>3. pc'[w] = "loop" => \A i \in 1..Len(records) : \E r \in rows'[w] : r.key = records[i]
    <3>1. pc'[w] = "loop" => IndexTrusted(Len(records)) /\ rows'[w] = Range(index)
      BY <1>1, <1>6, <2>2 DEF LoadIndex
    <3>2. \A i \in 1..Len(records) : records[i] \in Range(records)
      BY CleanChain
    <3>. QED
      BY <3>1, <3>2, TrustedIndexKeys
  <2>. QED
    BY <1>1, <1>2, <1>3, <1>6, <2>1, <2>3 DEF LoadIndex, CallConsistent, Names
<1>7. CASE RebuildIndex(w)
  <2>1. UNCHANGED <<records, forked, head, acked>>
    BY <1>7 DEF RebuildIndex
  <2>2. ChainConsistent'
    BY <1>7, <2>1, RebuiltIndexKeys DEF RebuildIndex, ChainConsistent, Names
  <2>3. pc'[w] = "rebind" => \A i \in 1..Len(records) : \E r \in rows'[w] : r.key = records[i]
    BY <1>1, <1>7, RebuiltIndexKeys DEF RebuildIndex
  <2>. QED
    BY <1>1, <1>2, <1>7, <2>1, <2>2, <2>3 DEF RebuildIndex, CallConsistent, Names
<1>8. CASE RebuildBinding(w)
  BY <1>1, <1>2, <1>3, <1>8 DEF RebuildBinding, CallConsistent, Names
<1>a. ASSUME todo[w] # <<>>, IsInjective(todo[w])
      PROVE  IsInjective(Tail(todo[w])) /\ Range(Tail(todo[w])) \in SUBSET Range(todo[w])
  BY <1>1, <1>a, TailOfBatch
<1>9. CASE Replay(w)
  <2>1. /\ UNCHANGED <<records, forked, head, index, acked, base, rows, fresh>>
        /\ pc[w] = "loop" /\ todo[w] # <<>>
    BY <1>9 DEF Replay
  <2>2. ~forked
    BY DEF ChainConsistent
  <2>3. PICK r \in Named(w, todo[w][1]) : out' = [out EXCEPT ![w] = @ \union {r}]
    BY <1>9, <2>2 DEF Replay
  <2>4. todo' = [todo EXCEPT ![w] = Tail(@)] /\ pc' = pc
    BY <1>9, <2>2 DEF Replay
  <2>5. Names(r)
    BY <1>1, <2>3 DEF Named, Names, Row
  <2>. QED
    BY <1>1, <1>2, <1>3, <1>a, <2>1, <2>3, <2>4, <2>5 DEF CallConsistent, Names
<1>10. CASE RecoverIndex(w)
  <2>1. UNCHANGED <<records, forked, head, acked>> /\ index' = RowsOf(records)
    BY <1>10 DEF RecoverIndex
  <2>2. ChainConsistent'
    BY <2>1, RebuiltIndexKeys DEF ChainConsistent, Names
  <2>. QED
    BY <1>1, <1>2, <1>10, <2>1, <2>2 DEF RecoverIndex, CallConsistent, Names
<1>16. CASE RecoverBinding(w)
  <2>. DEFINE k == todo[w][1]
              found == {i \in 1..Len(records) : records[i] = k}
  <2>1. /\ UNCHANGED <<records, forked, head, index, acked, base, fresh>>
        /\ pc[w] = "recover" /\ todo[w] # <<>> /\ pc' = [pc EXCEPT ![w] = "loop"]
    BY <1>16 DEF RecoverBinding
  <2>2. ChainConsistent'
    BY <1>3, <2>1
  <2>3. CASE found # {}
    <3>1. PICK i \in found : out' = [out EXCEPT ![w] = @ \union {[key |-> k, seq |-> i]}]
      BY <1>16, <2>3 DEF RecoverBinding
    <3>2. todo' = [todo EXCEPT ![w] = Tail(@)] /\ rows' = rows
      BY <1>16, <2>3 DEF RecoverBinding
    <3>. HIDE DEF k
    <3>3. PICK r : r = [key |-> k, seq |-> i]
      OBVIOUS
    <3>4. Names(r) /\ out'[w] = out[w] \union {r}
      BY <1>1, <3>1, <3>3 DEF Names
    <3>. QED
      BY <1>1, <1>2, <1>a, <2>1, <2>2, <3>2, <3>4 DEF CallConsistent, Names
  <2>4. CASE found = {}
    <3>1. rows' = [rows EXCEPT ![w] = {r \in @ : r.key # k}] /\ out' = out /\ todo' = todo
      BY <1>16, <2>4 DEF RecoverBinding
    <3>. QED
      BY <1>1, <1>2, <2>1, <2>2, <2>4, <3>1 DEF CallConsistent, Names
  <2>. QED
    BY <2>3, <2>4
<1>11. CASE WriteRecord(w)
  BY <1>11, WriteKeeps
<1>12. CASE NothingNew(w)
  BY <1>1, <1>2, <1>3, <1>12 DEF NothingNew, CallConsistent, Names
<1>13. CASE PublishHead(w)
  <2>1. base[w] = Len(records) /\ head' = base[w] /\ UNCHANGED <<records, forked, index, acked>>
    BY <1>13 DEF PublishHead, CallConsistent
  <2>2. ChainConsistent'
    BY <1>1, <2>1 DEF ChainConsistent, Names
  <2>. QED
    BY <1>1, <1>2, <1>13, <2>1, <2>2 DEF PublishHead, CallConsistent, Names
<1>14. CASE AppendRows(w)
  <2>1. UNCHANGED <<records, forked, head, acked>>
    BY <1>14 DEF AppendRows
  <2>2. index' # NoFile => \A i \in 1..Len(index') : index'[i].key \in Range(records)
    <3>1. \A i \in 1..Len(fresh[w]) : fresh[w][i].key \in Range(records)
      BY DEF CallConsistent
    <3>2. CASE index = NoFile
      BY <1>14, <3>1, <3>2 DEF AppendRows
    <3>3. CASE index # NoFile
      <4>1. index \in Seq(Row) /\ fresh[w] \in Seq(Row) /\ index' = index \o fresh[w]
        BY <1>1, <1>14, <3>3 DEF AppendRows, TypeOK
      <4>2. \A i \in 1..Len(index) : index[i].key \in Range(records)
        BY <3>3 DEF ChainConsistent
      <4>3. /\ Len(index) \in Nat /\ Len(fresh[w]) \in Nat /\ Len(index') = Len(index) + Len(fresh[w])
            /\ \A i \in 1..Len(index') : index'[i] = IF i <= Len(index) THEN index[i]
                                                   ELSE fresh[w][i - Len(index)]
        BY <4>1, ConcatProperties, LenProperties
      <4>. QED
        BY <4>2, <4>3, <3>1
    <3>. QED
      BY <3>2, <3>3
  <2>3. ChainConsistent'
    BY <2>1, <2>2 DEF ChainConsistent, Names
  <2>. QED
    BY <1>1, <1>2, <1>14, <2>1, <2>3 DEF AppendRows, CallConsistent, Names
<1>15. CASE WriteBinding(w)
  BY <1>1, <1>2, <1>3, <1>15 DEF WriteBinding, CallConsistent, Names
<1>. QED
  BY <1>5, <1>6, <1>7, <1>8, <1>9, <1>10, <1>11, <1>12, <1>13, <1>14, <1>15,
     <1>16 DEF AppendStep

\* A repair of a consistent chain cuts nothing.
LEMMA RepairKeeps ==
  ASSUME TypeOK, ChainConsistent, NEW w \in Writers, CallConsistent(w), RepairStep(w)
  PROVE  ChainConsistent' /\ CallConsistent(w)' /\ Grown
<1>. USE DEF GoTo, files, locals, history
<1>1. pc \in [Writers -> Labels] /\ ~HasGap(records) /\ ~HasDuplicate(records) /\ Len(records) \in Nat
  BY CleanChain DEF TypeOK
<1>2. CASE RepairScan(w)
  <2>1. records' = records /\ forked' = forked /\ index' = index /\ acked' = acked /\ head' = 0
    BY <1>2 DEF RepairScan, ChainConsistent
  <2>2. ChainConsistent'
    BY <1>1, <2>1 DEF ChainConsistent, Names
  <2>. QED
    BY <1>1, <1>2, <2>1, <2>2 DEF RepairScan, ChainConsistent, CallConsistent, Names, Grown
<1>3. CASE RepairRefuse(w)
  BY <1>1, <1>3 DEF RepairRefuse
<1>4. CASE Quarantine(w)
  BY <1>1, <1>4 DEF Quarantine, CallConsistent
<1>5. CASE RepairHead(w)
  <2>1. UNCHANGED <<records, forked, index, acked>> /\ head' = Len(records)
    BY <1>5 DEF RepairHead
  <2>2. ChainConsistent'
    BY <1>1, <2>1 DEF ChainConsistent, Names
  <2>. QED
    BY <1>1, <1>5, <2>1, <2>2 DEF RepairHead, CallConsistent, Names, Grown
<1>. QED
  BY <1>2, <1>3, <1>4, <1>5 DEF RepairStep

\* A call that forgets its local variables relies on nothing.
LEMMA ForgetKeeps ==
  ASSUME TypeOK, NEW w \in Writers, Forget(w), pc'[w] \notin Inside
  PROVE  CallConsistent(w)'
BY DEF TypeOK, Forget, CallConsistent, IsInjective, Inside, Labels

\* The lock protocol touches no file of the chain; what Release acknowledges is
\* committed.
LEMMA LockKeeps ==
  ASSUME TypeOK, ChainConsistent, \A v \in Writers : CallConsistent(v),
         NEW w \in Writers, LockStep(w)
  PROVE  ChainConsistent' /\ \A v \in Writers : CallConsistent(v)'
<1>. USE DEF GoTo, files, locals, history
<1>1. /\ pc \in [Writers -> Labels] /\ todo \in [Writers -> Seq(Keys)] /\ base \in [Writers -> Nat]
      /\ rows \in [Writers -> SUBSET Row] /\ fresh \in [Writers -> Seq(Row)]
      /\ out \in [Writers -> SUBSET Row]
  BY DEF TypeOK
<1>2. ASSUME UNCHANGED <<files, acked>> PROVE ChainConsistent'
  BY <1>2 DEF ChainConsistent, Names
<1>3. CASE Acquire(w) \/ JudgeDead(w) \/ Reclaim(w)
  <2>1. /\ UNCHANGED <<files, locals, acked>> /\ \A v \in Writers \ {w} : pc'[v] = pc[v]
        /\ pc'[w] \in {"verify", "scan", "reclaim", "reclaimRepair", "acquire", "acquireRepair"}
    BY <1>1, <1>3 DEF Acquire, JudgeDead, Reclaim
  <2>2. ASSUME NEW v \in Writers PROVE CallConsistent(v)'
    BY <2>1, CallConsistent(v) DEF CallConsistent, Names
  <2>. QED
    BY <1>2, <2>1, <2>2
<1>4. CASE TimeOut(w) \/ Release(w)
  <2>1. Forget(w) /\ pc'[w] = "idle" /\ UNCHANGED files /\ \A v \in Writers \ {w} : pc'[v] = pc[v]
    BY <1>1, <1>4 DEF TimeOut, Release
  <2>2. ASSUME NEW v \in Writers \ {w} PROVE CallConsistent(v)'
    <3>1. todo'[v] = todo[v] /\ base'[v] = base[v] /\ rows'[v] = rows[v]
          /\ fresh'[v] = fresh[v] /\ out'[v] = out[v]
      BY <1>1, <2>1 DEF Forget
    <3>. QED
      BY <2>1, <3>1, CallConsistent(v) DEF CallConsistent, Names
  <2>3. CallConsistent(w)'
    BY <2>1, ForgetKeeps DEF Inside
  <2>4. ChainConsistent'
    <3>1. \A r \in acked' : Names(r) /\ (head # 0 => r.seq <= head)
      <4>1. CASE acked' = acked
        BY <4>1 DEF ChainConsistent
      <4>2. CASE pc[w] = "ack" /\ acked' = acked \union out[w]
        <5>1. head = Len(records) /\ \A r \in out[w] : Names(r)
          BY <4>2 DEF CallConsistent
        <5>. QED
          BY <4>2, <5>1, CleanChain DEF ChainConsistent, Names
      <4>. QED
        BY <1>4, <4>1, <4>2 DEF TimeOut, Release
    <3>. QED
      BY <2>1, <3>1 DEF ChainConsistent, Names
  <2>. QED
    BY <2>2, <2>3, <2>4
<1>. QED
  BY <1>3, <1>4 DEF LockStep

\* Whatever is done to the index from outside, its keys are keys of the chain.
LEMMA DamageKeeps ==
  ASSUME TypeOK, ChainConsistent, DamageIndex
  PROVE  ChainConsistent'
<1>1. UNCHANGED <<records, forked, head, acked>>
  BY DEF DamageIndex
<1>2. index' # NoFile => \A i \in 1..Len(index') : index'[i].key \in Range(records)
  <2>1. CASE index' = index
    BY <2>1 DEF ChainConsistent
  <2>2. CASE index # NoFile /\ index' # index /\ index' # NoFile
    <3>1. index \in Seq(Row) /\ Len(index) \in Nat /\ \A i \in 1..Len(index) : index[i] \in Row
      BY <2>2, LenProperties, ElementOfSeq DEF TypeOK
    <3>2. \A i \in 1..Len(index) : index[i].key \in Range(records)
      BY <2>2 DEF ChainConsistent
    <3>3. PICK i \in 1..Len(index) :
             \/ index' = SubSeq(index, 1, i - 1)
             \/ \E j \in 1..Len(index) :
                  \/ index' = [index EXCEPT ![i] = index[j]]
                  \/ index' = [index EXCEPT ![i].key = index[j].key, ![j].key = index[i].key]
      BY <2>2 DEF DamageIndex
    <3>4. CASE index' = SubSeq(index, 1, i - 1)
      <4>1. \A j \in 1..(i - 1) : index[j] \in Row
        BY <3>1
      <4>2. /\ Len(index') = IF 1 <= i - 1 THEN i - 1 ELSE 0
            /\ \A j \in 1..(i - 1) : index'[j] = index[j]
        BY <3>1, <3>4, <4>1, SubSeqProperties
      <4>. QED
        BY <3>1, <3>2, <4>2
    <3>5. ASSUME NEW j \in 1..Len(index), index' = [index EXCEPT ![i] = index[j]]
          PROVE  \A n \in 1..Len(index') : index'[n].key \in Range(records)
      BY <3>1, <3>2, <3>5, ExceptSeq
    <3>6. ASSUME NEW j \in 1..Len(index),
                 index' = [index EXCEPT ![i].key = index[j].key, ![j].key = index[i].key]
          PROVE  \A n \in 1..Len(index') : index'[n].key \in Range(records)
      <4>1. index \in [1..Len(index) -> Row]
        BY <3>1, LenProperties
      <4>2. index' \in [1..Len(index) -> Row]
        <5>1. \A r \in Row : \A k \in Keys \union {Hole} : [r EXCEPT !.key = k] \in Row
          BY DEF Row
        <5>2. index[i] \in Row /\ index[j] \in Row
          BY <4>1
        <5>3. index[i].key \in Keys \union {Hole} /\ index[j].key \in Keys \union {Hole}
          BY <5>2 DEF Row
        <5>4. PICK ri : ri = [index[i] EXCEPT !.key = index[j].key]
          OBVIOUS
        <5>5. PICK mid : mid = [index EXCEPT ![i] = ri]
          OBVIOUS
        <5>6. ri \in Row /\ mid \in [1..Len(index) -> Row]
          BY <4>1, <5>1, <5>2, <5>3, <5>4, <5>5
        <5>7. PICK rj : rj = [mid[j] EXCEPT !.key = index[i].key]
          OBVIOUS
        <5>8. rj \in Row
          BY <5>1, <5>3, <5>6, <5>7
        <5>9. index' = [mid EXCEPT ![j] = rj]
          BY <3>6, <5>4, <5>5, <5>7
        <5>. QED
          BY <5>6, <5>8, <5>9
      <4>3. Len(index') = Len(index)
        BY <3>1, <4>2
      <4>4. \A n \in 1..Len(index) : index'[n].key \in {index[n].key, index[i].key, index[j].key}
        BY <3>6, <4>1 DEF Row
      <4>. QED
        BY <3>2, <4>3, <4>4
    <3>. QED
      BY <3>3, <3>4, <3>5, <3>6
  <2>. QED
    BY <2>1, <2>2 DEF DamageIndex
<1>. QED
  BY <1>1, <1>2 DEF ChainConsistent, Names

\* One step of the system keeps the store consistent.
LEMMA ConsistentStep ==
  ASSUME TypeOK, Consistent, [Next]_vars
  PROVE  Consistent'
<1>. SUFFICES ASSUME ~stolen'
              PROVE  (InsideHoldsLock /\ ChainConsistent /\ \A v \in Writers : CallConsistent(v))'
  BY DEF Consistent
<1>1. InsideHoldsLock /\ ChainConsistent /\ \A v \in Writers : CallConsistent(v)
  BY StolenIsForever DEF Consistent
<1>2. InsideHoldsLock'
  BY <1>1, HolderStep
<1>. DEFINE Rest == ChainConsistent' /\ \A v \in Writers : CallConsistent(v)'
<1>3. ASSUME UNCHANGED <<files, acked, locals>>, \A v \in Writers : pc'[v] = pc[v] \/ pc'[v] \notin Inside
      PROVE  Rest
  <2>1. ChainConsistent'
    BY <1>1, <1>3 DEF ChainConsistent, Names, files
  <2>2. ASSUME NEW v \in Writers PROVE CallConsistent(v)'
    <3>1. CallConsistent(v)
      BY <1>1
    <3>. QED
      BY <1>3, <3>1 DEF CallConsistent, Names, Inside, Labels, files, locals
  <2>. QED
    BY <2>1, <2>2
<1>4. ASSUME NEW w \in Writers, Step(w) PROVE Rest
  <2>1. CASE LockStep(w)
    BY <1>1, <2>1, LockKeeps
  <2>2. CASE AppendStep(w) \/ RepairStep(w)
    <3>1. ChainConsistent' /\ CallConsistent(w)' /\ Grown
      BY <1>1, <2>2, AppendKeeps, RepairKeeps
    <3>. QED
      BY <1>1, <2>2, <3>1, OtherCalls
  <2>. QED
    BY <1>4, <2>1, <2>2 DEF Step
<1>5. ASSUME NEW w \in Writers, CallRepair(w) \/ Restart(w) PROVE Rest
  <2>1. UNCHANGED <<files, acked, locals>> /\ \A v \in Writers : pc'[v] = pc[v] \/ pc'[v] \notin Inside
    BY <1>5 DEF CallRepair, Restart, GoTo, Inside, history, TypeOK
  <2>. QED
    BY <1>3, <2>1
<1>6. ASSUME NEW w \in Writers, Crash(w) PROVE Rest
  <2>1. Forget(w) /\ pc'[w] = "dead" /\ UNCHANGED <<files, acked>> /\ \A v \in Writers \ {w} : pc'[v] = pc[v]
    BY <1>6 DEF Crash, GoTo, TypeOK
  <2>2. ASSUME NEW v \in Writers \ {w} PROVE CallConsistent(v)'
    <3>1. UNCHANGED <<todo[v], base[v], rows[v], fresh[v], out[v]>>
      BY <2>1 DEF Forget, TypeOK
    <3>2. CallConsistent(v)
      BY <1>1
    <3>. QED
      BY <2>1, <3>1, <3>2 DEF CallConsistent, Names, files
  <2>3. CallConsistent(w)'
    BY <2>1, ForgetKeeps DEF Inside
  <2>4. ChainConsistent'
    BY <1>1, <2>1 DEF ChainConsistent, Names, files
  <2>. QED
    BY <2>2, <2>3, <2>4
<1>7. ASSUME NEW w \in Writers, NEW b \in Batches, Call(w, b) PROVE Rest
  <2>1. /\ UNCHANGED <<files, acked, base, rows, fresh, out>> /\ pc'[w] = "acquire" /\ todo'[w] = b
        /\ \A v \in Writers \ {w} : pc'[v] = pc[v] /\ todo'[v] = todo[v]
    BY <1>7 DEF Call, GoTo, TypeOK, history
  <2>2. IsInjective(b)
    BY BatchType
  <2>3. ASSUME NEW v \in Writers PROVE CallConsistent(v)'
    <3>1. CallConsistent(v)
      BY <1>1
    <3>. QED
      BY <2>1, <2>2, <3>1 DEF CallConsistent, Names, files
  <2>. QED
    BY <1>1, <2>1, <2>3 DEF ChainConsistent, Names, files
<1>8. ASSUME NEW r \in Readers, ReadStep(r) \/ ReadStart(r) PROVE Rest
  <2>1. UNCHANGED <<files, acked, locals, pc>>
    BY <1>8 DEF ReadStep, ReadStart, ReadBefore, ReadRecords, ReadAfter, ReadLock, history
  <2>. QED
    BY <1>3, <2>1
<1>9. ASSUME DamageIndex PROVE Rest
  <2>1. UNCHANGED <<records, head, pc, locals>>
    BY <1>9 DEF DamageIndex
  <2>2. ASSUME NEW v \in Writers PROVE CallConsistent(v)'
    <3>1. CallConsistent(v)
      BY <1>1
    <3>. QED
      BY <2>1, <3>1 DEF CallConsistent, Names, locals
  <2>. QED
    BY <1>1, <1>9, <2>2, DamageKeeps
<1>10. ASSUME UNCHANGED vars PROVE Rest
  BY <1>3, <1>10 DEF vars, history
<1>11. Rest
  BY <1>4, <1>5, <1>6, <1>7, <1>8, <1>9, <1>10, NextCases
<1>. QED
  BY <1>2, <1>11

\* From a chain of distinct keys the store stays consistent, for any number of
\* processes, batches, deaths and index disturbances.
THEOREM StoreConsistent ==
  ASSUME IsInjective(InitialChain)
  PROVE  Spec => []Consistent
<1>1. Init => Consistent
  <2>1. InitialChain \in Seq(Keys) /\ Len(InitialChain) \in Nat
    BY ChainAssumption, LenProperties
  <2>. QED
    BY <2>1 DEF Init, Consistent, InsideHoldsLock, ChainConsistent, CallConsistent,
                Inside, IsInjective
<1>2. TypeOK /\ Consistent /\ [Next]_vars => Consistent'
  BY ConsistentStep
<1>. QED
  BY <1>1, <1>2, TypeCorrect, PTL DEF Spec

\* No idempotency key is on the chain twice.
THEOREM KeysStayUnique ==
  ASSUME IsInjective(InitialChain)
  PROVE  Spec => []NoDuplicateKey
<1>1. Consistent => NoDuplicateKey
  BY CleanChain DEF Consistent, NoDuplicateKey
<1>. QED
  BY <1>1, StoreConsistent, PTL

\* No sequence gets a second record file.
THEOREM ChainStaysOne ==
  ASSUME IsInjective(InitialChain)
  PROVE  Spec => []NoParallelChain
<1>1. Consistent => NoParallelChain
  BY DEF Consistent, ChainConsistent, NoParallelChain
<1>. QED
  BY <1>1, StoreConsistent, PTL

\* Acknowledgements name the records that carry their keys, and a head that
\* exists commits to all of them.
THEOREM AcknowledgedStays ==
  ASSUME IsInjective(InitialChain)
  PROVE  Spec => [](AckNamesRecord /\ AckedIsCommitted)
<1>1. Consistent => AckNamesRecord /\ AckedIsCommitted
  BY DEF Consistent, ChainConsistent, Names, AckNamesRecord, AckedIsCommitted
<1>. QED
  BY <1>1, StoreConsistent, PTL

\* Under the lock the only step that changes the chain writes one record, of a
\* key the chain does not hold.
LEMMA OneRecordAtATime ==
  ASSUME TypeOK, InsideHoldsLock, ChainConsistent, ChainConsistent', \A v \in Writers : CallConsistent(v),
         NEW w \in Writers, AppendStep(w) \/ RepairStep(w)
  PROVE  \/ UNCHANGED records
         \/ \E k \in Keys \ Range(records) : records' = Append(records, k)
<1>1. Len(records) \in Nat /\ ~HasGap(records) /\ ~HasDuplicate(records) /\ CallConsistent(w)
  BY CleanChain
<1>2. CASE WriteRecord(w)
  <2>1. base[w] = Len(records)
    BY <1>1, <1>2 DEF WriteRecord, CallConsistent
  <2>2. PICK k : k = todo[w][1]
    OBVIOUS
  <2>3. records' = Append(records, k)
    <3>1. base[w] + 1 > Len(records)
      BY <1>1, <2>1
    <3>. QED
      BY <1>2, <2>2, <3>1 DEF WriteRecord
  <2>4. k \in Keys
    <3>1. todo[w] \in Seq(Keys) /\ todo[w] # <<>>
      BY <1>2 DEF WriteRecord, TypeOK
    <3>. QED
      BY <2>2, <3>1, HeadOfTodo
  <2>5. k \notin Range(records)
    <3>1. records \in Seq(Keys)
      BY DEF ChainConsistent
    <3>2. /\ Len(records') = Len(records) + 1 /\ records'[Len(records) + 1] = k
          /\ \A i \in 1..Len(records) : records'[i] = records[i]
      BY <2>3, <2>4, <3>1, AppendProperties
    <3>3. \A i, j \in 1..Len(records') : records'[i] = records'[j] => i = j
      <4>1. records' \in Seq(Keys) /\ IsInjective(records')
        BY DEF ChainConsistent
      <4>. QED
        BY <4>1, LenProperties DEF IsInjective
    <3>4. \A i \in 1..Len(records) : records[i] # k
      BY <1>1, <3>2, <3>3
    <3>. QED
      BY <3>4, CleanChain
  <2>. QED
    BY <2>3, <2>4, <2>5
<1>3. CASE AppendStep(w) /\ ~WriteRecord(w)
  BY <1>3 DEF AppendStep, VerifyTip, LoadIndex, RebuildIndex, RebuildBinding, Replay,
     RecoverIndex, RecoverBinding, NothingNew, PublishHead, AppendRows, WriteBinding, files
<1>4. CASE RepairStep(w)
  <2>1. ~Quarantine(w)
    BY <1>1 DEF Quarantine, CallConsistent
  <2>. QED
    BY <1>4, <2>1 DEF RepairStep, RepairScan, RepairRefuse, RepairHead
<1>. QED
  BY <1>2, <1>3, <1>4

\* The event store implements EventLog: processes that die between any two file
\* operations, repairs and a damaged index never show in the log.
THEOREM StoreImplementsLog ==
  ASSUME IsInjective(InitialChain)
  PROVE  Spec => ImplementsLog
<1>. USE DEF files, locals, history
<1>1. Init => Log!Init
  BY DEF Init, Log!Init
<1>2. TypeOK /\ TypeOK' /\ Consistent /\ Consistent' /\ [Next]_vars
        => [Log!Next]_<<records, acked, stolen>>
  <2>. SUFFICES ASSUME TypeOK, TypeOK', Consistent, Consistent', [Next]_vars
                PROVE  [Log!Next]_<<records, acked, stolen>>
    OBVIOUS
  <2>1. CASE stolen'
    BY <2>1 DEF Log!Next, Log!Broken
  <2>2. CASE ~stolen'
    <3>1. stolen' = stolen
      BY <2>2, StolenIsForever DEF TypeOK
    <3>2. /\ InsideHoldsLock /\ ChainConsistent /\ \A v \in Writers : CallConsistent(v)
          /\ ChainConsistent'
      BY <2>2, StolenIsForever DEF Consistent
    <3>3. ASSUME UNCHANGED <<records, acked>> PROVE [Log!Next]_<<records, acked, stolen>>
      BY <3>1, <3>3
    <3>4. ASSUME NEW w \in Writers, AppendStep(w) \/ RepairStep(w)
          PROVE  [Log!Next]_<<records, acked, stolen>>
      <4>1. acked' = acked
        BY <3>4, WorkFrame
      <4>2. CASE UNCHANGED records
        BY <3>3, <4>1, <4>2
      <4>3. ASSUME NEW k \in Keys \ Range(records), records' = Append(records, k)
            PROVE  Log!Next
        <5>1. Log!Add
          BY <4>1, <4>3 DEF Log!Add, Range, Log!Range
        <5>. QED
          BY <3>1, <5>1, Zenon DEF Log!Next
      <4>. QED
        BY <3>2, <3>4, <4>2, <4>3, OneRecordAtATime
    <3>5. ASSUME NEW w \in Writers, Release(w) PROVE Log!Next
      <4>1. records' = records /\ acked \subseteq acked'
        BY <3>5 DEF Release
      <4>2. \A a \in acked' : a.seq \in 1..Len(records) /\ records[a.seq] = a.key
        BY <3>2, <4>1 DEF ChainConsistent, Names
      <4>3. Log!Acknowledge
        BY <4>1, <4>2 DEF Log!Acknowledge
      <4>. QED
        BY <3>1, <4>3, Zenon DEF Log!Next
    <3>6. ASSUME NEW w \in Writers, LockStep(w), ~Release(w) PROVE UNCHANGED <<records, acked>>
      BY <3>6 DEF LockStep, Acquire, TimeOut, JudgeDead, Reclaim
    <3>7. ASSUME NEW w \in Writers, CallRepair(w) \/ Crash(w) \/ Restart(w)
          PROVE  UNCHANGED <<records, acked>>
      BY <3>7 DEF CallRepair, Crash, Restart
    <3>8. ASSUME NEW w \in Writers, NEW b \in Batches, Call(w, b) PROVE UNCHANGED <<records, acked>>
      BY <3>8 DEF Call
    <3>9. ASSUME NEW r \in Readers, ReadStep(r) \/ ReadStart(r) PROVE UNCHANGED <<records, acked>>
      BY <3>9 DEF ReadStep, ReadStart, ReadBefore, ReadRecords, ReadAfter, ReadLock
    <3>10. CASE DamageIndex \/ UNCHANGED vars
      BY <3>3, <3>10 DEF DamageIndex, vars
    <3>. QED
      BY <3>3, <3>4, <3>5, <3>6, <3>7, <3>8, <3>9, <3>10, NextCases DEF Step
  <2>. QED
    BY <2>1, <2>2
<1>. QED
  BY <1>1, <1>2, TypeCorrect, StoreConsistent, PTL DEF Spec, ImplementsLog, Log!Spec
----------------------------------------------------------------------------
(* Readers *)

\* A set of numbers none of which exceeds a bound has a greatest element, and Max is it.
LEMMA MaxProperties ==
  ASSUME NEW S \in SUBSET Nat, S # {}, NEW n \in Nat, \A x \in S : x <= n
  PROVE  Max(S) \in S /\ \A x \in S : x <= Max(S)
<1>. DEFINE Bounds == {m \in Nat : \A x \in S : x <= m}
<1>. DEFINE m == Min(Bounds)
<1>1. Bounds \in SUBSET Nat /\ n \in Bounds
  OBVIOUS
<1>2. m \in Bounds /\ \A x \in Bounds : m <= x
  BY <1>1, MinProperties
<1>. HIDE DEF m
<1>3. m \in Nat /\ \A x \in S : x <= m
  BY <1>2
<1>4. m \in S
  <2>. SUFFICES ASSUME m \notin S PROVE FALSE
    OBVIOUS
  <2>1. \A x \in S : x <= m - 1
    BY <1>3
  <2>2. m - 1 \in Nat
    <3>1. PICK x \in S : TRUE
      OBVIOUS
    <3>2. x \in Nat /\ x <= m - 1
      BY <2>1, <3>1
    <3>. QED
      BY <1>3, <3>2
  <2>3. m - 1 \in Bounds
    BY <2>1, <2>2
  <2>. QED
    BY <1>2, <1>3, <2>3
<1>5. \E y \in S : \A x \in S : y >= x
  BY <1>3, <1>4
<1>6. Max(S) \in S /\ \A x \in S : Max(S) >= x
  BY <1>5, Zenon DEF Max
<1>. QED
  BY <1>6

\* While no live holder loses its lock, records are only added, and the head stays, is
\* taken away by a repair, or comes to commit to the whole chain.
LEMMA HeadStep ==
  ASSUME TypeOK, Consistent, Consistent', [Next]_vars, ~stolen'
  PROVE  /\ Len(records) \in Nat /\ Len(records') \in Nat /\ Len(records) <= Len(records')
         /\ head' = head \/ head' = 0 \/ head' = Len(records')
<1>. USE DEF files, locals, history
<1>1. /\ InsideHoldsLock /\ ChainConsistent /\ \A v \in Writers : CallConsistent(v)
      /\ ChainConsistent' /\ InsideHoldsLock' /\ \A v \in Writers : CallConsistent(v)'
  BY StolenIsForever DEF Consistent
<1>2. Len(records) \in Nat /\ ~HasGap(records) /\ ~HasDuplicate(records)
  BY <1>1, CleanChain
<1>. DEFINE Goal == /\ Len(records) \in Nat /\ Len(records') \in Nat /\ Len(records) <= Len(records')
                    /\ head' = head \/ head' = 0 \/ head' = Len(records')
<1>3. ASSUME UNCHANGED <<records, head>> PROVE Goal
  BY <1>2, <1>3
<1>4. ASSUME NEW w \in Writers, AppendStep(w) \/ RepairStep(w) PROVE Goal
  <2>1. CallConsistent(w)
    BY <1>1
  <2>2. Len(records') \in Nat /\ Len(records) <= Len(records')
    <3>1. ASSUME NEW k \in Keys, records' = Append(records, k)
          PROVE  Len(records') \in Nat /\ Len(records) <= Len(records')
      BY <1>2, <3>1, AppendProperties DEF TypeOK
    <3>. QED
      BY <1>1, <1>2, <1>4, <3>1, OneRecordAtATime
  <2>3. CASE AppendStep(w)
    <3>1. CASE PublishHead(w)
      <4>1. base[w] = Len(records) /\ records' = records /\ head' = base[w]
        BY <2>1, <3>1 DEF PublishHead, CallConsistent
      <4>. QED
        BY <2>2, <4>1, <1>2
    <3>2. CASE ~PublishHead(w)
      <4>1. head' = head
        BY <2>3, <3>2 DEF AppendStep, VerifyTip, LoadIndex, RebuildIndex, RebuildBinding, Replay,
           RecoverIndex, RecoverBinding, WriteRecord, NothingNew, AppendRows, WriteBinding
      <4>. QED
        BY <1>2, <2>2, <4>1
    <3>. QED
      BY <3>1, <3>2
  <2>4. CASE RepairStep(w)
    <3>1. ~RepairRefuse(w) /\ ~Quarantine(w)
      BY <1>2, <2>1 DEF RepairRefuse, Quarantine, CallConsistent
    <3>2. head' = head \/ head' = 0 \/ head' = Len(records')
      BY <2>4, <3>1 DEF RepairStep, RepairScan, RepairHead
    <3>. QED
      BY <1>2, <2>2, <3>2
  <2>. QED
    BY <1>4, <2>3, <2>4
<1>5. ASSUME NEW w \in Writers, LockStep(w) \/ CallRepair(w) \/ Crash(w) \/ Restart(w)
      PROVE  UNCHANGED <<records, head>>
  BY <1>5 DEF LockStep, Acquire, TimeOut, JudgeDead, Reclaim, Release, CallRepair, Crash, Restart
<1>6. ASSUME NEW w \in Writers, NEW b \in Batches, Call(w, b) PROVE UNCHANGED <<records, head>>
  BY <1>6 DEF Call
<1>7. ASSUME NEW r \in Readers, ReadStep(r) \/ ReadStart(r) PROVE UNCHANGED <<records, head>>
  BY <1>7 DEF ReadStep, ReadStart, ReadBefore, ReadRecords, ReadAfter, ReadLock
<1>8. ASSUME DamageIndex \/ UNCHANGED vars PROVE UNCHANGED <<records, head>>
  BY <1>8 DEF DamageIndex, vars
<1>. QED
  BY <1>3, <1>4, <1>5, <1>6, <1>7, <1>8, NextCases DEF Step

\* The local variables of a verification, and what they say of the chain.
Reading == [pc : {"idle", "before", "list", "after", "lock", "ok", "failed", "busy"}, before : Nat,
            seen : Nat, attempt : Nat, known : Nat]
ReadSound(r) ==
  /\ rd[r].known <= Len(records)
  /\ rd[r].pc \in {"after", "ok"} => rd[r].known <= rd[r].seen /\ rd[r].seen <= Len(records)
  /\ rd[r].pc = "ok" /\ head # 0 => rd[r].seen <= head
ReadersSound == ~stolen => rd \in [Readers -> Reading] /\ \A r \in Readers : ReadSound(r)

\* What a reader takes for the newest acknowledgement is the number of a record.
LEMMA NewestAcknowledged ==
  ASSUME TypeOK, ChainConsistent
  PROVE  /\ Max({a.seq : a \in acked} \union {0}) \in Nat
         /\ Max({a.seq : a \in acked} \union {0}) <= Len(records)
<1>. DEFINE S == {a.seq : a \in acked} \union {0}
<1>1. Len(records) \in Nat
  BY LenProperties DEF TypeOK
<1>2. S \in SUBSET Nat /\ S # {}
  BY DEF TypeOK, Row
<1>3. \A x \in S : x <= Len(records)
  BY <1>1 DEF ChainConsistent, Names
<1>4. Max(S) \in S
  <2>. HIDE DEF S
  <2>. QED
    BY <1>1, <1>2, <1>3, MaxProperties
<1>. QED
  BY <1>2, <1>3, <1>4

\* A step of a reader relies only on what it read and on a chain that never shrinks.
LEMMA ReaderKeeps ==
  ASSUME TypeOK, ChainConsistent, rd \in [Readers -> Reading], \A r \in Readers : ReadSound(r),
         NEW r \in Readers, ReadStep(r) \/ ReadStart(r)
  PROVE  rd' \in [Readers -> Reading] /\ \A q \in Readers : ReadSound(q)'
<1>1. UNCHANGED <<records, head>>
  BY DEF ReadStep, ReadStart, ReadBefore, ReadRecords, ReadAfter, ReadLock, files
<1>2. Len(records) \in Nat /\ head \in Nat /\ head <= Len(records)
  BY LenProperties DEF TypeOK, ChainConsistent
<1>. DEFINE Good(v) ==
       /\ v \in Reading
       /\ v.known <= Len(records)
       /\ v.pc \in {"after", "ok"} => v.known <= v.seen /\ v.seen <= Len(records)
       /\ v.pc = "ok" /\ head # 0 => v.seen <= head
<1>3. SUFFICES ASSUME NEW v, SetRd(r, v), Good(v)
               PROVE  rd' \in [Readers -> Reading] /\ \A q \in Readers : ReadSound(q)'
  <2>. SUFFICES \E v : SetRd(r, v) /\ Good(v)
    OBVIOUS
  <2>1. rd[r] \in Reading /\ ReadSound(r)
    OBVIOUS
  <2>2. PICK b, s, a, k : /\ rd[r].before = b /\ rd[r].seen = s /\ rd[r].attempt = a /\ rd[r].known = k
                          /\ b \in Nat /\ s \in Nat /\ a \in Nat /\ k \in Nat /\ k <= Len(records)
    BY <2>1 DEF Reading, ReadSound
  <2>3. Good([NoRead EXCEPT !.pc = "failed"]) /\ Good([NoRead EXCEPT !.pc = "busy"])
    <3>1. ASSUME NEW l \in {"failed", "busy"} PROVE Good([NoRead EXCEPT !.pc = l])
      <4>1. [NoRead EXCEPT !.pc = l] = [pc |-> l, before |-> 0, seen |-> 0, attempt |-> 1, known |-> 0]
        BY DEF NoRead
      <4>. QED
        BY <1>2, <4>1 DEF Reading
    <3>. QED
      BY <3>1
  <2>4. Good(NextAttempt(rd[r]))
    <3>1. CASE a = 3
      BY <2>2, <2>3, <3>1 DEF NextAttempt
    <3>2. CASE a # 3
      <4>1. PICK n \in Nat : n = a + 1
        BY <2>2
      <4>2. PICK u : u = [rd[r] EXCEPT !.pc = "before", !.before = 0, !.seen = 0, !.attempt = n]
        OBVIOUS
      <4>3. u \in Reading /\ u.pc = "before" /\ u.known = rd[r].known
        BY <2>1, <4>2 DEF Reading
      <4>4. NextAttempt(rd[r]) = u
        BY <2>2, <3>2, <4>1, <4>2 DEF NextAttempt
      <4>. QED
        BY <2>2, <4>3, <4>4
    <3>. QED
      BY <3>1, <3>2
  <2>5. CASE ReadStart(r)
    <3>1. PICK m : m = Max({x.seq : x \in acked} \union {0})
      OBVIOUS
    <3>2. m \in Nat /\ m <= Len(records)
      BY <3>1, NewestAcknowledged
    <3>3. SetRd(r, [NoRead EXCEPT !.pc = "before", !.known = m])
      BY <2>5, <3>1 DEF ReadStart
    <3>4. Good([NoRead EXCEPT !.pc = "before", !.known = m])
      BY <3>2 DEF NoRead, Reading
    <3>. QED
      BY <3>3, <3>4
  <2>6. CASE ReadBefore(r)
    <3>1. SetRd(r, [rd[r] EXCEPT !.pc = "list", !.before = head])
      BY <2>6 DEF ReadBefore
    <3>2. Good([rd[r] EXCEPT !.pc = "list", !.before = head])
      <4>1. PICK u : u = [rd[r] EXCEPT !.pc = "list", !.before = head]
        OBVIOUS
      <4>2. u \in Reading /\ u.pc = "list" /\ u.known = rd[r].known
        BY <1>2, <2>1, <2>2, <4>1 DEF Reading
      <4>3. Good(u)
        BY <1>2, <2>1, <2>2, <4>2
      <4>. QED
        BY <4>1, <4>3
    <3>. QED
      BY <3>1, <3>2
  <2>7. CASE ReadRecords(r)
    <3>1. CASE SetRd(r, [NoRead EXCEPT !.pc = "failed"])
      BY <2>3, <3>1
    <3>2. CASE SetRd(r, [rd[r] EXCEPT !.pc = "after", !.seen = Len(records)])
      <4>1. Good([rd[r] EXCEPT !.pc = "after", !.seen = Len(records)])
        <5>1. PICK u : u = [rd[r] EXCEPT !.pc = "after", !.seen = Len(records)]
          OBVIOUS
        <5>2. u \in Reading /\ u.pc = "after" /\ u.seen = Len(records) /\ u.known = rd[r].known
          BY <1>2, <2>1, <2>2, <5>1 DEF Reading
        <5>3. Good(u)
          BY <1>2, <2>1, <2>2, <5>2
        <5>. QED
          BY <5>1, <5>3
      <4>. QED
        BY <3>2, <4>1
    <3>. QED
      BY <2>7, <3>1, <3>2 DEF ReadRecords, SetRd
  <2>8. CASE ReadAfter(r)
    <3>1. k <= s /\ s <= Len(records)
      BY <2>1, <2>2, <2>8 DEF ReadAfter, ReadSound
    <3>2. CASE b # head
      BY <2>2, <2>4, <2>8, <3>2 DEF ReadAfter, SetRd
    <3>3. CASE b = head /\ head = s
      <4>1. SetRd(r, [rd[r] EXCEPT !.pc = "ok", !.attempt = 1])
        BY <2>2, <2>8, <3>3 DEF ReadAfter
      <4>2. Good([rd[r] EXCEPT !.pc = "ok", !.attempt = 1])
        <5>1. PICK u : u = [rd[r] EXCEPT !.pc = "ok", !.attempt = 1]
          OBVIOUS
        <5>2. u \in Reading /\ u.pc = "ok" /\ u.seen = rd[r].seen /\ u.known = rd[r].known
          BY <1>2, <2>1, <2>2, <5>1 DEF Reading
        <5>3. Good(u)
          BY <2>1, <2>2, <3>1, <3>3, <5>2
        <5>. QED
          BY <5>1, <5>3
      <4>. QED
        BY <4>1, <4>2
    <3>4. CASE b = head /\ head # s
      <4>1. SetRd(r, [rd[r] EXCEPT !.pc = "lock", !.attempt = a])
        BY <2>2, <2>8, <3>4 DEF ReadAfter
      <4>2. Good([rd[r] EXCEPT !.pc = "lock", !.attempt = a])
        <5>1. PICK u : u = [rd[r] EXCEPT !.pc = "lock", !.attempt = a]
          OBVIOUS
        <5>2. u \in Reading /\ u.pc = "lock" /\ u.seen = rd[r].seen /\ u.known = rd[r].known
          BY <1>2, <2>1, <2>2, <5>1 DEF Reading
        <5>3. Good(u)
          BY <2>1, <2>2, <5>2
        <5>. QED
          BY <5>1, <5>3
      <4>. QED
        BY <4>1, <4>2
    <3>. QED
      BY <3>2, <3>3, <3>4
  <2>9. CASE ReadLock(r)
    BY <2>3, <2>4, <2>9 DEF ReadLock, SetRd
  <2>. QED
    BY <2>5, <2>6, <2>7, <2>8, <2>9 DEF ReadStep
<1>4. rd' = [rd EXCEPT ![r] = v]
  BY <1>3 DEF SetRd
<1>5. rd' \in [Readers -> Reading] /\ rd'[r] = v /\ \A q \in Readers \ {r} : rd'[q] = rd[q]
  BY <1>3, <1>4
<1>6. ASSUME NEW q \in Readers PROVE ReadSound(q)'
  BY <1>1, <1>3, <1>5 DEF ReadSound
<1>. QED
  BY <1>5, <1>6

LEMMA ReadersStep ==
  ASSUME TypeOK, Consistent, Consistent', ReadersSound, [Next]_vars
  PROVE  ReadersSound'
<1>. USE DEF files, locals, history
<1>. SUFFICES ASSUME ~stolen'
              PROVE  (rd \in [Readers -> Reading] /\ \A r \in Readers : ReadSound(r))'
  BY DEF ReadersSound
<1>1. /\ ChainConsistent /\ rd \in [Readers -> Reading] /\ \A r \in Readers : ReadSound(r)
      /\ ChainConsistent'
  BY StolenIsForever DEF Consistent, ReadersSound
<1>2. CASE \E r \in Readers : ReadStep(r) \/ ReadStart(r)
  BY <1>1, <1>2, ReaderKeeps
<1>3. CASE UNCHANGED rd
  <2>1. /\ Len(records) \in Nat /\ Len(records') \in Nat /\ Len(records) <= Len(records')
        /\ head' = head \/ head' = 0 \/ head' = Len(records')
    BY HeadStep
  <2>2. head \in Nat
    BY DEF TypeOK
  <2>3. ASSUME NEW r \in Readers PROVE ReadSound(r)'
    <3>1. ReadSound(r) /\ rd[r] \in Reading
      BY <1>1
    <3>2. rd[r].known \in Nat /\ rd[r].seen \in Nat
      BY <3>1 DEF Reading
    <3>. QED
      BY <1>3, <2>1, <2>2, <3>1, <3>2 DEF ReadSound
  <2>. QED
    BY <1>1, <1>3, <2>3
<1>4. ASSUME NEW w \in Writers, Step(w) \/ CallRepair(w) \/ Crash(w) \/ Restart(w) PROVE UNCHANGED rd
  <2>1. CASE LockStep(w)
    BY <2>1 DEF LockStep, Acquire, TimeOut, JudgeDead, Reclaim, Release
  <2>2. CASE AppendStep(w)
    BY <2>2 DEF AppendStep, VerifyTip, LoadIndex, RebuildIndex, RebuildBinding, Replay,
       RecoverIndex, RecoverBinding, WriteRecord, NothingNew, PublishHead, AppendRows, WriteBinding
  <2>3. CASE RepairStep(w)
    BY <2>3 DEF RepairStep, RepairScan, RepairRefuse, Quarantine, RepairHead
  <2>4. CASE CallRepair(w) \/ Crash(w) \/ Restart(w)
    BY <2>4 DEF CallRepair, Crash, Restart
  <2>. QED
    BY <1>4, <2>1, <2>2, <2>3, <2>4 DEF Step
<1>5. ASSUME NEW w \in Writers, NEW b \in Batches, Call(w, b) PROVE UNCHANGED rd
  BY <1>5 DEF Call
<1>6. ASSUME DamageIndex \/ UNCHANGED vars PROVE UNCHANGED rd
  BY <1>6 DEF DamageIndex, vars
<1>. QED
  BY <1>2, <1>3, <1>4, <1>5, <1>6, NextCases

\* Acknowledgements name records that carry their keys, and what a reader without the lock
\* verified holds everything acknowledged before it began and is never taken back: for any
\* number of writers, readers, deaths, repairs and disturbances of the index.
THEOREM AnswersAreSo ==
  ASSUME IsInjective(InitialChain)
  PROVE  Spec => []AnswersStand
<1>1. Init => ReadersSound
  <2>1. Len(InitialChain) \in Nat
    BY ChainAssumption, LenProperties
  <2>. QED
    BY <2>1 DEF Init, ReadersSound, ReadSound, Reading, NoRead
<1>2. TypeOK /\ Consistent /\ Consistent' /\ ReadersSound /\ [Next]_vars => ReadersSound'
  BY ReadersStep
<1>3. Consistent /\ ReadersSound => AnswersStand
  BY DEF Consistent, ChainConsistent, Names, ReadersSound, ReadSound, AnswersStand, AckNamesRecord, ReadIsDurable
<1>. QED
  BY <1>1, <1>2, <1>3, TypeCorrect, StoreConsistent, PTL DEF Spec
----------------------------------------------------------------------------
(* Repairs *)

\* The first n records carry keys, no two of them the same.
CleanUpTo(n) == \A i \in 1..n : records[i] # Hole /\ \A j \in 1..(i - 1) : records[j] # records[i]
Whole == CleanUpTo(Len(records)) /\ head = Len(records)

\* The index a repair has written and the rows it keeps to count them.
Rebuilt(w) == index = RowsOf(records) /\ rows[w] = Range(RowsOf(records))

\* What a call may rely on: an append has something left or something answered, a repair
\* leaves records behind that are clean, and has records to move before it is done.
RepairSound(w) ==
  /\ pc[w] \in {"acquire", "reclaim", "verify", "index", "rebuild", "rebind", "loop", "recover", "rows",
                "bind"} => todo[w] # <<>> \/ out[w] # {}
  /\ pc[w] = "quarantine" =>
       /\ base[w] <= Len(records) /\ CleanUpTo(base[w])
       /\ \E i \in (base[w] + 1)..Len(records) : records[i] # Hole
  /\ pc[w] = "repairHead" => CleanUpTo(Len(records))
  /\ pc[w] \in {"repairIndex", "repairBind"} => Whole
  /\ pc[w] = "repairBind" /\ damage = 0 => Rebuilt(w)
  /\ pc[w] = "ack" /\ todo[w] = <<>> /\ out[w] = {} => Whole /\ (damage = 0 => IndexTrusted(head))

RepairsSound == ~stolen => InsideHoldsLock /\ \A w \in Writers : RepairSound(w)

\* Clean to its end is what the walk from genesis calls consistent.
LEMMA CleanIsSound ==
  ASSUME TypeOK
  PROVE  CleanUpTo(Len(records)) <=> ~HasGap(records) /\ ~HasDuplicate(records)
<1>1. Len(records) \in Nat
  BY LenProperties DEF TypeOK
<1>. QED
  BY <1>1 DEF CleanUpTo, HasGap, HasDuplicate, Repeats

\* An index that was rebuilt over a clean chain and bound to the number of its rows is trusted.
LEMMA RebuiltIsTrusted ==
  ASSUME TypeOK, Whole, index = RowsOf(records), binding = Cardinality(Range(RowsOf(records)))
  PROVE  IndexTrusted(head)
<1>. DEFINE R == RowsOf(records)
            n == Len(records)
            K == {r.key : r \in Range(R)}
<1>1. n \in Nat /\ head = n /\ CleanUpTo(n)
  BY LenProperties DEF TypeOK, Whole
<1>2. /\ R \in Seq(Row) /\ Len(R) = n /\ DOMAIN R = 1..n
      /\ \A i \in 1..n : R[i] = [key |-> records[i], seq |-> i]
  BY RowsOfType, LenProperties DEF TypeOK
<1>. HIDE DEF R, n
<1>3. \A i \in 1..n : R[i].seq = i /\ R[i].key = records[i]
  BY <1>2
<1>4. \A i, j \in 1..n : records[i] = records[j] => i = j
  <2>. SUFFICES ASSUME NEW i \in 1..n, NEW j \in 1..n, records[i] = records[j], i < j PROVE FALSE
    BY <1>1
  <2>. QED
    BY <1>1 DEF CleanUpTo
<1>5. IsFiniteSet(1..n) /\ Cardinality(1..n) = n
  <2>1. 1 \in Int /\ n \in Int
    BY <1>1
  <2>2. IsFiniteSet(1..n) /\ Cardinality(1..n) = IF 1 > n THEN 0 ELSE n - 1 + 1
    BY <2>1, FS_Interval, ZenonT(60)
  <2>. QED
    BY <1>1, <2>2
<1>6. Cardinality(Range(R)) = n
  <2>1. R \in [1..n -> Range(R)]
    BY <1>2 DEF Range
  <2>2. R \in Bijection(1..n, Range(R))
    BY <1>2, <1>3, <2>1 DEF Bijection, Injection, IsInjective, Surjection, Range
  <2>3. ExistsBijection(1..n, Range(R))
    BY <2>2 DEF ExistsBijection
  <2>. QED
    BY <1>5, <2>3, FS_Bijection
<1>7. Cardinality(K) = n
  <2>. DEFINE f == [i \in 1..n |-> records[i]]
  <2>1. \A x : x \in K <=> \E i \in 1..n : x = records[i]
    BY <1>2, <1>3 DEF Range
  <2>. HIDE DEF K
  <2>2. f \in [1..n -> K] /\ \A x \in K : \E i \in 1..n : f[i] = x
    BY <2>1
  <2>3. f \in Bijection(1..n, K)
    BY <1>4, <2>2 DEF Bijection, Injection, IsInjective, Surjection
  <2>4. ExistsBijection(1..n, K)
    BY <2>3 DEF ExistsBijection
  <2>. QED
    BY <1>5, <2>4, FS_Bijection
<1>8. {r.seq : r \in Range(R)} = 1..n
  BY <1>2, <1>3 DEF Range
<1>9. R # NoFile
  <2>1. \A i \in 1..n : R[i] \in [key : Keys \union {Hole}, seq : Nat]
    BY <1>2, ElementOfSeq DEF Row
  <2>2. R \in [1..n -> [key : Keys \union {Hole}, seq : Nat]]
    BY <1>2, <2>1, LenProperties
  <2>3. R \in Seq([key : Keys \union {Hole}, seq : Nat])
    BY <1>1, <2>2, SeqDef
  <2>. QED
    BY <2>3, ChainAssumption
<1>. QED
  BY <1>1, <1>2, <1>6, <1>7, <1>8, <1>9 DEF IndexTrusted, R, n

\* What precedes the first duplicate of a chain without gaps is clean, and the duplicate
\* itself is a record to move.
LEMMA BeforeTheDuplicate ==
  ASSUME TypeOK, ~HasGap(records), HasDuplicate(records)
  PROVE  /\ FirstDuplicate(records) - 1 \in Nat /\ FirstDuplicate(records) <= Len(records)
         /\ CleanUpTo(FirstDuplicate(records) - 1)
         /\ FirstDuplicate(records) \in Nat /\ records[FirstDuplicate(records)] # Hole
<1>. DEFINE S == {i \in 1..Len(records) : Repeats(records, i)}
<1>1. Len(records) \in Nat
  BY LenProperties DEF TypeOK
<1>2. S \in SUBSET Nat /\ S # {}
  BY <1>1 DEF HasDuplicate
<1>3. PICK f : f = FirstDuplicate(records)
  OBVIOUS
<1>4. f \in S /\ \A i \in S : f <= i
  BY <1>2, <1>3, MinProperties DEF FirstDuplicate
<1>5. f \in 1..Len(records) /\ records[f] # Hole
  BY <1>4 DEF HasGap
<1>6. \A i \in 1..(f - 1) : i \in 1..Len(records) /\ ~Repeats(records, i) /\ records[i] # Hole
  BY <1>1, <1>4, <1>5 DEF HasGap
<1>7. CleanUpTo(f - 1)
  BY <1>6 DEF CleanUpTo, Repeats
<1>. QED
  BY <1>1, <1>3, <1>5, <1>7

\* One rename of the quarantine loop: what is to stay is untouched, and there is more to
\* move unless this was the last.
LEMMA QuarantineKeeps ==
  ASSUME TypeOK, NEW w \in Writers, RepairSound(w), Quarantine(w)
  PROVE  RepairSound(w)'
<1>1. Len(records) \in Nat /\ records \in Seq(Keys \union {Hole}) /\ DOMAIN records = 1..Len(records)
  BY LenProperties DEF TypeOK
<1>2. PICK cut : cut = IF pc[w] = "walk" THEN FirstDuplicate(records) - 1 ELSE base[w]
  OBVIOUS
<1>. DEFINE rest == {i \in (cut + 1)..Len(records) : records[i] # Hole}
<1>3. cut \in Nat /\ cut <= Len(records) /\ CleanUpTo(cut) /\ rest # {}
  <2>1. CASE pc[w] = "walk"
    <3>1. ~HasGap(records) /\ HasDuplicate(records)
      BY <2>1 DEF Quarantine
    <3>2. PICK f : f = FirstDuplicate(records)
      OBVIOUS
    <3>3. f \in Nat /\ f - 1 \in Nat /\ f <= Len(records) /\ CleanUpTo(f - 1) /\ records[f] # Hole /\ cut = f - 1
      BY <1>2, <2>1, <3>1, <3>2, BeforeTheDuplicate
    <3>4. f \in rest
      BY <1>1, <3>3
    <3>. QED
      BY <1>1, <3>3, <3>4
  <2>2. CASE pc[w] # "walk"
    <3>1. pc[w] = "quarantine" /\ cut = base[w] /\ base[w] \in Nat
      BY <1>2, <2>2 DEF Quarantine, TypeOK
    <3>. QED
      BY <3>1 DEF RepairSound
  <2>. QED
    BY <2>1, <2>2
<1>4. rest \in SUBSET Nat /\ IsFiniteSet(rest)
  <2>1. cut + 1 \in Int /\ Len(records) \in Int
    BY <1>1, <1>3
  <2>2. IsFiniteSet((cut + 1)..Len(records))
    BY <2>1, FS_Interval, ZenonT(60)
  <2>3. rest \in SUBSET ((cut + 1)..Len(records))
    OBVIOUS
  <2>4. IsFiniteSet(rest)
    BY <2>2, <2>3, FS_Subset, ZenonT(60)
  <2>. QED
    BY <1>1, <1>3, <2>4
<1>. DEFINE last == Cardinality(rest) = 1
<1>5. /\ base' = [base EXCEPT ![w] = cut]
      /\ records' = IF last THEN SubSeq(records, 1, cut) ELSE [records EXCEPT ![Min(rest)] = Hole]
      /\ pc' = [pc EXCEPT ![w] = IF last THEN "repairHead" ELSE "quarantine"]
  BY <1>2 DEF Quarantine, GoTo
<1>6. base'[w] = cut /\ pc'[w] = IF last THEN "repairHead" ELSE "quarantine"
  BY <1>5 DEF TypeOK
<1>7. CASE last
  <2>1. pc'[w] = "repairHead" /\ records' = SubSeq(records, 1, cut)
    BY <1>5, <1>6, <1>7
  <2>2. Len(records') = cut /\ \A i \in 1..cut : records'[i] = records[i]
    BY <1>1, <1>3, <2>1, SubSeqProperties
  <2>4. CleanUpTo(cut)
    BY <1>3
  <2>5. \A i \in 1..cut : records'[i] # Hole /\ \A j \in 1..(i - 1) : records'[j] # records'[i]
    BY <1>1, <1>3, <2>2, <2>4 DEF CleanUpTo
  <2>3. CleanUpTo(Len(records))'
    BY <2>2, <2>5 DEF CleanUpTo
  <2>. QED
    BY <2>1, <2>3 DEF RepairSound
<1>8. CASE ~last
  <2>1. pc'[w] = "quarantine" /\ records' = [records EXCEPT ![Min(rest)] = Hole]
    BY <1>5, <1>6, <1>8
  <2>2. PICK m : m = Min(rest)
    OBVIOUS
  <2>3. m \in rest
    BY <1>3, <1>4, <2>2, MinProperties
  <2>4. PICK i \in rest : i # m
    <3>. SUFFICES ASSUME \A i \in rest : i = m PROVE FALSE
      OBVIOUS
    <3>1. rest = {m}
      BY <2>3
    <3>2. Cardinality({m}) = 1
      BY FS_Singleton
    <3>. QED
      BY <1>8, <3>1, <3>2
  <2>5. /\ Len(records') = Len(records)
        /\ \A j \in 1..Len(records) : j # m => records'[j] = records[j]
    BY <1>1, <2>1, <2>2, ExceptSeq
  <2>6. m \notin 1..cut /\ i \in (cut + 1)..Len(records) /\ records'[i] # Hole
    BY <1>1, <1>3, <2>3, <2>4, <2>5
  <2>7. CleanUpTo(cut)'
    <3>1. \A j \in 1..cut : records'[j] = records[j]
      BY <1>1, <1>3, <2>5, <2>6
    <3>. QED
      BY <1>3, <3>1 DEF CleanUpTo
  <2>. QED
    BY <1>3, <1>6, <2>1, <2>5, <2>6, <2>7 DEF RepairSound
<1>. QED
  BY <1>7, <1>8

\* Any other step of a call under the lock.
LEMMA WorkStaysSound ==
  ASSUME TypeOK, NEW w \in Writers, RepairSound(w), AppendStep(w) \/ RepairStep(w)
  PROVE  RepairSound(w)'
<1>. USE DEF GoTo, files, locals, history
<1>1. /\ pc \in [Writers -> Labels] /\ todo \in [Writers -> Seq(Keys)] /\ base \in [Writers -> Nat]
      /\ out \in [Writers -> SUBSET Row]
  BY DEF TypeOK
<1>2. CASE VerifyTip(w) \/ LoadIndex(w)
  BY <1>1, <1>2 DEF VerifyTip, LoadIndex, RepairSound
<1>3. CASE RebuildIndex(w) \/ RebuildBinding(w)
  <2>1. UNCHANGED <<records, head, todo, out, damage>>
    BY <1>3 DEF RebuildIndex, RebuildBinding
  <2>3. pc'[w] = "repairBind" => Rebuilt(w)'
    BY <1>1, <1>3 DEF RebuildIndex, RebuildBinding, Rebuilt, TypeOK
  <2>4. ASSUME pc[w] = "repairBind", damage = 0 PROVE IndexTrusted(head)'
    <3>1. Whole /\ Rebuilt(w) /\ binding' = Cardinality(rows[w]) /\ index' = index
      BY <1>3, <2>4 DEF RebuildIndex, RebuildBinding, RepairSound
    <3>2. TypeOK' /\ Whole'
      <4>1. AppendStep(w)
        BY <1>3 DEF AppendStep
      <4>2. TypeOK'
        BY <4>1, AppendType
      <4>3. Whole'
        BY <2>1, <3>1 DEF Whole, CleanUpTo
      <4>. QED
        BY <4>2, <4>3
    <3>3. index' = RowsOf(records)' /\ binding' = Cardinality(Range(RowsOf(records)))'
      BY <2>1, <3>1 DEF Rebuilt, RowsOf
    <3>. HIDE DEF Whole
    <3>4. TypeOK' /\ Whole' /\ (index = RowsOf(records))' /\ (binding = Cardinality(Range(RowsOf(records))))'
      BY <3>2, <3>3
    <3>. QED
      BY <3>4, RebuiltIsTrusted, PTL
  <2>2. \/ pc[w] = "rebuild" /\ pc'[w] \in {"rebind", "fail"}
        \/ pc[w] = "rebind" /\ pc'[w] = "loop"
        \/ pc[w] = "repairIndex" /\ pc'[w] \in {"repairBind", "fail"}
        \/ pc[w] = "repairBind" /\ pc'[w] = "ack"
    BY <1>1, <1>3 DEF RebuildIndex, RebuildBinding
  <2>. QED
    BY <2>1, <2>2, <2>3, <2>4 DEF RepairSound, Whole, CleanUpTo
<1>4. CASE Replay(w)
  <2>1. pc[w] = "loop"
    BY <1>4 DEF Replay
  <2>2. CASE pc'[w] = "fail"
    BY <2>2 DEF RepairSound
  <2>3. CASE pc'[w] # "fail"
    <3>1. PICK r \in Named(w, todo[w][1]) : out' = [out EXCEPT ![w] = @ \union {r}] /\ pc' = pc
      BY <1>1, <1>4, <2>3 DEF Replay
    <3>2. out'[w] # {} /\ pc'[w] = "loop"
      BY <1>1, <2>1, <3>1
    <3>. QED
      BY <3>2 DEF RepairSound
  <2>. QED
    BY <2>2, <2>3
<1>5. CASE RecoverIndex(w) \/ RecoverBinding(w)
  <2>1. pc'[w] \in {"loop", "recover"} /\ todo[w] # <<>>
    BY <1>1, <1>5 DEF RecoverIndex, RecoverBinding
  <2>2. out'[w] # {} \/ todo'[w] = todo[w]
    <3>1. CASE RecoverIndex(w)
      BY <3>1 DEF RecoverIndex
    <3>2. CASE RecoverBinding(w)
      <4>1. todo' = todo \/ \E r : out' = [out EXCEPT ![w] = @ \union {r}]
        BY <3>2 DEF RecoverBinding
      <4>. QED
        BY <1>1, <4>1
    <3>. QED
      BY <1>5, <3>1, <3>2
  <2>. QED
    BY <2>1, <2>2 DEF RepairSound
<1>6. CASE WriteRecord(w)
  <2>1. pc[w] = "loop" /\ pc' = pc /\ out'[w] # {}
    BY <1>1, <1>6 DEF WriteRecord
  <2>. QED
    BY <2>1 DEF RepairSound
<1>7. CASE NothingNew(w) \/ PublishHead(w) \/ AppendRows(w) \/ WriteBinding(w)
  <2>1. UNCHANGED <<todo, out>> /\ pc[w] \in {"loop", "rows", "bind"} /\ pc'[w] \in {"rows", "bind", "ack"}
    BY <1>1, <1>7 DEF NothingNew, PublishHead, AppendRows, WriteBinding
  <2>. QED
    BY <2>1 DEF RepairSound
<1>8. CASE RepairScan(w) \/ RepairRefuse(w)
  <2>1. pc'[w] \in {"walk", "fail"}
    BY <1>1, <1>8 DEF RepairScan, RepairRefuse
  <2>. QED
    BY <2>1 DEF RepairSound
<1>9. CASE Quarantine(w)
  BY <1>9, QuarantineKeeps
<1>10. CASE RepairHead(w)
  <2>1. pc'[w] = "repairIndex" /\ records' = records /\ head' = Len(records)
    BY <1>1, <1>10 DEF RepairHead
  <2>2. CleanUpTo(Len(records))
    BY <1>10, CleanIsSound DEF RepairHead, RepairSound
  <2>. QED
    BY <2>1, <2>2 DEF RepairSound, Whole, CleanUpTo
<1>. QED
  BY <1>2, <1>3, <1>4, <1>5, <1>6, <1>7, <1>8, <1>9, <1>10 DEF AppendStep, RepairStep

LEMMA RepairsStep ==
  ASSUME TypeOK, RepairsSound, [Next]_vars
  PROVE  RepairsSound'
<1>. USE DEF GoTo, files, locals, history
<1>. SUFFICES ASSUME ~stolen'
              PROVE  InsideHoldsLock' /\ \A w \in Writers : RepairSound(w)'
  BY DEF RepairsSound
<1>1. InsideHoldsLock /\ \A w \in Writers : RepairSound(w)
  BY StolenIsForever DEF RepairsSound
<1>2. InsideHoldsLock'
  BY <1>1, HolderStep
<1>3. /\ pc \in [Writers -> Labels] /\ todo \in [Writers -> Seq(Keys)] /\ base \in [Writers -> Nat]
      /\ out \in [Writers -> SUBSET Row] /\ rows \in [Writers -> SUBSET Row]
  BY DEF TypeOK
<1>4. ASSUME NEW v \in Writers, UNCHANGED <<records, head, pc[v], todo[v], base[v], out[v], rows[v]>>,
             UNCHANGED <<index, binding, damage>> \/ damage' # 0
      PROVE  RepairSound(v)'
  <2>1. RepairSound(v)
    BY <1>1
  <2>. QED
    BY <1>4, <2>1 DEF RepairSound, Whole, CleanUpTo, Rebuilt, RowsOf, IndexTrusted
<1>5. ASSUME NEW v \in Writers, pc'[v] \in {"idle", "dead", "acquireRepair", "reclaimRepair", "scan", "walk", "fail"}
      PROVE RepairSound(v)'
  BY <1>5 DEF RepairSound
<1>. DEFINE Goal == \A v \in Writers : RepairSound(v)'
<1>6. ASSUME NEW w \in Writers, AppendStep(w) \/ RepairStep(w) PROVE Goal
  <2>1. pc[w] \in Inside /\ (\A v \in Writers \ {w} : pc'[v] = pc[v]) /\ lock = w
    BY <1>1, <1>6, WorkFrame DEF InsideHoldsLock
  <2>2. \A v \in Writers \ {w} : UNCHANGED <<todo[v], out[v]>>
    <3>1. CASE AppendStep(w)
      BY <1>3, <3>1 DEF AppendStep, VerifyTip, LoadIndex, RebuildIndex, RebuildBinding, Replay,
         RecoverIndex, RecoverBinding, WriteRecord, NothingNew, PublishHead, AppendRows, WriteBinding
    <3>2. CASE RepairStep(w)
      BY <1>3, <3>2 DEF RepairStep, RepairScan, RepairRefuse, Quarantine, RepairHead
    <3>. QED
      BY <1>6, <3>1, <3>2
  <2>3. ASSUME NEW v \in Writers \ {w} PROVE RepairSound(v)'
    <3>1. pc[v] \notin Inside /\ RepairSound(v) /\ pc'[v] = pc[v]
      BY <1>1, <2>1 DEF InsideHoldsLock
    <3>2. pc'[v] \notin {"quarantine", "repairHead", "repairIndex", "repairBind", "ack"}
      BY <3>1 DEF Inside, Labels
    <3>. QED
      BY <2>2, <3>1, <3>2 DEF RepairSound
  <2>4. RepairSound(w)'
    BY <1>1, <1>6, WorkStaysSound
  <2>. QED
    BY <2>3, <2>4
<1>7. ASSUME NEW w \in Writers, LockStep(w) PROVE Goal
  <2>1. /\ UNCHANGED <<records, head, index, binding, damage>>
        /\ \A v \in Writers \ {w} : UNCHANGED <<pc[v], todo[v], base[v], out[v], rows[v]>>
    <3>1. UNCHANGED <<files, damage>>
      BY <1>7 DEF LockStep, Acquire, TimeOut, JudgeDead, Reclaim, Release
    <3>2. UNCHANGED locals \/ Forget(w)
      BY <1>7 DEF LockStep, Acquire, TimeOut, JudgeDead, Reclaim, Release
    <3>3. \A v \in Writers \ {w} : pc'[v] = pc[v]
      BY <1>3, <1>7 DEF LockStep, Acquire, TimeOut, JudgeDead, Reclaim, Release
    <3>. QED
      BY <1>3, <3>1, <3>2, <3>3 DEF Forget
  <2>2. RepairSound(w)'
    <3>1. CASE TimeOut(w) \/ Release(w)
      <4>1. pc'[w] = "idle"
        BY <1>3, <3>1 DEF TimeOut, Release
      <4>. QED
        BY <1>5, <4>1
    <3>2. CASE Acquire(w) \/ JudgeDead(w) \/ Reclaim(w)
      <4>1. UNCHANGED <<todo, out>>
        BY <3>2 DEF Acquire, JudgeDead, Reclaim
      <4>2. \/ pc[w] = "acquire" /\ pc'[w] \in {"verify", "reclaim"}
            \/ pc[w] = "reclaim" /\ pc'[w] = "acquire"
            \/ pc'[w] \in {"scan", "acquireRepair", "reclaimRepair"}
        BY <1>3, <3>2 DEF Acquire, JudgeDead, Reclaim, Waiting
      <4>3. RepairSound(w)
        BY <1>1
      <4>. QED
        BY <1>5, <4>1, <4>2, <4>3 DEF RepairSound
    <3>. QED
      BY <1>7, <3>1, <3>2 DEF LockStep
  <2>. QED
    BY <1>4, <2>1, <2>2
<1>8. ASSUME NEW w \in Writers, CallRepair(w) \/ Crash(w) \/ Restart(w) PROVE Goal
  <2>1. /\ UNCHANGED <<records, head, index, binding, damage>> /\ pc'[w] \in {"idle", "dead", "acquireRepair"}
        /\ \A v \in Writers \ {w} : UNCHANGED <<pc[v], todo[v], base[v], out[v], rows[v]>>
    <3>1. UNCHANGED <<files, damage>> /\ (UNCHANGED locals \/ Forget(w))
      BY <1>8 DEF CallRepair, Crash, Restart
    <3>2. pc'[w] \in {"idle", "dead", "acquireRepair"} /\ \A v \in Writers \ {w} : pc'[v] = pc[v]
      BY <1>3, <1>8 DEF CallRepair, Crash, Restart
    <3>. QED
      BY <1>3, <3>1, <3>2 DEF Forget
  <2>. QED
    BY <1>4, <1>5, <2>1
<1>9. ASSUME NEW w \in Writers, NEW b \in Batches, Call(w, b) PROVE Goal
  <2>1. /\ UNCHANGED <<records, head, index, binding, damage>> /\ pc'[w] = "acquire" /\ todo'[w] = b
        /\ \A v \in Writers \ {w} : UNCHANGED <<pc[v], todo[v], base[v], out[v], rows[v]>>
    BY <1>3, <1>9 DEF Call
  <2>2. b # <<>>
    BY BatchType
  <2>. QED
    BY <1>4, <2>1, <2>2 DEF RepairSound
<1>10. ASSUME NEW r \in Readers, ReadStep(r) \/ ReadStart(r) PROVE Goal
  BY <1>4, <1>10 DEF ReadStep, ReadStart, ReadBefore, ReadRecords, ReadAfter, ReadLock
<1>11. ASSUME DamageIndex \/ UNCHANGED vars PROVE Goal
  <2>1. UNCHANGED <<records, head, pc, todo, base, out, rows>>
    BY <1>11 DEF DamageIndex, vars
  <2>2. UNCHANGED <<index, binding, damage>> \/ damage' # 0
    BY <1>11 DEF DamageIndex, vars, TypeOK
  <2>. QED
    BY <1>4, <2>1, <2>2
<1>. QED
  BY <1>2, <1>6, <1>7, <1>8, <1>9, <1>10, <1>11, NextCases DEF Step

\* Whatever chain it began with, interrupted quarantines and repeated keys included: a repair
\* that reports success leaves a chain without gaps or repeated keys, committed to its end, and
\* unless the index files are edited an index bound to it that the next append trusts.
THEOREM RepairsLeaveItWhole == Spec => []RepairedIsConsistent
<1>1. Init => RepairsSound
  BY DEF Init, RepairsSound, RepairSound, InsideHoldsLock, Inside
<1>2. TypeOK /\ RepairsSound /\ [Next]_vars => RepairsSound'
  BY RepairsStep
<1>3. TypeOK /\ RepairsSound => RepairedIsConsistent
  BY CleanIsSound DEF RepairsSound, RepairSound, Whole, RepairedIsConsistent
<1>. QED
  BY <1>1, <1>2, <1>3, TypeCorrect, PTL DEF Spec
=============================================================================
