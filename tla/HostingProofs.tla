--------------------------- MODULE HostingProofs ---------------------------
(* What TLAPS proves of Hosting: who says that a run is over tells the truth, for any number of   *)
(* processes in the group; and outputs come from the bound binary, if it is replaced once at most. *)
EXTENDS Hosting, TLAPS

\* The child was started and nothing of its group is left: the words "empty" stand for this.
Gone == alive = {} /\ Leader \in born

Records == [state : {"running", "empty", "unverified"}, pid : BOOLEAN]

\* None is neither an answer nor a record.
NoneIsNoWord == None \notin {"output", "failed", "empty"} \union Records

\* The record, the runner and the process that asks rely on each other's words: where the runner is
\* tells whether a group can still come to be, and the record what the runner has seen.
Truthful ==
  /\ alive \subseteq born /\ (born # {} => Leader \in born)
  /\ host \in {"check", "claim", "spawn"} => born = {}
  /\ host \in {"record", "wait", "stop", "drain", "prove"} => Leader \in born
  /\ host \in {"spawn", "record", "wait", "stop", "drain", "prove"} => record \in Records
  /\ record = None \/ record \in Records
  /\ host \in {"check", "claim"} => record = None
  /\ record # None /\ record.pid => Leader \in born
  /\ record # None /\ record.state = "empty" => Gone
  /\ host = "prove" => Gone
  /\ said = "empty" => Gone
  /\ out \in {"output", "failed"} => Gone /\ host = "end"

\* Nothing comes back to life: a new process needs a living one that no signal will end, and the
\* child is started once.
LEMMA GoneStays ==
  ASSUME Truthful, Gone, [Next]_vars
  PROVE  Gone'
<1>1. ASSUME NEW k \in Group, Fork(k) PROVE FALSE
  BY <1>1 DEF Fork, Gone
<1>2. ASSUME NEW p \in Group, End(p) PROVE FALSE
  BY <1>2 DEF End, Gone
<1>3. ~Spawn
  BY DEF Spawn, HostAt, Truthful, Gone
<1>4. ASSUME \/ CheckBefore \/ ClaimLabel \/ RecordPid \/ Exited \/ Looked \/ Conclude \/ Prove
             \/ Kill \/ HostDies \/ Litter \/ Swap \/ ReuseNumber \/ Probe \/ UNCHANGED vars
             \/ \E limit \in Times : Break(limit)
      PROVE  UNCHANGED <<alive, born>>
  BY <1>4 DEF CheckBefore, ClaimLabel, RecordPid, Exited, Looked, Conclude, Prove, Kill, HostDies,
     Litter, Swap, ReuseNumber, Probe, Break, vars, tree
<1>. QED
  BY <1>1, <1>2, <1>3, <1>4 DEF Next, HostStep, Gone

\* Each step keeps to the truth.
LEMMA TruthStep ==
  ASSUME NoneIsNoWord, Truthful, [Next]_vars
  PROVE  Truthful'
<1>. USE DEF HostAt, HostGoes, NoneIsNoWord
<1>1. Gone => Gone'
  BY GoneStays
<1>2. CASE CheckBefore
  BY <1>1, <1>2 DEF CheckBefore, Answer, Truthful, Gone, tree
<1>3. CASE ClaimLabel
  BY <1>1, <1>3 DEF ClaimLabel, Truthful, Gone, Records, tree
<1>4. CASE Spawn
  BY <1>1, <1>4 DEF Spawn, Answer, Truthful, Gone
<1>5. CASE RecordPid
  <2>1. record \in Records /\ Leader \in born /\ record # None
    BY <1>5 DEF RecordPid, Truthful
  <2>2. record' \in Records /\ record'.state = record.state
    BY <1>5, <2>1 DEF RecordPid, Records
  <2>. QED
    BY <1>1, <1>5, <2>1, <2>2 DEF RecordPid, Truthful, Gone, tree
<1>6. CASE Exited \/ Looked
  BY <1>1, <1>6 DEF Exited, Looked, Truthful, Gone, tree
<1>7. CASE Conclude
  BY <1>1, <1>7 DEF Conclude, Answer, GroupAlive, Truthful, Gone, Records, tree
<1>8. CASE Prove
  BY <1>1, <1>8 DEF Prove, Answer, Truthful, Gone, tree
<1>9. CASE HostDies
  BY <1>1, <1>9 DEF HostDies, Truthful, Gone, tree
<1>10. CASE Probe
  <2>1. said' = "empty" => Gone
    BY <1>10 DEF Probe, State, GroupAlive, Truthful, Gone
  <2>. QED
    BY <1>1, <1>10, <2>1 DEF Probe, Truthful, Gone, call, tree
<1>11. ASSUME NEW k \in Group, Fork(k) PROVE Truthful'
  BY <1>1, <1>11 DEF Fork, Truthful, Gone, call
<1>12. ASSUME NEW p \in Group, End(p) PROVE Truthful'
  BY <1>1, <1>12 DEF End, Truthful, Gone, call
<1>13. CASE Kill \/ Litter \/ Swap \/ ReuseNumber \/ UNCHANGED vars \/ \E limit \in Times : Break(limit)
  BY <1>1, <1>13 DEF Kill, Litter, Swap, ReuseNumber, Break, Truthful, Gone, vars, call, tree
<1>. QED
  BY <1>2, <1>3, <1>4, <1>5, <1>6, <1>7, <1>8, <1>9, <1>10, <1>11, <1>12, <1>13 DEF Next, HostStep

\* Hosting keeps to the truth: what says that a run is over, in the record, in an answer to
\* recovery or as an output, says so of a group that is gone for good.
THEOREM OverIsOver ==
  ASSUME NoneIsNoWord
  PROVE  Spec => []EmptyMeansGone
<1>1. Init => Truthful
  BY DEF Init, Truthful, Gone, NoneIsNoWord
<1>2. Truthful /\ [Next]_vars => Truthful'
  BY TruthStep
<1>3. Truthful => EmptyMeansGone
  BY DEF Truthful, Gone, EmptyMeansGone
<1>. QED
  BY <1>1, <1>2, <1>3, PTL DEF Spec

-----------------------------------------------------------------------------

\* What the child runs is known by what lies on the disk, as long as the binary was replaced once
\* at most; and an answer is given only after everything it tells of is over.
Binding ==
  /\ (swaps = 0 /\ binary = Bound) \/ (swaps = 1 /\ binary = "other")
  /\ Leader \in born => ran = Bound \/ binary = "other"
  /\ out = "output" => ran = Bound /\ exit = 0 /\ broken = {}

\* Each step keeps the binding: the child is started once, what runs is what was there then, and
\* after an output nothing of the call changes any more.
LEMMA BindingStep ==
  ASSUME NoneIsNoWord, MaxSwaps \in {0, 1}, Truthful, Binding, [Next]_vars
  PROVE  Binding'
<1>. USE DEF HostAt, HostGoes, NoneIsNoWord, Bound
<1>1. out = "output" => Gone /\ host = "end"
  BY DEF Truthful
<1>2. CASE CheckBefore \/ ClaimLabel \/ RecordPid \/ Exited \/ Looked \/ Conclude
  BY <1>1, <1>2 DEF CheckBefore, ClaimLabel, RecordPid, Exited, Looked, Conclude, Answer, Binding, tree, disk, limits
<1>3. CASE Spawn
  BY <1>1, <1>3 DEF Spawn, Answer, Binding, Truthful, limits
<1>4. CASE Prove
  BY <1>1, <1>4 DEF Prove, Proven, Answer, Binding, Truthful, Gone, tree, limits
<1>5. CASE Kill \/ HostDies \/ Litter \/ ReuseNumber \/ Probe \/ UNCHANGED vars
  BY <1>1, <1>5 DEF Kill, HostDies, Litter, ReuseNumber, Probe, Binding, vars, call, tree, limits, disk
<1>6. CASE Swap
  BY <1>1, <1>6 DEF Swap, Binding, call, tree, limits
<1>7. ASSUME NEW limit \in Times, Break(limit) PROVE Binding'
  BY <1>1, <1>7 DEF Break, Times, Running, Binding, call, disk
<1>8. ASSUME NEW k \in Group, Fork(k) PROVE Binding'
  <2>1. born # {}
    BY <1>8 DEF Fork, Truthful
  <2>2. Leader \in born
    BY <2>1 DEF Truthful
  <2>. QED
    BY <1>8, <2>2 DEF Fork, Binding, call, disk, limits
<1>9. ASSUME NEW p \in Group, End(p) PROVE Binding'
  BY <1>1, <1>9 DEF End, Gone, Binding, call, disk, limits
<1>. QED
  BY <1>2, <1>3, <1>4, <1>5, <1>6, <1>7, <1>8, <1>9 DEF Next, HostStep

\* Hosting tells the truth: beside the above, an output is one of the bound binary, run to a proper
\* end within its limits, when the binary is replaced once at most.  (Replaced and put back between
\* the two looks, it is beyond what the code can see.)
THEOREM HostingIsTruthful ==
  ASSUME NoneIsNoWord, MaxSwaps \in {0, 1}
  PROVE  Spec => []HostingTellsTheTruth
<1>1. Init => Truthful /\ Binding
  BY DEF Init, Truthful, Gone, Binding, NoneIsNoWord
<1>2. Truthful /\ Binding /\ [Next]_vars => Truthful' /\ Binding'
  BY TruthStep, BindingStep
<1>3. Truthful /\ Binding => HostingTellsTheTruth
  BY DEF Truthful, Gone, Binding, EmptyMeansGone, OutputIsProven, HostingTellsTheTruth
<1>. QED
  BY <1>1, <1>2, <1>3, PTL DEF Spec
=============================================================================
