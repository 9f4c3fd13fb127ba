------------------------------ MODULE Hosting -------------------------------
(***************************************************************************)
(* One model call on macOS or Linux: the runner that proves its binding    *)
(* before and after, the contained child with its process group, the       *)
(* record under the run's label, and another process that asks by that     *)
(* label whether anything of the run is still alive.                       *)
(*                                                                         *)
(* The child leads a process group of its own; nothing it starts leaves    *)
(* the group.  The number of a dead group may be given to a stranger, once *)
(* the host no longer deals with it.                                       *)
(***************************************************************************)
EXTENDS Naturals, FiniteSets

CONSTANTS
  Kids,          \* bound: processes the child and its kin may start
  None,
  MaxSwaps       \* bound: replacements of the provider's binary

VARIABLES
  host,          \* the runner: a label, or "dead"
  alive,         \* processes of the group that run
  doomed,        \* those of them that a signal will end
  deaf,          \* those of them that ignore SIGTERM
  born,          \* processes that were ever started
  stranger,      \* another process group has the number of the dead one
  record,        \* the file of the run's label: its state, and whether it has the pid
  stopping,      \* the stop that time or output asks for, at most once: "no", "term", "done"
  broken,        \* limits that were exceeded
  exit,          \* exit code of the child
  binary, swaps, \* the binary on disk
  scratch,       \* directory of the call: None, "ours", or "littered" by the provider
  ran,           \* the binary the child runs
  out,           \* what the runner answered
  said           \* what the other process was last told

call == <<host, out>>
tree == <<alive, doomed, deaf, born, stranger>>
limits == <<stopping, broken>>
disk == <<binary, swaps, scratch, ran>>
vars == <<call, tree, record, limits, exit, disk, said>>

Bound == "bound"
Leader == 0                  \* the child
Group == Leader..Kids        \* and its kin, in the order of their births
Times == {"time", "output"}

Init ==
  /\ host = "check" /\ out = None /\ said = None
  /\ alive = {} /\ doomed = {} /\ born = {} /\ stranger = FALSE
  /\ deaf = {}
  /\ record = None /\ stopping = "no" /\ broken = {} /\ exit = None
  /\ binary = Bound /\ swaps = 0 /\ scratch = None /\ ran = None

\* kill(-pgid, 0).  Mutant: the child is looked at, not its group.
GroupAlive_LeaderOnly == Leader \in alive \/ stranger
GroupAlive == alive # {} \/ stranger

-----------------------------------------------------------------------------
(* The runner *)

HostAt(label) == host = label
HostGoes(label) == host' = label

\* The finally block: what the call created is removed, and nothing else; a directory that is
\* not empty makes the whole call fail.
Answer(answer) ==
  /\ HostGoes("end")
  /\ out' = IF scratch = "littered" THEN "error" ELSE answer
  /\ scratch' = IF scratch = "littered" THEN scratch ELSE None

\* Receipts and hash of the binary, before anything is started; then the scratch directory,
\* which exists only if an earlier call of this token left it.
CheckBefore ==
  /\ HostAt("check")
  /\ \/ binary = Bound /\ HostGoes("claim") /\ scratch' = "ours" /\ UNCHANGED out
     \/ Answer("error")      \* another binary, or no time is left
  /\ UNCHANGED <<tree, record, limits, exit, binary, swaps, ran, said>>

\* The label is claimed with an exclusive create, before there is a pid.
ClaimLabel ==
  /\ HostAt("claim")
  /\ record' = [state |-> "running", pid |-> FALSE]
  /\ HostGoes("spawn")
  /\ UNCHANGED <<out, tree, limits, exit, disk, said>>

Spawn ==
  /\ HostAt("spawn")
  /\ \/ /\ alive' = {Leader} /\ born' = {Leader} /\ deaf' \in SUBSET {Leader}
        /\ ran' = binary
        /\ HostGoes("record")
        /\ UNCHANGED <<out, scratch>>
     \/ Answer("error") /\ UNCHANGED <<alive, born, deaf, ran>>      \* create-process-failed
  /\ UNCHANGED <<doomed, stranger, record, limits, exit, binary, swaps, said>>

RecordPid ==
  /\ HostAt("record")
  /\ record' = [record EXCEPT !.pid = TRUE]
  /\ HostGoes("wait")
  /\ UNCHANGED <<out, tree, limits, exit, disk, said>>

Running == host \in {"record", "wait"}

\* The timer is set at the spawn and cleared at the exit; data is collected until the pipes
\* close.  The first limit that breaks stops the group.
Break(limit) ==
  /\ limit = "time" => Running
  /\ limit = "output" => host \in {"record", "wait", "stop", "drain"} /\ born # {}
  /\ limit \notin broken
  /\ broken' = broken \union {limit}
  /\ stopping' = IF stopping = "no" THEN "term" ELSE stopping
  /\ doomed' = IF stopping = "no" THEN doomed \union (alive \ deaf) ELSE doomed
  /\ UNCHANGED <<call, alive, deaf, born, stranger, record, exit, disk, said>>

\* What SIGKILL ends.  Mutant: the second signal is a SIGTERM again.
Slain_Gentle == alive \ deaf
Slain == alive

\* The grace period is over, or the group is gone: SIGKILL.
Kill ==
  /\ stopping = "term" /\ host # "dead"
  /\ stopping' = "done"
  /\ doomed' = Slain
  /\ UNCHANGED <<call, alive, deaf, born, stranger, record, broken, exit, disk, said>>

\* The child has exited: whatever it started must be gone too, or is stopped now.
Exited ==
  /\ HostAt("wait") /\ exit # None
  /\ IF ~GroupAlive
       THEN HostGoes("drain") /\ UNCHANGED <<stopping, doomed>>
       ELSE /\ HostGoes("stop")
            /\ stopping' = IF stopping = "no" THEN "term" ELSE stopping
            /\ doomed' = IF stopping = "no" THEN doomed \union (alive \ deaf) ELSE doomed
  /\ UNCHANGED <<out, alive, deaf, born, stranger, record, broken, exit, disk, said>>

\* After the stop, at most five seconds of looking.
Looked ==
  /\ HostAt("stop") /\ stopping = "done"
  /\ HostGoes("drain")
  /\ UNCHANGED <<out, tree, record, limits, exit, disk, said>>

\* The last record of the label, from what the last look saw.  A tree that outlives the kill
\* is never called empty.
Conclude ==
  /\ HostAt("drain")
  /\ record' = [record EXCEPT !.state = IF GroupAlive THEN "unverified" ELSE "empty"]
  /\ IF GroupAlive THEN Answer("error") ELSE HostGoes("prove") /\ UNCHANGED <<out, scratch>>
  /\ UNCHANGED <<tree, limits, exit, binary, swaps, ran, said>>

\* The binding is proved again, and only then the output is looked at.  Mutant: only before.
Proven_Before == exit = 0 /\ broken = {}
Proven == exit = 0 /\ broken = {} /\ binary = Bound

Prove ==
  /\ HostAt("prove")
  /\ \E answer \in IF Proven THEN {"output", "failed"} ELSE {"failed"} : Answer(answer)
  /\ UNCHANGED <<tree, record, limits, exit, binary, swaps, ran, said>>

HostDies ==
  /\ host \notin {"end", "dead"}
  /\ HostGoes("dead")
  /\ UNCHANGED <<out, tree, record, limits, exit, disk, said>>

-----------------------------------------------------------------------------
(* The group, the disk and the process that asks *)

Fork(k) ==
  /\ k = Cardinality(born) /\ alive \ doomed # {}
  /\ alive' = alive \union {k} /\ born' = born \union {k} /\ deaf' \in {deaf, deaf \union {k}}
  /\ UNCHANGED <<call, doomed, stranger, record, limits, exit, disk, said>>

\* A process ends, by itself or by a signal.
End(p) ==
  /\ p \in alive
  /\ alive' = alive \ {p} /\ doomed' = doomed \ {p} /\ deaf' = deaf \ {p}
  /\ exit' \in IF p # Leader THEN {exit} ELSE IF p \in doomed THEN {128} ELSE {0, 1}
  /\ UNCHANGED <<call, born, stranger, record, limits, disk, said>>

Litter ==
  /\ alive # {} /\ scratch = "ours"
  /\ scratch' = "littered"
  /\ UNCHANGED <<call, tree, record, limits, exit, binary, swaps, ran, said>>

Swap ==
  /\ swaps < MaxSwaps
  /\ swaps' = swaps + 1
  /\ binary' = IF binary = Bound THEN "other" ELSE Bound
  /\ UNCHANGED <<call, tree, record, limits, exit, scratch, ran, said>>

ReuseNumber ==
  /\ host \in {"end", "dead"} /\ born # {} /\ alive = {}
  /\ stranger' = ~stranger
  /\ UNCHANGED <<call, alive, doomed, deaf, born, record, limits, exit, disk, said>>

\* probeNamedJob.  Mutant: a claim without a pid is read as a run that never began.
State_NoPidIsEmpty ==
  IF record = None THEN "unknown"
  ELSE IF record.state = "empty" \/ ~record.pid THEN "empty"
  ELSE IF GroupAlive THEN "active" ELSE "empty"
State ==
  IF record = None THEN "unknown"
  ELSE IF record.state = "empty" THEN "empty"
  ELSE IF ~record.pid THEN "unknown"
  ELSE IF GroupAlive THEN "active" ELSE "empty"

Probe ==
  /\ said' = State
  /\ said' # said
  /\ UNCHANGED <<call, tree, record, limits, exit, disk>>

LeaderEnds == Leader \in doomed /\ End(Leader)

HostStep == CheckBefore \/ ClaimLabel \/ Spawn \/ RecordPid \/ Exited \/ Looked \/ Conclude \/ Prove

Next ==
  \/ HostStep \/ Kill \/ HostDies
  \/ \E limit \in Times : Break(limit)
  \/ \E k \in Group : Fork(k)
  \/ \E p \in Group : End(p)
  \/ Litter \/ Swap \/ ReuseNumber \/ Probe

\* The event loop of a live host goes on, its timer fires, and what got SIGKILL as the leader
\* of the group ends; other processes may hang.
Fairness ==
  /\ WF_vars(HostStep) /\ WF_vars(Kill) /\ WF_vars(Break("time"))
  /\ WF_vars(LeaderEnds)

Spec == Init /\ [][Next]_vars /\ Fairness

-----------------------------------------------------------------------------

TypeOK ==
  /\ doomed \union deaf \subseteq alive /\ alive \subseteq born /\ born \subseteq Group
  /\ broken \subseteq Times /\ exit \in {None, 0, 1, 128}
  /\ out \in {None, "output", "failed", "error"} /\ said \in {None, "unknown", "active", "empty"}

\* What says that a run is over tells the truth for good: an answer "empty" to recovery, the
\* record, or an answer of the runner other than an error.  Recovery frees the lease on it
\* and the next model call starts.
EmptyMeansGone ==
  \/ said = "empty" \/ out \in {"output", "failed"} \/ (record # None /\ record.state = "empty")
  => alive = {} /\ (Leader \in born \/ host \in {"end", "dead"})

\* An output is taken only from a child that ran the bound binary to a proper end within its
\* limits, although the binary is replaced at any moment (a swap there and back is beyond
\* what hashes can see, as the code says).
OutputIsProven ==
  out = "output" => ran = Bound /\ exit = 0 /\ broken = {}

\* Both: recovery may rely on every word that a run is over, and the queue on every output.
HostingTellsTheTruth == EmptyMeansGone /\ OutputIsProven

\* A call ends or its host dies: the stop reaches a child that ignores SIGTERM, and a
\* grandchild that hangs does not hold the host.
CallsEnd == <>(host \in {"end", "dead"})
=============================================================================
