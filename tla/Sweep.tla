------------------------------- MODULE Sweep --------------------------------
(***************************************************************************)
(* The fallback sweep: a scan of explicit sources that runs at most once   *)
(* an interval, behind a lock file that is removed when it is older than   *)
(* five minutes.  The scan of one source is the metadata inventory.        *)
(***************************************************************************)
EXTENDS Naturals

CONSTANTS
  Sweepers,        \* processes that call runFallbackSweep
  Sources,         \* how many sources a sweep scans
  Interval,        \* minimumIntervalSeconds
  None,
  MaxTime,         \* bound: the clock
  MaxDeaths,       \* bound: processes that die
  MaxSuspensions   \* bound: holders that sleep for more than five minutes

VARIABLES
  lock,            \* fallback-state.lock: its holder, and whether it is over five minutes old
  state,           \* fallback-state.json: lastCompletedAt
  manifests,       \* completedAt of the manifests in sweeps/
  sweeper,         \* per process: where it is, its "now", and the sources it has scanned
  clock, deaths, suspensions
vars == <<lock, state, manifests, sweeper, clock, deaths, suspensions>>

NoLock == [by |-> None, old |-> FALSE]

Init ==
  /\ lock = NoLock /\ state = None /\ manifests = {}
  /\ sweeper = [s \in Sweepers |-> [pc |-> "idle", now |-> 0, scanned |-> 0]]
  /\ clock = 0 /\ deaths = 0 /\ suspensions = 0

At(s, label) == sweeper[s].pc = label
Goes(s, label) == sweeper' = [sweeper EXCEPT ![s].pc = label]

\* The time of a sweep is taken before it waits for the lock.
Call(s) ==
  /\ At(s, "idle")
  /\ sweeper' = [sweeper EXCEPT ![s] = [pc |-> "lock", now |-> clock, scanned |-> 0]]
  /\ UNCHANGED <<lock, state, manifests, clock, deaths, suspensions>>

Lock(s) ==
  /\ At(s, "lock") /\ lock = NoLock
  /\ lock' = [by |-> s, old |-> FALSE]
  /\ Goes(s, "due")
  /\ UNCHANGED <<state, manifests, clock, deaths, suspensions>>

\* Mutant: the age of the lock is not looked at.
Stale_Any == lock.by # None
Stale == lock.by # None /\ lock.old

\* The age is read, and then the file of that name is removed.
Judge(s) ==
  /\ At(s, "lock") /\ lock.by # None
  /\ Goes(s, IF Stale THEN "unlink" ELSE "idle")      \* busy after two seconds
  /\ UNCHANGED <<lock, state, manifests, clock, deaths, suspensions>>

Unlink(s) ==
  /\ At(s, "unlink")
  /\ lock' = NoLock
  /\ Goes(s, "lock")
  /\ UNCHANGED <<state, manifests, clock, deaths, suspensions>>

\* Mutant: the time of the last sweep is compared without the interval.
Due_Later(s) == state = None \/ sweeper[s].now > state
Due(s) == state = None \/ sweeper[s].now >= state + Interval

LoadState(s) ==
  /\ At(s, "due")
  /\ Goes(s, IF Due(s) THEN "scan" ELSE "unlock")
  /\ UNCHANGED <<lock, state, manifests, clock, deaths, suspensions>>

\* A source that cannot be scanned ends the sweep without a manifest.
Scan(s) ==
  /\ At(s, "scan") /\ sweeper[s].scanned < Sources
  /\ \/ sweeper' = [sweeper EXCEPT ![s].scanned = @ + 1]
     \/ Goes(s, "unlock")
  /\ UNCHANGED <<lock, state, manifests, clock, deaths, suspensions>>

WriteManifest(s) ==
  /\ At(s, "scan") /\ sweeper[s].scanned = Sources
  /\ manifests' = manifests \union {sweeper[s].now}
  /\ Goes(s, "state")
  /\ UNCHANGED <<lock, state, clock, deaths, suspensions>>

WriteState(s) ==
  /\ At(s, "state")
  /\ state' = sweeper[s].now
  /\ Goes(s, "unlock")
  /\ UNCHANGED <<lock, manifests, clock, deaths, suspensions>>

\* The file of that name is removed, whoever made it.
Unlock(s) ==
  /\ At(s, "unlock")
  /\ lock' = NoLock
  /\ Goes(s, "idle")
  /\ UNCHANGED <<state, manifests, clock, deaths, suspensions>>

Die(s) ==
  /\ deaths < MaxDeaths /\ ~At(s, "idle") /\ ~At(s, "dead")
  /\ deaths' = deaths + 1
  /\ Goes(s, "dead")
  /\ UNCHANGED <<lock, state, manifests, clock, suspensions>>

\* Time passes. A lock grows old after its holder died, or while the holder sleeps.
Tick ==
  /\ clock < MaxTime
  /\ clock' = clock + 1
  /\ UNCHANGED <<lock, state, manifests, sweeper, deaths, suspensions>>

Age ==
  /\ lock.by # None /\ ~lock.old
  /\ IF At(lock.by, "dead") THEN UNCHANGED suspensions
     ELSE suspensions < MaxSuspensions /\ suspensions' = suspensions + 1
  /\ lock' = [lock EXCEPT !.old = TRUE]
  /\ UNCHANGED <<state, manifests, sweeper, clock, deaths>>

Next ==
  \/ Tick \/ Age
  \/ \E s \in Sweepers :
       \/ Call(s) \/ Lock(s) \/ Judge(s) \/ Unlink(s) \/ LoadState(s) \/ Scan(s)
       \/ WriteManifest(s) \/ WriteState(s) \/ Unlock(s) \/ Die(s)

Spec == Init /\ [][Next]_vars

-----------------------------------------------------------------------------

\* The sweeps that the state records are an interval apart and never go back, however two
\* processes wait, die with the lock, or die between manifest and state; and every recorded
\* sweep left its manifest.
SweepsAreSpaced ==
  [][state' # state => state' \in manifests /\ (state # None => state' >= state + Interval)]_vars
=============================================================================
