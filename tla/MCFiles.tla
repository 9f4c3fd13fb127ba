------------------------------ MODULE MCFiles -------------------------------
(***************************************************************************)
(* The files that processes of the broker share, each the state of one     *)
(* module: the installation, the archive and its quarantine, the notice    *)
(* secret, the notices, the sweep's state, the read model and the log of   *)
(* corrections.  They share no state, so a behaviour belongs to one of     *)
(* them, `part`, and one run checks them all.  The module builds on        *)
(* Corrections; the others are instances.                                  *)
(***************************************************************************)
EXTENDS Corrections, TLC

CONSTANTS
  Processes,                  \* installers, sweepers, or projectors
  Sealers,                    \* processes that seal a lane
  Paths, Refs,
  Empty, Gone, Torn, Mixed,
  Tools,                      \* what an earlier hand may have left as tool
  Links,                      \* whether the file system has hard links
  OneReclaims,                \* of the secret's lock
  Sources, Interval,          \* of a sweep
  Types,                      \* of events
  n1, n2, n3, ann, bob, Absent, Broken,   \* notices, who writes and approves them
  MaxEdits, MaxExecutions, MaxStepFaults, MaxRewrites, MaxRuns, MaxScriptFaults,
  MaxSealerDeaths, MaxSweeperDeaths, MaxProjectorDeaths, MaxSuspensions, MaxTime, MaxEvents   \* bounds

VARIABLES
  part,
  tool, config, state, lock, proc, edits, quiet, died, calls, faults,
  live, age, packed, manifest, quarantine, ledger, script, last, damaged, runs,
  place, files, secretLock, sealer,
  sweepLock, sweepState, manifests, sweeper, clock,
  events, nodes, edges, indexes, readManifest, projector, busy,
  commits, tip, head, receipts, acks, allowed, late, listing, listings,
  deaths, suspensions

installation == <<tool, config, state, lock, proc, edits, quiet, died, calls>>
archive      == <<live, age, packed, manifest, quarantine, ledger, script, last, damaged, runs>>
secret       == <<place, files, secretLock, sealer>>
sweep        == <<sweepLock, sweepState, manifests, sweeper, clock>>
readModel    == <<events, nodes, edges, indexes, readManifest, projector, busy>>
notices      == <<commits, tip, head, receipts, acks, allowed, late, listing, listings>>
counters     == <<deaths, suspensions, faults>>
all == <<part, installation, archive, secret, sweep, readModel, notices, vars, counters>>

Installed == INSTANCE Installation WITH
  Installers <- Processes, MaxCalls <- MaxExecutions, MaxFaults <- MaxStepFaults
Archived == INSTANCE Archive WITH MaxFaults <- MaxScriptFaults
Secret == INSTANCE NoticeSecret WITH lock <- secretLock, MaxDeaths <- MaxSealerDeaths
Swept == INSTANCE Sweep WITH lock <- sweepLock, state <- sweepState, Sweepers <- Processes,
  MaxDeaths <- MaxSweeperDeaths
Projected == INSTANCE ReadModel WITH log <- events, manifest <- readManifest, Projectors <- Processes,
  MaxDeaths <- MaxProjectorDeaths

\* Three notices, and what a tree may hold under their names.
Notice(author, supersedes, defect, level, dated) ==
  [author |-> author, supersedes |-> supersedes, defect |-> defect, level |-> level, dated |-> dated]
PlainNotice == Notice(ann, {}, "none", "primary", FALSE)
MCNotices == {
  PlainNotice, Notice(ann, {n1}, "none", "visible", TRUE), Notice(bob, {n2}, "none", "primary", FALSE),
  Notice(bob, {}, "roles", "primary", FALSE), Notice(ann, {n3}, "lint", "advice", FALSE)}
Chained == n1 :> PlainNotice @@ n2 :> Notice(ann, {n1}, "none", "visible", TRUE)
             @@ n3 :> Notice(bob, {n2}, "none", "primary", FALSE)
MCFirst == {[Chained EXCEPT ![n2] = Absent, ![n3] = Absent], Chained}

Noticed == INSTANCE Notices WITH
  listed <- listings, Ids <- {n1, n2, n3}, People <- {ann, bob}, Contents <- MCNotices, First <- MCFirst,
  Budget <- 1, MaxCached <- 1, MaxAcks <- 1, MaxCommits <- 2, MaxListings <- 1

\* What a part may begin with is open only in its own behaviours.
AllInit ==
  /\ part \in {"installation", "archive", "secret", "sweep", "read model", "notices", "corrections"}
  /\ Installed!Init /\ (part # "installation" => tool = "absent" /\ config = None)
  /\ Archived!Init
  /\ Secret!Init /\ (part # "secret" => place = None)
  /\ Swept!Init /\ Projected!Init /\ Init
  /\ Noticed!Init /\ (part # "notices" => commits # <<Chained>>)

AllNext ==
  \/ /\ part = "installation" /\ Installed!Next
     /\ UNCHANGED <<part, archive, secret, sweep, readModel, notices, vars, deaths, suspensions>>
  \/ /\ part = "archive" /\ Archived!Next
     /\ UNCHANGED <<part, installation, secret, sweep, readModel, notices, vars, deaths, suspensions>>
  \/ /\ part = "secret" /\ Secret!Next
     /\ UNCHANGED <<part, installation, archive, sweep, readModel, notices, vars, faults>>
  \/ /\ part = "sweep" /\ Swept!Next
     /\ UNCHANGED <<part, installation, archive, secret, readModel, notices, vars, faults>>
  \/ /\ part = "read model" /\ Projected!Next
     /\ UNCHANGED <<part, installation, archive, secret, sweep, notices, vars, suspensions, faults>>
  \/ /\ part = "notices" /\ Noticed!Next
     /\ UNCHANGED <<part, installation, archive, secret, sweep, readModel, vars, counters>>
  \/ /\ part = "corrections" /\ Next
     /\ UNCHANGED <<part, installation, archive, secret, sweep, readModel, notices, counters>>

AllSpec == AllInit /\ [][AllNext]_all

Symmetry == Permutations(Processes) \union Permutations(Paths) \union Permutations(Refs)

-----------------------------------------------------------------------------
(* Properties, each stated in the module of its part; DecisionsSettle is that of Corrections *)

\* Whatever step fails, an installation ends whole or gone, and none writes over what the user added to the
\* configuration between two of them.
InstallsAreWhole == Installed!WholeOrNothing /\ Installed!QuietEditsStay

\* What the archive's manifest calls verified restores the transcript byte for byte, and a pruned transcript
\* leaves the quarantine only for its old place.
PacksAreTrue == []Archived!VerifiedRestores /\ Archived!QuarantineKeeps

\* The notice secret is made once, and everybody seals with it.
SecretIsOne == Secret!SecretIsOne

\* Fallback sweeps that the state records are an interval apart, and each left its manifest.
SweepsAreSpaced == Swept!SweepsAreSpaced

\* A projection that met nobody leaves the four files of the read model complete and current.
AloneIsCurrent == Projected!AloneIsCurrent

=============================================================================
