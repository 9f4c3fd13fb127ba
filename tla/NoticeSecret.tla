---------------------------- MODULE NoticeSecret ----------------------------
(***************************************************************************)
(* The secret that makes the ids of notice envelopes: created once per     *)
(* installation by whichever process needs it first, behind a directory    *)
(* lock that is reclaimed a minute after its holder died, and read without *)
(* the lock once it is complete.                                           *)
(*                                                                         *)
(* A process makes at most one file, which is named after it; the bytes it *)
(* fills a file with are named after it too.  It makes at most one lock:   *)
(* who made a directory stands for its inode and its time.                 *)
(***************************************************************************)
EXTENDS Naturals

CONSTANTS
  Sealers,         \* processes that seal a lane
  None,            \* no file, no holder, no bytes
  Empty,           \* a file with no bytes yet
  Links,           \* whether the file system has hard links
  OneReclaims,     \* whether one at a time is between comparing a stale lock and removing it
  MaxDeaths,       \* bound: processes that die
  MaxSuspensions   \* bound: holders that sleep for more than a minute

VARIABLES
  place,           \* nonce-secret: the file that is linked there
  files,           \* the bytes of every file
  lock,            \* .nonce-lock: its holder, and whether it is over a minute old
  sealer,          \* per process: where it is, the lock it judged, and the secret it got
  deaths, suspensions

vars == <<place, files, lock, sealer, deaths, suspensions>>

NoLock == [by |-> None, old |-> FALSE]

Init ==
  /\ \E f \in {None} \union Sealers :      \* an empty file some earlier process left, too
       place = f /\ files = [s \in Sealers |-> IF s = f THEN Empty ELSE None]
  /\ lock = NoLock
  /\ sealer = [s \in Sealers |-> [pc |-> "start", saw |-> None, secret |-> None]]
  /\ deaths = 0 /\ suspensions = 0

At(s, label) == sealer[s].pc = label
Goes(s, label) == sealer' = [sealer EXCEPT ![s].pc = label]
Complete == place # None /\ files[place] # Empty

\* "A complete secret is immutable: readers never touch or wait on the lock."
Start(s) ==
  /\ At(s, "start") /\ files[s] = None
  /\ Goes(s, IF Complete THEN "read" ELSE "lock")
  /\ UNCHANGED <<place, files, lock, deaths, suspensions>>

Lock(s) ==
  /\ At(s, "lock") /\ lock.by = None
  /\ lock' = [by |-> s, old |-> FALSE]
  /\ Goes(s, "inspect")
  /\ UNCHANGED <<place, files, deaths, suspensions>>

\* Mutant: the age of the lock is not looked at.
Stale_Any == lock.by # None
Stale == lock.by # None /\ lock.old

\* The first look at a lock that is in the way: a directory over a minute old.
Judge(s) ==
  /\ At(s, "lock") /\ Stale
  /\ sealer' = [sealer EXCEPT ![s].pc = "recheck", ![s].saw = lock.by]
  /\ UNCHANGED <<place, files, lock, deaths, suspensions>>

\* "Another reader may already have replaced the stale directory": the second look.
Recheck(s) ==
  /\ At(s, "recheck")
  /\ IF lock.by # sealer[s].saw
       THEN sealer' = [sealer EXCEPT ![s].pc = "lock", ![s].saw = None]
       ELSE /\ OneReclaims => \A t \in Sealers : ~At(t, "remove")
            /\ sealer' = [sealer EXCEPT ![s].pc = "remove", ![s].saw = None]
  /\ UNCHANGED <<place, files, lock, deaths, suspensions>>

\* The directory of that name goes.  Removal does not grant ownership.
Remove(s) ==
  /\ At(s, "remove")
  /\ lock' = NoLock
  /\ Goes(s, "lock")
  /\ UNCHANGED <<place, files, deaths, suspensions>>

\* The wait is over: an id for this once.
GiveUp(s) ==
  /\ At(s, "lock") /\ lock.by # None
  /\ Goes(s, "ephemeral")
  /\ UNCHANGED <<place, files, lock, deaths, suspensions>>

Inspect(s) ==
  /\ At(s, "inspect")
  /\ Goes(s, IF place = None THEN "create" ELSE IF files[place] = Empty THEN "unlink" ELSE "release")
  /\ UNCHANGED <<place, files, lock, deaths, suspensions>>

\* Somebody died before filling it.
Unlink(s) ==
  /\ At(s, "unlink")
  /\ place' = None
  /\ Goes(s, IF place = None THEN "fail" ELSE "create")
  /\ UNCHANGED <<files, lock, deaths, suspensions>>

\* A hard link of the empty file, or an empty file where there are no links.
Create(s) ==
  /\ At(s, "create")
  /\ IF place = None
       THEN place' = s /\ files' = [files EXCEPT ![s] = Empty] /\ Goes(s, "fill")
       ELSE UNCHANGED <<place, files>> /\ Goes(s, "release")
  /\ UNCHANGED <<lock, deaths, suspensions>>

\* Into the linked file itself, or into whatever is in the place.
Fill(s) ==
  /\ At(s, "fill")
  /\ LET target == IF Links THEN s ELSE place IN
       IF target = None
         THEN UNCHANGED files /\ Goes(s, "fail")
         ELSE files' = [files EXCEPT ![target] = s] /\ Goes(s, "release")
  /\ UNCHANGED <<place, lock, deaths, suspensions>>

\* The directory of that name goes, whoever made it.
Release(s) ==
  /\ sealer[s].pc \in {"release", "fail"}
  /\ lock' = NoLock
  /\ Goes(s, IF At(s, "fail") THEN "ephemeral" ELSE "read")
  /\ UNCHANGED <<place, files, deaths, suspensions>>

Read(s) ==
  /\ At(s, "read")
  /\ sealer' = [sealer EXCEPT ![s].pc = IF Complete THEN "sealed" ELSE "ephemeral",
                              ![s].secret = IF Complete THEN files[place] ELSE None]
  /\ UNCHANGED <<place, files, lock, deaths, suspensions>>

Die(s) ==
  /\ sealer[s].pc \notin {"dead", "sealed", "ephemeral", "start"} /\ deaths < MaxDeaths
  /\ deaths' = deaths + 1
  /\ Goes(s, "dead")
  /\ UNCHANGED <<place, files, lock, suspensions>>

\* A minute passes: over a holder that died, or that sleeps.
Age ==
  /\ lock.by # None /\ ~lock.old
  /\ lock' = [lock EXCEPT !.old = TRUE]
  /\ \/ At(lock.by, "dead") /\ UNCHANGED suspensions
     \/ suspensions < MaxSuspensions /\ suspensions' = suspensions + 1
  /\ UNCHANGED <<place, files, sealer, deaths>>

Next ==
  \/ \E s \in Sealers : \/ Start(s) \/ Lock(s) \/ Judge(s) \/ Recheck(s) \/ Remove(s) \/ GiveUp(s)
                        \/ Inspect(s) \/ Unlink(s) \/ Create(s) \/ Fill(s) \/ Release(s) \/ Read(s) \/ Die(s)
  \/ Age

Spec == Init /\ [][Next]_vars

----------------------------------------------------------------------------
(* Properties *)

Keeps ==
  /\ Complete => Complete' /\ files'[place] = files[place]
  /\ \A s, t \in Sealers : None \notin {sealer'[s].secret, sealer'[t].secret}
                            => sealer'[s].secret = sealer'[t].secret

\* Once complete, the secret never changes, and everybody who seals with a secret
\* seals with this one: envelopes of one snapshot keep their id whoever renders them.
SecretIsOne == [][Keeps]_vars

\* What the code says of the secret, where it is read without the lock: "A complete secret is immutable"
\* (notice-nonce.mjs:69).
CompleteIsImmutable == [][Complete => Complete' /\ files'[place] = files[place]]_vars
=============================================================================
