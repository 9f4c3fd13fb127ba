------------------------------ MODULE Archive ------------------------------
(***************************************************************************)
(* The archive scripts: archive-corpus packs settled transcripts and       *)
(* records a round trip for each, prune-archived-corpus moves archived     *)
(* transcripts into a quarantine and restores them, all beside agents that *)
(* go on rewriting their transcripts and take no lock.                     *)
(*                                                                         *)
(* The versions of a transcript are numbered; a version is its bytes, its  *)
(* hash, its size and its modification time.  The operator runs one script *)
(* at a time.                                                              *)
(***************************************************************************)
EXTENDS Naturals, FiniteSets

CONSTANTS
  Paths,           \* transcripts
  Gone,            \* no file at the path
  Torn,            \* bytes that are no archive: a pack cut short, or a damaged one
  Mixed,           \* what a reader of a file got that was rewritten meanwhile
  MaxRewrites,     \* bound: versions written after the first, of all transcripts
  MaxRuns,         \* bound: executions of a script
  MaxFaults        \* bound: scripts that die, and packs that are damaged

VARIABLES
  live,            \* the transcript in its place: a version, or Gone
  age,             \* "fresh", "settled" (a day old) or "old" (past the retention)
  packed,          \* the file in the archive: what it restores to, or Gone
  manifest,        \* entries of manifest.jsonl
  quarantine,      \* the file in the quarantine, or Gone
  ledger,          \* entries of prune-ledger.jsonl
  script,          \* the running script
  last,            \* history: the last version written, of any transcript
  damaged,         \* history: paths whose pack was damaged on disk
  runs, faults

files == <<live, age, packed, manifest, quarantine, ledger>>
vars  == <<files, script, last, damaged, runs, faults>>

Idle == [pc |-> "idle", todo |-> {}, path |-> Gone, read |-> Gone, ready |-> {}]

Init ==
  /\ live = [p \in Paths |-> 0] /\ age = [p \in Paths |-> "fresh"]
  /\ packed = [p \in Paths |-> Gone] /\ quarantine = [p \in Paths |-> Gone]
  /\ manifest = {} /\ ledger = {}
  /\ script = Idle /\ last = 0 /\ damaged = {} /\ runs = 0 /\ faults = 0

At(label) == script.pc = label
Goes(label) == script' = [script EXCEPT !.pc = label]
Drops(p) == script' = [script EXCEPT !.todo = @ \ {p}, !.path = Gone, !.read = Gone]
Named(entries) == {e.path : e \in entries}

Starts(label, todo) ==
  /\ At("idle") /\ runs < MaxRuns
  /\ runs' = runs + 1
  /\ script' = [Idle EXCEPT !.pc = label, !.todo = todo]
  /\ UNCHANGED <<files, damaged, last, faults>>

\* The last path is done: the script reports and exits.
Finish ==
  /\ script.todo = {} /\ script.ready = {} /\ script.pc \in {"pack", "hash", "restore"}
  /\ script' = Idle
  /\ UNCHANGED <<files, damaged, last, runs, faults>>

----------------------------------------------------------------------------
(* archive-corpus *)

\* Files that rest for a day and that no entry names, a failed one included.
\* Mutant: every entry of the manifest forgotten.
Candidates_Again == {p \in Paths : live[p] # Gone /\ age[p] # "fresh"}
Candidates == {p \in Paths : live[p] # Gone /\ age[p] # "fresh"} \ Named(manifest)

StartArchive == Starts("pack", Candidates)

\* The pack is written as the transcript streams by ...
BeginPack ==
  /\ At("pack")
  /\ \E p \in script.todo :
       /\ packed' = [packed EXCEPT ![p] = Torn]
       /\ script' = [script EXCEPT !.pc = "packing", !.path = p, !.read = live[p]]
  /\ UNCHANGED <<live, age, manifest, quarantine, ledger, damaged, last, runs, faults>>

\* ... and hashed on both sides: of a file rewritten meanwhile, whatever was read.
EndPack ==
  /\ At("packing")
  /\ LET read == IF live[script.path] = script.read THEN script.read ELSE Mixed IN
       /\ packed' = [packed EXCEPT ![script.path] = read]
       /\ script' = [script EXCEPT !.pc = "packed", !.read = read]
  /\ UNCHANGED <<live, age, manifest, quarantine, ledger, damaged, last, runs, faults>>

\* A pack that does not decompress ends the script; one that does is recorded.
RoundTrip ==
  /\ At("packed")
  /\ \/ /\ manifest' = manifest \union {[path |-> script.path, original |-> script.read,
                                         verified |-> packed[script.path] = script.read]}
        /\ script' = [script EXCEPT !.pc = "pack", !.todo = @ \ {script.path}, !.path = Gone, !.read = Gone]
     \/ packed[script.path] = Torn /\ script' = Idle /\ UNCHANGED manifest
  /\ UNCHANGED <<live, age, packed, quarantine, ledger, damaged, last, runs, faults>>

----------------------------------------------------------------------------
(* prune-archived-corpus *)

Entry(p) == CHOOSE e \in manifest : e.path = p

Prunable == {p \in Named(manifest) \ Named(ledger) :
               Entry(p).verified /\ live[p] # Gone /\ age[p] = "old"}

StartPrune == Starts("hash", Prunable)

\* The live file must still be the one the archive holds.
HashLive ==
  /\ At("hash")
  /\ \E p \in script.todo :
       IF live[p] = Entry(p).original
         THEN script' = [script EXCEPT !.pc = "prove", !.path = p, !.read = live[p]]
         ELSE Drops(p)
  /\ UNCHANGED <<files, damaged, last, runs, faults>>

\* The archive must restore to it; then, and only then, size and time are noted.
ProveRestorable ==
  /\ At("prove")
  /\ LET p == script.path IN
       script' = [script EXCEPT !.pc = "hash", !.todo = @ \ {p}, !.path = Gone, !.read = Gone,
         !.ready = IF packed[p] = script.read THEN @ \union {[path |-> p, sha |-> script.read, stamp |-> live[p]]}
                                              ELSE @]
  /\ UNCHANGED <<files, damaged, last, runs, faults>>

\* Occupied in the quarantine, or touched since: left alone.  Otherwise it moves ...
Movable_Occupied(r) == live[r.path] = r.stamp
Movable(r) == quarantine[r.path] = Gone /\ live[r.path] = r.stamp

Move ==
  /\ At("hash") /\ script.todo = {}
  /\ \E r \in script.ready :
       IF Movable(r)
         THEN /\ live' = [live EXCEPT ![r.path] = Gone]
              /\ quarantine' = [quarantine EXCEPT ![r.path] = live[r.path]]
              /\ script' = [script EXCEPT !.pc = "moved", !.ready = @ \ {r}, !.path = r.path, !.read = r.sha]
         ELSE /\ script' = [script EXCEPT !.ready = @ \ {r}]
              /\ UNCHANGED <<live, quarantine>>
  /\ UNCHANGED <<age, packed, manifest, ledger, damaged, last, runs, faults>>

\* ... and is entered in the ledger, with the hash it had when it was verified.
EnterLedger ==
  /\ At("moved")
  /\ ledger' = ledger \union {[path |-> script.path, sha |-> script.read]}
  /\ Goes("hash")
  /\ UNCHANGED <<live, age, packed, manifest, quarantine, damaged, last, runs, faults>>

(* prune-archived-corpus --restore *)

StartRestore == Starts("restore", Named(ledger))

\* Nothing held, or a file in its place again: passed by.
Restorable(p) == quarantine[p] # Gone /\ live[p] = Gone

CheckHeld ==
  /\ At("restore")
  /\ \E p \in script.todo :
       IF Restorable(p)
         THEN script' = [script EXCEPT !.pc = "held", !.path = p]
         ELSE Drops(p)
  /\ UNCHANGED <<files, damaged, last, runs, faults>>

\* Hashed, and renamed over whatever is in its place by then.
PutBack ==
  /\ At("held")
  /\ LET p == script.path
         honest == [path |-> p, sha |-> quarantine[p]] \in ledger
     IN /\ live' = IF honest THEN [live EXCEPT ![p] = quarantine[p]] ELSE live
        /\ quarantine' = IF honest THEN [quarantine EXCEPT ![p] = Gone] ELSE quarantine
        /\ script' = [script EXCEPT !.pc = "restore", !.todo = @ \ {p}, !.path = Gone]
  /\ UNCHANGED <<age, packed, manifest, ledger, damaged, last, runs, faults>>

----------------------------------------------------------------------------
(* Around the scripts *)

\* The agent goes on with a transcript, or begins one again at a path that was pruned.
Rewrite(p) ==
  /\ last < MaxRewrites
  /\ last' = last + 1
  /\ live' = [live EXCEPT ![p] = last + 1]
  /\ age' = [age EXCEPT ![p] = "fresh"]
  /\ UNCHANGED <<packed, manifest, quarantine, ledger, script, damaged, runs, faults>>

\* Somebody unpacks the archived copy where the transcript is missing.
CopyBack(p) ==
  /\ live[p] = Gone /\ packed[p] \notin {Gone, Torn, Mixed}
  /\ live' = [live EXCEPT ![p] = packed[p]]
  /\ age' = [age EXCEPT ![p] = "fresh"]
  /\ UNCHANGED <<packed, manifest, quarantine, ledger, script, damaged, last, runs, faults>>

Age(p) ==
  /\ live[p] # Gone /\ age[p] # "old"
  /\ age' = [age EXCEPT ![p] = IF @ = "fresh" THEN "settled" ELSE "old"]
  /\ UNCHANGED <<live, packed, manifest, quarantine, ledger, script, damaged, last, runs, faults>>

Die ==
  /\ ~At("idle") /\ faults < MaxFaults
  /\ faults' = faults + 1
  /\ script' = Idle
  /\ UNCHANGED <<files, damaged, last, runs>>

Damage(p) ==
  /\ packed[p] \notin {Gone, Torn} /\ faults < MaxFaults
  /\ faults' = faults + 1
  /\ packed' = [packed EXCEPT ![p] = Torn]
  /\ damaged' = damaged \union {p}
  /\ UNCHANGED <<live, age, manifest, quarantine, ledger, script, last, runs>>

Next ==
  \/ StartArchive \/ BeginPack \/ EndPack \/ RoundTrip
  \/ StartPrune \/ HashLive \/ ProveRestorable \/ Move \/ EnterLedger
  \/ StartRestore \/ CheckHeld \/ PutBack
  \/ Finish \/ Die
  \/ \E p \in Paths : Rewrite(p) \/ CopyBack(p) \/ Age(p) \/ Damage(p)

Spec == Init /\ [][Next]_vars

----------------------------------------------------------------------------
(* Properties *)

\* What the manifest calls verified can be restored from the archive, byte for
\* byte, unless the disk damaged it: not after a script died between pack and
\* entry, nor after a later run met the same path again, with other content
\* ("safe to prune" is proven per file, archive-corpus.mjs:4).
VerifiedRestores ==
  \A e \in manifest : (e.verified /\ e.path \notin damaged) => packed[e.path] = e.original

\* A pruned transcript stays in the quarantine until it is renamed back into its
\* place: no later run replaces it, whatever died before its ledger entry was
\* written and whatever was begun again at its path.
QuarantineKeeps ==
  [][\A p \in Paths : quarantine[p] # Gone =>
       \/ quarantine'[p] = quarantine[p]
       \/ quarantine'[p] = Gone /\ live'[p] = quarantine[p]]_vars

\* A restore never replaces a file in its place: "Something recreated the original.
\* Restoring would destroy it, so refuse" (prune-archived-corpus.mjs:117).
RestoreSpares ==
  [][\A p \in Paths : quarantine[p] # Gone /\ quarantine'[p] = Gone => live[p] = Gone]_vars

\* What lies in the quarantine is what the archive holds of it: "A file that drifted
\* since archiving is reported and left alone" (prune-archived-corpus.mjs:17).
PrunedIsArchived ==
  \A p \in Paths : quarantine[p] # Gone => quarantine[p] = Entry(p).original
=============================================================================
