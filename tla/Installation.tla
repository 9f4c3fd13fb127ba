---------------------------- MODULE Installation ----------------------------
(***************************************************************************)
(* The installer (installation.mjs): install, adopt, remove and rollback,  *)
(* each planned first and executed later under the digest of its plan,     *)
(* with backups, verification after each write, and restoration when a     *)
(* step fails.  The provider's configuration file is also edited by its    *)
(* user, who takes no lock.                                                *)
(*                                                                         *)
(* Two targets stand for all: the tool, replaced as a whole and not        *)
(* atomically, and one configuration, read, changed and renamed into       *)
(* place.  A digest stands for what it covers.                             *)
(***************************************************************************)
EXTENDS Integers, FiniteSets

CONSTANTS
  Installers,      \* processes
  Tools,           \* what an earlier hand may have left as tool: subset of {"absent", "other", "new"}
  None,
  MaxEdits,        \* bound: entries the user adds to the configuration
  MaxCalls,        \* bound: executions
  MaxFaults        \* bound: steps that fail, and deaths

VARIABLES
  tool,            \* "absent", "other", "partial" while it is copied, or "new"
  config,          \* the configuration: its broker handlers and user entries, or None
  state,           \* install-state.json, or None
  lock,            \* activation.lock: an installer, or None
  proc,
  edits,           \* history: number of user edits
  quiet,           \* history: edits made while no operation was at work
  died,            \* history: an installer died at work
  calls, faults

disk == <<tool, config, state>>
aux  == <<edits, quiet, died, calls, faults>>
vars == <<disk, lock, proc, aux>>

Actions == {"install", "adopt", "remove", "rollback"}
Idle == [pc |-> "idle", plan |-> None, backup |-> None, written |-> {}, document |-> None]

At(p, label) == proc[p].pc = label
Becomes(p, r) == proc' = [proc EXCEPT ![p] = r]
Goes(p, label) == Becomes(p, [proc[p] EXCEPT !.pc = label])
Does(p, action) == proc[p].plan.action = action

User == IF config = None THEN {} ELSE config.user
Handlers == IF config = None THEN 0 ELSE config.handlers
WithHandler(c) == IF c = None THEN [handlers |-> 1, user |-> {}] ELSE [c EXCEPT !.handlers = @ + 1]

Init ==
  /\ tool \in Tools
  /\ config \in {None, [handlers |-> 0, user |-> {}]}
                  \union {[handlers |-> 1, user |-> {}] : i \in IF tool = "new" THEN {1} ELSE {}}
  /\ state = None /\ lock = None
  /\ proc = [p \in Installers |-> Idle]
  /\ edits = 0 /\ quiet = {} /\ died = FALSE /\ calls = 0 /\ faults = 0

----------------------------------------------------------------------------
(* Plans *)

\* What refuses an action while it is planned: state, payload, and the handlers found.
Plannable(action) ==
  CASE action = "install" -> state = None /\ Handlers = 0
    [] action = "adopt" -> state = None /\ tool = "new" /\ Handlers = 1
    [] action = "remove" -> state # None
    [] action = "rollback" -> state # None /\ ~state.adopted

\* The digest covers the action, the recorded state and every target as it is.
PlanOf(action) == [action |-> action, state |-> state, tool |-> tool, config |-> config]

\* What refuses a removal when it is executed: drift of what was installed.
Blocked(action) ==
  CASE action = "remove" -> \/ tool \notin {"absent", state.tool}
                            \/ config # None /\ Handlers # 1
    [] action = "rollback" -> tool # state.tool \/ config # state.config
    [] OTHER -> FALSE

Plan(p) ==
  /\ At(p, "idle") /\ calls < MaxCalls
  /\ \E action \in Actions :
       /\ Plannable(action)
       /\ Becomes(p, [Idle EXCEPT !.pc = "planned", !.plan = PlanOf(action)])
  /\ calls' = calls + 1
  /\ UNCHANGED <<disk, lock, edits, quiet, died, faults>>

\* The execution plans again and must come to the digest it was given.
Execute(p) ==
  /\ At(p, "planned")
  /\ LET plan == proc[p].plan IN
     IF ~Plannable(plan.action) \/ PlanOf(plan.action) # plan \/ Blocked(plan.action)
       THEN Becomes(p, Idle) ELSE Goes(p, "lock")
  /\ UNCHANGED <<disk, lock, aux>>

\* A lock is never judged: whoever left it, the next operation is refused.
Acquire(p) ==
  /\ At(p, "lock")
  /\ IF lock = None THEN lock' = p /\ Goes(p, "check") ELSE Becomes(p, Idle) /\ UNCHANGED lock
  /\ UNCHANGED <<disk, aux>>

----------------------------------------------------------------------------
(* Under the lock *)

Check_Skipped(p) ==
  /\ At(p, "check")
  /\ Goes(p, "backup")
  /\ UNCHANGED <<disk, lock, aux>>
Check(p) ==
  /\ At(p, "check")
  /\ Goes(p, IF tool = proc[p].plan.tool /\ config = proc[p].plan.config THEN "backup" ELSE "release")
  /\ UNCHANGED <<disk, lock, aux>>

Backup(p) ==
  /\ At(p, "backup")
  /\ Becomes(p, [proc[p] EXCEPT !.backup = [tool |-> tool, config |-> config],
       !.pc = CASE Does(p, "install") -> "tool" [] Does(p, "adopt") -> "record" [] OTHER -> "config"])
  /\ UNCHANGED <<disk, lock, aux>>

\* copyPayloadExact: removed, then copied file by file; the target counts as written before.
CopyTool_Late(p) ==
  \/ /\ At(p, "tool") /\ tool' = "partial"
     /\ Goes(p, "copying")
     /\ UNCHANGED <<config, state, lock, aux>>
  \/ /\ At(p, "copying") /\ tool' = "new"
     /\ Becomes(p, [proc[p] EXCEPT !.pc = "config", !.written = @ \union {"tool"}])
     /\ UNCHANGED <<config, state, lock, aux>>
CopyTool(p) ==
  \/ /\ At(p, "tool") /\ tool' = "partial"
     /\ Becomes(p, [proc[p] EXCEPT !.pc = "copying", !.written = @ \union {"tool"}])
     /\ UNCHANGED <<config, state, lock, aux>>
  \/ /\ At(p, "copying") /\ tool' = "new"
     /\ Goes(p, "config")
     /\ UNCHANGED <<config, state, lock, aux>>

\* The text that is written was composed when the plan was made.
WriteConfig(p) ==
  /\ At(p, "config") /\ Does(p, "install")
  /\ config' = WithHandler(proc[p].plan.config)
  /\ Becomes(p, [proc[p] EXCEPT !.pc = "verify", !.written = @ \union {"config"}])
  /\ UNCHANGED <<tool, state, lock, aux>>

Verify(p) ==
  /\ At(p, "verify")
  /\ Goes(p, IF config = WithHandler(proc[p].plan.config) THEN "record" ELSE "undo config")
  /\ UNCHANGED <<disk, lock, aux>>

\* An adopted configuration has a base to strip, an adopted tool has none to return to.
Recorded(p) ==
  LET plan == proc[p].plan IN
  IF plan.action = "adopt"
    THEN [adopted |-> TRUE, base |-> "absent", created |-> FALSE, tool |-> plan.tool, config |-> plan.config,
          backup |-> proc[p].backup]
    ELSE [adopted |-> FALSE, base |-> proc[p].backup.tool, created |-> proc[p].backup.config = None,
          tool |-> "new", config |-> WithHandler(plan.config), backup |-> proc[p].backup]

Record(p) ==
  /\ At(p, "record")
  /\ state' = Recorded(p)
  /\ Goes(p, "release")
  /\ UNCHANGED <<tool, config, lock, aux>>

----------------------------------------------------------------------------
(* Removal and rollback: the targets in reverse *)

\* removeConfigTarget reads the document, takes the handlers out and writes it back.
ReadConfig(p) ==
  /\ At(p, "config") /\ Does(p, "remove")
  /\ IF config = None THEN Goes(p, "restore")
     ELSE IF Handlers = 0 THEN Goes(p, "undo config")
     ELSE Becomes(p, [proc[p] EXCEPT !.pc = "strip", !.document = config])
  /\ UNCHANGED <<disk, lock, aux>>

StripConfig(p) ==
  /\ At(p, "strip")
  /\ LET document == proc[p].document IN
     config' = IF proc[p].plan.state.created /\ document = proc[p].plan.state.config
                 THEN None ELSE [document EXCEPT !.handlers = 0]
  /\ Becomes(p, [proc[p] EXCEPT !.pc = "restore", !.document = None])
  /\ UNCHANGED <<tool, state, lock, aux>>

RestoreConfig(p) ==
  /\ At(p, "config") /\ Does(p, "rollback")
  /\ config' = proc[p].plan.state.backup.config
  /\ Goes(p, "restore")
  /\ UNCHANGED <<tool, state, lock, aux>>

RestoreTool(p) ==
  \/ /\ At(p, "restore")
     /\ tool' = IF proc[p].plan.state.base = "absent" THEN "absent" ELSE "partial"
     /\ Goes(p, IF tool' = "absent" THEN "forget" ELSE "restoring")
     /\ UNCHANGED <<config, state, lock, aux>>
  \/ /\ At(p, "restoring")
     /\ tool' = proc[p].plan.state.base
     /\ Goes(p, "forget")
     /\ UNCHANGED <<config, state, lock, aux>>

Forget(p) ==
  /\ At(p, "forget")
  /\ state' = None
  /\ Goes(p, "release")
  /\ UNCHANGED <<tool, config, lock, aux>>

----------------------------------------------------------------------------
(* Restoration after a step that failed, and release *)

Undoes(p, target) == Does(p, "remove") \/ Does(p, "rollback") \/ target \in proc[p].written

UndoConfig(p) ==
  /\ At(p, "undo config")
  /\ config' = IF Undoes(p, "config") THEN proc[p].backup.config ELSE config
  /\ Goes(p, "undo tool")
  /\ UNCHANGED <<tool, state, lock, aux>>

UndoTool(p) ==
  \/ /\ At(p, "undo tool")
     /\ IF ~Undoes(p, "tool") THEN UNCHANGED tool /\ Goes(p, "release")
        ELSE IF proc[p].backup.tool = "absent" THEN tool' = "absent" /\ Goes(p, "release")
        ELSE tool' = "partial" /\ Goes(p, "undoing")
     /\ UNCHANGED <<config, state, lock, aux>>
  \/ /\ At(p, "undoing")
     /\ tool' = proc[p].backup.tool
     /\ Goes(p, "release")
     /\ UNCHANGED <<config, state, lock, aux>>

Release(p) ==
  /\ At(p, "release")
  /\ lock' = None
  /\ Becomes(p, Idle)
  /\ UNCHANGED <<disk, aux>>

----------------------------------------------------------------------------
(* The user, failures, deaths *)

Writing == {"tool", "copying", "config", "record", "strip", "restore", "restoring", "forget"}
Undoing == {"undo config", "undo tool", "undoing"}
Working == Writing \union Undoing \union {"backup", "verify"}
Busy == \E p \in Installers : proc[p].pc \in Working

Edit ==
  /\ edits < MaxEdits
  /\ edits' = edits + 1
  /\ config' = [handlers |-> Handlers, user |-> User \union {edits'}]
  /\ quiet' = IF Busy THEN quiet ELSE quiet \union {edits'}
  /\ UNCHANGED <<tool, state, lock, proc, died, calls, faults>>

\* A disk that is full or a file that is held; restoring is assumed to succeed.
Fail(p) ==
  /\ proc[p].pc \in Writing /\ faults < MaxFaults
  /\ faults' = faults + 1
  /\ Goes(p, IF Does(p, "adopt") THEN "release" ELSE "undo config")
  /\ UNCHANGED <<disk, lock, edits, quiet, died, calls>>

Die(p) ==
  /\ lock = p /\ proc[p].pc \notin {"idle", "planned", "lock"} /\ faults < MaxFaults
  /\ faults' = faults + 1
  /\ died' = TRUE
  /\ Becomes(p, Idle)
  /\ UNCHANGED <<disk, lock, edits, quiet, calls>>

\* Only an operator who has seen that the installer is gone removes its lock.
ClearLock ==
  /\ lock # None /\ At(lock, "idle")
  /\ lock' = None
  /\ UNCHANGED <<disk, proc, aux>>

Next ==
  \/ \E p \in Installers :
       \/ Plan(p) \/ Execute(p) \/ Acquire(p) \/ Check(p) \/ Backup(p)
       \/ CopyTool(p) \/ WriteConfig(p) \/ Verify(p) \/ Record(p)
       \/ ReadConfig(p) \/ StripConfig(p) \/ RestoreConfig(p) \/ RestoreTool(p) \/ Forget(p)
       \/ UndoConfig(p) \/ UndoTool(p) \/ Release(p)
       \/ Fail(p) \/ Die(p)
  \/ Edit \/ ClearLock

Spec == Init /\ [][Next]_vars

----------------------------------------------------------------------------
(* Properties *)

\* verifyInstallation
Healthy == tool = state.tool /\ Handlers = 1

\* What the user adds to the configuration while no operation is at work is there for good:
\* no install, removal, rollback or restoration writes over an edit its plan has not seen.
QuietEditsStay == quiet \subseteq User

\* Whatever fails and is restored, once nobody is at work the installation is whole or gone:
\* a recorded one is healthy, no handler calls a tool that is not there, none is doubled.
\* (Deaths leave it in pieces, as the installer has no recovery of its own.)
WholeOrNothing ==
  ~died /\ ~Busy =>
    /\ state # None => Healthy
    /\ tool # "partial"
    /\ Handlers <= 1 /\ (Handlers = 1 => tool = "new")

=============================================================================
