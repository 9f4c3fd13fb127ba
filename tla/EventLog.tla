----------------------------- MODULE EventLog -----------------------------
(***************************************************************************)
(* What the event store of src/src/event-store.mjs promises to the         *)
(* components that append to it: one growing log in which every            *)
(* idempotency key occurs at most once, and acknowledgements that name the *)
(* record of their key.  Files, locks and crashes do not appear here.      *)
(***************************************************************************)
EXTENDS Naturals, Sequences, Functions

CONSTANTS
  Keys,      \* idempotency keys
  Initial    \* the log to begin with

VARIABLES
  log,       \* the keys in the order of their records
  acked,     \* the rows [key, seq] that callers were told
  void       \* the promise no longer holds

Init == log = Initial /\ acked = {} /\ void = FALSE

\* A key that the log does not hold becomes its next record.
Add ==
  \E k \in Keys \ Range(log) :
    /\ log' = Append(log, k)
    /\ UNCHANGED acked

\* Callers are told rows of the log; nothing they were told is taken back.
Acknowledge ==
  /\ acked \subseteq acked'
  /\ \A a \in acked' : a.seq \in 1..Len(log) /\ log[a.seq] = a.key
  /\ UNCHANGED log

\* Past the assumptions of the store anything may happen.
Broken == void'

Next == (void' = void /\ (Add \/ Acknowledge)) \/ Broken

Spec == Init /\ [][Next]_<<log, acked, void>>
=============================================================================
