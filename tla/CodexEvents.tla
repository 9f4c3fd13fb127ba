---------------------------- MODULE CodexEvents -----------------------------
(***************************************************************************)
(* The parser of the event stream that Codex prints, one event after the   *)
(* other, against a definition of the streams that are one finished turn   *)
(* without tools.  An event is its kind and, for an item, its id and type. *)
(***************************************************************************)
EXTENDS Naturals, Sequences, FiniteSets

CONSTANTS
  Ids,          \* item ids
  MaxEvents,    \* bound: events of a stream
  None

Types == {"agent_message", "reasoning"}
ItemKinds == {"item.started", "item.updated", "item.completed"}
Item(kind, id, type) == [kind |-> kind, id |-> id, type |-> type]
Plain(kind) == Item(kind, None, None)
Notice(id) == Item("item.completed", id, "error")    \* with the text of the startup notice
Events ==
  {Plain(kind) : kind \in {"thread.started", "turn.started", "turn.completed", "other"}}
  \union {Item(kind, id, type) : kind \in ItemKinds, id \in Ids, type \in Types}
  \union {Notice(id) : id \in Ids}

VARIABLES
  seen,         \* the events read so far
  permitted,    \* the bound version of the provider is the one whose notice was reviewed
  phase,        \* "new", "thread", "turn", "completed", or "refused"
  items,        \* per id: unknown (None), or its type and whether it is done
  final         \* how many final messages, how many startup notices
vars == <<seen, permitted, phase, items, final>>

Init ==
  /\ seen = <<>> /\ permitted \in BOOLEAN
  /\ phase = "new"
  /\ items = [id \in Ids |-> None]
  /\ final = [messages |-> 0, notices |-> 0]

Takes(event) == phase # "refused" /\ Len(seen) < MaxEvents /\ seen' = Append(seen, event)

ThreadStarted(event) ==
  /\ event.kind = "thread.started" /\ phase = "new"
  /\ phase' = "thread" /\ UNCHANGED <<items, final>>

TurnStarted(event) ==
  /\ event.kind = "turn.started" /\ phase = "thread"
  /\ phase' = "turn" /\ UNCHANGED <<items, final>>

StartupNotice(event) ==
  /\ event.type = "error" /\ permitted /\ phase = "thread" /\ final.notices = 0
  /\ items[event.id] = None
  /\ items' = [items EXCEPT ![event.id] = [type |-> "startup-notice", done |-> TRUE]]
  /\ final' = [final EXCEPT !.notices = 1]
  /\ UNCHANGED phase

\* An id belongs to one item, which goes on until it is completed.
\* Mutant: an item may be completed again.
Continues_Reopened(event) ==
  LET before == items[event.id] IN
  before # None => before.type = event.type /\ event.kind # "item.started"
Continues(event) ==
  LET before == items[event.id] IN
  before # None => ~before.done /\ before.type = event.type /\ event.kind # "item.started"

ItemEvent(event) ==
  /\ event.kind \in ItemKinds /\ event.type \in Types /\ phase = "turn"
  /\ Continues(event)
  /\ items' = [items EXCEPT ![event.id] = [type |-> event.type, done |-> event.kind = "item.completed"]]
  /\ IF event.kind = "item.completed" /\ event.type = "agent_message"
       THEN final.messages = 0 /\ final' = [final EXCEPT !.messages = 1]
       ELSE UNCHANGED final
  /\ UNCHANGED phase

TurnCompleted(event) ==
  /\ event.kind = "turn.completed" /\ phase = "turn" /\ final.messages = 1
  /\ \A id \in Ids : items[id] # None => items[id].done
  /\ phase' = "completed" /\ UNCHANGED <<items, final>>

Accepts(event) ==
  ThreadStarted(event) \/ TurnStarted(event) \/ StartupNotice(event) \/ ItemEvent(event) \/ TurnCompleted(event)

\* Also whatever comes after the turn was completed.
Refuse(event) ==
  /\ ~ENABLED Accepts(event)
  /\ phase' = "refused" /\ UNCHANGED <<items, final>>

Read(event) == Takes(event) /\ (Accepts(event) \/ Refuse(event)) /\ UNCHANGED permitted

Next == \E event \in Events : Read(event)
Spec == Init /\ [][Next]_vars

-----------------------------------------------------------------------------
(* The definition *)

Of(kind) == {n \in 1..Len(seen) : seen[n].kind = kind}
OfItem(id) == {n \in 1..Len(seen) : seen[n].id = id}

\* One finished item: it may be announced, it may be updated, it ends with its completion,
\* and it keeps its type.
Whole(id) ==
  LET places == OfItem(id) IN
  places # {} =>
    /\ Cardinality({seen[n].type : n \in places}) = 1
    /\ \A n \in places :
         /\ seen[n].kind = "item.started" => \A m \in places : n <= m
         /\ seen[n].kind = "item.completed" <=> \A m \in places : m <= n
    /\ Cardinality({n \in places : seen[n].kind = "item.started"}) <= 1

OneTurn ==
  LET turn == CHOOSE n \in Of("turn.started") : TRUE
      notices == {n \in 1..Len(seen) : seen[n].type = "error"}
      messages == {n \in Of("item.completed") : seen[n].type = "agent_message"} IN
  /\ Of("other") = {}
  /\ Of("thread.started") = {1} /\ Of("turn.completed") = {Len(seen)}
  /\ Cardinality(Of("turn.started")) = 1
  /\ \A n \in 1..Len(seen) : seen[n].type \in Types => turn < n
  /\ \A n \in notices : n < turn
  /\ Cardinality(notices) <= IF permitted THEN 1 ELSE 0
  /\ Cardinality(messages) = 1
  /\ \A id \in Ids : Whole(id)

\* The parser accepts exactly the streams of one turn without tools and with one final
\* message: whatever is read, it has accepted it if and only if the definition does.
AcceptsOneTurn == (phase = "completed") <=> OneTurn
=============================================================================
