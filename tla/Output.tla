------------------------------- MODULE Output -------------------------------
(***************************************************************************)
(* What a model says of a slice, and what of it is stored (output.mts as   *)
(* consumer.mts and provider.mts use it).  The model reports findings that *)
(* point into the slice; the runner adds which segments the result covers; *)
(* the result is checked against the slice when it arrives and against the *)
(* source, cut again under the policy of that time, when it is stored.     *)
(***************************************************************************)
EXTENDS Integers, Sequences, FiniteSets

CONSTANTS
  Blocks,        \* bound: blocks of a dialogue
  Length,        \* bound: characters of a block
  Narrow, Wide,  \* the two sizes a slice may be configured to have
  None,
  MaxChanges     \* bound: changes of the source or of the policy

VARIABLES
  source,        \* the blocks of the source, each a length, and the edition of their text
  size,          \* policy.sliceChars
  item,          \* the slice the model has, None when there is none
  reply,         \* what the model said of it, None before it answers
  stored,        \* the result that is stored, and the slices of the source at that time
  changes
vars == <<source, size, item, reply, stored, changes>>

Cut(chars) == INSTANCE Slicing WITH MaxChars <- chars, MaxSegments <- 64, MaxSlices <- 4096
Slices == Cut(size)!BuildSlices(source.lengths)
Dialogues == UNION {[1..n -> 0..Length] : n \in 1..Blocks}
Refs == [block : 1..Blocks, from : 0..Length, to : 0..Length]

Init ==
  /\ source \in [lengths : Dialogues, edition : {0}] /\ size \in {Narrow, Wide}
  /\ item = None /\ reply = None /\ stored = None /\ changes = 0

-----------------------------------------------------------------------------
(* Checks.  What a finding says, and whether it shows a credential, is the model's `shaped`. *)

IsSlice(segments) == segments # <<>> /\ \A i \in DOMAIN segments : segments[i].from <= segments[i].to

\* An output names the slice, what it covers, whether it has findings, and the findings.
IsOutput(output) == output.shaped

\* The runner says what is covered: a model that was asked to repeat the offsets got them wrong.
WithRunnerCoverage(answer, slice) ==
  [answer EXCEPT !.coverage = slice.segments, !.disposition = IF answer.refs = {} THEN "none" ELSE "findings"]

\* Mutant: a reference may begin in one segment and end in another.
ValidOutput_Spans(output, slice) ==
  /\ IsSlice(slice.segments) /\ IsOutput(output)
  /\ output.index = slice.index /\ output.coverage = slice.segments
  /\ \A ref \in output.refs :
       \E first, last \in {slice.segments[i] : i \in DOMAIN slice.segments} :
          ref.block = first.block /\ ref.from >= first.from /\ ref.to <= last.to

ValidOutput(output, slice) ==
  /\ IsSlice(slice.segments) /\ IsOutput(output)
  /\ output.index = slice.index
  /\ output.coverage = slice.segments
  /\ output.disposition = IF output.refs = {} THEN "none" ELSE "findings"
  /\ \A ref \in output.refs :
       /\ ref.from < ref.to
       /\ \E i \in DOMAIN slice.segments :
            LET span == slice.segments[i] IN
            ref.block = span.block /\ ref.from >= span.from /\ ref.to <= span.to

-----------------------------------------------------------------------------
(* One slice goes to a model and comes back *)

Send(i) ==
  /\ item = None /\ i \in DOMAIN Slices
  /\ item' = [index |-> i, segments |-> Slices[i], edition |-> source.edition, size |-> size]
  /\ UNCHANGED <<source, size, reply, stored, changes>>

\* The model answers as it likes, about the slice it was given or another.  References are checked
\* one by one, so one stands for all.
Answer(index, refs, shaped) ==
  /\ item # None /\ reply = None
  /\ reply' = [index |-> index, refs |-> refs, shaped |-> shaped, coverage |-> <<>>, disposition |-> "unset"]
  /\ UNCHANGED <<source, size, item, stored, changes>>

\* The provider's run ends: an answer that does not fit the slice is a failed run.
Return ==
  /\ reply # None /\ reply.disposition = "unset"
  /\ reply' = LET output == WithRunnerCoverage(reply, item) IN
       IF ValidOutput(output, item) THEN output ELSE [reply EXCEPT !.disposition = "failed"]
  /\ UNCHANGED <<source, size, item, stored, changes>>

\* Mutant: only the text is compared.
Current_ByText(slice) == slice.edition = source.edition

\* The slice is still a slice of the source, cut as the policy now says.
Current(slice) ==
  /\ slice.edition = source.edition /\ slice.size = size
  /\ slice.index \in DOMAIN Slices /\ Slices[slice.index] = slice.segments

Store ==
  /\ reply # None /\ reply.disposition \in {"none", "findings"} /\ stored = None
  /\ stored' = IF Current(item) /\ ValidOutput(reply, item)
               THEN [output |-> reply, slices |-> Slices, edition |-> source.edition, read |-> item.edition]
               ELSE [output |-> None]
  /\ UNCHANGED <<source, size, item, reply, changes>>

Rewrite(lengths) ==
  /\ changes < MaxChanges /\ changes' = changes + 1
  /\ source' = [lengths |-> lengths, edition |-> source.edition + 1]
  /\ UNCHANGED <<size, item, reply, stored>>

Resize ==
  /\ changes < MaxChanges /\ changes' = changes + 1
  /\ size' = IF size = Narrow THEN Wide ELSE Narrow
  /\ UNCHANGED <<source, item, reply, stored>>

Next ==
  \/ \E i \in 1..(Blocks * (Length + 1)) :
       \/ Send(i)
       \/ \E ref \in Refs : Answer(i, {ref}, TRUE)
       \/ \E shaped \in BOOLEAN : Answer(i, {}, shaped)
  \/ Return \/ Store
  \/ \E lengths \in Dialogues : Rewrite(lengths)
  \/ Resize

Spec == Init /\ [][Next]_vars

-----------------------------------------------------------------------------
(* Properties *)

\* What is stored can be looked up.  Every reference of a stored finding names characters that are in the
\* source as it is when the finding is stored, and that today's cut of it puts into the slice the result is
\* filed under and into no other, though the model answers what it likes, and the source and the size of a
\* slice may change while it runs (output.mts:75, consumer.mts:116-123).
FindingsCanBeLookedUp ==
  stored # None => stored.output = None \/
    /\ stored.read = stored.edition
    /\ \A ref \in stored.output.refs, at \in 1..Length :
         ref.from < at /\ at <= ref.to =>
           {k \in DOMAIN stored.slices : \E i \in DOMAIN stored.slices[k] :
              LET span == stored.slices[k][i] IN
              span.block = ref.block /\ span.from < at /\ at <= span.to} = {stored.output.index}
=============================================================================
