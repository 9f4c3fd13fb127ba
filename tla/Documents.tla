----------------------------- MODULE Documents -----------------------------
(***************************************************************************)
(* What the capture of one document computes (documents.mts): which of its *)
(* sections are news, and the snapshot that holds them.  A section is a    *)
(* heading and a text; its digest covers both, so it stands for itself.    *)
(***************************************************************************)
EXTENDS Integers, SequencesExt

CONSTANTS
  SmallEdits,      \* pairs of texts that differ by whitespace or one short window
  None

Section(heading, text) == [heading |-> heading, text |-> text]

\* The section it is an edit of: the one at its place under its heading, or the first there.
Prior(previous, sections, i) ==
  LET there == SelectSeq([k \in DOMAIN previous |-> k],
                         LAMBDA k : previous[k].heading = sections[i].heading)
  IN  IF there = <<>> THEN None
      ELSE IF i \in DOMAIN previous /\ previous[i].heading = sections[i].heading THEN previous[i]
      ELSE previous[there[1]]

TrivialEdit(before, after) == before # None /\ <<before.text, after.text>> \in SmallEdits

\* What is done with a section nobody has seen, in any document.
Disposition(previous, sections, i, baseline) ==
  IF baseline THEN "baseline"
  ELSE IF TrivialEdit(Prior(previous, sections, i), sections[i]) THEN "trivial-edit" ELSE "emitted"

Unseen(seen, sections, i) ==
  /\ \A mark \in seen : mark.section # sections[i]
  /\ \A k \in 1..(i - 1) : sections[k] # sections[i]

\* The marks of a snapshot's sections; the first mark of a section stays.
Marks(seen, id, baseline) ==
  LET previous == IF id.previous = None THEN <<>> ELSE id.previous.content
      sections == id.content
  IN  {[section |-> sections[i], generation |-> id,
        disposition |-> Disposition(previous, sections, i, baseline)] :
         i \in {j \in DOMAIN sections : Unseen(seen, sections, j)}}

\* A snapshot is named by its document, its content and the snapshot before it.
SnapshotId(file, content, previous) == [file |-> file, content |-> content, previous |-> previous]

Emitted(marks) == {mark.section : mark \in {m \in marks : m.disposition = "emitted"}}

\* The receipt: what an orphan must agree with to be used again.
Snapshot(id, marks, baseline) == [id |-> id, emitted |-> Emitted(marks), baseline |-> baseline]
=============================================================================
