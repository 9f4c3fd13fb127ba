------------------------------- MODULE Advice -------------------------------
(***************************************************************************)
(* The advice a reviewer gets: what accepting an observation would change  *)
(* in the accepted knowledge, the decision that is suggested for it, and   *)
(* the one suggestion that is applied by a rule (review.mts).              *)
(*                                                                         *)
(* Texts and their comparison are in module Wording.  How decisions race   *)
(* with each other is in module Publication; here they are made one at a   *)
(* time.                                                                   *)
(***************************************************************************)
EXTENDS Wording

CONSTANTS
  Observations,
  Contents,       \* what an observation may be: kind, source, lane, text (of Wording!Read), tone, resolved
  None,           \* the source of an observation whose source is not known
  MaxDecisions    \* bound: decisions

VARIABLES
  content,        \* what each observation says
  log             \* the decisions, in order
vars == <<content, log>>

Kinds == {"decision", "constraint", "correction", "failure", "verification", "open-question"}
Verdicts == {"accept", "reject", "defer"}

Init == content \in [Observations -> Contents] /\ log = <<>>

DecisionsOn(o) == {n \in DOMAIN log : log[n].item = o}
Latest(o) == IF DecisionsOn(o) = {} THEN "none" ELSE log[Max(DecisionsOn(o))].decision
Listed(o) == Latest(o) \in {"none", "defer"}

\* Accepted knowledge, in the order of its decisions.
Known ==
  LET Position(n) == log[n].decision = "accept" /\ n = Max(DecisionsOn(log[n].item)) IN
  [i \in DOMAIN SelectSeq([n \in DOMAIN log |-> n], Position) |->
     log[SelectSeq([n \in DOMAIN log |-> n], Position)[i]].item]

-----------------------------------------------------------------------------
(* Comparing two texts *)

Text(o) == content[o].text

\* Of the known observations that share half of their words, the closest, and the first of those.
Best(known, o) ==
  LET near == {i \in DOMAIN known : SimilarBy(Text(known[i]), Text(o), 5)}
      closest == {i \in near : ~\E j \in near : Closer(Text(known[j]), Text(known[i]), Text(o))} IN
  IF near = {} THEN {} ELSE {known[Min(closest)]}

-----------------------------------------------------------------------------
(* knowledgeChange and suggest *)

\* The same text, apart from white space, of the same kind and source.
\* Mutant: the source is not looked at.
Twins_AnySource(known, o, source) ==
  {k \in ToSet(known) : content[k].kind = content[o].kind /\ Text(k).squashed = Text(o).squashed /\ Text(k) # Text(o)}
Twins(known, o, source) ==
  {k \in ToSet(known) : /\ source # None /\ content[k].source = source
                        /\ content[k].kind = content[o].kind
                        /\ Text(k).squashed = Text(o).squashed /\ Text(k) # Text(o)}
Equals(known, o) ==
  {k \in ToSet(known) : content[k].kind = content[o].kind /\ Text(k).squashed = Text(o).squashed}

\* Whether a change is more than wording: a correction, or other numbers.
\* Mutant: only a correction is.
Material_Correction(o, k) == content[o].kind = "correction"
Material(o, k) == content[o].kind = "correction" \/ Text(o).numbers # Text(k).numbers

\* The same text but for marks is a repetition whatever the change.
Repeats(o, k) ==
  \/ Text(o).normalized = Text(k).normalized
  \/ SimilarBy(Text(o), Text(k), 8) /\ ~Material(o, k)

KnowledgeChange(known, o, source) ==
  IF Twins(known, o, source) # {} THEN "whitespace"
  ELSE IF Equals(known, o) # {} THEN "duplicate"
  ELSE IF Best(known, o) = {} THEN "add"
  ELSE IF \E k \in Best(known, o) : Repeats(o, k) THEN "duplicate" ELSE "replace"

Without(known, o) == SelectSeq(known, LAMBDA k : k # o)
Change(o) == KnowledgeChange(Without(Known, o), o, content[o].source)

\* A document that restates what a transcript established.
TranscriptDuplicate(o) ==
  /\ content[o].lane = "document"
  /\ KnowledgeChange(SelectSeq(Known, LAMBDA k : content[k].lane # "document"), o, None) \in {"duplicate", "whitespace"}

Advise(action, reason) == [action |-> action, reason |-> reason]
Suggest(o) ==
  LET kind == content[o].kind tone == content[o].tone IN
  IF ~content[o].resolved THEN Advise("defer", "source-unresolved")
  ELSE IF TranscriptDuplicate(o) THEN Advise("reject", "duplicate-of-transcript")
  ELSE IF Change(o) = "whitespace" THEN Advise("accept", "whitespace-only")
  ELSE IF Change(o) = "duplicate" THEN Advise("reject", "duplicate-of-accepted")
  ELSE IF kind = "open-question" THEN Advise("defer", "open-question")
  ELSE IF kind \in {"verification", "failure"} /\ tone = "transient" THEN Advise("reject", "transient-state")
  ELSE IF tone = "vague" THEN Advise("defer", "too-vague")
  ELSE IF kind \in {"correction", "decision", "constraint", "failure"} THEN Advise("accept", "durable")
  ELSE Advise("defer", "verification-needs-check")

-----------------------------------------------------------------------------
(* Decisions *)

Record(o, decision, by, shown) == [item |-> o, decision |-> decision, by |-> by, shown |-> shown]

\* The reviewer decides what they like, and decides again; the suggestion is kept beside it.
Decide(o, decision) ==
  /\ Len(log) < MaxDecisions
  /\ log' = Append(log, Record(o, decision, "operator", Suggest(o)))
  /\ UNCHANGED content

\* Several decisions at once keep the suggestions from before the first.
DecideBatch(first, second, decision) ==
  /\ Len(log) + 1 < MaxDecisions /\ first # second
  /\ log' = log \o <<Record(first, decision, "operator", Suggest(first)),
                     Record(second, decision, "operator", Suggest(second))>>
  /\ UNCHANGED content

\* The rule takes what the list suggests to it, from one listing.
ApplyAutomatic ==
  LET items == {o \in Observations : Listed(o) /\ Suggest(o).reason = "whitespace-only"} IN
  /\ items # {} /\ Len(log) + Cardinality(items) <= MaxDecisions
  /\ \E order \in SetToSeqs(items) :
       log' = log \o [i \in DOMAIN order |-> Record(order[i], "accept", "rule", Suggest(order[i]))]
  /\ UNCHANGED content

Next ==
  \/ ApplyAutomatic
  \/ \E o \in Observations, decision \in Verdicts : Decide(o, decision)
  \/ \E first, second \in Observations, decision \in Verdicts : DecideBatch(first, second, decision)

Spec == Init /\ [][Next]_vars

-----------------------------------------------------------------------------

SameKnowledge(a, b) ==
  content[a].kind = content[b].kind /\ content[a].source = content[b].source /\ Text(a).squashed = Text(b).squashed

\* Nothing is accepted without a press: whatever the rule accepted, a reviewer had accepted
\* before with the same words, of the same kind and from the same source, also where the
\* rule built on what the rule accepted, and where that press has been undone since.
RuleTracesToAPress ==
  \A n \in DOMAIN log : log[n].by = "rule" =>
    /\ content[log[n].item].resolved
    /\ \E m \in 1..(n - 1) : log[m].by = "operator" /\ log[m].decision = "accept"
                             /\ SameKnowledge(log[m].item, log[n].item)

Dropped == {"duplicate-of-accepted", "duplicate-of-transcript"}

\* What is suggested to be dropped as a repetition repeats something accepted, and for a document
\* something accepted from a transcript: the same text but for its marks or, unless it is a
\* correction, a text that states the same numbers, each as often.
RepetitionsRepeat ==
  \A o \in Observations : Suggest(o).reason \in Dropped =>
    \E k \in ToSet(Known) \ {o} :
      /\ Suggest(o).reason = "duplicate-of-transcript" => content[k].lane # "document"
      /\ \/ Text(k).normalized = Text(o).normalized
         \/ content[o].kind # "correction" /\ Text(k).numbers = Text(o).numbers

\* review.mts:169 "A correction, or any change in the stated numbers, is a replacement unless the text
\* is identical": what is dropped as a repetition states the numbers of something accepted.  The code does
\* not keep it: a decimal point is a mark, so "1.5" and "1-5" are the same text with other numbers.
OtherNumbersAreKept ==
  \A o \in Observations : Suggest(o).reason \in Dropped =>
    \E k \in ToSet(Known) \ {o} : Text(k).numbers = Text(o).numbers
=============================================================================
