------------------------------ MODULE Wording -------------------------------
(***************************************************************************)
(* What review.mts compares of two texts.  A text is a sequence of pieces: *)
(* words of letters, runs of digits, marks and white space, where letters  *)
(* and digits do not touch.  Case is left out.                             *)
(***************************************************************************)
EXTENDS Naturals, Sequences, FiniteSets, FiniteSetsExt, SequencesExt

CONSTANTS
  Digits,         \* the pieces that are runs of digits
  Marks,          \* the pieces that are a mark or white space
  Stops           \* words that count for nothing: too short, or in the list STOP

Points == {".", ","}
Blanks == {" ", "  "}
Letters(p) == p \notin Digits \union Marks

\* Runs of white space become one space.
Squash(t) == [i \in DOMAIN t |-> IF t[i] \in Blanks THEN " " ELSE t[i]]

\* What is neither letter nor digit goes: the marks between digits too.
Normalized(t) == SelectSeq(t, LAMBDA p : p \notin Marks)

\* Where numbers begin, from the left: digits that are not the decimals of the number before.
NumbersBegin(t) ==
  LET begins[i \in DOMAIN t] ==
        t[i] \in Digits /\ ~(i > 2 /\ t[i - 1] \in Points /\ begins[i - 2]) IN
  {i \in DOMAIN t : begins[i]}
NumberAt(t, i) ==
  IF i + 2 <= Len(t) /\ t[i + 1] \in Points /\ t[i + 2] \in Digits THEN SubSeq(t, i, i + 2) ELSE <<t[i]>>

\* The numbers of a text, each as often as it is stated.
Numbers(t) ==
  [n \in {NumberAt(t, i) : i \in NumbersBegin(t)} |-> Cardinality({i \in NumbersBegin(t) : NumberAt(t, i) = n})]

\* Its words, with the points, dashes and digits a word draws to it, and its numbers.
Words(t) ==
  LET OneRun(i, j) == \A k \in i..j : Letters(t[k]) \/ t[k] \in Digits \union {".", "-", "_"}
      begins == {i \in DOMAIN t : Letters(t[i]) /\ ~\E h \in 1..(i - 1) : Letters(t[h]) /\ OneRun(h, i)}
      word(i) == SubSeq(t, i, Max({j \in i..Len(t) : OneRun(i, j)})) IN
  ({word(i) : i \in begins} \ {<<p>> : p \in Stops}) \union DOMAIN Numbers(t)

\* A text with what is compared of it.
Read(t) ==
  [raw |-> t, squashed |-> Squash(t), normalized |-> Normalized(t), numbers |-> Numbers(t), words |-> Words(t)]

\* similarity(a, b) >= share / 10
SimilarBy(a, b, share) ==
  Cardinality(a.words \intersect b.words) * 10 >= share * Cardinality(a.words \union b.words)
Closer(a, b, text) ==
  Cardinality(a.words \intersect text.words) * Cardinality(b.words \union text.words)
    > Cardinality(b.words \intersect text.words) * Cardinality(a.words \union text.words)
=============================================================================
