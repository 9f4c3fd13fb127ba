------------------------------ MODULE Slicing ------------------------------
(***************************************************************************)
(* The cutting of a dialogue into slices (slicing.mts, buildSlices).  A    *)
(* block of text is its length; a segment names the part of a block that   *)
(* a slice carries.  A plan that would have too many slices is refused.    *)
(***************************************************************************)
EXTENDS Integers, SequencesExt

CONSTANTS
  MaxChars,        \* characters of a slice
  MaxSegments,     \* segments after which a slice is closed at the end of a block
  MaxSlices        \* slices of a plan

ASSUME LimitsAssumption == {MaxChars, MaxSegments, MaxSlices} \subseteq Nat \ {0}

Closed == [slices |-> <<>>, segments |-> <<>>, used |-> 0]

Flush(cut) ==
  IF cut.segments = <<>> THEN cut ELSE [Closed EXCEPT !.slices = Append(cut.slices, cut.segments)]

\* One more character of a block: it lengthens the block's last segment or starts one.
AddChar_Full(cut, block, at) ==
  LET full == IF cut.used = MaxChars THEN [cut EXCEPT !.used = 0] ELSE cut
      n == Len(full.segments)
  IN  [full EXCEPT !.used = @ + 1,
         !.segments = IF n > 0 /\ @[n].block = block THEN [@ EXCEPT ![n].to = at]
                      ELSE Append(@, [block |-> block, from |-> at - 1, to |-> at])]
AddChar(cut, block, at) ==
  LET open == IF cut.used = MaxChars THEN Flush(cut) ELSE cut
      n == Len(open.segments)
  IN  [open EXCEPT !.used = @ + 1,
         !.segments = IF n > 0 /\ @[n].block = block THEN [@ EXCEPT ![n].to = at]
                      ELSE Append(@, [block |-> block, from |-> at - 1, to |-> at])]

\* An empty block is carried too, as a segment of no characters.
AddBlock(cut, block, length) ==
  LET added == IF length = 0
                 THEN [cut EXCEPT !.segments = Append(@, [block |-> block, from |-> 0, to |-> 0])]
                 ELSE FoldLeftDomain(LAMBDA c, at : AddChar(c, block, at), cut, [i \in 1..length |-> i])
  IN  IF Len(added.segments) >= MaxSegments THEN Flush(added) ELSE added

BuildSlices(lengths) ==
  Flush(FoldLeftDomain(LAMBDA cut, block : AddBlock(cut, block, lengths[block]), Closed, lengths)).slices

Refusable(lengths) == lengths = <<>> \/ Len(BuildSlices(lengths)) > MaxSlices

----------------------------------------------------------------------------
\* What a reader of the slices finds of a block, in order.
Carried(slices, block) == SelectSeq(FlattenSeq(slices), LAMBDA segment : segment.block = block)

Chars(slice) == FoldLeft(LAMBDA n, segment : n + segment.to - segment.from, 0, slice)

\* The slices of a plan hold every block from its first character to its last, once and in
\* order; none is longer than a model is given, and none but the last is closed before it is
\* full of characters or of segments.
Covers(slices, lengths) ==
  /\ \A block \in DOMAIN lengths :
       LET parts == Carried(slices, block) IN
       /\ Len(parts) >= 1 /\ parts[1].from = 0 /\ parts[Len(parts)].to = lengths[block]
       /\ \A i \in 2..Len(parts) : parts[i].from = parts[i - 1].to
  /\ \A i \in 2..Len(FlattenSeq(slices)) : FlattenSeq(slices)[i - 1].block <= FlattenSeq(slices)[i].block
  /\ \A k \in DOMAIN slices :
       /\ Len(slices[k]) <= MaxSegments /\ Chars(slices[k]) <= MaxChars
       /\ k < Len(slices) => Chars(slices[k]) = MaxChars \/ Len(slices[k]) >= MaxSegments
=============================================================================
