----------------------------- MODULE MCCapture -----------------------------
(* Small instances of Capture for TLC. *)
EXTENDS Capture

CONSTANTS s1, s2, f1, f2

TwoSources == <<s1, s2>>
TwoDocs == <<f1, f2>>
\* A slice takes two characters and two segments.  Of the first transcript's lines one fills a slice
\* inside its second block, one holds no dialogue and one only empty blocks; they come in jobs of one
\* line or two.  The other's line takes more slices than a plan may have.
SomeBlocks == s1 :> << <<1, 3>>, <<>>, <<0, 0, 0>> >> @@ s2 :> << <<9>> >>

\* The second text of one heading is a small edit of the first, next to a new section.
SomeContents == {<<Section("h", 1)>>, <<Section("h", 2), Section("g", 3)>>}
SomeEdits == {<<1, 2>>, <<2, 1>>}
=============================================================================
