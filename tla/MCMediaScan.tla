---------------------------- MODULE MCMediaScan -----------------------------
(***************************************************************************)
(* Up to three media rows on two local paths and a URL; a sound image of   *)
(* exactly the minimum size, a smaller one, a smaller one that is cut off  *)
(* past its header, one whose checksum is wrong there, and bytes that are  *)
(* no image.                                                               *)
(***************************************************************************)
EXTENDS MediaScan, SequencesExt

CONSTANTS p1, p2, url, large, small, cut, damaged, junk

MCPath == {p1, p2}
MCElsewhere == {url}
MCContent == {large, small, cut, damaged, junk}
MCImage == [c \in MCContent |->
              [header |-> CASE c \in {large, damaged} -> 2 [] c \in {small, cut} -> 1 [] OTHER -> 0,
               verifies |-> CASE c \in {large, small} -> "yes" [] c = damaged -> "raises"
                              [] OTHER -> "no"]]
MCTables == BoundedSeq(MCPath \cup MCElsewhere, 3)
MCTrees == [MCPath -> State]
=============================================================================
