------------------------------- MODULE MCOta --------------------------------
(* Instances of Ota for TLC: two images, four or five sectors of two cells. *)
EXTENDS Ota

\* The new image "b" is apart from the installed image "a".  When images are
\* signed the last cell of each is its signature.
MCSize == [m \in Images |-> IF m = "a" THEN 3 ELSE 4]
\* "b" overlaps its destination; "a", installed over it, does not.
MCSizeOverlap == [m \in Images |-> IF m = "a" THEN 3 ELSE 6]
=============================================================================
