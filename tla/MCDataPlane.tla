---------------------------- MODULE MCDataPlane -----------------------------
(***************************************************************************)
(* Small networks and transfers for the model checking of DataPlane.       *)
(***************************************************************************)
EXTENDS DataPlane

ThreeFiles == {0, 7, 8}
TwoFiles == {7, 8}
FromMany == [f \in ThreeFiles |-> 0]
\* In the circle of 0 and 1, with buffers of two, four packets fit and six do not.
Long == [f \in ThreeFiles |-> IF f = 8 THEN 6 ELSE 4]
LongLived == [f \in ThreeFiles |-> 4]
NearTheEnds == [f \in ThreeFiles |-> IF f = 7 THEN 65534 ELSE 0]

\* Three routers in a row; files from one end to the other.  Or router 1 takes 0 for
\* the way to 2, and the files go round in a circle.
Row == [r \in 0 .. 2 |-> [d \in 0 .. 2 |->
           IF r < d THEN r + 1 ELSE IF r > d THEN r - 1 ELSE r]]
RowOrCircle == {Row, [Row EXCEPT ![1][2] = 0]}
ToRight == [f \in ThreeFiles |-> 2]

\* Two files from 0 and 1, both to 3; the way of 0 is over 2, or over 1 and 2.
Meeting == [r \in 0 .. 3 |-> [d \in 0 .. 3 |-> IF r < 2 THEN 2 ELSE 3]]
MeetingOrDetour == {Meeting, [Meeting EXCEPT ![0][3] = 1]}
MeetingOnly == {Meeting}
FromBoth == [f \in TwoFiles |-> f - 7]
ToTheSame == [f \in TwoFiles |-> 3]
TwoPacketsEach == [f \in TwoFiles |-> 2]
LongLivedBoth == [f \in TwoFiles |-> 9]
Apart == [f \in TwoFiles |-> IF f = 7 THEN 10 ELSE 20]

\* Two neighbors that send each other a file.
Across == {[r \in 0 .. 1 |-> [d \in 0 .. 1 |-> d]]}
ToEachOther == [f \in TwoFiles |-> 8 - f]
ThreePacketsEach == [f \in TwoFiles |-> 3]
=============================================================================
