----------------------------- MODULE MCStories -----------------------------
(***************************************************************************)
(* Instances of Stories for TLC.  A story's move is big or ordinary; one    *)
(* big and one ordinary story exercise both sides of the daily cap.         *)
(***************************************************************************)
EXTENDS Stories, TLC

CONSTANTS s1, s2, u1, u2

OneStory == {s1}
TwoStories == {s1, s2}
OneUser == {u1}
TwoUsers == {u1, u2}
BigOne == {s1}
NoneBig == {}

=============================================================================
