------------------------------ MODULE MCFrameTape -----------------------------
(* Instance of FrameProgram about bytes: one user, the authority of the    *)
(* Frame, two value types of sizes 1 and 2 with their real tags (0 and 2), *)
(* and bytes that can be mistaken for a tag or for an invalid one.         *)
EXTENDS FrameProgram

CONSTANTS alice, zero

MCValueType == {"Bool", "U16"}
MCSize == [Bool |-> 1, U16 |-> 2]
MCTag == [Bool |-> 0, U16 |-> 2]
MCByte == {0, 2, 14}
MCUsers == {alice}
MCKey == {alice, zero}

=============================================================================
