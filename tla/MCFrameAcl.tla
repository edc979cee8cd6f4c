------------------------------ MODULE MCFrameAcl ------------------------------
(* Instance of FrameNote about who may do what: two users, one of them the *)
(* payer in the seeds of the address, each of them possibly the authority, *)
(* a public authority, a reader between their transactions, values of one  *)
(* bit, and generations that wrap after four resets.                       *)
EXTENDS FrameNote

CONSTANTS alice, bob, pda, zero

MCValueType == {"Bool"}
MCSize == [Bool |-> 1]
MCTag == [Bool |-> 0]
MCByte == {0, 1}
MCUsers == {alice, bob}
MCKey == {alice, bob, pda, zero}

=============================================================================
