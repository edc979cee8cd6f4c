------------------------------ MODULE MCPlanner --------------------------------
(* Instance of Planner: two accounts with different contents, types of one *)
(* and four bytes, and a Frame that is public or belongs to the client.    *)
EXTENDS Planner

CONSTANTS alice, pda, zero, vault, pool

MCValueType == {"Bool", "U32"}
MCSize == [Bool |-> 1, U32 |-> 4]
MCByte == {0, 1}
MCKey == {alice, pda, zero}
MCUsers == {alice}
MCAccount == {vault, pool}
MCField == [k \in MCAccount |-> IF k = vault THEN "Bool" ELSE "U32"]
MCContent == [k \in MCAccount \cup Key |-> IF k = vault THEN 0 ELSE 1]

=============================================================================
