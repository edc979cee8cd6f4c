---------------------------- MODULE MCOrchestration ----------------------------
(* Instance of Orchestration: balances 0 and 1, two bindings, arms of up to *)
(* two steps, a stack of three, a Frame that is public or the client's.    *)
EXTENDS Orchestration

CONSTANTS alice, pda, zero

MCValueType == {"U64"}
MCSize == [U64 |-> 1]
MCByte == 0 .. 1
MCKey == {alice, pda, zero}
MCUsers == {alice}

=============================================================================
