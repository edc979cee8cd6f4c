------------------------------ MODULE FrameNote ------------------------------
(***************************************************************************)
(* A reader who plans several transactions: after one of them it notes the *)
(* Frame, and in a later one binds its generation (LetBinding::            *)
(* FrameGeneration) to learn whether the bindings it noted are still those *)
(* of the same session (docs/frame-authority.md:111).  Anybody's           *)
(* transactions come between.                                              *)
(*                                                                         *)
(* The reader adds history variables to FrameProgram: what it noted, and   *)
(* what has been committed since.                                          *)
(***************************************************************************)
EXTENDS FrameProgram

VARIABLES
  noted,  \* the Frame the reader noted and relies on, or NoFrame
  age     \* steps of the transactions since

noteVars == <<noted, age>>

NoteInit == Init /\ noted = NoFrame /\ age = 0

\* There is something to note: the session has bindings.
Note ==
  /\ pc = "idle" /\ ledger # NoFrame /\ ledger.index_count > 0
  /\ noted' = ledger /\ age' = 0
  /\ UNCHANGED vars

\* The authority of the noted Frame signed, and either left no account or
\* let the payer of the address sign as well, who can create it again.
Exposes == noted.authority \in signers /\ (Payer \in signers \/ frame = NoFrame)

\* A transaction after which a note is worth nothing: the account may be another
\* one, or the generation may have come round.
Lapses == noted # NoFrame /\ (Exposes \/ age + steps >= U64)

CommitNoted ==
  /\ Commit /\ ~ Lapses
  /\ age' = IF noted = NoFrame THEN 0 ELSE age + steps
  /\ UNCHANGED noted

CommitLapsed ==
  /\ Commit /\ Lapses
  /\ noted' = NoFrame /\ age' = 0

NoteNext ==
  \/ Note
  \/ CommitNoted
  \/ CommitLapsed
  \/ /\ (\E S \in SUBSET Users : Begin(S)) \/ CallerFails \/ Create \/ Close \/ Reset \/ Let \/ Read
     /\ UNCHANGED noteVars

NoteSpec == NoteInit /\ [][NoteNext]_<<vars, noteVars>>

-----------------------------------------------------------------------------
(* Correctness.                                                            *)

\* Across any number of transactions of anybody, a generation that is the one
\* noted names the session noted: the bindings noted are all there, under the
\* same indices and with the same bytes.  Two things end that (Lapses).  One is a
\* close by the authority, which frees the address: in the next transaction, with
\* no signature of the authority, the payer can create it again, at generation 0
\* (close_frame.rs, create_frame.rs, Frame::init), so that the pair of address
\* and generation comes back for another session.  The other is 2^64 resets.
\* Nobody but the authority can bring the first about.
PairNamesSession ==
  noted # NoFrame =>
    /\ ledger # NoFrame
    /\ ledger.authority = noted.authority /\ ledger.tape_len = noted.tape_len
    /\ ledger.generation = noted.generation => Extends(ledger, noted)

\* The inductive invariant: while the note is worth something, the account in the
\* ledger descends from the one noted (reset_session, append_value).
NoteInv ==
  /\ IInv
  /\ IsAccount(noted) /\ age \in 0 .. U64 - 1
  /\ noted # NoFrame => ledger # NoFrame /\ \E r \in 0 .. age : Descends(ledger, noted, r)

=============================================================================
