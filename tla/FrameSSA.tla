------------------------------- MODULE FrameSSA -------------------------------
(***************************************************************************)
(* What a Frame promises its users, with no bytes in sight: a session is a *)
(* numbered list of typed values that are assigned once.  Reading value i  *)
(* gives exactly what was bound as i in this session, with its type, or an *)
(* error that says why not; nothing of an earlier session is ever read.    *)
(* A transaction sees its own bindings and leaves nothing when it fails.   *)
(* Only capacity is not abstract: `used` counts the bytes a session takes, *)
(* so that the two ways a session can be full are exact.                   *)
(*                                                                         *)
(* FrameProgram implements this specification (FrameProgram!SSA).          *)
(***************************************************************************)
EXTENDS Integers

CONSTANTS ValueType, Size, Byte, Key, NoFrame, MaxTapeLen, MaxBindingIndex,
          U8, U64, Users, DefaultKey, Payer, NoType

VARIABLES
  committed,  \* the session as of the last committed transaction
  session,    \* the session as the running transaction sees it
  open,       \* a transaction is running
  signers,    \* its signers
  ret         \* what the last step answered

vars == <<committed, session, open, signers, ret>>

Payload(ty) == [1 .. Size[ty] -> Byte]

Binding == [ty : ValueType, bytes : UNION { Payload(ty) : ty \in ValueType }]

Session ==
  [ authority : Key, tape_len : 1 .. MaxTapeLen, generation : 0 .. U64 - 1,
    used : 0 .. MaxTapeLen, count : 0 .. MaxBindingIndex,
    binds : UNION { [0 .. n - 1 -> Binding] : n \in 0 .. MaxBindingIndex } ]

ASSUME SSAAssumption ==
  /\ Size \in [ValueType -> Nat \ {0}]
  /\ MaxTapeLen \in Nat \ {0} /\ MaxBindingIndex \in Nat /\ U64 \in Nat \ {0}
  /\ Users \subseteq Key /\ DefaultKey \notin Users
  /\ NoFrame \notin Session

Capacity(tape_len) ==
  IF tape_len \div 2 >= MaxBindingIndex THEN MaxBindingIndex ELSE tape_len \div 2

NewSession(authority, tape_len, generation) ==
  [ authority |-> authority, tape_len |-> tape_len, generation |-> generation,
    used |-> 0, count |-> 0, binds |-> [i \in 0 .. -1 |-> NoType] ]

Bound(s, ty, bytes) ==
  [ authority |-> s.authority, tape_len |-> s.tape_len, generation |-> s.generation,
    used |-> s.used + 1 + Size[ty], count |-> s.count + 1,
    binds |-> [i \in 0 .. s.count |->
                 IF i = s.count THEN [ty |-> ty, bytes |-> bytes] ELSE s.binds[i]] ]

NoReply == [err |-> "Ok", index |-> 0, ty |-> NoType, bytes |-> <<>>]

ErrorReply(err) == [NoReply EXCEPT !.err = err]

ValueReply(i, ty, bytes) == [err |-> "Ok", index |-> i, ty |-> ty, bytes |-> bytes]

\* Errors of guards that say nothing about the values of the session.
GuardErrors ==
  { "AccountAlreadyInUse", "AccountNotInitialized", "AccountNotSigner",
    "CreateNotTopLevel", "CloseNotTopLevel", "ResetNotTopLevel", "LetNotTopLevel",
    "InvalidAuthority", "InvalidTapeLen", "UnauthorizedClose",
    "UnauthorizedFrameWrite", "CallerError" }

Init ==
  /\ committed = NoFrame /\ session = NoFrame
  /\ open = FALSE /\ signers = {} /\ ret = NoReply

Begin(S) ==
  /\ ~ open /\ open' = TRUE
  /\ signers' = S /\ ret' = NoReply
  /\ UNCHANGED <<committed, session>>

Commit ==
  /\ open /\ open' = FALSE
  /\ committed' = session
  /\ signers' = {} /\ ret' = NoReply
  /\ UNCHANGED session

Fail(err) ==
  /\ open /\ open' = FALSE
  /\ session' = committed
  /\ signers' = {} /\ ret' = ErrorReply(err)
  /\ UNCHANGED committed

\* The running transaction goes on with session s and is answered `reply`.
Continue(s, reply) ==
  /\ open
  /\ session' = s /\ ret' = reply
  /\ UNCHANGED <<committed, open, signers>>

Writable == session # NoFrame /\ (session.authority \in Users => session.authority \in signers)

Create(a, n) ==
  /\ session = NoFrame /\ Payer \in signers /\ a # DefaultKey
  /\ Continue(NewSession(a, n, 0), NoReply)

Close ==
  /\ session # NoFrame /\ session.authority \in signers
  /\ Continue(NoFrame, NoReply)

Reset ==
  /\ Writable
  /\ LET g == IF session.generation + 1 = U64 THEN 0 ELSE session.generation + 1
     IN Continue(NewSession(session.authority, session.tape_len, g), NoReply)

Bind(ty, bytes) ==
  /\ Writable
  /\ IF session.count = Capacity(session.tape_len) THEN Fail("IndexCapReached")
     ELSE IF session.used + 1 + Size[ty] > session.tape_len THEN Fail("TapeOutOfBounds")
     ELSE Continue(Bound(session, ty, bytes), ValueReply(session.count, ty, bytes))

Get(i, ty) ==
  /\ session # NoFrame
  /\ IF i >= session.count THEN Fail("InvalidValueIndex")
     ELSE IF session.binds[i].ty # ty THEN Fail("LoadTypeMismatch")
     ELSE Continue(session, ValueReply(i, ty, session.binds[i].bytes))

GetRaw(i) ==
  /\ session # NoFrame
  /\ IF i >= session.count THEN Fail("InvalidValueIndex")
     ELSE Continue(session, ValueReply(i, session.binds[i].ty, session.binds[i].bytes))

Next ==
  \/ \E S \in SUBSET Users : Begin(S)
  \/ Commit
  \/ \E err \in GuardErrors : Fail(err)
  \/ \E a \in Key, n \in 1 .. MaxTapeLen : Create(a, n)
  \/ Close
  \/ Reset
  \/ \E ty \in ValueType : \E bytes \in Payload(ty) : Bind(ty, bytes)
  \/ \E i \in 0 .. U8 - 1 : GetRaw(i) \/ \E ty \in ValueType : Get(i, ty)

Spec == Init /\ [][Next]_vars

-----------------------------------------------------------------------------
(* Correctness.                                                            *)

\* A session has as many typed values as it counts, each of the size of its
\* type, within the capacity of its tape; a record is at least two bytes.
SessionOK(s) ==
  /\ s \in Session
  /\ s.binds \in [0 .. s.count - 1 -> Binding]
  /\ \A i \in 0 .. s.count - 1 : s.binds[i].bytes \in Payload(s.binds[i].ty)
  /\ s.count <= Capacity(s.tape_len) /\ 2 * s.count <= s.used /\ s.used <= s.tape_len

\* Types of what the users of a Frame see; between transactions nothing is
\* uncommitted, and nobody signs.
SSATypeOK ==
  /\ committed = NoFrame \/ SessionOK(committed)
  /\ session = NoFrame \/ SessionOK(session)
  /\ open \in BOOLEAN /\ signers \subseteq Users
  /\ ~ open => session = committed /\ signers = {}

=============================================================================
