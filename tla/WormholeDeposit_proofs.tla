----------------------- MODULE WormholeDeposit_proofs -----------------------
(***************************************************************************)
(* Proofs about WormholeDeposit for every set of callers and of signed     *)
(* VAAs: type correctness, the safety invariants of its run, and that it   *)
(* implements TransferPromise.                                             *)
(***************************************************************************)
EXTENDS WormholeDeposit, TLAPS

\* The cache holds what the session's kind of transfer can put there.
CacheOK ==
    /\ vaaSignature # None =>
        IF isCCTP THEN vaaSignature = Empty ELSE vaaSignature \in SignedVAAs /\ signed
    /\ wasRedeemed => accepted /\ ~isCCTP /\ vaaSignature # None
    /\ settled => accepted
    /\ completionSeen => vaaSignature # None /\ (wasRedeemed \/ settled)

\* What a suspended call carries and which closure it can belong to.
CallOK(c) ==
    /\ pc[c] \in {"gotVaa", "chain", "submit", "accepted", "rejected"} =>
        /\ vaaOf[c] # None
        /\ IF isCCTP THEN vaaOf[c] = Empty ELSE vaaOf[c] \in SignedVAAs /\ signed
    /\ pc[c] \in {"chain", "submit", "accepted", "rejected"} => vaaSignature # None
    /\ pc[c] = "gotVaa" => op[c] \in {"isTransferCompleted", "redeemAndSubmitWormholeVAA"}
    /\ pc[c] = "chain" => op[c] = "isTransferCompleted"
    /\ pc[c] = "fetch" => ~isCCTP /\ op[c] \notin {"getVAASequence", "isVaaEnqueued"}
    /\ pc[c] = "haveSequence" => op[c] # "getVAASequence"
    /\ pc[c] \in {"submit", "accepted", "rejected"} => op[c] = "redeemAndSubmitWormholeVAA"
    /\ pc[c] # "idle" /\ op[c] = "redeemAndSubmitWormholeVAA" => ~isCCTP
    /\ pc[c] = "accepted" => accepted

\* What is left of a call that began after a completion was seen or redeemed.
LateOK(c) ==
    /\ afterSeen[c] =>
        /\ completionSeen
        /\ pc[c] # "idle" /\ op[c] = "isTransferCompleted" => pc[c] = "chain" /\ settled
        /\ pc[c] = "idle" => result[c] # "false"
    /\ afterRedeem[c] =>
        /\ wasRedeemed
        /\ pc[c] \notin {"fetch", "gotVaa", "submit", "accepted", "rejected"}
        /\ pc[c] \in {"sequence", "haveSequence"} =>
            op[c] \in {"getVAASequence", "waitForWormholeVAA", "isVaaEnqueued"}

IInv == TypeOK /\ CacheOK /\ \A c \in Callers : CallOK(c) /\ LateOK(c)

----------------------------------------------------------------------------

LEMMA InitIInv == Init => IInv
<1> SUFFICES ASSUME Init
             PROVE  IInv
  OBVIOUS
<1>1. TypeOK
  BY DEF Init, TypeOK, Ops, Awaits, Results
<1>2. CacheOK
  BY DEF Init, CacheOK
<1>3. ASSUME NEW c \in Callers
      PROVE  CallOK(c) /\ LateOK(c)
  BY <1>3 DEF Init, CallOK, LateOK
<1>4. QED
  BY <1>1, <1>2, <1>3 DEF IInv

\* Starting a call keeps the invariant.
LEMMA CallKeepsIInv ==
    ASSUME IInv, NEW c \in Callers, Call(c)
    PROVE  IInv'
<1> USE VaaAssumption DEF IInv, TypeOK, CacheOK, CallOK, LateOK, Ops, Awaits, Results,
        session, outside, Begin, Settle, Await, AwaitSequence
<1>1. CASE GetVAASequence(c)
  BY <1>1 DEF GetVAASequence
<1>2. CASE IsVaaEnqueued(c)
  BY <1>2 DEF IsVaaEnqueued
<1>3. ASSUME NEW b \in BOOLEAN, WaitForWormholeVAA(c, b)
      PROVE  IInv'
  BY <1>3 DEF WaitForWormholeVAA
<1>4. ASSUME NEW b \in BOOLEAN, IsTransferCompleted(c, b)
      PROVE  IInv'
  BY <1>4 DEF IsTransferCompleted, PollIsBounded
<1>5. ASSUME NEW b \in BOOLEAN, RedeemAndSubmitWormholeVAA(c, b)
      PROVE  IInv'
  BY <1>5 DEF RedeemAndSubmitWormholeVAA
<1>6. QED
  BY <1>1, <1>2, <1>3, <1>4, <1>5 DEF Call

\* So does resuming one at an await.
LEMMA ContinueKeepsIInv ==
    ASSUME IInv, NEW c \in Callers, Continue(c)
    PROVE  IInv'
<1> USE VaaAssumption DEF IInv, TypeOK, CacheOK, CallOK, LateOK, Ops, Awaits, Results,
        outside, Resume, Settle, Await, FailLookup, ReturnVaa
<1>1. CASE SequenceFound(c)
  BY <1>1 DEF SequenceFound
<1>2. CASE SequenceNotFound(c)
  BY <1>2 DEF SequenceNotFound
<1>3. CASE ContinueWithSequence(c)
  BY <1>3 DEF ContinueWithSequence
<1>4. CASE EnqueuedAnswer(c)
  BY <1>4 DEF EnqueuedAnswer
<1>5. CASE FetchVaa(c)
  BY <1>5 DEF FetchVaa
<1>6. CASE FetchGivesUp(c)
  BY <1>6 DEF FetchGivesUp
<1>7. CASE ContinueWithVaa(c)
  BY <1>7 DEF ContinueWithVaa
<1>8. CASE ChainAnswer(c)
  BY <1>8 DEF ChainAnswer
<1>9. CASE ServerAccepts(c)
  BY <1>9 DEF ServerAccepts
<1>10. CASE ServerRejects(c)
  BY <1>10 DEF ServerRejects
<1>11. CASE SubmitSucceeds(c)
  BY <1>11 DEF SubmitSucceeds
<1>12. CASE SubmitFails(c)
  BY <1>12 DEF SubmitFails
<1>13. QED
  BY <1>1, <1>2, <1>3, <1>4, <1>5, <1>6, <1>7, <1>8, <1>9, <1>10, <1>11, <1>12
  DEF Continue

LEMMA NextKeepsIInv == IInv /\ [Next]_vars => IInv'
<1> SUFFICES ASSUME IInv, [Next]_vars
             PROVE  IInv'
  OBVIOUS
<1>1. ASSUME NEW c \in Callers, Call(c)
      PROVE  IInv'
  BY <1>1, CallKeepsIInv
<1>2. ASSUME NEW c \in Callers, Continue(c)
      PROVE  IInv'
  BY <1>2, ContinueKeepsIInv
<1> USE DEF IInv, TypeOK, CacheOK, CallOK, LateOK, session, callVars, history, outside
<1>3. CASE GuardiansSign
  BY <1>3 DEF GuardiansSign
<1>4. CASE TransferSettles
  BY <1>4 DEF TransferSettles
<1>5. CASE UNCHANGED vars
  BY <1>5 DEF vars
<1>6. QED
  BY <1>1, <1>2, <1>3, <1>4, <1>5 DEF Next

\* The inductive invariant, from which the theorems below follow.
THEOREM SessionInvariant == Spec => []IInv
BY InitIInv, NextKeepsIInv, PTL DEF Spec

\* The session's variables and calls stay in their types, and no call reaches
\* the node or the server without a VAA.
THEOREM TypeCorrect == Spec => []TypeOK
<1>1. IInv => TypeOK
  BY DEF IInv
<1>2. QED
  BY <1>1, SessionInvariant, PTL

\* wasRedeemed is set only for a deposit the server took, whatever answers are
\* lost and however calls overlap.
THEOREM RedeemedIsAccepted == Spec => []RedeemedMeansAccepted
<1>1. IInv => RedeemedMeansAccepted
  BY DEF IInv, CacheOK, RedeemedMeansAccepted
<1>2. QED
  BY <1>1, SessionInvariant, PTL

\* No poll that begins after one answered true answers false.
THEOREM CompletionIsFinal == Spec => []CompletionNeverRetracted
<1>1. IInv => CompletionNeverRetracted
  BY DEF IInv, LateOK, CompletionNeverRetracted
<1>2. QED
  BY <1>1, SessionInvariant, PTL

\* Only VAAs that the guardians signed reach the server.
THEOREM SubmittedVaaIsSigned == Spec => []OnlySignedVaaSubmitted
<1>1. IInv => OnlySignedVaaSubmitted
  BY DEF IInv, CallOK, OnlySignedVaaSubmitted
<1>2. QED
  BY <1>1, SessionInvariant, PTL

\* A redeem that begins after a successful one submits nothing.
THEOREM NoSubmitAfterRedeem == Spec => []RedeemedStaysQuiet
<1>1. IInv => RedeemedStaysQuiet
  BY DEF IInv, LateOK, RedeemedStaysQuiet
<1>2. QED
  BY <1>1, SessionInvariant, PTL

----------------------------------------------------------------------------
(* Refinement: only ServerAccepts can take the deposit, only SubmitSucceeds *)
(* can report it, and every other step stutters.                            *)

LEMMA StepKeepsPromise ==
    ASSUME IInv, [Next]_vars
    PROVE  [Promise!Next]_(Promise!vars)
<1> USE DEF Promise!Next, Promise!vars, Promise!Take, Promise!Report,
            IInv, TypeOK, session, outside
<1>1. ASSUME NEW c \in Callers, Call(c)
      PROVE  UNCHANGED <<accepted, wasRedeemed>>
  BY <1>1 DEF Call, GetVAASequence, IsVaaEnqueued, WaitForWormholeVAA,
     IsTransferCompleted, RedeemAndSubmitWormholeVAA, Begin
<1>2. ASSUME NEW c \in Callers, Continue(c)
      PROVE  [Promise!Next]_(Promise!vars)
  <2>1. CASE ServerAccepts(c)
    BY <2>1 DEF ServerAccepts
  <2>2. CASE SubmitSucceeds(c)
    BY <2>2 DEF SubmitSucceeds, CallOK, Resume
  <2>3. CASE ~ServerAccepts(c) /\ ~SubmitSucceeds(c)
    BY <1>2, <2>3 DEF Continue, SequenceFound, SequenceNotFound, ContinueWithSequence,
       EnqueuedAnswer, FetchVaa, FetchGivesUp, ContinueWithVaa, ChainAnswer,
       ServerRejects, SubmitFails
  <2>4. QED
    BY <2>1, <2>2, <2>3
<1>3. CASE GuardiansSign \/ TransferSettles \/ UNCHANGED vars
  BY <1>3 DEF GuardiansSign, TransferSettles, vars
<1>4. QED
  BY <1>1, <1>2, <1>3 DEF Next

\* The session implements the promise: C3 takes the deposit at most once, and
\* the session says so only afterwards and for ever.
THEOREM ImplementsPromise == Spec => KeepsPromise
<1>1. Init => Promise!Init
  BY DEF Init, Promise!Init
<1>2. QED
  BY <1>1, StepKeepsPromise, SessionInvariant, PTL
  DEF Spec, KeepsPromise, Promise!Spec

==============================================================================
