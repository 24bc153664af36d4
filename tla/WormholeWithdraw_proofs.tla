----------------------- MODULE WormholeWithdraw_proofs -----------------------
(***************************************************************************)
(* Proofs about WormholeWithdraw for every number of callers, every         *)
(* destination and signer: type correctness, that the session implements    *)
(* TransferPromise, and that it never denies what it could know to have     *)
(* landed.                                                                  *)
(***************************************************************************)
EXTENDS WormholeWithdraw, TLAPS

\* The session's flag and the history rest on what the destination chain did, or
\* on the signature of a Solana transaction that failed.
LandedOK ==
    /\ wasRedeemed => hasVaa /\ (redeemed \/ misreported)
    /\ misreported => wasRedeemed /\ destinationChain = "solana"
    /\ \A c \in Callers : afterLanding[c] => redeemed /\ hasVaa
    /\ \A c \in Callers : pc[c] \in {"evmLanded", "solanaLanded"} => redeemed

\* A poll that began after the landing does not look for the VAA, and to
\* Algorand there is none.
CallOK(c) ==
    /\ pc[c] # "idle" /\ destinationChain = "algorand" => pc[c] = "confirm"
    /\ pc[c] = "confirm" => destinationChain = "algorand"
    /\ pc[c] = "haveSequence" => sequenceKnown
    /\ pc[c] = "fetch" => sequenceKnown
    /\ pc[c] \in {"tokenAccount", "newTokenAccount", "solanaTx", "solanaLanded"} =>
            destinationChain = "solana"
    /\ afterLanding[c] =>
        /\ destinationChain # "algorand"
        /\ pc[c] # "idle" /\ op[c] = "isTransferCompleted" => pc[c] = "chain"
        /\ pc[c] \in {"chain", "idle"} => result[c] # "false"

IInv == TypeOK /\ LandedOK /\ (hasVaa => destinationChain # "algorand") /\ \A c \in Callers : CallOK(c)

----------------------------------------------------------------------------

LEMMA InitIInv == Init => IInv
BY DEF Init, IInv, TypeOK, LandedOK, CallOK, Ops, Awaits, Redeeming

\* Starting a call keeps the invariant.
LEMMA CallKeepsIInv ==
    ASSUME IInv, NEW c \in Callers, Call(c)
    PROVE  IInv'
<1> USE DEF IInv, TypeOK, LandedOK, CallOK, Ops, Awaits, Redeeming,
        constants, session, outside, Begin, Settle, Await, AwaitSequence
<1>1. CASE GetVAASequence(c)
  BY <1>1 DEF GetVAASequence
<1>2. ASSUME NEW b \in BOOLEAN, WaitForWormholeVAA(c, b)
      PROVE  IInv'
  BY <1>2 DEF WaitForWormholeVAA
<1>3. ASSUME NEW b \in BOOLEAN, RedeemWormholeVAA(c, b)
      PROVE  IInv'
  BY <1>3 DEF RedeemWormholeVAA, StartRedeem
<1>4. ASSUME NEW b \in BOOLEAN, NEW p \in BOOLEAN, IsTransferCompleted(c, b, p)
      PROVE  IInv'
  BY <1>4 DEF IsTransferCompleted, PollIsBounded, AskChain
<1>5. QED
  BY <1>1, <1>2, <1>3, <1>4 DEF Call

\* Resuming one keeps it.
LEMMA ContinueKeepsIInv ==
    ASSUME IInv, NEW c \in Callers, Continue(c)
    PROVE  IInv'
<1> USE DEF IInv, TypeOK, LandedOK, CallOK, Ops, Awaits, Redeeming,
        constants, session, Resume, Settle, Await
<1>1. CASE Confirmed(c)
  BY <1>1 DEF Confirmed
<1>2. CASE SequenceFound(c)
  BY <1>2 DEF SequenceFound
<1>3. CASE SequenceNotFound(c)
  BY <1>3 DEF SequenceNotFound, FailLookup
<1>4. CASE ContinueWithSequence(c)
  BY <1>4 DEF ContinueWithSequence, ReturnVaa
<1>5. CASE FetchVaa(c)
  BY <1>5 DEF FetchVaa, ReturnVaa
<1>6. CASE FetchGivesUp(c)
  BY <1>6 DEF FetchGivesUp, FailLookup
<1>7. CASE ContinueWithVaa(c)
  BY <1>7 DEF ContinueWithVaa, AskChain, StartRedeem
<1>8. CASE ChainAnswer(c)
  BY <1>8 DEF ChainAnswer
<1>9. ASSUME NEW landed \in {"evmLanded", "solanaLanded"}, Redeemed(c, landed)
      PROVE  IInv'
  BY <1>9 DEF Redeemed
<1>10. ASSUME NEW at \in {"evmTx", "evmLanded", "solanaTx", "solanaLanded"}, Resume(c, at), Settle(c, "error"),
              UNCHANGED <<session, tokenAccount, redeemed, misreported>>
       PROVE  IInv'
  BY <1>10
<1>11. CASE TokenAccountChecked(c)
  BY <1>11 DEF TokenAccountChecked
<1>12. CASE TokenAccountCreated(c)
  BY <1>12 DEF TokenAccountCreated
<1>13. CASE RedeemedWithError(c)
  BY <1>13 DEF RedeemedWithError
<1>14. CASE EvmReceipt(c) \/ SolanaRedeems(c)
  <2> HIDE DEF IInv, Resume, Settle, session
  <2>1. CASE RedeemFails(c, "evmTx", "evmLanded") \/ RedeemFails(c, "solanaTx", "solanaLanded")
    BY <2>1, <1>10 DEF RedeemFails
  <2>2. QED
    BY <1>9, <1>13, <1>14, <2>1 DEF EvmReceipt, SolanaRedeems
<1>15. QED
  BY <1>1, <1>2, <1>3, <1>4, <1>5, <1>6, <1>7, <1>8, <1>11, <1>12, <1>14 DEF Continue

LEMMA NextKeepsIInv == IInv /\ [Next]_vars => IInv'
<1> SUFFICES ASSUME IInv, [Next]_vars
             PROVE  IInv'
  OBVIOUS
<1>1. ASSUME NEW c \in Callers, Call(c)
      PROVE  IInv'
  BY <1>1, CallKeepsIInv
<1>2. ASSUME NEW c \in Callers, Continue(c)
      PROVE  IInv'
  BY <1>2, ContinueKeepsIInv
<1>3. ASSUME NEW c \in Callers, RedeemLands(c)
      PROVE  IInv'
  BY <1>3 DEF IInv, TypeOK, LandedOK, CallOK, RedeemLands, Ops, Awaits, Redeeming, constants, session, history
<1>4. CASE AlgorandConfirms
  BY <1>4 DEF IInv, TypeOK, LandedOK, CallOK, AlgorandConfirms, constants, session, callVars, history
<1>5. CASE GuardiansSign
  BY <1>5 DEF IInv, TypeOK, LandedOK, CallOK, GuardiansSign, constants, session, callVars, history
<1>6. CASE SomebodyRedeems
  BY <1>6 DEF IInv, TypeOK, LandedOK, CallOK, SomebodyRedeems, constants, session, callVars, history
<1>7. CASE UNCHANGED vars
  BY <1>7 DEF IInv, TypeOK, LandedOK, CallOK, vars, constants, session, callVars, outside, history
<1>8. QED
  BY <1>1, <1>2, <1>3, <1>4, <1>5, <1>6, <1>7 DEF Next

----------------------------------------------------------------------------

\* The inductive invariant holds: the flag follows the chain, or a Solana redeem
\* that failed unread and no other, the history follows the chain, and
\* a poll that began after a landing goes straight to the chain.
THEOREM SessionInvariant == Spec => []IInv
BY InitIInv, NextKeepsIInv, PTL DEF Spec

\* The variables keep their types, and no redeem is sent without a VAA.
THEOREM TypeCorrect == Spec => []TypeOK
<1>1. IInv => TypeOK
  BY DEF IInv
<1>2. QED
  BY <1>1, SessionInvariant, PTL

\* Each step is one of the promise's or leaves its state alone.
LEMMA StepKeepsPromise ==
    ASSUME IInv, [Next]_vars
    PROVE  [Promise!Next]_(Promise!vars)
<1> USE DEF Promise!Next, Promise!vars, Promise!Take, Promise!Report, IInv, TypeOK, LandedOK
<1>1. ASSUME NEW c \in Callers, Call(c)
      PROVE  UNCHANGED <<redeemed, wasRedeemed, misreported>>
  <2> USE DEF Begin, session, outside
  <2>1. CASE GetVAASequence(c)
    BY <2>1 DEF GetVAASequence
  <2>2. ASSUME NEW b \in BOOLEAN, WaitForWormholeVAA(c, b)
        PROVE  UNCHANGED <<redeemed, wasRedeemed, misreported>>
    BY <2>2 DEF WaitForWormholeVAA
  <2>3. ASSUME NEW b \in BOOLEAN, RedeemWormholeVAA(c, b)
        PROVE  UNCHANGED <<redeemed, wasRedeemed, misreported>>
    BY <2>3 DEF RedeemWormholeVAA
  <2>4. ASSUME NEW b \in BOOLEAN, NEW p \in BOOLEAN, IsTransferCompleted(c, b, p)
        PROVE  UNCHANGED <<redeemed, wasRedeemed, misreported>>
    BY <2>4 DEF IsTransferCompleted
  <2>5. QED
    BY <1>1, <2>1, <2>2, <2>3, <2>4 DEF Call
<1>2. ASSUME NEW c \in Callers, Continue(c)
      PROVE  [Promise!Next]_(Promise!vars)
  <2>1. CASE \E landed \in {"evmLanded", "solanaLanded"} : Redeemed(c, landed)
    BY <2>1 DEF Redeemed, Resume
  <2>2. CASE RedeemFails(c, "evmTx", "evmLanded") \/ RedeemFails(c, "solanaTx", "solanaLanded")
    BY <2>2 DEF RedeemFails, session
  <2>3. CASE RedeemedWithError(c)
    BY <2>3 DEF RedeemedWithError
  <2>4. CASE \/ Confirmed(c) \/ SequenceFound(c) \/ SequenceNotFound(c) \/ ContinueWithSequence(c)
             \/ FetchVaa(c) \/ FetchGivesUp(c) \/ ContinueWithVaa(c) \/ ChainAnswer(c)
             \/ TokenAccountChecked(c) \/ TokenAccountCreated(c)
    BY <2>4 DEF Confirmed, SequenceFound, SequenceNotFound, ContinueWithSequence, FetchVaa, FetchGivesUp,
                ContinueWithVaa, ChainAnswer, TokenAccountChecked, TokenAccountCreated, session
  <2>5. QED
    BY <1>2, <2>1, <2>2, <2>3, <2>4 DEF Continue, EvmReceipt, SolanaRedeems
<1>3. ASSUME NEW c \in Callers, RedeemLands(c)
      PROVE  Promise!Take
  BY <1>3 DEF RedeemLands, session, history
<1>4. CASE AlgorandConfirms \/ GuardiansSign \/ SomebodyRedeems
  BY <1>4 DEF AlgorandConfirms, GuardiansSign, SomebodyRedeems, session, history
<1>5. CASE UNCHANGED vars
  BY <1>5 DEF vars, session, outside, history
<1>6. QED
  BY <1>1, <1>2, <1>3, <1>4, <1>5 DEF Next

\* account.ts sets wasRedeemed on a receipt with a status or on the signature of a
\* Solana transaction. But for such a signature whose transaction had failed, the
\* session keeps the promise of a deposit's: what it reports redeemed has been
\* redeemed, once and for ever.
THEOREM ImplementsPromise == Spec => KeepsPromise
<1>1. Init => Promise!Init
  BY DEF Init, Promise!Init
<1>2. QED
  BY <1>1, StepKeepsPromise, SessionInvariant, PTL
  DEF Spec, KeepsPromise, Promise!Spec

\* To any chain but Solana the exception does not arise: a session that believes
\* in a redeem of its own is right.
THEOREM ReportsOutsideSolanaAreTrue ==
    Spec => [](wasRedeemed /\ destinationChain # "solana" => redeemed)
<1>1. IInv => (wasRedeemed /\ destinationChain # "solana" => redeemed)
  BY DEF IInv, LandedOK
<1>2. QED
  BY <1>1, SessionInvariant, PTL

\* isTransferCompleted never answers false again once a call found the transfer
\* landed and the VAA in the session, however many calls fail in between.
THEOREM LandingIsNeverDenied == Spec => []LandedIsNeverDenied
<1>1. IInv => LandedIsNeverDenied
  BY DEF IInv, CallOK, LandedIsNeverDenied
<1>2. QED
  BY <1>1, SessionInvariant, PTL

==============================================================================
