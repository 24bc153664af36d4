------------------------ MODULE SolanaRedeem_proofs ------------------------
(***************************************************************************)
(* Proofs about SolanaRedeem for any finite set of signature transactions  *)
(* and any number of failures and fresh starts: type correctness, and the  *)
(* three safety properties of a progress object across attempts.           *)
(***************************************************************************)
EXTENDS SolanaRedeem, FiniteSetTheorems, TLAPS

Sending == pc \in {"verify", "post", "postSent"}

\* Until the VAA is posted, and in the attempt that posts it, the count is that
\* of the confirmed signatures and of the posts that failed unread, and the total
\* that of the transactions built.
CountOK ==
    /\ Sending \/ ~posted => successTxCount = Cardinality(confirmed) + lateErrors
    /\ Sending \/ ~posted => totalTxCount \in {0, Total}
    /\ Sending => totalTxCount = Total
    /\ totalTxCount = 0 => confirmed = {}

\* A post was sent, and so can have failed, only once every signature was counted.
PostOK ==
    /\ lateErrors # 0 /\ (Sending \/ ~posted) => confirmed = SigTxs
    /\ pc \in {"post", "postSent"} => confirmed = SigTxs
    /\ pc \in {"redeem", "redeemSent"} => posted \/ confirmed = SigTxs
    /\ pc = "redeemLanded" => posted /\ redeemed

\* Where the transactions of the progress object stand.
ProgressOK ==
    /\ confirmed \subseteq landed \cup erred
    /\ confirmed \cap verifySigTxs = {}
    /\ built => SigTxs = verifySigTxs \cup confirmed \cup unsigned
    /\ ~built => confirmed = {}
    /\ pc = "build" => successTxCount = 0
    /\ pc = "fees" => /\ successTxCount = 0 /\ confirmed = {} /\ lateErrors = 0
                      /\ built /\ verifySigTxs = SigTxs
    /\ Sending => built

\* In a batch every transaction left is sent once, and how each send ends.
BatchOK ==
    \A t \in SigTxs :
        /\ outcome[t] # "none" => t \in verifySigTxs
        /\ pc = "verify" /\ t \in verifySigTxs => outcome[t] # "none"
        /\ outcome[t] \in {"sent", "ok"} => t \in hasSignature
        /\ outcome[t] = "ok" => t \in landed \cup erred
        /\ outcome[t] = "failed" => t \in hasSignature \cup unsigned

IInv ==
    /\ TypeOK
    /\ CountOK
    /\ PostOK
    /\ ProgressOK
    /\ BatchOK
    /\ PostNeedsAllSignatures

LEMMA Counting ==
    /\ Cardinality(SigTxs) \in Nat \ {0} /\ Total \in Nat /\ Total = Cardinality(SigTxs) + 2
    /\ Cardinality({}) = 0
    /\ \A T \in SUBSET SigTxs :
            /\ IsFiniteSet(T) /\ Cardinality(T) \in Nat /\ Cardinality(T) <= Cardinality(SigTxs)
            /\ Cardinality(T) = Cardinality(SigTxs) => T = SigTxs
<1>1. Cardinality(SigTxs) \in Nat \ {0} /\ Cardinality({}) = 0
  BY SigTxsAssumption, FS_CardinalityType, FS_EmptySet
<1>2. ASSUME NEW T \in SUBSET SigTxs
      PROVE  /\ IsFiniteSet(T) /\ Cardinality(T) \in Nat /\ Cardinality(T) <= Cardinality(SigTxs)
             /\ Cardinality(T) = Cardinality(SigTxs) => T = SigTxs
  BY SigTxsAssumption, FS_Subset, FS_CardinalityType
<1>3. QED
  BY <1>1, <1>2 DEF Total

\* Sets of transactions that have nothing in common are counted one by one.
LEMMA CountingUnion ==
    ASSUME NEW S \in SUBSET SigTxs, NEW T \in SUBSET SigTxs, S \cap T = {}
    PROVE  Cardinality(S \cup T) = Cardinality(S) + Cardinality(T)
<1>1. IsFiniteSet(S) /\ IsFiniteSet(T) /\ Cardinality(S) \in Nat /\ Cardinality(T) \in Nat
  BY Counting
<1>2. Cardinality(S \cup T) = Cardinality(S) + Cardinality(T) - Cardinality(S \cap T)
  BY <1>1, FS_Union
<1>3. Cardinality(S \cap T) = 0
  BY FS_EmptySet
<1>4. QED
  BY <1>1, <1>2, <1>3

LEMMA InitIInv == Init => IInv
<1> SUFFICES ASSUME Init
             PROVE  IInv
  OBVIOUS
<1> USE DEF Init, NoOutcome, Sending
<1>1. TypeOK
  <2>1. outcome \in [SigTxs -> {"none", "signing", "sent", "ok", "failed"}]
    OBVIOUS
  <2>2. 0 \in 0..Total /\ 0 \in 0..MaxFailures /\ 0 \in 0..MaxFreshStarts
    BY Counting, BoundsAssumption
  <2>3. QED
    BY <2>1, <2>2 DEF TypeOK
<1>2. CountOK
  BY Counting DEF CountOK
<1>3. PostOK /\ ProgressOK /\ BatchOK /\ PostNeedsAllSignatures
  BY DEF PostOK, ProgressOK, BatchOK, PostNeedsAllSignatures
<1>4. QED
  BY <1>1, <1>2, <1>3 DEF IInv

\* The two ways into a batch: a progress object with transactions left, and one
\* that was just built.  With nothing left to send, all were confirmed before.
LEMMA VaaNotPostedKeepsIInv ==
    ASSUME IInv, VaaNotPosted
    PROVE  IInv'
<1> USE Counting DEF IInv, VaaNotPosted, MustBuild, SendAll, progress, chain, history, bounds
<1>1. /\ successTxCount = Cardinality(confirmed) + lateErrors /\ lateErrors \in Nat
      /\ confirmed \subseteq SigTxs /\ totalTxCount \in {0, Total}
  BY DEF CountOK, TypeOK
<1>2. TypeOK'
  BY DEF TypeOK
<1>3. CountOK'
  BY DEF CountOK, TypeOK, Sending
<1>4. ProgressOK'
  <2>1. SUFFICES ASSUME MustBuild
                 PROVE  successTxCount = 0
    BY DEF ProgressOK, Sending
  <2>2. CASE confirmed = {}
    <3>1. lateErrors = 0
      BY <2>2, SigTxsAssumption DEF PostOK
    <3>2. Cardinality(confirmed) = 0
      BY <2>2
    <3>3. QED
      BY <1>1, <3>1, <3>2
  <2>3. CASE confirmed # {}
    BY <2>1, <2>3 DEF CountOK, ProgressOK
  <2>4. QED
    BY <2>2, <2>3
<1>5. BatchOK'
  BY DEF BatchOK, TypeOK
<1>6. pc' = "post" => confirmed = SigTxs
  <2>1. SUFFICES ASSUME pc' = "post", lateErrors = 0
                 PROVE  confirmed = SigTxs
    BY <1>1 DEF PostOK
  <2>2. totalTxCount = Total /\ successTxCount >= totalTxCount - 2
    BY <1>1, <2>1
  <2>3. Cardinality(confirmed) = Cardinality(SigTxs)
    BY <1>1, <2>1, <2>2
  <2>4. QED
    BY <1>1, <2>3
<1>7. PostOK' /\ PostNeedsAllSignatures'
  BY <1>6 DEF PostOK, PostNeedsAllSignatures, ProgressOK, TypeOK, Sending
<1>8. QED
  BY <1>2, <1>3, <1>4, <1>5, <1>7

\* A batch that has settled: what succeeded had landed, or failed unread, and was
\* not counted before, so a full count means that every transaction was counted.
LEMMA AllSettledKeepsIInv ==
    ASSUME IInv, AllSettled
    PROVE  IInv'
<1> USE Counting DEF IInv, AllSettled, Throw, progress, chain, history, bounds
<1>1. /\ Succeeded \in SUBSET SigTxs /\ confirmed \in SUBSET SigTxs
      /\ Succeeded \subseteq landed \cup erred /\ confirmed \subseteq landed \cup erred
      /\ Succeeded \cap confirmed = {}
  BY DEF Succeeded, BatchOK, ProgressOK, TypeOK
<1>2. Cardinality(confirmed') = Cardinality(confirmed) + Cardinality(Succeeded)
  BY <1>1, CountingUnion
<1>3. lateErrors = 0
  <2>1. \E t \in SigTxs : t \in verifySigTxs
    BY DEF TypeOK, BatchOK
  <2>2. confirmed # SigTxs
    BY <2>1 DEF ProgressOK
  <2>3. QED
    BY <2>2 DEF PostOK, Sending
<1>4. totalTxCount = Total /\ successTxCount' = Cardinality(confirmed') /\ confirmed' \in SUBSET SigTxs
  BY <1>1, <1>2, <1>3 DEF CountOK, Sending
<1>5. successTxCount' \in Nat /\ successTxCount' <= Total - 2
  BY <1>4
<1>6. confirmed' \subseteq landed' \cup erred'
  BY <1>1
<1>7. TypeOK'
  BY <1>4, <1>5 DEF TypeOK, NoOutcome, StillToSend
<1>8. CountOK'
  <2>1. Total # 0
    OBVIOUS
  <2>2. QED
    BY <1>3, <1>4, <2>1 DEF CountOK, Sending
<1>9. ProgressOK'
  <2>1. /\ confirmed' \cap verifySigTxs' = {}
        /\ built' /\ pc' \in {"idle", "post"}
    BY DEF ProgressOK, StillToSend, Sending
  <2>2. SigTxs = verifySigTxs' \cup confirmed' \cup unsigned'
    <3> SUFFICES ASSUME NEW t \in SigTxs, t \notin confirmed', t \notin unsigned
                 PROVE  t \in verifySigTxs'
      BY <1>4 DEF TypeOK, StillToSend
    <3>1. t \in verifySigTxs /\ outcome[t] # "ok"
      BY DEF ProgressOK, Sending, Succeeded
    <3>2. outcome[t] = "failed"
      BY <3>1 DEF BatchOK
    <3>3. t \in hasSignature
      BY <3>2 DEF BatchOK
    <3>4. QED
      BY <3>1, <3>3 DEF StillToSend, Succeeded
  <2>3. QED
    BY <1>6, <2>1, <2>2 DEF ProgressOK, Sending
<1>10. BatchOK'
  BY DEF BatchOK, NoOutcome
<1>11. pc' = "post" => confirmed' = SigTxs
  <2>1. SUFFICES ASSUME pc' = "post"
                 PROVE  Cardinality(confirmed') = Cardinality(SigTxs)
    BY <1>4
  <2>2. QED
    BY <1>4, <1>5, <2>1
<1>12. PostOK'
  BY <1>3, <1>11 DEF PostOK
<1>13. PostNeedsAllSignatures'
  BY <1>6, <1>11 DEF PostNeedsAllSignatures
<1>14. QED
  BY <1>7, <1>8, <1>9, <1>10, <1>12, <1>13

LEMMA NextKeepsIInv == IInv /\ [Next]_vars => IInv'
<1> SUFFICES ASSUME IInv, [Next]_vars
             PROVE  IInv'
  OBVIOUS
<1> USE Counting, BoundsAssumption
    DEF IInv, TypeOK, CountOK, PostOK, ProgressOK, BatchOK, PostNeedsAllSignatures, Sending,
        progress, chain, history, bounds
<1>1. CASE Retry
  BY <1>1 DEF Retry
<1>2. CASE StartOver
  <2>1. TypeOK'
    <3>1. freshStarts' \in 0..MaxFreshStarts /\ successTxCount' \in Nat
      BY <1>2 DEF StartOver
    <3>2. ~\E t \in SigTxs : outcome'[t] # "none"
      BY <1>2 DEF StartOver
    <3>3. QED
      BY <1>2, <3>1, <3>2 DEF StartOver
  <2>2. CountOK' /\ ProgressOK'
    BY <1>2 DEF StartOver
  <2>3. PostOK' /\ BatchOK' /\ PostNeedsAllSignatures'
    BY <1>2 DEF StartOver
  <2>4. QED
    BY <2>1, <2>2, <2>3
<1>3. CASE AttemptFails
  BY <1>3 DEF AttemptFails, Throw, Failure
<1>4. CASE VaaAlreadyPosted
  BY <1>4 DEF VaaAlreadyPosted
<1>5. CASE NothingLeftToSend
  BY <1>5 DEF NothingLeftToSend, Throw
<1>6. CASE Build
  BY <1>6 DEF Build
<1>7. CASE AddFees
  <2>1. pc = "fees" /\ pc' = "verify" /\ verifySigTxs = SigTxs
    BY <1>7, SigTxsAssumption DEF AddFees, SendAll
  <2>2. TypeOK'
    BY <1>7, <2>1, SigTxsAssumption DEF AddFees, SendAll, Total
  <2>3. confirmed' = {} /\ lateErrors' = 0 /\ successTxCount' = 0 /\ totalTxCount' = Total
    BY <1>7, <2>1 DEF AddFees, Total
  <2>4. CountOK' /\ PostOK' /\ PostNeedsAllSignatures'
    BY <2>1, <2>3
  <2>5. ProgressOK'
    BY <1>7, <2>1, <2>3 DEF AddFees
  <2>6. BatchOK'
    BY <1>7, <2>1 DEF AddFees, SendAll
  <2>7. QED
    BY <2>2, <2>4, <2>5, <2>6
<1>8. CASE SendPost
  BY <1>8 DEF SendPost
<1>9. CASE PostConfirmed
  BY <1>9 DEF PostConfirmed
<1>10. CASE SendRedeem
  BY <1>10 DEF SendRedeem
<1>11. CASE RedeemRejected
  BY <1>11 DEF RedeemRejected, Throw
<1>12. CASE RedeemConfirmed
  BY <1>12 DEF RedeemConfirmed
<1>13. CASE PostLands
  BY <1>13 DEF PostLands
<1>14. CASE RedeemLands
  BY <1>14 DEF RedeemLands
<1>15. CASE SomebodyPosts
  BY <1>15 DEF SomebodyPosts
<1>16. CASE SomebodyRedeems
  BY <1>16 DEF SomebodyRedeems
<1>17. ASSUME NEW t \in SigTxs, WalletSigns(t)
      PROVE  IInv'
  BY <1>17 DEF WalletSigns, Outcome
<1>18. ASSUME NEW t \in SigTxs, NotSigned(t)
      PROVE  IInv'
  BY <1>18 DEF NotSigned, Outcome, Failure
<1>19. ASSUME NEW t \in SigTxs, SendConfirmed(t)
      PROVE  IInv'
  BY <1>19 DEF SendConfirmed, Outcome
<1>20. ASSUME NEW t \in SigTxs, SendFails(t)
      PROVE  IInv'
  BY <1>20 DEF SendFails, Outcome, Failure
<1>21. ASSUME NEW t \in SigTxs, SigTxLands(t)
      PROVE  IInv'
  BY <1>21 DEF SigTxLands
<1>22. ASSUME NEW t \in SigTxs, SendConfirmedWithError(t)
      PROVE  IInv'
  BY <1>22 DEF SendConfirmedWithError, Outcome, Failure
<1>23. CASE PostRejected
  BY <1>23 DEF PostRejected, Throw
<1>24. CASE PostConfirmedWithError
  BY <1>24 DEF PostConfirmedWithError, CountedWithError, Failure
<1>25. CASE RedeemConfirmedWithError
  BY <1>25 DEF RedeemConfirmedWithError, CountedWithError, Failure
<1>26. CASE UNCHANGED vars
  BY <1>26 DEF vars
<1>27. QED
  BY <1>1, <1>2, <1>3, <1>4, <1>5, <1>6, <1>7, <1>8, <1>9, <1>10, <1>11, <1>12, <1>13, <1>14, <1>15, <1>16, <1>17, <1>18, <1>19, <1>20, <1>21, <1>22, <1>23, <1>24, <1>25, <1>26, VaaNotPostedKeepsIInv, AllSettledKeepsIInv DEF Next, Advance

\* Every reachable state satisfies the inductive invariant.
THEOREM RedeemInvariant == Spec => []IInv
BY InitIInv, NextKeepsIInv, PTL DEF Spec

\* Counters, batches and phases stay within their types.
THEOREM TypeCorrect == Spec => []TypeOK
<1>1. IInv => TypeOK
  BY DEF IInv
<1>2. QED
  BY <1>1, RedeemInvariant, PTL

\* However many transactions a redeem takes and however its attempts fail, the
\* VAA is posted only with every signature verified, but those whose transaction
\* failed on the chain with its error unread.
THEOREM PostedWithAllSignatures == Spec => []PostNeedsAllSignatures
<1>1. IInv => PostNeedsAllSignatures
  BY DEF IInv
<1>2. QED
  BY <1>1, RedeemInvariant, PTL

\* The progress shown is never ahead of what the chain has taken.
THEOREM ProgressNeverAhead == Spec => []ProgressIsHonest
<1>1. IInv => ProgressIsHonest
  <2> SUFFICES ASSUME IInv, ~posted
               PROVE  successTxCount <= Cardinality(landed \cup erred) + lateErrors
    BY DEF ProgressIsHonest
  <2> DEFINE taken == landed \cup erred
  <2>1. confirmed \subseteq taken /\ taken \in SUBSET SigTxs
    BY DEF IInv, ProgressOK, TypeOK
  <2>2. IsFiniteSet(taken) /\ Cardinality(taken) \in Nat /\ Cardinality(confirmed) \in Nat
    BY <2>1, Counting
  <2>3. Cardinality(confirmed) <= Cardinality(taken)
    BY <2>1, <2>2, FS_Subset
  <2>4. successTxCount = Cardinality(confirmed) + lateErrors /\ lateErrors \in Nat
    BY DEF IInv, CountOK, TypeOK
  <2> HIDE DEF taken
  <2>5. successTxCount <= Cardinality(taken) + lateErrors
    BY <2>2, <2>3, <2>4
  <2>6. QED
    BY <2>5 DEF taken
<1>2. QED
  BY <1>1, RedeemInvariant, PTL

\* Between attempts no missing signature is forgotten but those never signed.
THEOREM ForgottenWereUnsigned == Spec => []OnlyUnsignedForgotten
<1>1. IInv => OnlyUnsignedForgotten
  BY DEF IInv, OnlyUnsignedForgotten, MustBuild, ProgressOK
<1>2. QED
  BY <1>1, RedeemInvariant, PTL

-----------------------------------------------------------------------------

\* A progress object that has forgotten a signature: some were confirmed, too
\* few, and nothing is left to send.
Abandoned ==
    /\ pc \in {"idle", "check"} /\ ~posted /\ built /\ verifySigTxs = {}
    /\ 0 < successTxCount /\ successTxCount < totalTxCount - 2

\* Such an object is of no use any more: no attempt with it sends anything, so
\* only a new progress object, or somebody else who posts the VAA, helps.
THEOREM AbandonedStaysAbandoned ==
    Spec => [][Abandoned => Abandoned' \/ posted' \/ freshStarts' # freshStarts]_vars
<1>1. ASSUME TypeOK, [Next]_vars, Abandoned
      PROVE  Abandoned' \/ posted' \/ freshStarts' # freshStarts
  <2> USE <1>1 DEF Abandoned, progress, chain, history, bounds
  <2>1. CASE StartOver
    BY <2>1 DEF StartOver, TypeOK
  <2>2. CASE AttemptFails
    BY <2>2 DEF AttemptFails, Throw, Failure
  <2>3. CASE NothingLeftToSend
    BY <2>3 DEF NothingLeftToSend, Throw
  <2>4. CASE VaaNotPosted
    BY <2>4 DEF VaaNotPosted, MustBuild, TypeOK, SendAll
  <2>5. CASE Advance
    BY <2>3, <2>4, <2>5
       DEF Advance, VaaAlreadyPosted, Build, AddFees, AllSettled, SendPost, PostConfirmed,
           PostRejected, SendRedeem, RedeemRejected, RedeemConfirmed
  <2>6. ASSUME NEW t \in SigTxs,
               WalletSigns(t) \/ NotSigned(t) \/ SendConfirmed(t)
                 \/ SendConfirmedWithError(t) \/ SendFails(t)
        PROVE  FALSE
    BY <2>6 DEF WalletSigns, NotSigned, SendConfirmed, SendConfirmedWithError, SendFails,
                Outcome, TypeOK
  <2>7. ASSUME NEW t \in SigTxs, SigTxLands(t)
        PROVE  Abandoned'
    BY <2>7 DEF SigTxLands
  <2>8. CASE Retry \/ PostLands \/ RedeemLands \/ SomebodyPosts \/ SomebodyRedeems
             \/ PostConfirmedWithError \/ RedeemConfirmedWithError
    BY <2>8 DEF Retry, PostLands, RedeemLands, SomebodyPosts, SomebodyRedeems,
                PostConfirmedWithError, RedeemConfirmedWithError
  <2>9. CASE UNCHANGED vars
    BY <2>9 DEF vars
  <2>10. QED
    BY <2>1, <2>2, <2>5, <2>6, <2>7, <2>8, <2>9 DEF Next
<1>2. QED
  BY <1>1, TypeCorrect, PTL DEF Spec

-----------------------------------------------------------------------------

\* The count that a user watches only goes up while the progress object is kept:
\* signatures are rebuilt, and the count is set to 0, only where nothing was
\* counted, whatever failed and whoever posted meanwhile.
THEOREM ProgressNeverGoesBack ==
    Spec => [][freshStarts' = freshStarts => successTxCount' >= successTxCount]_vars
<1>1. ASSUME IInv, [Next]_vars
      PROVE  freshStarts' = freshStarts => successTxCount' >= successTxCount
  <2> USE <1>1, Counting DEF IInv, TypeOK, progress, chain, history, bounds
  <2>1. CASE StartOver
    BY <2>1 DEF StartOver
  <2>2. CASE AddFees
    BY <2>2 DEF AddFees, ProgressOK
  <2>3. CASE AllSettled
    <3>1. Cardinality(Succeeded) \in Nat
      BY DEF Succeeded
    <3>2. QED
      BY <2>3, <3>1 DEF AllSettled
  <2>4. CASE \/ VaaAlreadyPosted \/ PostConfirmed \/ RedeemConfirmed
             \/ PostConfirmedWithError \/ RedeemConfirmedWithError
    BY <2>4 DEF VaaAlreadyPosted, PostConfirmed, RedeemConfirmed, CountedWithError,
                PostConfirmedWithError, RedeemConfirmedWithError
  <2>5. CASE \/ VaaNotPosted \/ NothingLeftToSend \/ Build \/ SendPost \/ PostRejected
             \/ SendRedeem \/ RedeemRejected
    BY <2>5 DEF VaaNotPosted, NothingLeftToSend, Build, SendPost, PostRejected, SendRedeem,
                RedeemRejected
  <2>6. ASSUME NEW t \in SigTxs,
               WalletSigns(t) \/ NotSigned(t) \/ SendConfirmed(t)
                 \/ SendConfirmedWithError(t) \/ SendFails(t) \/ SigTxLands(t)
        PROVE  UNCHANGED successTxCount
    BY <2>6 DEF WalletSigns, NotSigned, SendConfirmed, SendConfirmedWithError, SendFails,
                SigTxLands, Outcome
  <2>7. CASE Retry \/ AttemptFails \/ PostLands \/ RedeemLands \/ SomebodyPosts \/ SomebodyRedeems
    BY <2>7 DEF Retry, AttemptFails, PostLands, RedeemLands, SomebodyPosts, SomebodyRedeems
  <2>8. CASE UNCHANGED vars
    BY <2>8 DEF vars
  <2>9. QED
    BY <2>1, <2>2, <2>3, <2>4, <2>5, <2>6, <2>7, <2>8 DEF Next, Advance
<1>2. QED
  BY <1>1, RedeemInvariant, PTL DEF Spec
=============================================================================
