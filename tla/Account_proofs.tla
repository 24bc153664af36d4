--------------------------- MODULE Account_proofs ---------------------------
(***************************************************************************)
(* Proofs about what an account does before it signs: creating orders, for *)
(* every number of callers, every clock and every session; and, for every  *)
(* number and every address, rounding prices and amounts, naming accounts  *)
(* by their ids, the margin of a position and the spans of stopwatches.    *)
(***************************************************************************)
EXTENDS AccountOrders, PureCalls, SequenceTheorems, WellFoundedInduction, TLAPS

-----------------------------------------------------------------------------
(* Creating orders.                                                        *)

\* Min of a pair of integers is one of them and at most both.
LEMMA MinOfTwo ==
    ASSUME NEW a \in Int, NEW b \in Int
    PROVE  Min({a, b}) \in {a, b} /\ Min({a, b}) <= a /\ Min({a, b}) <= b
<1>1. \E x \in {a, b} : \A y \in {a, b} : x <= y
  BY SMT
<1>2. QED
  BY <1>1, SMT DEF Min

\* Math.min over the constructor's array: never more than any of its members.
LEMMA MinOfExpirations ==
    ASSUME NEW d \in Nat, NEW a \in Nat \cup {NoExpiration}, NEW b \in Nat \cup {NoExpiration}
    PROVE  LET S == {d} \cup ({a, b} \ {NoExpiration})
           IN  Min(S) \in Nat /\ Min(S) <= d /\ \A e \in {a, b} \ {NoExpiration} : Min(S) <= e
<1> DEFINE S == {d} \cup ({a, b} \ {NoExpiration})
<1>1. NoExpiration \notin Int
  BY ConstantsAssumption
<1>2. S \subseteq Nat
  BY <1>1
<1>3. \E x \in S : \A y \in S : x <= y
  <2>1. CASE a = NoExpiration /\ b = NoExpiration
    BY <2>1, <1>1
  <2>2. CASE a = NoExpiration /\ b # NoExpiration
    BY <2>2, <1>1
  <2>3. CASE a # NoExpiration /\ b = NoExpiration
    BY <2>3, <1>1
  <2>4. CASE a # NoExpiration /\ b # NoExpiration
    <3>1. a \in Nat /\ b \in Nat
      BY <2>4
    <3>2. CASE d <= a /\ d <= b
      BY <3>1, <3>2
    <3>3. CASE a <= d /\ a <= b
      BY <3>1, <3>3, <2>4
    <3>4. CASE b <= d /\ b <= a
      BY <3>1, <3>4, <2>4
    <3>5. QED
      BY <3>1, <3>2, <3>3, <3>4
  <2>5. QED
    BY <2>1, <2>2, <2>3, <2>4
<1>4. Min(S) \in S /\ \A y \in S : Min(S) <= y
  BY <1>3 DEF Min
<1>5. QED
  BY <1>2, <1>4

----------------------------------------------------------------------------

\* What the constructor leaves: the cap is within the session's expirations.
CapOK ==
    /\ maxOrderExpiresOn \in Nat
    /\ \A e \in sessionExpirations : maxOrderExpiresOn <= e

\* No nonce in use is ahead of the account's counter.
Bounded ==
    /\ \A i \in DOMAIN built : built[i].nonce <= lastStoredDate
    /\ \A c \in Callers : \A i \in DOMAIN batch[c] : batch[c][i].nonce <= lastStoredDate
    /\ \A r \in received : \A i \in DOMAIN r : r[i].nonce <= lastStoredDate

\* What capping and validation leave of an order.
OrderOK(order) ==
    /\ order.expiresOn <= maxOrderExpiresOn
    /\ order.expiresOn # 0 => order.expiresOn * MilisInSecond >= order.createdAt

Ordered(s) == \A i, j \in DOMAIN s : i < j => s[i].nonce < s[j].nonce

Apart(r, s) == \A i \in DOMAIN r, j \in DOMAIN s : r[i].nonce # s[j].nonce

\* The orders that are signed or sent are valid.
ValidOK ==
    /\ \A c \in Callers : \A i \in DOMAIN batch[c] : OrderOK(batch[c][i])
    /\ \A request \in received : \A i \in DOMAIN request : OrderOK(request[i])

\* No nonce is in two batches, whether being built or sent.
ApartOK ==
    /\ \A c \in Callers : Ordered(batch[c])
    /\ \A r \in received : Ordered(r)
    /\ \A c, d \in Callers : c # d => Apart(batch[c], batch[d])
    /\ \A c \in Callers, r \in received : Apart(batch[c], r) /\ Apart(r, batch[c])
    /\ \A r, s \in received : r # s => Apart(r, s)

\* A call builds only while orders are left to build, and signs what it built.
PhaseOK ==
    \A c \in Callers :
        /\ pc[c] = "build" => toBuild[c] > 0
        /\ pc[c] = "sign" => batch[c] # <<>>

IInv ==
    /\ TypeOK
    /\ PhaseOK
    /\ CapOK /\ Bounded /\ NoncesIncrease /\ ValidOK /\ ApartOK

LEMMA TimeInNat == Time \subseteq Nat /\ \A t \in Time : Seconds(t) \in Nat
BY ConstantsAssumption DEF Time, Seconds

\* The orders of a sequence are orders.
LEMMA OrderOfSeq ==
    ASSUME NEW s \in Seq(Order), NEW i \in DOMAIN s
    PROVE  s[i] \in Order /\ s[i].nonce \in Nat /\ s[i].expiresOn \in Nat
<1>1. i \in 1..Len(s)
  BY LenProperties
<1>2. s[i] \in Order
  BY <1>1, ElementOfSeq
<1>3. QED
  BY <1>2 DEF Order

LEMMA InitIInv == Init => IInv
<1> SUFFICES ASSUME Init
             PROVE  IInv
  OBVIOUS
<1>1. CapOK
  <2>1. PICK a \in Expirations \cup {NoExpiration}, b \in Expirations \cup {NoExpiration} :
               sessionExpirations = {a, b} \ {NoExpiration}
    BY DEF Init
  <2>2. a \in Nat \cup {NoExpiration} /\ b \in Nat \cup {NoExpiration}
    BY ConstantsAssumption
  <2>3. Seconds(clock) + DefaultExpiry \in Nat
    BY ConstantsAssumption, TimeInNat DEF Init, Time
  <2>4. QED
    BY <2>1, <2>2, <2>3, MinOfExpirations DEF Init, CapOK, ExpirationCap
<1>2. TypeOK
  <2>1. sessionExpirations \subseteq Expirations
    BY DEF Init
  <2>2. clock \in Time /\ clock \in Nat
    BY ConstantsAssumption DEF Init, Time
  <2>3. QED
    BY <1>1, <2>1, <2>2, ConstantsAssumption, EmptySeq DEF Init, TypeOK, CapOK
<1>3. PhaseOK /\ Bounded /\ NoncesIncrease /\ ValidOK /\ ApartOK
  BY DEF Init, PhaseOK, Bounded, NoncesIncrease, ValidOK, ApartOK, Ordered, Apart
<1>4. QED
  BY <1>1, <1>2, <1>3 DEF Init, IInv

\* The nonce of a new order is ahead of the counter, whatever the clock shows.
LEMMA NonceIsNew ==
    ASSUME TypeOK
    PROVE  NextNonce \in Nat /\ lastStoredDate < NextNonce
BY TimeInNat DEF TypeOK, NextNonce

\* createOrderData builds an order of the right type, within the cap.
LEMMA BuiltOrder ==
    ASSUME TypeOK, CapOK, NEW requested \in Requests
    PROVE  LET order == [nonce |-> NextNonce, requested |-> requested,
                         expiresOn |-> CappedExpiration(requested), createdAt |-> clock]
           IN  /\ order \in Order
               /\ ~ExpiresBeforeCreation(order.expiresOn) => OrderOK(order)
<1>1. requested \in Nat
  BY ConstantsAssumption, TimeInNat DEF TypeOK, Requests
<1>2. /\ CappedExpiration(requested) \in Nat
      /\ CappedExpiration(requested) <= maxOrderExpiresOn
  <2>1. requested \in Int /\ maxOrderExpiresOn \in Int
    BY <1>1 DEF CapOK
  <2>2. /\ Min({requested, maxOrderExpiresOn}) \in {requested, maxOrderExpiresOn}
        /\ Min({requested, maxOrderExpiresOn}) <= maxOrderExpiresOn
    BY <2>1, MinOfTwo
  <2>3. QED
    BY <2>2, <1>1 DEF CapOK, CappedExpiration
<1>3. clock \in Time /\ clock \in Nat
  BY TimeInNat DEF TypeOK
<1>4. CappedExpiration(requested) * MilisInSecond \in Nat
  BY <1>2, ConstantsAssumption
<1>5. QED
  BY <1>1, <1>2, <1>3, <1>4, NonceIsNew DEF Order, OrderOK, ExpiresBeforeCreation

----------------------------------------------------------------------------

\* A call that ends or begins leaves no batch behind.
LEMMA EmptiedBatchKeeps ==
    ASSUME IInv, NEW c \in Callers, batch' = [batch EXCEPT ![c] = <<>>],
           UNCHANGED <<clock, constants, lastStoredDate, built>>,
           pc' \in [Callers -> {"idle", "market", "build", "sign", "submit"}],
           toBuild' \in [Callers -> 0..MaxBatch],
           pc'[c] \in {"idle", "market"},
           \A d \in Callers \ {c} : pc'[d] = pc[d] /\ toBuild'[d] = toBuild[d],
           received' \in {received, received \cup {batch[c]}}
    PROVE  IInv'
<1> USE DEF IInv, TypeOK, constants
<1>1. <<>> \in Seq(Order) /\ DOMAIN <<>> = {}
  OBVIOUS
<1>2. batch' \in [Callers -> Seq(Order)] /\ received' \subseteq Seq(Order)
  BY <1>1
<1>3. /\ batch'[c] = <<>>
      /\ \A d \in Callers \ {c} : batch'[d] = batch[d]
  OBVIOUS
<1>4. TypeOK' /\ PhaseOK'
  BY <1>2, <1>3 DEF PhaseOK
<1>5. CapOK' /\ NoncesIncrease' /\ Bounded'
  BY <1>1, <1>3 DEF CapOK, NoncesIncrease, Bounded
<1>6. ValidOK'
  BY <1>1, <1>3 DEF ValidOK, OrderOK
<1>7. ApartOK'
  <2>1. \A d \in Callers : Ordered(batch'[d])
    BY <1>1, <1>3 DEF ApartOK, Ordered
  <2>2. \A r \in received' : Ordered(r)
    BY DEF ApartOK
  <2>3. \A d, e \in Callers : d # e => Apart(batch'[d], batch'[e])
    BY <1>1, <1>3 DEF ApartOK, Apart
  <2>4. \A d \in Callers, r \in received' : Apart(batch'[d], r) /\ Apart(r, batch'[d])
    <3>1. SUFFICES ASSUME NEW d \in Callers, NEW r \in received'
                   PROVE  Apart(batch'[d], r) /\ Apart(r, batch'[d])
      OBVIOUS
    <3>2. CASE d = c
      BY <1>1, <1>3, <3>2 DEF Apart
    <3>3. CASE d # c /\ r \in received
      BY <1>3, <3>3 DEF ApartOK
    <3>4. CASE d # c /\ r = batch[c]
      BY <1>3, <3>4 DEF ApartOK
    <3>5. QED
      BY <3>2, <3>3, <3>4
  <2>5. \A r, s \in received' : r # s => Apart(r, s)
    BY DEF ApartOK
  <2>6. QED
    BY <2>1, <2>2, <2>3, <2>4, <2>5 DEF ApartOK, Ordered, Apart
<1>8. QED
  BY <1>4, <1>5, <1>6, <1>7

LEMMA CreateOrdersKeeps ==
    ASSUME IInv, NEW c \in Callers, NEW n \in 0..MaxBatch, CreateOrders(c, n)
    PROVE  IInv'
BY EmptiedBatchKeeps DEF CreateOrders, IInv, TypeOK

LEMMA EndOfCallKeeps ==
    ASSUME IInv, NEW c \in Callers, CallFails(c) \/ ServerReceives(c)
    PROVE  IInv'
<1> USE DEF CallFails, ServerReceives, EndCall
<1>1. /\ batch' = [batch EXCEPT ![c] = <<>>]
      /\ UNCHANGED <<clock, constants, lastStoredDate, built>>
      /\ received' \in {received, received \cup {batch[c]}}
  OBVIOUS
<1>2. /\ pc' \in [Callers -> {"idle", "market", "build", "sign", "submit"}]
      /\ pc'[c] \in {"idle", "market"}
      /\ \A d \in Callers \ {c} : pc'[d] = pc[d]
  BY DEF IInv, TypeOK
<1>3. /\ toBuild' \in [Callers -> 0..MaxBatch]
      /\ \A d \in Callers \ {c} : toBuild'[d] = toBuild[d]
  <2>1. toBuild' = [toBuild EXCEPT ![c] = 0]
    OBVIOUS
  <2>2. QED
    BY <2>1, ConstantsAssumption DEF IInv, TypeOK
<1>4. QED
  BY <1>1, <1>2, <1>3, EmptiedBatchKeeps

\* Steps that touch no order: the market's arrival, a signature, the clock.
LEMMA WaitingKeeps ==
    ASSUME IInv,
           \/ \E c \in Callers : MarketFound(c) \/ OrderSigned(c)
           \/ ClockMoves
    PROVE  IInv'
<1> USE DEF IInv, TypeOK, constants, callVars
<1>1. UNCHANGED <<constants, lastStoredDate, toBuild, batch, built, received>>
  BY DEF MarketFound, OrderSigned, ClockMoves
<1>2. TypeOK' /\ PhaseOK'
  <2>1. CASE ClockMoves
    BY <2>1 DEF ClockMoves, PhaseOK
  <2>2. ASSUME NEW c \in Callers, MarketFound(c)
        PROVE  TypeOK' /\ PhaseOK'
    BY <2>2, <1>1 DEF MarketFound, PhaseOK
  <2>3. ASSUME NEW c \in Callers, OrderSigned(c)
        PROVE  TypeOK' /\ PhaseOK'
    BY <2>3, <1>1, ConstantsAssumption DEF OrderSigned, PhaseOK
  <2>4. QED
    BY <2>1, <2>2, <2>3
<1>3. CapOK' /\ NoncesIncrease' /\ Bounded' /\ ValidOK'
  BY <1>1 DEF CapOK, NoncesIncrease, Bounded, ValidOK, OrderOK
<1>4. ApartOK'
  BY <1>1 DEF ApartOK, Ordered, Apart
<1>5. QED
  BY <1>2, <1>3, <1>4

----------------------------------------------------------------------------

\* Building an order: it is valid if it is kept, and its nonce is larger than
\* every nonce that is in use.
LEMMA BuildOrderKeeps ==
    ASSUME IInv, NEW c \in Callers, NEW requested \in Requests, BuildOrder(c, requested)
    PROVE  IInv'
<1> DEFINE order == [nonce |-> NextNonce, requested |-> requested,
                     expiresOn |-> CappedExpiration(requested), createdAt |-> clock]
           expired == ExpiresBeforeCreation(order.expiresOn)
           kept == Append(batch[c], order)
<1> USE DEF IInv
<1>1. /\ order \in Order
      /\ ~expired => OrderOK(order)
      /\ order.nonce = NextNonce /\ NextNonce \in Nat /\ lastStoredDate < NextNonce
  BY BuiltOrder, NonceIsNew
<1> HIDE DEF order
<1>2. /\ pc[c] = "build"
      /\ lastStoredDate' = order.nonce
      /\ built' = Append(built, order)
      /\ pc' = [pc EXCEPT ![c] = IF expired THEN "idle" ELSE "sign"]
      /\ toBuild' = [toBuild EXCEPT ![c] = IF expired THEN 0 ELSE @ - 1]
      /\ batch' = [batch EXCEPT ![c] = IF expired THEN <<>> ELSE kept]
      /\ UNCHANGED <<clock, constants, received>>
  BY DEF BuildOrder, order
<1> HIDE DEF expired
<1>4. /\ built \in Seq(Order) /\ batch[c] \in Seq(Order)
      /\ lastStoredDate \in Nat
  BY DEF TypeOK
<1>5. /\ built' \in Seq(Order) /\ DOMAIN built' = 1..(Len(built) + 1)
      /\ DOMAIN built = 1..Len(built) /\ Len(built) \in Nat
      /\ \A i \in DOMAIN built : built'[i] = built[i]
      /\ built'[Len(built) + 1] = order
  BY <1>1, <1>2, <1>4, AppendProperties
<1>6. /\ kept \in Seq(Order) /\ kept # <<>> /\ DOMAIN kept = 1..(Len(batch[c]) + 1)
      /\ DOMAIN batch[c] = 1..Len(batch[c]) /\ Len(batch[c]) \in Nat
      /\ \A i \in DOMAIN batch[c] : kept[i] = batch[c][i]
      /\ kept[Len(batch[c]) + 1] = order
  BY <1>1, <1>4, AppendProperties
<1> HIDE DEF kept
<1>7. /\ batch'[c] \in {<<>>, kept} /\ (~expired => batch'[c] = kept)
      /\ expired => batch'[c] = <<>>
      /\ \A d \in Callers \ {c} : batch'[d] = batch[d]
  BY <1>2 DEF TypeOK
<1>8. <<>> \in Seq(Order) /\ DOMAIN <<>> = {}
  OBVIOUS
\* All that ApartOK needs of the new batch: it is shorter, or ends in a new nonce.
<1>9. \A i \in DOMAIN batch'[c] :
        \/ i \in DOMAIN batch[c] /\ batch'[c][i] = batch[c][i]
        \/ i = Len(batch[c]) + 1 /\ batch'[c][i] = order /\ ~expired
  BY <1>6, <1>7, <1>8
<1>10. TypeOK' /\ PhaseOK'
  <2>1. batch' \in [Callers -> Seq(Order)]
    BY <1>2, <1>6, <1>8 DEF TypeOK
  <2>2. toBuild' \in [Callers -> 0..MaxBatch]
    BY <1>2, ConstantsAssumption DEF TypeOK, PhaseOK
  <2>3. /\ pc' \in [Callers -> {"idle", "market", "build", "sign", "submit"}]
        /\ pc'[c] \in {"idle", "sign"}
        /\ \A d \in Callers \ {c} : pc'[d] = pc[d] /\ toBuild'[d] = toBuild[d]
        /\ pc'[c] = "sign" => batch'[c] = kept
    BY <1>2, <1>7 DEF TypeOK
  <2>4. QED
    BY <1>1, <1>2, <1>5, <1>6, <1>7, <2>1, <2>2, <2>3 DEF TypeOK, PhaseOK, constants
<1>11. CapOK' /\ ValidOK'
  <2>1. CapOK'
    BY <1>2 DEF CapOK, constants
  <2>2. \A d \in Callers : \A i \in DOMAIN batch'[d] : OrderOK(batch'[d][i])
    BY <1>1, <1>7, <1>9 DEF ValidOK
  <2>3. QED
    BY <2>1, <2>2, <1>2 DEF ValidOK, OrderOK, constants
<1>12. \A i \in DOMAIN batch'[c] :
         \/ i \in DOMAIN batch[c] /\ batch'[c][i] = batch[c][i]
            /\ batch'[c][i].nonce \in Nat /\ batch'[c][i].nonce <= lastStoredDate
         \/ i = Len(batch[c]) + 1 /\ batch'[c][i].nonce = NextNonce
  <2>1. \A i \in DOMAIN batch[c] : batch[c][i].nonce \in Nat
    BY <1>4, OrderOfSeq
  <2>2. QED
    BY <2>1, <1>1, <1>9 DEF Bounded
<1>13. Bounded' /\ NoncesIncrease'
  <2>1. \A i \in DOMAIN built : built[i].nonce \in Nat /\ built[i].nonce <= lastStoredDate
    BY <1>4, OrderOfSeq DEF Bounded
  <2>2. \A i \in DOMAIN built' : built'[i].nonce <= order.nonce
    BY <2>1, <1>1, <1>4, <1>5
  <2>3. \A d \in Callers : \A i \in DOMAIN batch'[d] : batch'[d][i].nonce <= order.nonce
    <3>1. SUFFICES ASSUME NEW d \in Callers, NEW i \in DOMAIN batch'[d]
                   PROVE  batch'[d][i].nonce <= order.nonce
      OBVIOUS
    <3>2. CASE d = c
      BY <3>2, <1>1, <1>4, <1>12
    <3>3. CASE d # c
      <4>1. batch[d] \in Seq(Order) /\ i \in DOMAIN batch[d] /\ batch'[d][i] = batch[d][i]
        BY <3>3, <1>7 DEF TypeOK
      <4>2. batch[d][i].nonce \in Nat /\ batch[d][i].nonce <= lastStoredDate
        BY <4>1, OrderOfSeq DEF Bounded
      <4>3. QED
        BY <4>1, <4>2, <1>1, <1>4
    <3>4. QED
      BY <3>2, <3>3
  <2>4. NoncesIncrease'
    <3> SUFFICES ASSUME NEW i \in DOMAIN built', NEW j \in DOMAIN built', i < j
                 PROVE  built'[i].nonce < built'[j].nonce
      BY DEF NoncesIncrease
    <3>1. i \in DOMAIN built /\ built'[i] = built[i]
      BY <1>5
    <3>2. CASE j \in DOMAIN built
      BY <3>1, <3>2, <1>5 DEF NoncesIncrease
    <3>3. CASE j = Len(built) + 1
      BY <3>1, <3>3, <2>1, <1>1, <1>4, <1>5
    <3>4. QED
      BY <3>2, <3>3, <1>5
  <2>5. \A r \in received : \A i \in DOMAIN r : r[i].nonce <= order.nonce
    <3>1. SUFFICES ASSUME NEW r \in received, NEW i \in DOMAIN r
                   PROVE  r[i].nonce <= order.nonce
      OBVIOUS
    <3>2. r[i].nonce \in Nat /\ r[i].nonce <= lastStoredDate
      BY OrderOfSeq DEF Bounded, TypeOK
    <3>3. QED
      BY <3>2, <1>1, <1>4
  <2>6. QED
    BY <2>2, <2>3, <2>4, <2>5, <1>2 DEF Bounded
<1>14. ApartOK'
  <2>1. Ordered(batch'[c])
    <3> SUFFICES ASSUME NEW i \in DOMAIN batch'[c], NEW j \in DOMAIN batch'[c], i < j
                 PROVE  batch'[c][i].nonce < batch'[c][j].nonce
      BY DEF Ordered
    <3>1. CASE i \in DOMAIN batch[c] /\ j \in DOMAIN batch[c]
      BY <3>1, <1>6, <1>9 DEF ApartOK, Ordered
    <3>2. CASE i \in DOMAIN batch[c] /\ j = Len(batch[c]) + 1
      BY <3>2, <1>1, <1>4, <1>6, <1>12
    <3>3. QED
      BY <3>1, <3>2, <1>6, <1>9
  <2>2. ASSUME NEW s \in Seq(Order), Apart(batch[c], s), Apart(s, batch[c]),
               \A i \in DOMAIN s : s[i].nonce <= lastStoredDate
        PROVE  Apart(batch'[c], s) /\ Apart(s, batch'[c])
    <3>1. \A i \in DOMAIN s : s[i].nonce \in Nat
      BY OrderOfSeq
    <3>2. QED
      <4> SUFFICES ASSUME NEW i \in DOMAIN batch'[c], NEW j \in DOMAIN s
                   PROVE  batch'[c][i].nonce # s[j].nonce
        BY DEF Apart
      <4>1. s[j].nonce \in Nat /\ s[j].nonce <= lastStoredDate
        BY <3>1, <2>2
      <4>2. CASE i \in DOMAIN batch[c] /\ batch'[c][i] = batch[c][i]
        BY <4>2, <2>2 DEF Apart
      <4>3. CASE batch'[c][i].nonce = NextNonce
        BY <4>1, <4>3, <1>1, <1>4
      <4>4. QED
        BY <4>2, <4>3, <1>12
  <2>3. \A d \in Callers \ {c} : Apart(batch'[c], batch'[d]) /\ Apart(batch'[d], batch'[c])
    BY <2>2, <1>7 DEF ApartOK, Bounded, TypeOK
  <2>4. \A r \in received : Apart(batch'[c], r) /\ Apart(r, batch'[c])
    BY <2>2 DEF ApartOK, Bounded, TypeOK
  <2>5. QED
    BY <2>1, <2>3, <2>4, <1>2, <1>7 DEF ApartOK, Ordered, Apart
<1>15. QED
  BY <1>10, <1>11, <1>13, <1>14

----------------------------------------------------------------------------

LEMMA NextKeepsIInv == IInv /\ [Next]_vars => IInv'
<1> SUFFICES ASSUME IInv, [Next]_vars
             PROVE  IInv'
  OBVIOUS
<1>1. CASE UNCHANGED vars
  BY <1>1 DEF vars, constants, callVars, IInv, TypeOK, PhaseOK, CapOK,
     Bounded, NoncesIncrease, ValidOK, OrderOK, ApartOK, Ordered, Apart
<1>2. CASE Next
  BY <1>2, CreateOrdersKeeps, WaitingKeeps, BuildOrderKeeps, EndOfCallKeeps DEF Next
<1>3. QED
  BY <1>1, <1>2

\* Every reachable state satisfies the inductive invariant.
THEOREM OrdersInvariant == Spec => []IInv
BY InitIInv, NextKeepsIInv, PTL DEF Spec

\* createOrderData keeps the account's state well-typed, and no call submits
\* before its whole batch is built and signed.
THEOREM TypeCorrect == Spec => []TypeOK
<1>1. IInv => TypeOK
  BY DEF IInv
<1>2. QED
  BY <1>1, OrdersInvariant, PTL

\* The nonces of one account increase, however its calls overlap and whatever
\* the clock does.
THEOREM NoncesAreOrdered == Spec => []NoncesIncrease
<1>1. IInv => NoncesIncrease
  BY DEF IInv
<1>2. QED
  BY <1>1, OrdersInvariant, PTL

\* What the server receives is within the session that signed it.
THEOREM OrdersWithinSession == Spec => []ReceivedWithinSession
<1>1. IInv => ReceivedWithinSession
  <2> SUFFICES ASSUME IInv, NEW r \in received, NEW i \in DOMAIN r,
                      NEW e \in sessionExpirations
               PROVE  r[i].expiresOn <= e
    BY DEF IInv, ValidOK, OrderOK, ReceivedWithinSession
  <2>2. r[i].expiresOn \in Nat /\ r[i].expiresOn <= maxOrderExpiresOn
    BY OrderOfSeq DEF IInv, TypeOK, ValidOK, OrderOK
  <2>3. maxOrderExpiresOn \in Nat /\ maxOrderExpiresOn <= e
    BY DEF IInv, CapOK
  <2>4. e \in Nat
    BY ConstantsAssumption DEF IInv, TypeOK
  <2>5. QED
    BY <2>2, <2>3, <2>4
<1>2. QED
  BY <1>1, OrdersInvariant, PTL

\* Overlapping calls never mix their batches nor reorder one.
THEOREM BatchesStayApart == Spec => []BatchesDoNotMix
<1>1. IInv => BatchesDoNotMix
  BY DEF IInv, ApartOK, Ordered, Apart, BatchesDoNotMix
<1>2. QED
  BY <1>1, OrdersInvariant, PTL

-----------------------------------------------------------------------------
(* What is called.                                                         *)

\* What call holds: nothing, or the inputs of one call.
CallOfKind ==
    \/ call = Idle
    \/ \E a \in Addresses : call = [op |-> "account", address |-> a]
    \/ \E price \in Prices, tick \in Ticks, market \in Markets, amount \in Quantities :
          call = [op |-> "price", price |-> price, tick |-> tick, market |-> market, amount |-> amount]
    \/ \E cash \in Cashes, pool \in Pools, prices \in UsdPrices, limit \in Limits, isBuy \in BOOLEAN, instruments \in Listings :
          call = [op |-> "trade", cash |-> cash, pool |-> pool, prices |-> prices, limit |-> limit, isBuy |-> isBuy,
                  instruments |-> instruments]
    \/ \E names \in WatchLists, calls \in CallLists : call = [op |-> "stopwatch", names |-> names, calls |-> calls]

LEMMA CallsOfKind == PureSpec => []CallOfKind
<1>1. call = Idle => CallOfKind
  BY DEF CallOfKind
<1>2. CallOfKind /\ [PureNext]_call => CallOfKind'
  BY DEF CallOfKind, PureNext, NameAccount, RoundPrice, AskAvailable, Measure, Return
<1>3. QED
  BY <1>1, <1>2, PTL DEF PureSpec

-----------------------------------------------------------------------------
(* Induction, and the recursion it justifies.                              *)

\* What holds of 0, and of n + 1 when of n, holds of every natural number.
LEMMA NatInduct ==
    ASSUME NEW T, 0 \in T, \A n \in Nat : n \in T => n + 1 \in T
    PROVE  Nat \subseteq T
<1> DEFINE Outside == {n \in Nat : n \notin T}
<1>1. SUFFICES ASSUME Outside # {} PROVE FALSE
  OBVIOUS
<1>2. PICK m \in Outside : \A y \in Outside : ~(<<y, m>> \in OpToRel(<, Nat))
  BY <1>1, NatLessThanWellFounded, WFMin
<1>3. \A y \in Outside : ~(y < m)
  BY <1>2 DEF OpToRel
<1>4. m # 0 /\ m \in Nat
  OBVIOUS
<1>5. m - 1 \in Nat /\ m - 1 \notin T
  BY <1>4
<1>6. QED
  BY <1>3, <1>5

\* f starts at base and goes on by step.
Iterates(f, base, step) == f[0] = base /\ \A n \in Nat : f[n + 1] = step[<<n, f[n]>>]

\* For any start and any step there is a function that follows them.
LEMMA NatRecursion ==
    ASSUME NEW S, NEW base \in S, NEW step \in [Nat \X S -> S]
    PROVE  \E f \in [Nat -> S] : Iterates(f, base, step)
<1>0. \A n \in Nat : n + 1 \in Nat
  OBVIOUS
<1> DEFINE Begins(g, n) == g[0] = base /\ \A k \in 0..n - 1 : g[k + 1] = step[<<k, g[k]>>]
           T == {n \in Nat : \E g \in [0..n -> S] : Begins(g, n)}
<1>1. 0 \in T
  <2>1. [k \in 0..0 |-> base] \in [0..0 -> S] /\ Begins([k \in 0..0 |-> base], 0)
    OBVIOUS
  <2>2. QED
    BY <2>1
<1>2. ASSUME NEW n \in Nat, n \in T PROVE n + 1 \in T
  <2>1. PICK g \in [0..n -> S] : Begins(g, n)
    BY <1>2
  <2> DEFINE h == [k \in 0..n + 1 |-> IF k = n + 1 THEN step[<<n, g[n]>>] ELSE g[k]]
  <2>2. h \in [0..n + 1 -> S]
    OBVIOUS
  <2>3. h[0] = base
    BY <2>1
  <2>4. ASSUME NEW k \in 0..n PROVE h[k + 1] = step[<<k, h[k]>>]
    <3>1. k + 1 \in 0..n + 1 /\ k \in 0..n + 1 /\ k # n + 1
      OBVIOUS
    <3>2. h[k] = g[k]
      BY <3>1
    <3>3. CASE k = n
      <4>1. h[k + 1] = step[<<n, g[n]>>]
        BY <3>1, <3>3
      <4> HIDE DEF h
      <4>2. QED
        BY <4>1, <3>2, <3>3
    <3>4. CASE k # n
      <4>1. k \in 0..n - 1 /\ h[k + 1] = g[k + 1]
        BY <3>1, <3>4
      <4>2. QED
        BY <4>1, <3>2, <2>1
    <3>5. QED
      BY <3>3, <3>4
  <2>5. (n + 1) - 1 = n /\ n + 1 \in Nat
    OBVIOUS
  <2>6. Begins(h, n + 1)
    <3> HIDE DEF h
    <3> QED BY <2>3, <2>4, <2>5
  <2>7. QED
    BY <2>2, <2>5, <2>6
<1>3. \A n \in Nat : \E g \in [0..n -> S] : Begins(g, n)
  <2>1. Nat \subseteq T
    <3> HIDE DEF T
    <3> QED BY <1>1, <1>2, NatInduct
  <2>2. QED
    BY <2>1
<1> DEFINE G(n) == CHOOSE g \in [0..n -> S] : Begins(g, n)
           f == [n \in Nat |-> G(n)[n]]
<1>4. ASSUME NEW n \in Nat PROVE G(n) \in [0..n -> S] /\ Begins(G(n), n)
  BY <1>3
<1>5. ASSUME NEW n \in Nat PROVE \A k \in 0..n : G(n + 1)[k] = G(n)[k]
  <2> DEFINE U == {k \in Nat : k <= n => G(n + 1)[k] = G(n)[k]}
  <2>1. 0 \in U
    <3>1. Begins(G(n), n) /\ Begins(G(n + 1), n + 1)
      BY <1>4, <1>0
    <3> HIDE DEF G
    <3> QED BY <3>1
  <2>2. ASSUME NEW k \in Nat, k \in U PROVE k + 1 \in U
    <3>1. CASE k + 1 <= n
      <4>1. G(n + 1)[k + 1] = step[<<k, G(n + 1)[k]>>]
        <5>1. Begins(G(n + 1), n + 1)
          BY <1>4, <1>0
        <5> HIDE DEF G
        <5> QED BY <5>1, <3>1
      <4>2. G(n)[k + 1] = step[<<k, G(n)[k]>>]
        <5>1. Begins(G(n), n)
          BY <1>4, <1>0
        <5> HIDE DEF G
        <5> QED BY <5>1, <3>1
      <4> HIDE DEF G
      <4>3. QED
        BY <4>1, <4>2, <2>2, <3>1
    <3>2. CASE ~(k + 1 <= n)
      BY <3>2
    <3>3. QED
      BY <3>1, <3>2
  <2>3. Nat \subseteq U
    <3> HIDE DEF U
    <3> QED BY <2>1, <2>2, NatInduct
  <2> HIDE DEF G
  <2>4. QED
    BY <2>3
<1>6. f \in [Nat -> S] /\ f[0] = base
  <2> HIDE DEF G
  <2> QED BY <1>4
<1>7. ASSUME NEW n \in Nat PROVE f[n + 1] = step[<<n, f[n]>>]
  <2>1. G(n + 1)[n + 1] = step[<<n, G(n + 1)[n]>>]
    <3>1. Begins(G(n + 1), n + 1)
      BY <1>4, <1>0
    <3> HIDE DEF G
    <3> QED BY <3>1
  <2> HIDE DEF G
  <2>2. QED
    BY <2>1, <1>5
<1>8. QED
  <2> HIDE DEF f
  <2> QED BY <1>6, <1>7 DEF Iterates

\* Some natural numbers have a least one.
LEMMA LeastNat ==
    ASSUME NEW T, T \subseteq Nat, T # {}
    PROVE  \E m \in T : \A y \in T : m <= y
<1>1. PICK m \in T : \A y \in T : ~(<<y, m>> \in OpToRel(<, Nat))
  BY NatLessThanWellFounded, WFMin
<1>2. \A y \in T : ~(y < m)
  BY <1>1 DEF OpToRel
<1>3. \A y \in T : m <= y
  BY <1>2
<1>4. QED
  BY <1>3

-----------------------------------------------------------------------------
(* Numbers and their digits.                                               *)

\* Power is what its definition says of it.
LEMMA PowerIsRecursive ==
    ASSUME NEW b \in Nat \ {0}
    PROVE  /\ Power(b) \in [Nat -> Nat \ {0}]
           /\ Power(b)[0] = 1
           /\ \A n \in Nat : Power(b)[n + 1] = b * Power(b)[n]
<1> DEFINE S == Nat \ {0}
           step == [x \in Nat \X S |-> b * x[2]]
           Body(p) == [n \in Nat |-> IF n = 0 THEN 1 ELSE b * p[n - 1]]
<1>1. step \in [Nat \X S -> S] /\ 1 \in S
  OBVIOUS
<1>2. \A n \in Nat, x \in S : step[<<n, x>>] = b * x
  OBVIOUS
<1> HIDE DEF step, S
<1>3. PICK f \in [Nat -> S] : Iterates(f, 1, step)
  BY <1>1, NatRecursion
<1>4. \A n \in Nat : n + 1 \in Nat /\ f[n + 1] = b * f[n]
  <2>1. \A n \in Nat : n + 1 \in Nat /\ f[n] \in S
    BY <1>3
  <2>2. QED
    BY <1>2, <1>3, <2>1 DEF Iterates
<1>5. f = Body(f)
  <2>1. \A n \in Nat : n = 0 \/ (n - 1 \in Nat /\ n = (n - 1) + 1)
    OBVIOUS
  <2>2. \A n \in Nat : f[n] = Body(f)[n]
    BY <1>3, <1>4, <2>1 DEF Iterates
  <2>3. QED
    BY <2>2
<1>6. Power(b) = CHOOSE p : p = Body(p)
  BY DEF Power
<1>7. Power(b) = Body(Power(b))
  <2> HIDE DEF Body
  <2> QED BY <1>5, <1>6
<1> DEFINE P == Power(b)
<1> HIDE DEF P
<1>8. P = Body(P)
  BY <1>7 DEF P
<1>9. P[0] = 1 /\ \A n \in Nat : P[n + 1] = b * P[n]
  <2>1. \A n \in Nat : n + 1 \in Nat /\ n + 1 # 0 /\ (n + 1) - 1 = n
    OBVIOUS
  <2>2. \A n \in Nat : P[n] = IF n = 0 THEN 1 ELSE b * P[n - 1]
    BY <1>8
  <2>3. QED
    BY <2>1, <2>2
<1>10. P \in [Nat -> S]
  <2> DEFINE T == {n \in Nat : P[n] \in S}
  <2>1. 0 \in T
    BY <1>1, <1>9
  <2>2. \A n \in Nat : n \in T => n + 1 \in T
    BY <1>9 DEF S
  <2>3. Nat \subseteq T
    <3> HIDE DEF T
    <3> QED BY <2>1, <2>2, NatInduct
  <2>4. QED
    BY <1>8, <2>3
<1>11. QED
  BY <1>9, <1>10 DEF P, S

\* Exponents add up.
LEMMA PowersAdd ==
    ASSUME NEW b \in Nat \ {0}, NEW m \in Nat, NEW n \in Nat
    PROVE  Power(b)[m + n] = Power(b)[m] * Power(b)[n]
<1> DEFINE P == Power(b)
<1>1. P \in [Nat -> Nat \ {0}] /\ P[0] = 1 /\ \A k \in Nat : P[k + 1] = b * P[k]
  BY PowerIsRecursive
<1> HIDE DEF P
<1> DEFINE T == {k \in Nat : P[m + k] = P[m] * P[k]}
<1>2. 0 \in T
  BY <1>1
<1>3. ASSUME NEW k \in Nat, k \in T PROVE k + 1 \in T
  <2>1. m + k \in Nat /\ m + (k + 1) = (m + k) + 1 /\ k + 1 \in Nat
    OBVIOUS
  <2>2. P[m + (k + 1)] = b * (P[m] * P[k]) /\ P[k + 1] = b * P[k] /\ P[m] \in Nat /\ P[k] \in Nat
    BY <1>1, <1>3, <2>1
  <2>3. \A x \in Nat, y \in Nat : b * (x * y) = x * (b * y)
    OBVIOUS
  <2>4. P[m + (k + 1)] = P[m] * P[k + 1]
    BY <2>2, <2>3
  <2>5. QED
    BY <2>1, <2>4
<1>4. Nat \subseteq T
  <2> HIDE DEF T
  <2> QED BY <1>2, <1>3, NatInduct
<1>5. QED
  BY <1>4 DEF P

\* The only numbers that grow digit by digit are those of the beginnings of the digits.
LEMMA NumberIs ==
    ASSUME NEW b \in Nat, NEW digits \in Seq(Nat), NEW g \in [0..Len(digits) -> Int],
           g[0] = 0, \A k \in 1..Len(digits) : g[k] = g[k - 1] * b + digits[k]
    PROVE  NumberOf(b, digits) = g[Len(digits)]
<1> DEFINE L == Len(digits)
           Body(p) == [k \in 0..L |-> IF k = 0 THEN 0 ELSE p[k - 1] * b + digits[k]]
           num == CHOOSE p : p = Body(p)
<1>1. L \in Nat
  OBVIOUS
<1>2. g = Body(g)
  <2>1. \A k \in 0..L : k = 0 \/ k \in 1..L
    BY <1>1
  <2>2. \A k \in 0..L : g[k] = Body(g)[k]
    BY <2>1
  <2>3. QED
    BY <2>2
<1>3. num = Body(num)
  <2> HIDE DEF Body
  <2> QED BY <1>2
<1>4. NumberOf(b, digits) = num[L]
  BY DEF NumberOf
<1> HIDE DEF num
<1>5. \A k \in 0..L : num[k] = IF k = 0 THEN 0 ELSE num[k - 1] * b + digits[k]
  BY <1>3
<1> DEFINE T == {k \in Nat : k <= L => num[k] = g[k]}
<1>6. 0 \in T
  BY <1>1, <1>5
<1>7. ASSUME NEW k \in Nat, k \in T PROVE k + 1 \in T
  <2>1. SUFFICES ASSUME k + 1 <= L PROVE num[k + 1] = g[k + 1]
    OBVIOUS
  <2>2. k + 1 \in 1..L /\ k + 1 \in 0..L /\ (k + 1) - 1 = k /\ k <= L /\ k + 1 # 0
    BY <1>1, <2>1
  <2>3. num[k + 1] = num[k] * b + digits[k + 1]
    BY <1>5, <2>2
  <2>4. g[k + 1] = g[k] * b + digits[k + 1]
    BY <2>2
  <2>5. num[k] = g[k]
    BY <1>7, <2>2
  <2> HIDE DEF L
  <2>6. QED
    BY <2>3, <2>4, <2>5
<1>8. Nat \subseteq T
  <2> HIDE DEF T
  <2> QED BY <1>6, <1>7, NatInduct
<1>9. QED
  BY <1>1, <1>4, <1>8

\* Dividing twice is dividing by the product.
LEMMA DividedTwice ==
    ASSUME NEW a \in Nat, NEW b \in Nat \ {0}, NEW c \in Nat \ {0}
    PROVE  (a \div b) \div c = a \div (b * c) /\ a \div b \in Nat /\ b * c \in Nat \ {0}
<1> DEFINE q == a \div b
           r == q \div c
<1>1. q \in Nat /\ b * q <= a /\ a < b * q + b
  OBVIOUS
<1> HIDE DEF q
<1>2. r \in Nat /\ c * r <= q /\ q < c * r + c
  BY <1>1
<1> HIDE DEF r
<1>3. b * (c * r) <= b * q
  BY <1>1, <1>2
<1>4. q + 1 <= c * r + c
  BY <1>1, <1>2
<1>5. b * (q + 1) <= b * (c * r + c)
  BY <1>1, <1>2, <1>4
<1>6. b * c \in Nat \ {0} /\ (b * c) * r = b * (c * r) /\ b * (q + 1) = b * q + b /\ b * (c * r + c) = b * (c * r) + b * c
  BY <1>1, <1>2
<1> DEFINE d == b * c
           x == d * r
<1>7. x <= a /\ a < x + d /\ d \in Nat \ {0} /\ x \in Nat
  <2> DEFINE y == b * (c * r)
             z == b * q
  <2>1. y \in Nat /\ z \in Nat /\ d \in Nat /\ y <= z /\ z <= a /\ a < z + b /\ z + b <= y + d
    BY <1>1, <1>2, <1>3, <1>5, <1>6
  <2>2. x = y
    BY <1>6
  <2> HIDE DEF x, y, z, d
  <2>3. x <= a /\ a < x + d
    BY <2>1, <2>2
  <2>4. QED
    BY <1>6, <2>1, <2>2, <2>3 DEF d
<1>8. a \div d = r
  <2>1. \A n \in Nat, t \in Nat \ {0}, s \in Nat : t * s <= n /\ n < t * s + t => n \div t = s
    OBVIOUS
  <2> HIDE DEF d
  <2>2. d * r <= a /\ a < d * r + d
    BY <1>7
  <2>3. QED
    BY <1>2, <1>7, <2>1, <2>2
<1>9. QED
  BY <1>1, <1>6, <1>8 DEF q, r

LEMMA DigitAt ==
    ASSUME NEW n \in Nat, NEW b \in Nat \ {0}, NEW x \in Nat \ {0}
    PROVE  LET m == n \div x
               q == n \div (b * x)
           IN  m \in Nat /\ q \in Nat /\ m % b \in Nat /\ m % b < b /\ m = q * b + (m % b)
<1> DEFINE m == n \div x
           q == n \div (b * x)
<1>1. (n \div x) \div b = n \div (x * b) /\ n \div x \in Nat
  BY DividedTwice, Zenon
<1>2. x * b = b * x
  OBVIOUS
<1>3. q = m \div b /\ m \in Nat
  BY <1>1, <1>2
<1> HIDE DEF m, q
<1>4. q \in Nat /\ m % b \in Nat /\ m % b < b /\ m = q * b + (m % b)
  BY <1>3
<1>5. QED
  BY <1>3, <1>4 DEF m, q

\* A number without its last digit, and that digit.
LEMMA LastDigit ==
    ASSUME NEW b \in Nat \ {0}, NEW n \in Nat, NEW e \in Nat
    PROVE  LET m == n \div Power(b)[e]
               q == n \div Power(b)[e + 1]
           IN  m \in Nat /\ q \in Nat /\ m % b \in Nat /\ m % b < b /\ m = q * b + (m % b)
<1> DEFINE x == Power(b)[e]
<1>1. x \in Nat \ {0} /\ Power(b)[e + 1] = b * x
  BY PowerIsRecursive
<1> HIDE DEF x
<1>2. LET m == n \div x
          q == n \div (b * x)
      IN  m \in Nat /\ q \in Nat /\ m % b \in Nat /\ m % b < b /\ m = q * b + (m % b)
  BY <1>1, DigitAt, Zenon
<1>3. QED
  BY <1>1, <1>2, Zenon DEF x

\* What the digits after the first i, up to the first j, of a number with w digits make.
Between(b, n, w, i, j) == n \div Power(b)[w - j] - (n \div Power(b)[w - i]) * Power(b)[j - i]

\* The number that some of the digits in a row make.
LEMMA NumberOfPart ==
    ASSUME NEW b \in Nat \ {0}, NEW n \in Nat, NEW w \in Nat, NEW i \in 0..w, NEW s \in Seq(Nat), Len(s) <= w - i,
           \A x \in 1..Len(s) : s[x] = DigitsOf(b, n, w)[i + x]
    PROVE  NumberOf(b, s) = Between(b, n, w, i, i + Len(s))
<1> DEFINE P == Power(b)
           L == Len(s)
           c == n \div P[w - i]
           g == [x \in 0..L |-> n \div P[w - i - x] - c * P[x]]
<1>1. L \in Nat /\ w - i \in Nat /\ L <= w - i /\ \A x \in 0..L : w - i - x \in Nat
  OBVIOUS
<1>2. P \in [Nat -> Nat \ {0}] /\ P[0] = 1 /\ \A k \in Nat : P[k + 1] = b * P[k]
  BY PowerIsRecursive
<1>3. \A e \in Nat : LET m == n \div P[e] q == n \div P[e + 1] IN m \in Nat /\ q \in Nat /\ m % b \in Nat /\ m = q * b + (m % b)
  BY LastDigit
<1>4. \A x \in 1..L : s[x] = (n \div P[w - i - x]) % b
  <2> SUFFICES ASSUME NEW x \in 1..L PROVE s[x] = (n \div P[w - i - x]) % b
    OBVIOUS
  <2>1. i + x \in 1..w /\ w - (i + x) = w - i - x
    BY <1>1
  <2>2. QED
    BY <2>1 DEF DigitsOf
<1> HIDE DEF P, L
<1>5. c \in Nat /\ \A x \in 0..L : n \div P[w - i - x] \in Nat /\ P[x] \in Nat
  <2>1. \A x \in 0..L : x \in Nat
    BY <1>1
  <2>2. QED
    BY <1>1, <1>2, <1>3, <2>1
<1> HIDE DEF c
<1>6. \A x \in 0..L : g[x] = n \div P[w - i - x] - c * P[x] /\ g[x] \in Int
  BY <1>5
<1>7. g \in [0..L -> Int]
  BY <1>5
<1>8. g[0] = 0
  <2>1. w - i - 0 = w - i /\ 0 \in 0..L
    BY <1>1
  <2>2. g[0] = c - c * 1
    BY <1>2, <2>1 DEF c
  <2>3. QED
    BY <1>5, <2>2
<1>9. ASSUME NEW x \in 1..L PROVE g[x] = g[x - 1] * b + s[x]
  <2>1. x - 1 \in 0..L /\ x \in 0..L /\ x - 1 \in Nat /\ (x - 1) + 1 = x /\ w - i - x \in Nat /\ (w - i - x) + 1 = w - i - (x - 1)
    BY <1>1
  <2> DEFINE m == n \div P[w - i - x]
             q == n \div P[w - i - (x - 1)]
  <2>2. m \in Nat /\ q \in Nat /\ m % b \in Nat /\ m = q * b + (m % b)
    BY <1>3, <2>1
  <2>3. s[x] = m % b
    BY <1>4
  <2>4. g[x] = m - c * P[x] /\ g[x - 1] = q - c * P[x - 1]
    <3> HIDE DEF g
    <3> QED BY <1>6, <2>1
  <2>5. P[x] = b * P[x - 1] /\ P[x - 1] \in Nat
    BY <1>2, <2>1
  <2> HIDE DEF g, m, q
  <2>6. c * P[x] = (c * P[x - 1]) * b
    BY <1>5, <2>5
  <2>7. (q - c * P[x - 1]) * b = q * b - (c * P[x - 1]) * b
    BY <1>5, <2>2, <2>5
  <2>8. c * P[x] \in Nat /\ q * b \in Nat
    <3>1. \A u \in Nat, v \in Nat : u * v \in Nat
      OBVIOUS
    <3>2. P[x] \in Nat
      BY <1>5, <2>1
    <3>3. QED
      BY <1>5, <2>2, <3>1, <3>2
  <2>9. QED
    BY <2>2, <2>3, <2>4, <2>6, <2>7, <2>8
<1>10. NumberOf(b, s) = g[L]
  <2> HIDE DEF g
  <2> QED BY <1>7, <1>8, <1>9, NumberIs DEF L
<1>11. QED
  <2>1. L \in 0..L /\ w - (i + L) = w - i - L /\ (i + L) - i = L
    BY <1>1
  <2> HIDE DEF g
  <2>2. NumberOf(b, s) = n \div P[w - (i + L)] - (n \div P[w - i]) * P[(i + L) - i]
    BY <1>6, <1>10, <2>1 DEF c
  <2>3. QED
    BY <2>2 DEF L, P, Between

\* Where the last digits are zeros, the others and a power make the number.
LEMMA TrailingZeros ==
    ASSUME NEW b \in Nat \ {0}, NEW n \in Nat, NEW z \in Nat, \A e \in 0..z - 1 : (n \div Power(b)[e]) % b = 0
    PROVE  n = (n \div Power(b)[z]) * Power(b)[z]
<1> DEFINE P == Power(b)
           T == {e \in Nat : e <= z => n = (n \div P[e]) * P[e]}
<1>1. P \in [Nat -> Nat \ {0}] /\ P[0] = 1 /\ \A k \in Nat : P[k + 1] = b * P[k]
  BY PowerIsRecursive
<1>2. \A e \in Nat : LET m == n \div P[e] q == n \div P[e + 1] IN m \in Nat /\ q \in Nat /\ m = q * b + (m % b)
  BY LastDigit
<1>3. \A e \in 0..z - 1 : (n \div P[e]) % b = 0
  OBVIOUS
<1> HIDE DEF P
<1>4. 0 \in T
  <2>1. n \div 1 = n
    OBVIOUS
  <2>2. n = (n \div P[0]) * P[0]
    BY <1>1, <2>1
  <2>3. QED
    BY <2>2
<1>5. ASSUME NEW e \in Nat, e \in T PROVE e + 1 \in T
  <2>1. SUFFICES ASSUME e + 1 <= z PROVE n = (n \div P[e + 1]) * P[e + 1]
    OBVIOUS
  <2> DEFINE m == n \div P[e]
             q == n \div P[e + 1]
  <2>2. n = m * P[e] /\ P[e] \in Nat
    BY <1>1, <1>5, <2>1
  <2>3. m \in Nat /\ q \in Nat /\ m = q * b + (m % b)
    BY <1>2
  <2>4. m % b = 0
    BY <1>3, <2>1
  <2>5. P[e + 1] = b * P[e]
    BY <1>1
  <2> HIDE DEF m, q
  <2>6. m = q * b
    BY <2>3, <2>4
  <2>7. (q * b) * P[e] = q * (b * P[e])
    BY <2>2, <2>3
  <2>8. n = q * P[e + 1]
    BY <2>2, <2>5, <2>6, <2>7
  <2>9. QED
    BY <2>8 DEF q
<1>6. Nat \subseteq T
  <2> HIDE DEF T
  <2> QED BY <1>4, <1>5, NatInduct
<1>7. QED
  BY <1>6 DEF P

LEMMA DigitsAreNats ==
    ASSUME NEW b \in Nat \ {0}, NEW n \in Nat, NEW w \in Nat
    PROVE  /\ DigitsOf(b, n, w) \in Seq(Nat) /\ Len(DigitsOf(b, n, w)) = w
           /\ \A i \in 1..w : DigitsOf(b, n, w)[i] = (n \div Power(b)[w - i]) % b
<1>1. \A i \in 1..w : w - i \in Nat
  OBVIOUS
<1>2. \A i \in 1..w : (n \div Power(b)[w - i]) % b \in Nat
  BY <1>1, LastDigit
<1>3. QED
  BY <1>2 DEF DigitsOf

\* What w digits hold is the number itself, or what is left of it modulo their power.
LEMMA ReadFromDigits ==
    ASSUME NEW b \in Nat \ {0}, NEW n \in Nat, NEW w \in Nat
    PROVE  /\ NumberOf(b, DigitsOf(b, n, w)) = n - (n \div Power(b)[w]) * Power(b)[w]
           /\ n < Power(b)[w] => NumberOf(b, DigitsOf(b, n, w)) = n
<1> DEFINE s == DigitsOf(b, n, w)
           P == Power(b)
<1>1. s \in Seq(Nat) /\ Len(s) = w
  BY DigitsAreNats
<1>2. P[0] = 1 /\ P[w] \in Nat \ {0}
  BY PowerIsRecursive
<1>3. w - (0 + w) = 0 /\ (0 + w) - 0 = w /\ w - 0 = w /\ 0 \in 0..w
  OBVIOUS
<1>4. \A x \in 1..w : 0 + x = x
  OBVIOUS
<1>5. NumberOf(b, s) = Between(b, n, w, 0, 0 + w)
  <2>1. w <= w - 0 /\ \A x \in 1..Len(s) : s[x] = DigitsOf(b, n, w)[0 + x]
    BY <1>1, <1>4
  <2> HIDE DEF s
  <2>2. QED
    BY <1>1, <1>3, <2>1, NumberOfPart
<1> HIDE DEF s, P
<1>6. NumberOf(b, s) = n - (n \div P[w]) * P[w]
  <2>1. n \div 1 = n
    OBVIOUS
  <2>2. QED
    BY <1>2, <1>3, <1>5, <2>1 DEF Between, P
<1>7. n < P[w] => n \div P[w] = 0
  BY <1>2
<1>8. n < P[w] => NumberOf(b, s) = n
  BY <1>2, <1>6, <1>7
<1>9. QED
  BY <1>6, <1>8 DEF s, P

LEMMA PowersOfTen ==
    /\ SHIFT_MULTIPLIER \in Nat \ {0}
    /\ \A n \in 0..FIXED_POINT_DECIMALS :
          /\ tenPower(n) \in Nat \ {0} /\ tenPower(FIXED_POINT_DECIMALS - n) \in Nat \ {0}
          /\ tenPower(FIXED_POINT_DECIMALS - n) * tenPower(n) = SHIFT_MULTIPLIER
<1>1. \A n \in Nat : tenPower(n) \in Nat \ {0}
  BY PowerIsRecursive DEF tenPower
<1>2. \A n \in 0..FIXED_POINT_DECIMALS : n \in Nat /\ FIXED_POINT_DECIMALS - n \in Nat /\ (FIXED_POINT_DECIMALS - n) + n = FIXED_POINT_DECIMALS
  BY AmountsAssumption
<1>3. \A m \in Nat, n \in Nat : tenPower(m + n) = tenPower(m) * tenPower(n)
  BY PowersAdd DEF tenPower
<1>4. FIXED_POINT_DECIMALS \in Nat
  BY AmountsAssumption
<1>5. QED
  BY <1>1, <1>2, <1>3, <1>4 DEF SHIFT_MULTIPLIER

\* Without its trailing zeros a sequence of digits is its beginning up to them.
LEMMA ZerosAreTrimmed ==
    ASSUME NEW digits \in Seq(Nat)
    PROVE  \E k \in 0..Len(digits) : /\ removeTrailingZeros(digits) = SubSeq(digits, 1, k)
                                     /\ \A i \in k + 1..Len(digits) : digits[i] = 0
<1> DEFINE L == Len(digits)
           Z == {n \in 0..L : \A i \in n + 1..L : digits[i] = 0}
           Fits(n) == (n = 0 \/ digits[n] # 0) /\ \A i \in n + 1..L : digits[i] = 0
<1>1. L \in Nat
  OBVIOUS
<1>2. L \in Z /\ Z \subseteq Nat
  BY <1>1
<1>3. PICK m \in Z : \A y \in Z : m <= y
  <2> HIDE DEF Z
  <2> QED BY <1>2, LeastNat
<1>4. Fits(m)
  <2>1. SUFFICES ASSUME m # 0, digits[m] = 0 PROVE FALSE
    BY <1>3
  <2>2. m - 1 \in 0..L /\ \A i \in (m - 1) + 1..L : i = m \/ i \in m + 1..L
    BY <1>1, <1>3, <2>1
  <2>3. m - 1 \in Z
    BY <1>3, <2>1, <2>2
  <2>4. m \in Nat /\ m <= m - 1
    <3> HIDE DEF Z
    <3> QED BY <1>2, <1>3, <2>3
  <2>5. QED
    BY <2>4
<1> DEFINE k == CHOOSE n \in 0..L : Fits(n)
<1>5. k \in 0..L /\ Fits(k)
  <2>1. m \in 0..L
    BY <1>3
  <2> HIDE DEF Fits
  <2>2. QED
    BY <1>4, <2>1
<1>6. removeTrailingZeros(digits) = SubSeq(digits, 1, k)
  BY DEF removeTrailingZeros
<1> HIDE DEF k
<1>7. QED
  BY <1>5, <1>6

\* s and r are the digits before a point and those after it, without trailing zeros.
PartsAtPoint(s, r, digits, point) ==
    /\ Len(s) = point /\ \A x \in 1..point : s[x] = digits[x]
    /\ Len(r) <= Len(digits) - point /\ \A x \in 1..Len(r) : r[x] = digits[point + x]
    /\ \A i \in point + Len(r) + 1..Len(digits) : digits[i] = 0

TextNumber(s, r, places) == (NumberOf(10, s) * Power(10)[Len(r)] + NumberOf(10, r)) * Power(10)[places - Len(r)]

\* The integer part and the decimals of a text make again what its digits hold.
LEMMA TextOfDigits ==
    ASSUME NEW n \in Nat, NEW W \in Nat, NEW point \in 0..W, NEW s \in Seq(Nat), NEW r \in Seq(Nat),
           PartsAtPoint(s, r, DigitsOf(10, n, W), point)
    PROVE  TextNumber(s, r, W - point) = n - (n \div Power(10)[W]) * Power(10)[W]
<1> DEFINE P == Power(10)
           k == Len(r)
           z == W - point - k
           c == n \div P[W]
           h == n \div P[W - point]
           v == n \div P[z]
<1>0. 10 \in Nat \ {0}
  OBVIOUS
<1>1. Len(s) = point /\ k <= W - point /\ (\A x \in 1..point : s[x] = DigitsOf(10, n, W)[x])
      /\ (\A x \in 1..k : r[x] = DigitsOf(10, n, W)[point + x]) /\ (\A i \in point + k + 1..W : DigitsOf(10, n, W)[i] = 0)
  <2>1. Len(DigitsOf(10, n, W)) = W
    BY <1>0, DigitsAreNats
  <2>2. QED
    BY <2>1 DEF PartsAtPoint
<1>2. k \in Nat /\ z \in Nat /\ point \in Nat /\ W - point \in Nat /\ point + k + z = W
  BY <1>1
<1>3. P \in [Nat -> Nat \ {0}] /\ P[0] = 1
  BY <1>0, PowerIsRecursive
<1>4. NumberOf(10, s) = h - c * P[point]
  <2> DEFINE o == 0
  <2>1. o \in 0..W /\ Len(s) <= W - o /\ W - o = W /\ W - (o + point) = W - point /\ (o + point) - o = point
    BY <1>1, <1>2
  <2>2. \A x \in 1..Len(s) : s[x] = DigitsOf(10, n, W)[o + x]
    BY <1>1
  <2> HIDE DEF o
  <2>3. NumberOf(10, s) = Between(10, n, W, o, o + Len(s))
    <3>1. s \in Seq(Nat)
      OBVIOUS
    <3>2. QED
      BY ONLY <1>0, <2>1, <2>2, <3>1, n \in Nat, W \in Nat, NumberOfPart
  <2>4. QED
    BY <1>1, <2>1, <2>3 DEF Between
<1>5. NumberOf(10, r) = v - h * P[k]
  <2>1. NumberOf(10, r) = Between(10, n, W, point, point + k)
    BY <1>0, <1>1, NumberOfPart
  <2>2. W - (point + k) = z /\ (point + k) - point = k
    BY <1>2
  <2>3. QED
    BY <2>1, <2>2 DEF Between
<1>6. n = v * P[z]
  <2>1. ASSUME NEW e \in 0..z - 1 PROVE (n \div P[e]) % 10 = 0
    <3>1. W - e \in point + k + 1..W /\ W - e \in 1..W /\ W - (W - e) = e
      BY <1>2
    <3>2. DigitsOf(10, n, W)[W - e] = (n \div P[e]) % 10
      BY <1>0, <3>1, DigitsAreNats
    <3>3. QED
      BY <1>1, <3>1, <3>2
  <2>2. QED
    BY <1>0, <1>2, <2>1, TrailingZeros
<1>7. P[W] = P[point] * P[k] * P[z]
  <2>1. P[point + k] = P[point] * P[k]
    BY <1>0, <1>2, PowersAdd
  <2>2. P[(point + k) + z] = P[point + k] * P[z]
    BY <1>0, <1>2, PowersAdd
  <2>3. QED
    BY <1>2, <2>1, <2>2
<1>8. P[W] \in Nat \ {0} /\ P[point] \in Nat /\ P[k] \in Nat /\ P[z] \in Nat \ {0} /\ P[W - point] \in Nat \ {0}
  BY <1>2, <1>3
<1>9. c \in Nat /\ h \in Nat /\ v \in Nat
  <2>1. \A a \in Nat, d \in Nat \ {0} : a \div d \in Nat
    OBVIOUS
  <2>2. QED
    BY <1>8, <2>1
<1>10. ((h - c * P[point]) * P[k] + (v - h * P[k])) * P[z] = v * P[z] - c * (P[point] * P[k] * P[z])
  <2> DEFINE a == P[point]
             b == P[k]
             d == P[z]
  <2>1. a \in Nat /\ b \in Nat /\ d \in Nat
    BY <1>8
  <2> HIDE DEF P, a, b, d, c, h, v
  <2>2. ((h - c * a) * b + (v - h * b)) * d = v * d - c * (a * b * d)
    BY <1>9, <2>1
  <2>3. QED
    BY <2>2 DEF a, b, d
<1> HIDE DEF P, c, h, v, z, k
<1>11. (NumberOf(10, s) * P[k] + NumberOf(10, r)) * P[z] = n - c * P[W]
  BY <1>4, <1>5, <1>6, <1>7, <1>10
<1>12. QED
  BY <1>11 DEF P, c, z, k, TextNumber

\* A text holds the number it was made from when its digits do.
LEMMA TextReadsBack ==
    ASSUME NEW raw \in Int, NEW point \in 0..FIXED_POINT_DIGITS
    PROVE  decimalToFixedPoint(fixedPointToDecimal(raw, point), FIXED_POINT_DIGITS - point) = raw <=> bigintAbs(raw) <= INFINITY
<1> DEFINE W == FIXED_POINT_DIGITS
           n == bigintAbs(raw)
           digits == DigitsOf(10, n, W)
           s == SubSeq(digits, 1, point)
           t == SubSeq(digits, point + 1, W)
           r == removeTrailingZeros(t)
           k == Len(r)
           magnitude == (NumberOf(10, s) * tenPower(k) + NumberOf(10, r)) * tenPower(W - point - k)
<1>1. n \in Nat /\ W \in Nat /\ point \in Nat /\ point <= W /\ 10 \in Nat \ {0}
  BY AmountsAssumption DEF bigintAbs
<1>2. decimalToFixedPoint(fixedPointToDecimal(raw, point), W - point) = IF raw < 0 THEN -magnitude ELSE magnitude
  BY Zenon DEF decimalToFixedPoint, fixedPointToDecimal, ParsedDigits, Digits
<1>3. raw = IF raw < 0 THEN -n ELSE n
  BY DEF bigintAbs
<1> HIDE DEF W, n
<1>4. digits \in Seq(Nat) /\ Len(digits) = W
  BY <1>1, DigitsAreNats
<1> HIDE DEF digits
<1>5. s \in Seq(Nat) /\ Len(s) = point /\ \A x \in 1..point : s[x] = digits[x]
  BY <1>1, <1>4
<1>6. t \in Seq(Nat) /\ Len(t) = W - point /\ \A x \in 1..W - point : t[x] = digits[point + x]
  BY <1>1, <1>4
<1> HIDE DEF s, t
<1>7. PICK z \in 0..Len(t) : r = SubSeq(t, 1, z) /\ \A i \in z + 1..Len(t) : t[i] = 0
  BY <1>6, ZerosAreTrimmed
<1>8. r \in Seq(Nat) /\ k = z /\ \A x \in 1..k : r[x] = t[x]
  BY <1>6, <1>7
<1> HIDE DEF r
<1>9. k \in Nat /\ k <= W - point /\ \A x \in 1..k : r[x] = digits[point + x]
  BY <1>1, <1>6, <1>7, <1>8
<1>10. \A i \in point + k + 1..W : digits[i] = 0
  <2> SUFFICES ASSUME NEW i \in point + k + 1..W PROVE digits[i] = 0
    OBVIOUS
  <2>1. i - point \in z + 1..Len(t) /\ i - point \in 1..W - point /\ point + (i - point) = i
    BY <1>1, <1>6, <1>8, <1>9
  <2>2. QED
    BY <1>6, <1>7, <2>1
<1>11. magnitude = n - (n \div Power(10)[W]) * Power(10)[W]
  <2>1. point \in 0..W
    BY <1>1
  <2>2. PartsAtPoint(s, r, DigitsOf(10, n, W), point)
    BY <1>4, <1>5, <1>9, <1>10 DEF digits, PartsAtPoint
  <2>3. TextNumber(s, r, W - point) = n - (n \div Power(10)[W]) * Power(10)[W]
    BY <1>1, <1>5, <1>8, <2>1, <2>2, TextOfDigits
  <2>4. QED
    BY <2>3, Zenon DEF tenPower, TextNumber
<1> HIDE DEF magnitude
<1> DEFINE p == Power(10)[W]
           c == n \div p
<1>12. p \in Nat \ {0}
  BY <1>1, PowerIsRecursive
<1>13. INFINITY = p - 1
  BY DEF INFINITY, tenPower, W
<1> HIDE DEF p
<1>14. c \in Nat /\ (c = 0 <=> n < p)
  BY <1>1, <1>12
<1>15. magnitude = n - c * p
  BY <1>11 DEF p
<1> HIDE DEF c
<1>16. magnitude = n <=> n < p
  <2>1. CASE c = 0
    BY <1>1, <1>12, <1>14, <1>15, <2>1
  <2>2. CASE c # 0
    <3>1. c * p > 0 /\ c * p \in Nat
      BY <1>12, <1>14, <2>2
    <3>2. QED
      BY <1>1, <1>14, <1>15, <2>2, <3>1
  <2>3. QED
    BY <2>1, <2>2
<1>17. magnitude \in Int
  <2>1. c * p \in Nat
    BY <1>12, <1>14
  <2>2. QED
    BY <1>1, <1>15, <2>1
<1>18. (IF raw < 0 THEN -magnitude ELSE magnitude) = raw <=> magnitude = n
  BY <1>1, <1>3, <1>17
<1>19. n <= INFINITY <=> n < p
  BY <1>1, <1>12, <1>13
<1>20. QED
  BY <1>2, <1>16, <1>18, <1>19 DEF W, n

\* What fits into a word is read back from it.
LEMMA WordReadsBack ==
    ASSUME NEW v \in Int, FitsUint(v, WordBytes)
    PROVE  DecodeUint(EncodeUint(v, WordBytes)) = v
<1>1. v \in Nat /\ v < Power(ByteBase)[WordBytes]
  BY DEF FitsUint, Span
<1>2. ByteBase \in Nat \ {0} /\ WordBytes \in Nat
  BY WordsAssumption
<1>3. QED
  BY <1>1, <1>2, ReadFromDigits DEF DecodeUint, EncodeUint

LEMMA WordHasSignBit == SignBit \in Nat \ {0} /\ WordSize = SignBit + SignBit
<1> DEFINE P == Power(ByteBase)
           h == ByteBase \div 2
           q == P[WordBytes - 1]
<1>1. ByteBase \in Nat \ {0} /\ WordBytes - 1 \in Nat /\ (WordBytes - 1) + 1 = WordBytes
  BY WordsAssumption
<1>2. q \in Nat \ {0} /\ P[WordBytes] = ByteBase * q
  BY <1>1, PowerIsRecursive
<1>3. h \in Nat \ {0} /\ ByteBase = h + h
  BY WordsAssumption
<1>4. WordSize = P[WordBytes]
  BY DEF WordSize, Span
<1> HIDE DEF P, h, q
<1> DEFINE x == h * q
<1>5. x \in Nat \ {0} /\ P[WordBytes] = x + x
  BY <1>2, <1>3
<1> HIDE DEF x
<1>6. SignBit = x
  BY <1>4, <1>5 DEF SignBit
<1>7. QED
  BY <1>4, <1>5, <1>6

LEMMA SignedWordReadsBack ==
    ASSUME NEW v \in Int, FitsUint(encodeInt64(v), WordBytes)
    PROVE  convertUint64toInt64(DecodeUint(EncodeUint(encodeInt64(v), WordBytes))) = v <=> -SignBit < v /\ v <= SignBit
<1> DEFINE u == encodeInt64(v)
<1>1. SignBit \in Nat \ {0} /\ WordSize = SignBit + SignBit
  BY WordHasSignBit
<1>2. u = (IF v < 0 THEN WordSize + v ELSE v) /\ u \in Int
  BY <1>1 DEF encodeInt64
<1>3. 0 <= u /\ u < WordSize
  BY DEF FitsUint, WordSize
<1>4. DecodeUint(EncodeUint(u, WordBytes)) = u
  BY <1>2, WordReadsBack
<1> HIDE DEF u
<1>5. convertUint64toInt64(u) = IF u <= SignBit THEN u ELSE u - WordSize
  BY DEF convertUint64toInt64
<1>6. convertUint64toInt64(u) = v <=> -SignBit < v /\ v <= SignBit
  BY <1>1, <1>2, <1>3, <1>5
<1>7. QED
  BY <1>4, <1>6 DEF u

LEMMA PriceComesBack ==
    ASSUME NEW raw \in Nat, NEW market \in [base : 0..FIXED_POINT_DECIMALS, quote : 0..FIXED_POINT_DECIMALS]
    PROVE  PriceReadsBack(raw, market)
<1> DEFINE point == FIXED_POINT_DECIMALS + market.base - market.quote
<1>1. market.base \in 0..FIXED_POINT_DECIMALS /\ market.quote \in 0..FIXED_POINT_DECIMALS
  OBVIOUS
<1>2. point \in 0..FIXED_POINT_DIGITS /\ PriceDecimals(market) = FIXED_POINT_DIGITS - point
  BY <1>1, AmountsAssumption DEF PriceDecimals
<1> HIDE DEF point
<1>3. bigintAbs(raw) = raw /\ raw \in Int
  BY DEF bigintAbs
<1>4. decimalToFixedPoint(fixedPointToDecimal(raw, point), FIXED_POINT_DIGITS - point) = raw <=> bigintAbs(raw) <= INFINITY
  BY <1>2, <1>3, TextReadsBack
<1>5. QED
  BY <1>2, <1>3, <1>4 DEF PriceReadsBack, priceFromDecimal, priceToDecimal, point

LEMMA AmountComesBack ==
    ASSUME NEW raw \in Int, NEW asaDecimals \in 0..FIXED_POINT_DECIMALS
    PROVE  AmountReadsBack(raw, asaDecimals)
<1> DEFINE point == FIXED_POINT_DIGITS - asaDecimals
<1>1. point \in 0..FIXED_POINT_DIGITS /\ asaDecimals = FIXED_POINT_DIGITS - point
  BY AmountsAssumption
<1> HIDE DEF point
<1>2. decimalToFixedPoint(fixedPointToDecimal(raw, point), FIXED_POINT_DIGITS - point) = raw <=> bigintAbs(raw) <= INFINITY
  BY <1>1, TextReadsBack
<1>3. fromDecimal(toDecimal(raw, asaDecimals), asaDecimals) = raw <=> bigintAbs(raw) <= INFINITY
  BY <1>1, <1>2 DEF fromDecimal, toDecimal, point
<1>4. QED
  BY <1>3, SignedWordReadsBack DEF AmountReadsBack

-----------------------------------------------------------------------------
(* Rounding prices and amounts.                                            *)

\* Of naturals, JavaScript's quotient is the integer part of their ratio.
LEMMA QuotOfNats ==
    ASSUME NEW a \in Nat, NEW b \in Nat \ {0}
    PROVE  /\ Quot(a, b) \in Nat /\ Quot(a, b) = a \div b /\ b * Quot(a, b) \in Nat
           /\ b * Quot(a, b) <= a /\ a < b * Quot(a, b) + b
           /\ Rem(a, b) = a - b * Quot(a, b)
<1>1. (a < 0) = FALSE /\ (b < 0) = FALSE
  OBVIOUS
<1>2. bigintAbs(a) = a /\ bigintAbs(b) = b
  BY DEF bigintAbs
<1>3. Quot(a, b) = a \div b
  BY <1>1, <1>2 DEF Quot
<1>4. a \div b \in Nat /\ b * (a \div b) <= a /\ a < b * (a \div b) + b
  OBVIOUS
<1>5. b * (a \div b) \in Nat
  BY <1>4
<1>6. QED
  BY <1>3, <1>4, <1>5 DEF Rem

LEMMA Multiples ==
    ASSUME NEW n \in Nat, NEW t \in Nat \ {0}
    PROVE  /\ n * t \in Nat /\ (n * t) % t = 0 /\ (n * t) \div t = n /\ Rem(n * t, t) = 0
<1>1. n * t \in Nat /\ t * n = n * t
  OBVIOUS
<1>2. (n * t) \div t = n
  <2>1. \A a \in Nat, q \in Nat : t * q <= a /\ a < t * q + t => a \div t = q
    OBVIOUS
  <2>2. t * n <= n * t /\ n * t < t * n + t
    BY <1>1
  <2>3. QED
    BY <1>1, <2>1, <2>2
<1>3. (n * t) % t = 0
  <2>1. \A a \in Nat : a % t = a - t * (a \div t)
    OBVIOUS
  <2>2. QED
    BY <1>1, <1>2, <2>1
<1>4. Rem(n * t, t) = n * t - t * n
  BY <1>1, <1>2, QuotOfNats
<1>5. QED
  BY <1>1, <1>2, <1>3, <1>4

\* Selling a base amount for quote and buying it back.
LEMMA SoldAndBoughtBack ==
    ASSUME NEW p \in Nat \ {0}, NEW a \in Nat
    PROVE  LET back == quoteToBase(p, baseToQuote(p, a))
           IN  back <= a /\ (a - back) * p < SHIFT_MULTIPLIER + p
<1> DEFINE S == SHIFT_MULTIPLIER
           q == Quot(p * a, S)
           b == Quot(q * S, p)
<1>1. S \in Nat \ {0} /\ p * a \in Nat
  BY PowersOfTen
<1> HIDE DEF S
<1>2. q \in Nat /\ S * q <= p * a /\ p * a < S * q + S
  BY <1>1, QuotOfNats
<1> HIDE DEF q
<1>3. q * S \in Nat /\ q * S = S * q
  BY <1>1, <1>2
<1>4. b \in Nat /\ p * b <= q * S /\ q * S < p * b + p
  BY <1>3, QuotOfNats
<1> HIDE DEF b
<1>5. p * b <= p * a
  BY <1>1, <1>2, <1>3, <1>4
<1>6. b <= a
  BY <1>4, <1>5
<1>7. (a - b) * p = p * a - p * b
  BY <1>4
<1>8. (a - b) * p < S + p
  BY <1>1, <1>2, <1>3, <1>4, <1>7
<1>9. quoteToBase(p, baseToQuote(p, a)) = b
  BY DEF quoteToBase, baseToQuote, b, q, S
<1>10. QED
  BY <1>6, <1>8, <1>9 DEF S

\* round returns a multiple, none is nearer, and of two equally near the even one.
LEMMA RoundIsNearest ==
    ASSUME NEW p \in Nat, NEW t \in Nat \ {0}
    PROVE  \E m \in Nat :
              /\ round(p, t) = m * t
              /\ \A k \in Nat : LET gain == bigintAbs(m * t - p) - bigintAbs(k * t - p)
                                IN  gain < 0 \/ (gain = 0 /\ (k * t = m * t \/ m % 2 = 0))
<1> DEFINE n == Quot(p, t)
           floor == n * t
           ceil == (n + 1) * t
<1>1. n \in Nat /\ t * n <= p /\ p < t * n + t /\ Rem(p, t) = p - t * n
  BY QuotOfNats
<1> HIDE DEF n
<1>2. floor \in Nat /\ floor = t * n /\ ceil = floor + t /\ ceil \in Nat
  BY <1>1
<1>3. floor <= p /\ p < ceil /\ (Rem(p, t) = 0 <=> p = floor)
  BY <1>1, <1>2
<1>4. round(p, t) = IF Rem(p, t) = 0 THEN p
                    ELSE IF bigintAbs(p - floor) > bigintAbs(ceil - p)
                            \/ (bigintAbs(p - floor) = bigintAbs(ceil - p) /\ n % 2 = 1) THEN ceil
                    ELSE floor
  BY DEF round, n
<1>5. ASSUME NEW k \in Nat
      PROVE  k * t \in Nat /\ (k * t = floor \/ k * t <= floor - t \/ k * t = ceil \/ k * t >= ceil + t)
  <2>1. k * t \in Nat
    OBVIOUS
  <2>2. k <= n - 1 \/ k = n \/ k = n + 1 \/ k >= n + 2
    BY <1>1
  <2>3. CASE k <= n - 1
    <3>1. k * t <= (n - 1) * t
      BY <1>1, <2>3
    <3>2. (n - 1) * t = floor - t
      BY <1>1
    <3>3. QED
      BY <2>1, <3>1, <3>2
  <2>4. CASE k >= n + 2
    <3>1. k * t >= (n + 2) * t
      BY <1>1, <2>4
    <3>2. (n + 2) * t = ceil + t
      BY <1>1
    <3>3. QED
      BY <2>1, <3>1, <3>2
  <2>5. QED
    BY <2>1, <2>2, <2>3, <2>4
<1> HIDE DEF floor, ceil
<1>6. \A x \in Int : bigintAbs(x) = IF x >= 0 THEN x ELSE -x
  BY DEF bigintAbs
<1>7. bigintAbs(p - floor) = p - floor /\ bigintAbs(ceil - p) = ceil - p
  BY <1>2, <1>3, <1>6
<1>8. CASE round(p, t) = floor /\ p - floor < ceil - p
  <2>1. ASSUME NEW k \in Nat
        PROVE  LET gain == bigintAbs(floor - p) - bigintAbs(k * t - p) IN gain < 0 \/ (gain = 0 /\ k * t = floor)
    <3> DEFINE x == k * t
    <3>1. x \in Nat /\ (x = floor \/ x <= floor - t \/ x = ceil \/ x >= ceil + t)
      BY <1>5
    <3> HIDE DEF x
    <3>2. bigintAbs(floor - p) - bigintAbs(x - p) < 0 \/ x = floor
      BY <1>2, <1>3, <1>6, <1>8, <3>1
    <3>3. bigintAbs(floor - p) \in Int
      BY <1>2, <1>6
    <3>4. QED
      BY <3>2, <3>3 DEF x
  <2>2. QED
    BY <1>1, <1>8, <2>1 DEF floor
<1>9. CASE round(p, t) = ceil /\ p - floor > ceil - p
  <2>1. ASSUME NEW k \in Nat
        PROVE  LET gain == bigintAbs(ceil - p) - bigintAbs(k * t - p) IN gain < 0 \/ (gain = 0 /\ k * t = ceil)
    <3> DEFINE x == k * t
    <3>1. x \in Nat /\ (x = floor \/ x <= floor - t \/ x = ceil \/ x >= ceil + t)
      BY <1>5
    <3> HIDE DEF x
    <3>2. bigintAbs(ceil - p) - bigintAbs(x - p) < 0 \/ x = ceil
      BY <1>2, <1>3, <1>6, <1>9, <3>1
    <3>3. bigintAbs(ceil - p) \in Int
      BY <1>2, <1>6
    <3>4. QED
      BY <3>2, <3>3 DEF x
  <2>2. n + 1 \in Nat
    BY <1>1
  <2>3. QED
    BY <1>9, <2>1, <2>2 DEF ceil
<1>10. CASE p - floor = ceil - p /\ ((round(p, t) = ceil /\ n % 2 = 1) \/ (round(p, t) = floor /\ n % 2 # 1))
  <2>1. PICK m \in Nat : round(p, t) = m * t /\ m % 2 = 0 /\ m * t \in {floor, ceil}
    <3>1. CASE round(p, t) = ceil /\ n % 2 = 1
      <4>1. n + 1 \in Nat /\ (n + 1) % 2 = 0
        BY <1>1, <3>1
      <4>2. QED
        BY <3>1, <4>1 DEF ceil
    <3>2. CASE round(p, t) = floor /\ n % 2 # 1
      <4>1. n % 2 = 0
        BY <1>1, <3>2
      <4>2. QED
        BY <1>1, <3>2, <4>1 DEF floor
    <3>3. QED
      BY <1>10, <3>1, <3>2
  <2>2. ASSUME NEW k \in Nat
        PROVE  bigintAbs(m * t - p) - bigintAbs(k * t - p) <= 0 /\ bigintAbs(m * t - p) - bigintAbs(k * t - p) \in Int
    <3> DEFINE x == k * t
               y == m * t
    <3>1. x \in Nat /\ (x = floor \/ x <= floor - t \/ x = ceil \/ x >= ceil + t) /\ y \in {floor, ceil}
      BY <1>5, <2>1
    <3> HIDE DEF x, y
    <3>2. bigintAbs(y - p) - bigintAbs(x - p) <= 0 /\ bigintAbs(y - p) - bigintAbs(x - p) \in Int
      BY <1>2, <1>3, <1>6, <1>10, <3>1
    <3>3. QED
      BY <3>2 DEF x, y
  <2>3. \A d \in Int : d <= 0 => d < 0 \/ d = 0
    OBVIOUS
  <2>4. \A k \in Nat : LET gain == bigintAbs(m * t - p) - bigintAbs(k * t - p) IN gain < 0 \/ gain = 0
    <3> SUFFICES ASSUME NEW k \in Nat
                 PROVE  LET gain == bigintAbs(m * t - p) - bigintAbs(k * t - p) IN gain < 0 \/ gain = 0
      OBVIOUS
    <3> DEFINE d == bigintAbs(m * t - p) - bigintAbs(k * t - p)
    <3>1. d <= 0 /\ d \in Int
      BY <2>2
    <3> HIDE DEF d
    <3>2. d < 0 \/ d = 0
      BY <2>3, <3>1
    <3>3. QED
      BY <3>2 DEF d
  <2>5. QED
    BY <2>1, <2>4
<1>11. CASE round(p, t) = p /\ p = floor
  BY <1>2, <1>8, <1>11
<1>12. QED
  BY <1>2, <1>3, <1>4, <1>7, <1>8, <1>9, <1>10, <1>11

LEMMA BoundsOfTwo ==
    ASSUME NEW a \in Int, NEW b \in Int
    PROVE  /\ bigintMin(a, b) \in {a, b} /\ bigintMin(a, b) <= a /\ bigintMin(a, b) <= b
           /\ bigintMax(a, b) \in {a, b} /\ bigintMax(a, b) >= a /\ bigintMax(a, b) >= b
BY DEF bigintMin, bigintMax

\* The next multiple is one that is not below, the previous one that is not above.
LEMMA NextAndPrevMultiple ==
    ASSUME NEW a \in Nat, NEW t \in Nat \ {0}
    PROVE  /\ nextMultiple(a, t) \in Nat /\ nextMultiple(a, t) % t = 0 /\ nextMultiple(a, t) >= a
           /\ prevMultiple(a, t) \in Nat /\ prevMultiple(a, t) % t = 0 /\ prevMultiple(a, t) <= a
<1> DEFINE n == Quot(a + t - 1, t)
           m == Quot(a, t)
<1>1. a + t - 1 \in Nat
  OBVIOUS
<1>2. n \in Nat /\ a + t - 1 < t * n + t
  BY <1>1, QuotOfNats
<1>3. m \in Nat /\ t * m <= a
  BY QuotOfNats
<1>4. nextMultiple(a, t) = n * t /\ prevMultiple(a, t) = m * t
  BY DEF nextMultiple, prevMultiple
<1> HIDE DEF n, m
<1>5. n * t \in Nat /\ (n * t) % t = 0 /\ m * t \in Nat /\ (m * t) % t = 0
  BY <1>2, <1>3, Multiples
<1>6. n * t = t * n /\ m * t = t * m
  BY <1>2, <1>3
<1>7. n * t >= a /\ m * t <= a
  BY <1>2, <1>3, <1>5, <1>6
<1>8. QED
  BY <1>4, <1>5, <1>7

\* The slippage of a market order is half its price, rounded down.
LEMMA HalfOfPrice ==
    ASSUME NEW p \in Nat
    PROVE  LET slippage == applyPercentage(RATIO_ONE \div 2, p)
           IN  slippage \in Nat /\ 2 * slippage <= p /\ p <= 2 * slippage + 1
<1> DEFINE h == RATIO_ONE \div 2
           q == Quot(h * p, RATIO_ONE)
<1>1. h \in Nat \ {0} /\ RATIO_ONE = 2 * h /\ RATIO_ONE \in Nat \ {0}
  BY AmountsAssumption
<1> HIDE DEF h
<1>2. h * p \in Nat
  BY <1>1
<1>3. q \in Nat /\ RATIO_ONE * q <= h * p /\ h * p < RATIO_ONE * q + RATIO_ONE
  BY <1>1, <1>2, QuotOfNats
<1> HIDE DEF q
<1>4. h * (2 * q) <= h * p /\ h * p < h * (2 * q + 2)
  <2>1. RATIO_ONE * q = h * (2 * q)
    BY <1>1, <1>3
  <2>2. h * (2 * q + 2) = h * (2 * q) + RATIO_ONE
    BY <1>1, <1>3
  <2>3. QED
    BY <1>3, <2>1, <2>2
<1>5. 2 * q <= p /\ p < 2 * q + 2
  BY <1>1, <1>3, <1>4
<1>6. QED
  BY <1>3, <1>5 DEF applyPercentage, q, h

LEMMA SlippageStaysOnItsSide ==
    ASSUME NEW p \in Nat \ {0}, NEW t \in Nat \ {0}
    PROVE  LET buy == calculateMarketOrderSlippage(TRUE, p, t, 2 * p)
               sell == calculateMarketOrderSlippage(FALSE, p, t, 1)
           IN  /\ buy <= 2 * p /\ 2 * buy >= 3 * p - 1 /\ (buy < 2 * p => buy % t = 0)
               /\ sell >= 1 /\ (sell > 1 => sell % t = 0 /\ 2 * sell <= p + 1)
<1> DEFINE s == applyPercentage(RATIO_ONE \div 2, p)
           next == nextMultiple(p + s, t)
           prev == prevMultiple(p - s, t)
           buy == bigintMin(next, 2 * p)
           sell == bigintMax(prev, 1)
<1>1. s \in Nat /\ 2 * s <= p /\ p <= 2 * s + 1
  BY HalfOfPrice
<1> HIDE DEF s
<1>2. p + s \in Nat /\ p - s \in Nat
  BY <1>1
<1>3. next \in Nat /\ next % t = 0 /\ next >= p + s
  BY <1>2, NextAndPrevMultiple
<1>4. prev \in Nat /\ prev % t = 0 /\ prev <= p - s
  BY <1>2, NextAndPrevMultiple
<1> HIDE DEF next, prev
<1>5. buy \in {next, 2 * p} /\ buy <= 2 * p /\ sell \in {prev, 1} /\ sell >= 1
  BY <1>3, <1>4, BoundsOfTwo
<1>6. calculateMarketOrderSlippage(TRUE, p, t, 2 * p) = buy /\ calculateMarketOrderSlippage(FALSE, p, t, 1) = sell
  BY DEF calculateMarketOrderSlippage, next, prev, s
<1> HIDE DEF buy, sell
<1>7. 2 * buy >= 3 * p - 1 /\ (buy < 2 * p => buy % t = 0)
  BY <1>1, <1>3, <1>5
<1>8. sell > 1 => sell % t = 0 /\ 2 * sell <= p + 1
  BY <1>1, <1>4, <1>5
<1>9. QED
  BY <1>5, <1>6, <1>7, <1>8

\* A whole base unit costs a whole number of quote units.
LEMMA WholeUnitsHavePrices ==
    ASSUME NEW p \in Nat, NEW market, market.base \in 0..FIXED_POINT_DECIMALS
    PROVE  baseToQuoteIsInteger(round(p, minPrice(market)), tenPower(market.base))
<1> DEFINE S == SHIFT_MULTIPLIER
           u == minPrice(market)
           b == tenPower(market.base)
<1>1. S \in Nat \ {0} /\ u \in Nat \ {0} /\ b \in Nat \ {0} /\ u * b = S
  BY PowersOfTen DEF minPrice
<1> HIDE DEF S, u, b
<1>2. PICK m \in Nat : round(p, u) = m * u
  BY <1>1, RoundIsNearest
<1>3. (m * u) * b = m * S
  BY <1>1
<1>4. Rem(m * S, S) = 0
  BY <1>1, Multiples
<1>5. QED
  BY <1>2, <1>3, <1>4 DEF baseToQuoteIsInteger, S, u, b

\* What a percentage takes of the amount whose percentage an amount is.
LEMMA PercentagesComeBack ==
    ASSUME NEW a \in Nat, NEW t \in Nat \ {0}
    PROVE  applyPercentage(t, divideBigIntByPercentage(a, t)) <= a
<1> DEFINE R == RATIO_ONE
           q == Quot(a * R, t)
           r == Quot(t * q, R)
<1>1. R \in Nat \ {0} /\ a * R \in Nat
  BY AmountsAssumption
<1> HIDE DEF R
<1>2. q \in Nat /\ t * q <= a * R /\ t * q \in Nat
  BY <1>1, QuotOfNats
<1> HIDE DEF q
<1>3. r \in Nat /\ R * r <= t * q
  BY <1>1, <1>2, QuotOfNats
<1> HIDE DEF r
<1>4. R * r <= R * a
  BY <1>1, <1>2, <1>3
<1>5. r <= a
  BY <1>1, <1>3, <1>4
<1>6. QED
  BY <1>5 DEF applyPercentage, divideBigIntByPercentage, r, q, R

LEMMA FeesOfTwoFills ==
    ASSUME NEW fee \in Nat, NEW a \in Nat, NEW b \in Nat
    PROVE  applyFee(fee, a) + applyFee(fee, b) <= applyFee(fee, a + b)
<1> DEFINE S == SHIFT_MULTIPLIER
           x == Quot(fee * a, S)
           y == Quot(fee * b, S)
           z == Quot(fee * (a + b), S)
<1>1. S \in Nat \ {0} /\ fee * a \in Nat /\ fee * b \in Nat /\ fee * (a + b) \in Nat
  BY PowersOfTen
<1>2. fee * (a + b) = fee * a + fee * b
  OBVIOUS
<1> HIDE DEF S
<1>3. x \in Nat /\ S * x <= fee * a
  BY <1>1, QuotOfNats
<1>4. y \in Nat /\ S * y <= fee * b
  BY <1>1, QuotOfNats
<1>5. z \in Nat /\ fee * (a + b) < S * z + S
  BY <1>1, QuotOfNats
<1> HIDE DEF x, y, z
<1>6. S * (x + y) = S * x + S * y /\ S * (z + 1) = S * z + S
  BY <1>1, <1>3, <1>4, <1>5
<1>7. S * (x + y) < S * (z + 1)
  BY <1>1, <1>2, <1>3, <1>4, <1>5, <1>6
<1>8. x + y < z + 1
  BY <1>1, <1>3, <1>4, <1>5, <1>7
<1>9. x + y <= z
  BY <1>3, <1>4, <1>5, <1>8
<1>10. QED
  BY <1>9 DEF applyFee, x, y, z, S

LEMMA RoundingOfOneCall ==
    ASSUME NEW p \in Nat \ {0}, NEW t \in Nat \ {0}, NEW a \in Nat,
           NEW market \in [base : 0..FIXED_POINT_DECIMALS, quote : 0..FIXED_POINT_DECIMALS],
           call = [op |-> "price", price |-> p, tick |-> t, market |-> market, amount |-> a]
    PROVE  RoundingKeepsBounds
<1>1. call.price = p /\ call.tick = t /\ call.market = market /\ call.amount = a
  OBVIOUS
<1>2. PICK m \in Nat :
         /\ round(p, t) = m * t
         /\ \A k \in Nat : LET gain == bigintAbs(m * t - p) - bigintAbs(k * t - p)
                           IN  gain < 0 \/ (gain = 0 /\ (k * t = m * t \/ m % 2 = 0))
  BY RoundIsNearest
<1>3. (m * t) % t = 0 /\ (m * t) \div t = m
  BY Multiples
<1>4. \A k \in 0..p : LET gain == bigintAbs(round(p, t) - p) - bigintAbs(k * t - p)
                      IN  gain < 0 \/ (gain = 0 /\ (k * t = round(p, t) \/ (round(p, t) \div t) % 2 = 0))
  <2>1. \A k \in 0..p : k \in Nat
    OBVIOUS
  <2>2. QED
    BY <1>2, <1>3, <2>1
<1>5. round(p, t) % t = 0
  BY <1>2, <1>3
<1>6. quoteToBase(p, baseToQuote(p, a)) <= a /\ (a - quoteToBase(p, baseToQuote(p, a))) * p < SHIFT_MULTIPLIER + p
  BY SoldAndBoughtBack
<1>7. baseToQuoteIsInteger(round(p, minPrice(market)), tenPower(market.base))
  BY WholeUnitsHavePrices
<1>8. applyPercentage(t, divideBigIntByPercentage(a, t)) <= a
  BY PercentagesComeBack
<1>9. applyFee(p, a) + applyFee(p, t) <= applyFee(p, a + t)
  BY FeesOfTwoFills
<1>10. LET buy == calculateMarketOrderSlippage(TRUE, p, t, 2 * p)
           sell == calculateMarketOrderSlippage(FALSE, p, t, 1)
       IN  /\ buy <= 2 * p /\ 2 * buy >= 3 * p - 1 /\ (buy < 2 * p => buy % t = 0)
           /\ sell >= 1 /\ (sell > 1 => sell % t = 0 /\ 2 * sell <= p + 1)
  BY SlippageStaysOnItsSide
<1>11. \A raw \in {p, a} : PriceReadsBack(raw, market)
  <2>1. p \in Nat
    OBVIOUS
  <2>2. QED
    BY <2>1, PriceComesBack
<1>12. \A raw \in {a, -a} : AmountReadsBack(raw, market.base)
  <2>1. a \in Int /\ -a \in Int /\ market.base \in 0..FIXED_POINT_DECIMALS
    OBVIOUS
  <2>2. QED
    BY <2>1, AmountComesBack
<1>13. QED
  BY <1>1, <1>4, <1>5, <1>6, <1>7, <1>8, <1>9, <1>10, <1>11, <1>12, Zenon DEF RoundingKeepsBounds

\* Whatever the prices, amounts, ticks and markets, rounding and writing down keep to their bounds.
THEOREM RoundingHolds == PureSpec => []RoundingKeepsBounds
<1>1. CallOfKind => RoundingKeepsBounds
  <2> SUFFICES ASSUME CallOfKind, call.op = "price"
               PROVE  RoundingKeepsBounds
    BY DEF RoundingKeepsBounds
  <2>1. PICK p \in Prices, t \in Ticks, market \in Markets, a \in Quantities :
           call = [op |-> "price", price |-> p, tick |-> t, market |-> market, amount |-> a]
    BY DEF CallOfKind, Idle
  <2>2. p \in Nat \ {0} /\ t \in Nat \ {0} /\ a \in Nat /\ market \in [base : 0..FIXED_POINT_DECIMALS, quote : 0..FIXED_POINT_DECIMALS]
    BY PureCallsAssumption
  <2>3. QED
    BY <2>1, <2>2, RoundingOfOneCall
<1>2. QED
  BY <1>1, CallsOfKind, PTL

-----------------------------------------------------------------------------
(* Account ids.                                                            *)

\* What was put in front of, or behind, something is found there.
LEMMA ConcatenationComesApart ==
    ASSUME NEW S, NEW s \in Seq(S), NEW t \in Seq(S), NEW n \in Nat, n = Len(s)
    PROVE  SubSeq(s \o t, 1, n) = s /\ Drop(s \o t, n) = t /\ Len(s \o t) = n + Len(t)
<1>1. s \o t \in Seq(S) /\ Len(s \o t) = n + Len(t)
  BY ConcatProperties
<1>2. Len(s) \in Nat /\ Len(t) \in Nat
  BY LenProperties
<1>3. \A i \in 1..Len(s) + Len(t) : (s \o t)[i] = IF i <= Len(s) THEN s[i] ELSE t[i - Len(s)]
  BY ConcatProperties
<1>4. SubSeq(s \o t, 1, n) = s
  <2> DEFINE r == SubSeq(s \o t, 1, n)
  <2>1. Len(r) = n /\ r \in Seq(S) /\ \A i \in 1..n : r[i] = (s \o t)[i]
    BY <1>1, <1>2, SubSeqProperties
  <2> HIDE DEF r
  <2>2. \A i \in 1..n : r[i] = s[i]
    BY <1>2, <1>3, <2>1
  <2>3. r = s
    BY <2>1, <2>2, SeqEqual
  <2>4. QED
    BY <2>3 DEF r
<1>5. Drop(s \o t, n) = t
  <2> DEFINE r == SubSeq(s \o t, n + 1, n + Len(t))
  <2>1. Len(r) = Len(t) /\ r \in Seq(S) /\ \A i \in 1..Len(t) : r[i] = (s \o t)[n + i]
    BY <1>1, <1>2, SubSeqProperties
  <2> HIDE DEF r
  <2>2. \A i \in 1..Len(t) : r[i] = t[i]
    BY <1>2, <1>3, <2>1
  <2>3. r = t
    BY <2>1, <2>2, SeqEqual
  <2>4. QED
    BY <1>1, <2>3 DEF r, Drop
<1>6. QED
  BY <1>1, <1>4, <1>5

LEMMA ZerosAreBytes == ASSUME NEW n \in Nat PROVE Zeros(n) \in Seq(Nat) /\ Len(Zeros(n)) = n
BY DEF Zeros

\* The chain that is found for an address is one of its format.
LEMMA ChainOfItsFormat ==
    ASSUME NEW address, address.format \in C3_ACCOUNT_TYPES
    PROVE  CHAIN_ID_TO_ACCOUNT_TYPE(findChainIdByAddress(address)) = address.format
<1> DEFINE Valid(i) == isValidAddress(SUPPORTED_CHAIN_IDS[i], address)
           First(i) == Valid(i) /\ \A j \in 1..i - 1 : ~Valid(j)
<1>1. DOMAIN SUPPORTED_CHAIN_IDS = 1..8
  BY DEF SUPPORTED_CHAIN_IDS
<1>2. \E i \in DOMAIN SUPPORTED_CHAIN_IDS : First(i)
  <2>1. CASE address.format = C3_ACCOUNT_TYPE_ALGORAND
    <3>1. First(1)
      BY <2>1 DEF isValidAddress, CHAIN_ID_TO_ACCOUNT_TYPE, SUPPORTED_CHAIN_IDS
    <3>2. QED
      BY <1>1, <3>1
  <2>2. CASE address.format = C3_ACCOUNT_TYPE_EVM
    <3>1. Valid(2) /\ ~Valid(1)
      BY <2>2 DEF isValidAddress, CHAIN_ID_TO_ACCOUNT_TYPE, SUPPORTED_CHAIN_IDS, C3_ACCOUNT_TYPE_EVM, C3_ACCOUNT_TYPE_ALGORAND
    <3>2. \A j \in 1..2 - 1 : j = 1
      OBVIOUS
    <3>3. QED
      BY <1>1, <3>1, <3>2
  <2>3. CASE address.format = C3_ACCOUNT_TYPE_SOLANA
    <3>1. Valid(7) /\ ~Valid(1) /\ ~Valid(2) /\ ~Valid(3) /\ ~Valid(4) /\ ~Valid(5) /\ ~Valid(6)
      BY <2>3 DEF isValidAddress, CHAIN_ID_TO_ACCOUNT_TYPE, SUPPORTED_CHAIN_IDS,
                  C3_ACCOUNT_TYPE_EVM, C3_ACCOUNT_TYPE_ALGORAND, C3_ACCOUNT_TYPE_SOLANA
    <3>2. \A j \in 1..7 - 1 : j \in {1, 2, 3, 4, 5, 6}
      OBVIOUS
    <3>3. QED
      BY <1>1, <3>1, <3>2
  <2>4. QED
    BY <2>1, <2>2, <2>3 DEF C3_ACCOUNT_TYPES
<1>3. PICK i \in DOMAIN SUPPORTED_CHAIN_IDS : findChainIdByAddress(address) = SUPPORTED_CHAIN_IDS[i] /\ Valid(i)
  BY <1>2, Zenon DEF findChainIdByAddress
<1>4. QED
  BY <1>3 DEF isValidAddress

LEMMA KeysAreBytes ==
    ASSUME NEW address \in Addresses
    PROVE  LET publicKey == getPublicKey(address)
           IN  /\ publicKey \in Seq(Nat) /\ Len(publicKey) = KeyLength
               /\ address.format = C3_ACCOUNT_TYPE_EVM =>
                     IsPadded(publicKey) /\ Drop(publicKey, KeyLength - EvmLength) = address.bytes
<1> DEFINE n == KeyLength - EvmLength
<1>1. KeyLength \in Nat /\ EvmLength \in Nat /\ n \in Nat
  BY BytesAssumption
<1>2. address.bytes \in Seq(Nat) /\ Len(address.bytes) = IF address.format = C3_ACCOUNT_TYPE_EVM THEN EvmLength ELSE KeyLength
  BY PureCallsAssumption
<1>3. CASE address.format # C3_ACCOUNT_TYPE_EVM
  BY <1>2, <1>3 DEF getPublicKey
<1>4. CASE address.format = C3_ACCOUNT_TYPE_EVM
  <2>1. Zeros(n) \in Seq(Nat) /\ Len(Zeros(n)) = n
    BY <1>1, ZerosAreBytes
  <2>2. getPublicKey(address) = Zeros(n) \o address.bytes
    BY <1>2, <1>4 DEF getPublicKey, padLeftUint8Array
  <2> HIDE DEF n
  <2>3. SubSeq(Zeros(n) \o address.bytes, 1, n) = Zeros(n) /\ Drop(Zeros(n) \o address.bytes, n) = address.bytes
        /\ Len(Zeros(n) \o address.bytes) = n + Len(address.bytes)
    BY <1>1, <1>2, <2>1, ConcatenationComesApart
  <2>4. Zeros(n) \o address.bytes \in Seq(Nat)
    BY <1>2, <2>1, ConcatProperties
  <2>5. n + EvmLength = KeyLength
    BY <1>1 DEF n
  <2>6. QED
    BY <1>2, <1>4, <2>2, <2>3, <2>4, <2>5 DEF IsPadded, Padding, n
<1>5. QED
  BY <1>3, <1>4

LEMMA IdOfOneAddress ==
    ASSUME NEW address \in Addresses
    PROVE  LET id == userAddressToAccountId(address)
               clash == address.format = C3_ACCOUNT_TYPE_ALGORAND /\ IsPadded(address.bytes)
           IN  /\ decodeAccountIdFull(id).ok
               /\ (accountIdToUserAddress(id) = address) <=> ~clash
<1> DEFINE key == getPublicKey(address)
           f == address.format
           encoded == IF f \in {C3_ACCOUNT_TYPE_ALGORAND, C3_ACCOUNT_TYPE_EVM} THEN <<>> ELSE <<f>>
           sum == getChecksum(encoded, key)
           id == userAddressToAccountId(address)
           type == IF encoded # <<>> THEN f ELSE IF IsPadded(key) THEN C3_ACCOUNT_TYPE_EVM ELSE C3_ACCOUNT_TYPE_ALGORAND
<1>1. address = [format |-> f, bytes |-> address.bytes] /\ f \in C3_ACCOUNT_TYPES
  BY PureCallsAssumption
<1>2. key \in Seq(Nat) /\ Len(key) = KeyLength
      /\ (f = C3_ACCOUNT_TYPE_EVM => IsPadded(key) /\ Drop(key, KeyLength - EvmLength) = address.bytes)
      /\ (f # C3_ACCOUNT_TYPE_EVM => key = address.bytes)
  BY KeysAreBytes DEF getPublicKey
<1>3. id = [type |-> encoded, body |-> key \o sum]
  <2> DEFINE chain == findChainIdByAddress(address)
  <2>1. CHAIN_ID_TO_ACCOUNT_TYPE(chain) = f
    BY <1>1, ChainOfItsFormat
  <2>2. id = encodeAccountId(key, chain)
    BY Zenon DEF userAddressToAccountId
  <2> HIDE DEF chain, key, f, id
  <2>3. encodeAccountId(key, chain) = [type |-> encoded, body |-> key \o sum]
    BY <2>1, Zenon DEF encodeAccountId
  <2>4. QED
    BY <2>2, <2>3
<1>4. SubSeq(key \o sum, 1, KeyLength) = key /\ Drop(key \o sum, KeyLength) = sum
  <2>1. PICK c : sum = <<c>>
    BY DEF getChecksum
  <2> HIDE DEF key, sum
  <2>2. key \in Seq(Nat \cup {c}) /\ sum \in Seq(Nat \cup {c})
    BY <1>2, <2>1
  <2>3. QED
    BY <1>2, <2>2, BytesAssumption, ConcatenationComesApart
<1>5. encoded # <<>> => encoded[1] = f
  OBVIOUS
<1>6. type \in C3_ACCOUNT_TYPES
  BY <1>1 DEF C3_ACCOUNT_TYPES
<1>7. decodeAccountIdFull(id) = Parsed([publicKey |-> key, c3AccountType |-> type], <<>>)
  <2>1. id.type = encoded /\ id.body = key \o sum
    BY <1>3
  <2> HIDE DEF id, key, encoded
  <2>2. QED
    BY <1>4, <1>5, <1>6, <2>1 DEF decodeAccountIdFull
<1>8. decodeAccountIdFull(id).ok /\ accountIdToUserAddress(id) = getAddressByPublicKey(type, key)
  BY <1>7 DEF Parsed, accountIdToUserAddress
<1>9. (getAddressByPublicKey(type, key) = address) <=> ~(f = C3_ACCOUNT_TYPE_ALGORAND /\ IsPadded(address.bytes))
  <2>1. getAddressByPublicKey(type, key)
           = [format |-> type, bytes |-> IF type = C3_ACCOUNT_TYPE_EVM THEN Drop(key, KeyLength - EvmLength) ELSE key]
    BY DEF getAddressByPublicKey
  <2>2. <<>> # <<f>>
    OBVIOUS
  <2>3. CASE f = C3_ACCOUNT_TYPE_EVM
    <3>1. type = f
      BY <1>2, <2>3
    <3>2. QED
      BY <1>1, <1>2, <2>1, <2>3, <3>1 DEF C3_ACCOUNT_TYPE_ALGORAND, C3_ACCOUNT_TYPE_EVM
  <2>4. CASE f = C3_ACCOUNT_TYPE_SOLANA
    <3>1. type = f
      BY <2>2, <2>4 DEF C3_ACCOUNT_TYPE_ALGORAND, C3_ACCOUNT_TYPE_EVM, C3_ACCOUNT_TYPE_SOLANA
    <3>2. QED
      BY <1>1, <1>2, <2>1, <2>4, <3>1 DEF C3_ACCOUNT_TYPE_ALGORAND, C3_ACCOUNT_TYPE_EVM, C3_ACCOUNT_TYPE_SOLANA
  <2>5. CASE f = C3_ACCOUNT_TYPE_ALGORAND
    <3>1. key = address.bytes
      BY <1>2, <2>5 DEF C3_ACCOUNT_TYPE_ALGORAND, C3_ACCOUNT_TYPE_EVM
    <3>2. CASE IsPadded(key)
      <4>1. type # f
        BY <2>5, <3>2 DEF C3_ACCOUNT_TYPE_ALGORAND, C3_ACCOUNT_TYPE_EVM
      <4>2. getAddressByPublicKey(type, key).format = type
        BY <2>1
      <4>3. QED
        BY <2>5, <3>1, <3>2, <4>1, <4>2
    <3>3. CASE ~IsPadded(key)
      <4>1. type = f
        BY <2>5, <3>3
      <4>2. QED
        BY <1>1, <2>1, <2>5, <3>1, <3>3, <4>1 DEF C3_ACCOUNT_TYPE_ALGORAND, C3_ACCOUNT_TYPE_EVM
    <3>4. QED
      BY <3>2, <3>3
  <2>6. QED
    BY <1>1, <2>3, <2>4, <2>5 DEF C3_ACCOUNT_TYPES
<1>10. QED
  BY <1>8, <1>9

\* Whatever the addresses, an account's id names the address it was made from,
\* but for the Algorand keys that look like a padded EVM address.
THEOREM IdsNameTheirAddress == PureSpec => []AccountIdNamesItsAddress
<1>1. CallOfKind => AccountIdNamesItsAddress
  <2> SUFFICES ASSUME CallOfKind, call.op = "account"
               PROVE  AccountIdNamesItsAddress
    BY DEF AccountIdNamesItsAddress
  <2>1. PICK address \in Addresses : call = [op |-> "account", address |-> address]
    BY DEF CallOfKind, Idle
  <2>2. call.address = address
    BY <2>1
  <2>3. QED
    BY <2>2, IdOfOneAddress, Zenon DEF AccountIdNamesItsAddress
<1>2. QED
  BY <1>1, CallsOfKind, PTL

-----------------------------------------------------------------------------
(* The margin of a position in two assets.                                 *)

\* The library sums a function by choosing one element after another.
LEMMA SumOfTwo ==
    ASSUME NEW F \in [1..2 -> Int]
    PROVE  SumFunction(F) = F[1] + F[2]
<1> DEFINE Choice(s) == CHOOSE x \in s : TRUE
           Step(it) == [s \in SUBSET (1..2) |-> IF s = {} THEN 0 ELSE F[Choice(s)] + it[s \ {Choice(s)}]]
           sum == CHOOSE it : it = Step(it)
           G == [s \in SUBSET (1..2) |-> IF s = {} THEN 0 ELSE IF s = {1} THEN F[1] ELSE IF s = {2} THEN F[2] ELSE F[1] + F[2]]
<1>1. SumFunction(F) = sum[1..2]
  BY Zenon DEF SumFunction, SumFunctionOnSet, FoldFunctionOnSet, MapThenFoldSet
<1>2. Choice({1}) = 1 /\ Choice({2}) = 2 /\ Choice(1..2) \in {1, 2}
  OBVIOUS
<1>3. 1..2 = {1, 2} /\ {1} # {} /\ {2} # {} /\ {1} # {2} /\ 1..2 # {} /\ SUBSET (1..2) = {{}, {1}, {2}, 1..2} /\ {1} \ {1} = {} /\ {2} \ {2} = {} /\ (1..2) \ {1} = {2} /\ (1..2) \ {2} = {1}
  OBVIOUS
<1>4. F[1] \in Int /\ F[2] \in Int
  OBVIOUS
<1> HIDE DEF Choice
<1>5. \A s \in SUBSET (1..2) : G[s] = Step(G)[s]
  <2>1. G[{}] = 0 /\ G[{1}] = F[1] /\ G[{2}] = F[2] /\ G[1..2] = F[1] + F[2]
    BY <1>3
  <2>2. Step(G)[{}] = 0
    OBVIOUS
  <2>3. Step(G)[{1}] = F[1] + G[{}] /\ Step(G)[{2}] = F[2] + G[{}]
    <3> HIDE DEF G
    <3> QED BY <1>2, <1>3
  <2>4. Step(G)[1..2] = F[Choice(1..2)] + G[(1..2) \ {Choice(1..2)}]
    <3> HIDE DEF G
    <3> QED BY <1>3
  <2>5. Step(G)[1..2] = F[1] + F[2]
    <3>1. CASE Choice(1..2) = 1
      <4>1. Step(G)[1..2] = F[1] + G[{2}]
        BY <1>3, <2>4, <3>1
      <4>2. QED
        BY <2>1, <4>1
    <3>2. CASE Choice(1..2) = 2
      <4>1. Step(G)[1..2] = F[2] + G[{1}]
        BY <1>3, <2>4, <3>2
      <4> HIDE DEF G, Step
      <4>2. QED
        BY <1>4, <2>1, <4>1
    <3>3. QED
      BY <1>2, <3>1, <3>2
  <2> HIDE DEF G, Step
  <2>6. Step(G)[{1}] = F[1] /\ Step(G)[{2}] = F[2]
    BY <1>4, <2>1, <2>3
  <2>7. SUFFICES ASSUME NEW s \in SUBSET (1..2)
                 PROVE  G[s] = Step(G)[s]
    OBVIOUS
  <2>8. s = {} \/ s = {1} \/ s = {2} \/ s = 1..2
    BY <1>3
  <2>9. QED
    BY <2>1, <2>2, <2>5, <2>6, <2>8
<1>6. G = Step(G)
  <2>1. DOMAIN G = SUBSET (1..2) /\ DOMAIN Step(G) = SUBSET (1..2)
    OBVIOUS
  <2>2. G = [s \in SUBSET (1..2) |-> G[s]] /\ Step(G) = [s \in SUBSET (1..2) |-> Step(G)[s]]
    OBVIOUS
  <2> HIDE DEF G, Step
  <2>3. QED
    BY <1>5, <2>2
<1> HIDE DEF G
<1>7. sum = Step(sum)
  <2> HIDE DEF Step
  <2> QED BY <1>6
<1> HIDE DEF sum
<1>8. sum[{}] = 0
  BY <1>7
<1>9. sum[{1}] = F[Choice({1})] + sum[{1} \ {Choice({1})}] /\ sum[{2}] = F[Choice({2})] + sum[{2} \ {Choice({2})}]
  BY <1>3, <1>7
<1>10. sum[1..2] = F[Choice(1..2)] + sum[(1..2) \ {Choice(1..2)}]
  BY <1>3, <1>7
<1> HIDE DEF Step
<1>11. sum[1..2] = F[1] + F[2]
  <2>1. sum[{1}] = F[1] /\ sum[{2}] = F[2]
    <3>1. sum[{1}] = F[1] + sum[{1} \ {1}] /\ sum[{2}] = F[2] + sum[{2} \ {2}]
      BY <1>2, <1>9, Zenon
    <3>2. sum[{1} \ {1}] = 0 /\ sum[{2} \ {2}] = 0
      BY <1>3, <1>8, Zenon
    <3>3. QED
      BY <1>4, <3>1, <3>2
  <2>2. CASE Choice(1..2) = 1
    <3>1. sum[1..2] = F[1] + sum[{2}]
      BY <1>3, <1>10, <2>2
    <3>2. QED
      BY <2>1, <3>1
  <2>3. CASE Choice(1..2) = 2
    <3>1. sum[1..2] = F[2] + sum[{1}]
      BY <1>3, <1>10, <2>3
    <3>2. QED
      BY <1>4, <2>1, <3>1
  <2>4. QED
    BY <1>2, <2>2, <2>3
<1>12. QED
  BY <1>1, <1>11

\* What one asset adds to the excess margin.
AssetMargin(price, cash, pool, remainder, additional, optUtilization) ==
    AssetSupport(price, cash + pool, remainder) - LendCut(price, pool, remainder, optUtilization)
        - AssetRequirement(price, cash + pool, additional)

LEMMA QuotGrows ==
    ASSUME NEW a \in Nat, NEW b \in Nat, a <= b, NEW d \in Nat \ {0}
    PROVE  Quot(a, d) <= Quot(b, d)
<1> DEFINE x == Quot(a, d)
           y == Quot(b, d)
<1>1. x \in Nat /\ d * x <= a
  BY QuotOfNats
<1>2. y \in Nat /\ b < d * y + d
  BY QuotOfNats
<1> HIDE DEF x, y
<1>3. d * y + d = d * (y + 1) /\ d * x \in Nat /\ d * (y + 1) \in Nat
  BY <1>1, <1>2
<1>4. d * x < d * (y + 1)
  BY <1>1, <1>2, <1>3
<1>5. x < y + 1
  BY <1>1, <1>2, <1>4
<1>6. QED
  BY <1>1, <1>2, <1>5 DEF x, y

LEMMA Scales ==
    /\ RATIO_ONE \in Nat \ {0} /\ PRICE_RESCALE_FACTOR \in Nat \ {0}
    /\ RATIO_ONE * PRICE_RESCALE_FACTOR \in Nat \ {0}
    /\ RATIO_ONE * RATIO_ONE * PRICE_RESCALE_FACTOR \in Nat \ {0}
    /\ RATIO_ONE * RATIO_ONE * PRICE_RESCALE_FACTOR = RATIO_ONE * (RATIO_ONE * PRICE_RESCALE_FACTOR)
<1>1. RATIO_ONE \in Nat \ {0} /\ PRICE_RESCALE_FACTOR \in Nat \ {0}
  BY AmountsAssumption, RiskAssumption
<1>2. \A a, b \in Nat \ {0} : a * b \in Nat \ {0}
  OBVIOUS
<1>3. RATIO_ONE * PRICE_RESCALE_FACTOR \in Nat \ {0} /\ RATIO_ONE * RATIO_ONE \in Nat \ {0}
  BY <1>1, <1>2
<1>4. \A a, b, c \in Nat : a * b * c = a * (b * c)
  OBVIOUS
<1>5. QED
  BY <1>1, <1>2, <1>3, <1>4

\* The three quotients: what they are, and that they grow with what they are of.
LEMMA AssetParts ==
    ASSUME NEW p \in Nat, NEW r \in Nat, NEW m \in Nat, NEW u \in Nat, NEW s \in Int, NEW q \in Int
    PROVE  /\ AssetSupport(p, s, r) \in Nat /\ AssetRequirement(p, s, m) \in Nat /\ LendCut(p, q, r, u) \in Nat
           /\ s < 0 => AssetSupport(p, s, r) = 0
           /\ s >= 0 => AssetRequirement(p, s, m) = 0
           /\ q <= 0 => LendCut(p, q, r, u) = 0
           /\ \A t \in Int : s <= t => /\ AssetSupport(p, s, r) <= AssetSupport(p, t, r)
                                       /\ AssetRequirement(p, t, m) <= AssetRequirement(p, s, m)
           /\ \A t \in Int : t <= q => LendCut(p, t, r, u) <= LendCut(p, q, r, u)
<1> DEFINE D == RATIO_ONE * PRICE_RESCALE_FACTOR
           E == RATIO_ONE * RATIO_ONE * PRICE_RESCALE_FACTOR
<1>1. D \in Nat \ {0} /\ E \in Nat \ {0}
  BY Scales
<1> HIDE DEF D, E
<1>2. \A a, b \in Nat : a * b \in Nat
  OBVIOUS
<1>3. \A a, b, c \in Nat : a <= b => c * a <= c * b /\ a * c <= b * c
  OBVIOUS
<1>4. \A t \in Nat : p * t * r \in Nat /\ p * t * m \in Nat /\ p * t * r * u \in Nat
  BY <1>2
<1>5. \A s1 \in Int : AssetSupport(p, s1, r) = IF s1 < 0 THEN 0 ELSE Quot(p * s1 * r, D)
  BY DEF AssetSupport, D
<1>6. \A s1 \in Int : AssetRequirement(p, s1, m) = IF s1 < 0 THEN Quot(p * (-s1) * m, D) ELSE 0
  BY DEF AssetRequirement, D
<1>7. \A q1 \in Int : LendCut(p, q1, r, u) = IF q1 > 0 THEN Quot(p * q1 * r * u, E) ELSE 0
  BY DEF LendCut, E
<1>8. \A a \in Nat : Quot(a, D) \in Nat /\ Quot(a, E) \in Nat
  BY <1>1, QuotOfNats
<1>9. ASSUME NEW t \in Int
      PROVE  AssetSupport(p, t, r) \in Nat /\ AssetRequirement(p, t, m) \in Nat /\ LendCut(p, t, r, u) \in Nat
  <2>1. CASE t >= 0
    <3>1. t \in Nat
      BY <2>1
    <3>2. Quot(p * t * r, D) \in Nat /\ Quot(p * t * r * u, E) \in Nat
      BY <1>4, <1>8, <3>1
    <3>3. QED
      BY <1>5, <1>6, <1>7, <2>1, <3>2
  <2>2. CASE t < 0
    <3>1. -t \in Nat /\ ~(t > 0)
      BY <2>2
    <3>2. Quot(p * (-t) * m, D) \in Nat
      BY <1>4, <1>8, <3>1
    <3>3. QED
      BY <1>5, <1>6, <1>7, <2>2, <3>1, <3>2
  <2>3. QED
    BY <2>1, <2>2
<1>10. ASSUME NEW t \in Int, s <= t
       PROVE  AssetSupport(p, s, r) <= AssetSupport(p, t, r)
  <2>1. CASE s < 0
    BY <1>5, <1>9, <2>1
  <2>2. CASE s >= 0
    <3>1. s \in Nat /\ t \in Nat
      BY <1>10, <2>2
    <3>2. p * s * r <= p * t * r
      BY <1>2, <1>3, <1>10, <3>1
    <3>3. Quot(p * s * r, D) <= Quot(p * t * r, D)
      BY <1>1, <1>4, <3>1, <3>2, QuotGrows
    <3>4. QED
      BY <1>5, <1>10, <2>2, <3>3
  <2>3. QED
    BY <2>1, <2>2
<1>11. ASSUME NEW t \in Int, s <= t
       PROVE  AssetRequirement(p, t, m) <= AssetRequirement(p, s, m)
  <2>1. CASE t >= 0
    BY <1>6, <1>9, <2>1
  <2>2. CASE t < 0
    <3>1. -s \in Nat /\ -t \in Nat /\ -t <= -s /\ s < 0
      BY <1>11, <2>2
    <3>2. p * (-t) * m <= p * (-s) * m
      BY <1>2, <1>3, <3>1
    <3>3. QED
      BY <1>1, <1>4, <1>6, <2>2, <3>1, <3>2, QuotGrows
  <2>3. QED
    BY <2>1, <2>2
<1>12. ASSUME NEW t \in Int, t <= q
       PROVE  LendCut(p, t, r, u) <= LendCut(p, q, r, u)
  <2>1. CASE ~(t > 0)
    BY <1>7, <1>9, <2>1
  <2>2. CASE t > 0
    <3>1. t \in Nat /\ q \in Nat /\ q > 0
      BY <1>12, <2>2
    <3>2. p * t * r <= p * q * r
      BY <1>2, <1>3, <1>12, <3>1
    <3>3. p * t * r * u <= p * q * r * u
      BY <1>3, <1>4, <3>1, <3>2
    <3>4. Quot(p * t * r * u, E) <= Quot(p * q * r * u, E)
      BY <1>1, <1>4, <3>1, <3>3, QuotGrows
    <3>5. QED
      BY <1>7, <2>2, <3>1, <3>4
  <2>3. QED
    BY <2>1, <2>2
<1>13. /\ s < 0 => AssetSupport(p, s, r) = 0
       /\ s >= 0 => AssetRequirement(p, s, m) = 0
       /\ q <= 0 => LendCut(p, q, r, u) = 0
  BY <1>5, <1>6, <1>7
<1>14. QED
  BY <1>9, <1>10, <1>11, <1>12, <1>13

\* More cash, redeeming what is lent, and borrowing.
LEMMA AssetMoves ==
    ASSUME NEW p \in Nat, NEW r \in Nat, NEW m \in Nat, NEW u \in Nat, NEW cash \in Nat, NEW pool \in Int, NEW k \in Nat
    PROVE  /\ AssetMargin(p, cash, pool, r, m, u) \in Int
           /\ AssetMargin(p, cash, pool, r, m, u) <= AssetMargin(p, cash + k, pool, r, m, u)
           /\ AssetMargin(p, cash, pool, r, m, u) <= AssetMargin(p, cash + k, pool - k, r, m, u)
           /\ pool <= 0 => AssetMargin(p, cash, pool, r, m, u) >= AssetMargin(p, cash + k, pool - k, r, m, u)
<1> DEFINE S(s) == AssetSupport(p, s, r)
           R(s) == AssetRequirement(p, s, m)
           L(q) == LendCut(p, q, r, u)
<1>1. ASSUME NEW c \in Int, NEW q \in Int PROVE AssetMargin(p, c, q, r, m, u) = S(c + q) - L(q) - R(c + q)
  BY DEF AssetMargin
<1>2. cash + pool \in Int /\ cash + k \in Int /\ cash + k + pool \in Int /\ pool - k \in Int
      /\ cash + pool <= cash + k + pool /\ pool - k <= pool /\ (cash + k) + (pool - k) = cash + pool
      /\ (pool <= 0 => pool - k <= 0)
  OBVIOUS
<1>3. \A s \in Int : S(s) \in Nat /\ R(s) \in Nat /\ L(s) \in Nat
  BY AssetParts
<1>4. S(cash + pool) <= S(cash + k + pool) /\ R(cash + k + pool) <= R(cash + pool)
  BY <1>2, AssetParts
<1>5. L(pool - k) <= L(pool) /\ (pool <= 0 => L(pool) = 0 /\ L(pool - k) = 0)
  BY <1>2, AssetParts
<1>6. /\ AssetMargin(p, cash, pool, r, m, u) = S(cash + pool) - L(pool) - R(cash + pool)
      /\ AssetMargin(p, cash + k, pool, r, m, u) = S(cash + k + pool) - L(pool) - R(cash + k + pool)
      /\ AssetMargin(p, cash + k, pool - k, r, m, u) = S(cash + pool) - L(pool - k) - R(cash + pool)
  <2>1. AssetMargin(p, cash + k, pool - k, r, m, u) = S((cash + k) + (pool - k)) - L(pool - k) - R((cash + k) + (pool - k))
    BY <1>1, <1>2
  <2>2. AssetMargin(p, cash + k, pool - k, r, m, u) = S(cash + pool) - L(pool - k) - R(cash + pool)
    BY <1>2, <2>1, Zenon
  <2>3. AssetMargin(p, cash, pool, r, m, u) = S(cash + pool) - L(pool) - R(cash + pool)
    BY <1>1
  <2>4. AssetMargin(p, cash + k, pool, r, m, u) = S(cash + k + pool) - L(pool) - R(cash + k + pool)
    BY <1>1, <1>2, Zenon
  <2>5. QED
    BY <2>2, <2>3, <2>4
<1> HIDE DEF S, R, L
<1>7. QED
  BY <1>2, <1>3, <1>4, <1>5, <1>6

\* What one asset's part of the margin is but for truncation, times the scales.
ExactMargin(price, cash, pool, remainder, additional, optUtilization) ==
    price * (IF cash + pool < 0 THEN (cash + pool) * additional * RATIO_ONE
             ELSE remainder * ((cash + pool) * RATIO_ONE - bigintMax(0, pool) * optUtilization))

LEMMA AssetTruncated ==
    ASSUME NEW p \in Nat, NEW r \in Nat, NEW m \in Nat, NEW u \in Nat, NEW cash \in Nat, NEW pool \in Int
    PROVE  LET scale == RATIO_ONE * RATIO_ONE * PRICE_RESCALE_FACTOR
               exact == ExactMargin(p, cash, pool, r, m, u)
               off == AssetMargin(p, cash, pool, r, m, u) * scale - exact
           IN  exact \in Int /\ off \in Int /\ -scale < off /\ off < scale
<1> DEFINE D == RATIO_ONE * PRICE_RESCALE_FACTOR
           E == RATIO_ONE * RATIO_ONE * PRICE_RESCALE_FACTOR
           R == RATIO_ONE
           s == cash + pool
           margin == AssetMargin(p, cash, pool, r, m, u)
           exact == ExactMargin(p, cash, pool, r, m, u)
<1>1. D \in Nat \ {0} /\ E \in Nat \ {0} /\ R \in Nat \ {0} /\ E = R * D
  BY Scales
<1>2. \A a \in Nat : /\ Quot(a, D) \in Nat /\ D * Quot(a, D) <= a /\ a < D * Quot(a, D) + D
                     /\ Quot(a, E) \in Nat /\ E * Quot(a, E) <= a /\ a < E * Quot(a, E) + E
  BY <1>1, QuotOfNats
<1>3. \A a, b \in Nat : a * b \in Nat
  OBVIOUS
\* What R times less than a unit of D is, of a difference of less than one.
<1>4. \A e \in Int : 0 <= e /\ e < D => 0 <= R * e /\ R * e < E
  <2> SUFFICES ASSUME NEW e \in Int, 0 <= e, e < D PROVE 0 <= R * e /\ R * e < E
    OBVIOUS
  <2> HIDE DEF D, E, R
  <2>1. R * e < R * D
    BY <1>1
  <2>2. QED
    BY <1>1, <2>1
<1>5. s \in Int /\ pool <= s
  OBVIOUS
<1>6. CASE s >= 0
  <2> DEFINE lend == bigintMax(0, pool)
             S == Quot(p * s * r, D)
             L == LendCut(p, pool, r, u)
             e == p * s * r - D * S
             f == p * lend * r * u - E * L
  <2>1. lend \in Nat /\ lend = (IF pool > 0 THEN pool ELSE 0)
    BY DEF bigintMax
  <2>2. s \in Nat
    BY <1>5, <1>6
  <2>3. p * s * r \in Nat /\ p * lend * r * u \in Nat
    BY <1>3, <2>1, <2>2
  <2>4. L = IF pool > 0 THEN Quot(p * lend * r * u, E) ELSE 0
    BY <2>1 DEF LendCut
  <2>5. L \in Nat /\ f \in Int /\ 0 <= f /\ f < E
    <3>1. CASE pool > 0
      <4>1. L = Quot(p * lend * r * u, E)
        BY <2>4, <3>1
      <4> HIDE DEF E, L, lend
      <4>2. QED
        BY <1>1, <1>2, <2>3, <4>1
    <3>2. CASE ~(pool > 0)
      <4>1. L = 0 /\ lend = 0
        BY <2>1, <2>4, <3>2
      <4> HIDE DEF E, L, lend
      <4>2. p * lend * r * u = 0 /\ E * L = 0
        BY <1>1, <4>1
      <4>3. QED
        BY <1>1, <4>1, <4>2
    <3>3. QED
      BY <3>1, <3>2
  <2>6. S \in Nat /\ e \in Int /\ 0 <= e /\ e < D
    <3> HIDE DEF D
    <3>1. S \in Nat /\ D * S <= p * s * r /\ p * s * r < D * S + D /\ D * S \in Nat
      BY <1>1, <1>2, <2>3
    <3> HIDE DEF s, S
    <3>2. QED
      BY <1>1, <2>3, <3>1
  <2>7. margin = S - L
    <3>1. AssetSupport(p, s, r) = S
      BY <1>6 DEF AssetSupport
    <3>2. AssetRequirement(p, s, m) = 0
      BY <1>6 DEF AssetRequirement
    <3>3. margin = AssetSupport(p, s, r) - L - AssetRequirement(p, s, m)
      BY DEF AssetMargin
    <3> HIDE DEF margin, S, L
    <3>4. QED
      BY <2>5, <2>6, <3>1, <3>2, <3>3
  <2>8. exact = p * (r * (s * R - lend * u))
    BY <1>6 DEF ExactMargin
  <2> HIDE DEF margin, exact, lend, s, S, L, D, E, R
  <2>9. exact = R * (p * s * r) - p * lend * r * u
    <3>1. \A x, y, z, v, w \in Int : p * (r * (x * y - z * v)) = y * (p * x * r) - p * z * r * v
      OBVIOUS
    <3>2. QED
      BY <1>1, <2>1, <2>2, <2>8, <3>1
  <2>10. margin * E = R * (D * S) - E * L
    <3>1. margin * E = S * E - L * E
      BY <1>1, <2>5, <2>6, <2>7
    <3>2. S * E = R * (D * S)
      BY <1>1, <2>6
    <3>3. QED
      BY <1>1, <2>5, <3>1, <3>2
  <2>11. R * e = R * (p * s * r) - R * (D * S)
    BY <1>1, <2>3, <2>6
  <2>12. D * S \in Int /\ E * L \in Int /\ R * (D * S) \in Int /\ R * (p * s * r) \in Int
    BY <1>1, <2>3, <2>5, <2>6
  <2>13. margin * E - exact = f - R * e
    BY <2>3, <2>9, <2>10, <2>11, <2>12
  <2> HIDE DEF e, f
  <2>14. R * e \in Int /\ 0 <= R * e /\ R * e < E
    BY <1>1, <1>4, <2>6
  <2>15. exact \in Int
    BY <2>3, <2>9, <2>12
  <2>16. QED
    BY <1>1, <2>5, <2>13, <2>14, <2>15 DEF margin, exact, E
<1>7. CASE s < 0
  <2> DEFINE a == p * (-s) * m
             Q == Quot(a, D)
             e == a - D * Q
  <2>1. -s \in Nat
    BY <1>5, <1>7
  <2>2. a \in Nat
    BY <1>3, <2>1
  <2>3. margin = -Q
    <3>1. AssetSupport(p, s, r) = 0
      BY <1>7 DEF AssetSupport
    <3>2. AssetRequirement(p, s, m) = Q
      BY <1>7 DEF AssetRequirement
    <3>3. LendCut(p, pool, r, u) = 0
      BY <1>5, <1>7 DEF LendCut
    <3>4. margin = AssetSupport(p, s, r) - LendCut(p, pool, r, u) - AssetRequirement(p, s, m)
      BY DEF AssetMargin
    <3>5. Q \in Nat
      BY <1>2, <2>2
    <3> HIDE DEF margin, Q
    <3>6. QED
      BY <3>1, <3>2, <3>3, <3>4, <3>5
  <2>4. exact = p * (s * m * R)
    BY <1>7 DEF ExactMargin
  <2>5. exact = -(R * a)
    <3> HIDE DEF exact, s, R
    <3>1. \A x, y \in Int : p * (x * m * y) = -(y * (p * (-x) * m))
      OBVIOUS
    <3>2. QED
      BY <1>1, <1>5, <2>4, <3>1
  <2> HIDE DEF a
  <2>6. Q \in Nat /\ e \in Int /\ 0 <= e /\ e < D
    <3> HIDE DEF D
    <3>1. Q \in Nat /\ D * Q <= a /\ a < D * Q + D /\ D * Q \in Nat
      BY <1>1, <1>2, <2>2
    <3> HIDE DEF Q
    <3>2. QED
      BY <1>1, <2>2, <3>1
  <2> HIDE DEF margin, exact, Q, D, E, R, s
  <2>7. margin * E = -(R * (D * Q))
    BY <1>1, <2>3, <2>6
  <2>8. R * e = R * a - R * (D * Q) /\ R * a \in Int /\ R * (D * Q) \in Int
    BY <1>1, <2>2, <2>6
  <2>9. margin * E - exact = R * e
    BY <2>5, <2>7, <2>8
  <2> HIDE DEF e
  <2>10. R * e \in Int /\ 0 <= R * e /\ R * e < E
    BY <1>1, <1>4, <2>6
  <2>11. exact \in Int
    BY <2>5, <2>8
  <2>12. QED
    BY <1>1, <2>9, <2>10, <2>11 DEF margin, exact, E
<1>8. QED
  BY <1>5, <1>6, <1>7

RatiosOK(listing, initial) ==
    \A a \in 1..2 : /\ listing[a].optUtilization \in Nat
                    /\ complementToHundred(getRF(listing[a], initial).haircut) \in Nat
                    /\ excessToHundred(getRF(listing[a], initial).margin) \in Nat

\* What asset a adds to the margin.
PartOf(a, cash, pool, prices, listing, initial) ==
    AssetMargin(prices[a], cash, pool, complementToHundred(getRF(listing[a], initial).haircut),
                excessToHundred(getRF(listing[a], initial).margin), listing[a].optUtilization)

SidesOK(health) == health.support \in Int /\ health.requirement \in Int

\* The excess margin of a position in two assets is the sum of their parts.
LEMMA HealthOfTwo ==
    ASSUME NEW cash \in [1..2 -> Nat], NEW pool \in [1..2 -> Int], NEW prices \in [1..2 -> Nat], NEW listing, NEW initial \in BOOLEAN,
           RatiosOK(listing, initial)
    PROVE  /\ ExcessMargin(positionHealth(cash, pool, listing, prices, initial))
                 = PartOf(1, cash[1], pool[1], prices, listing, initial) + PartOf(2, cash[2], pool[2], prices, listing, initial)
           /\ SidesOK(positionHealth(cash, pool, listing, prices, initial))
<1> DEFINE Part(a) == AssetMargin(prices[a], cash[a], pool[a], complementToHundred(getRF(listing[a], initial).haircut),
                                  excessToHundred(getRF(listing[a], initial).margin), listing[a].optUtilization)
           r(a) == complementToHundred(getRF(listing[a], initial).haircut)
           m(a) == excessToHundred(getRF(listing[a], initial).margin)
           Support(a) == AssetSupport(prices[a], cash[a] + pool[a], r(a)) - LendCut(prices[a], pool[a], r(a), listing[a].optUtilization)
           Requirement(a) == AssetRequirement(prices[a], cash[a] + pool[a], m(a))
           F == [a \in 1..2 |-> Support(a)]
           G == [a \in 1..2 |-> Requirement(a)]
           visited == DOMAIN cash \cup DOMAIN pool
           Fs == [a \in visited |->
                     AssetSupport(prices[a], getAmountOrZero(cash, a) + getAmountOrZero(pool, a), r(a))
                        - LendCut(prices[a], getAmountOrZero(pool, a), r(a), listing[a].optUtilization)]
           Gs == [a \in visited |-> AssetRequirement(prices[a], getAmountOrZero(cash, a) + getAmountOrZero(pool, a), m(a))]
           health == positionHealth(cash, pool, listing, prices, initial)
<1>1. visited = 1..2 /\ \A a \in 1..2 : getAmountOrZero(cash, a) = cash[a] /\ getAmountOrZero(pool, a) = pool[a]
  BY DEF getAmountOrZero
<1>2. Fs = F /\ Gs = G
  BY <1>1
<1>3. health.support = SumFunction(Fs) /\ health.requirement = SumFunction(Gs)
  BY Zenon DEF positionHealth
<1>4. \A a \in 1..2 : cash[a] + pool[a] \in Int /\ pool[a] \in Int /\ prices[a] \in Nat
  OBVIOUS
<1>5. ASSUME NEW a \in 1..2
      PROVE  /\ AssetSupport(prices[a], cash[a] + pool[a], r(a)) \in Nat /\ Requirement(a) \in Nat
             /\ LendCut(prices[a], pool[a], r(a), listing[a].optUtilization) \in Nat
  <2>1. r(a) \in Nat /\ m(a) \in Nat /\ listing[a].optUtilization \in Nat
    BY DEF RatiosOK
  <2> HIDE DEF r, m
  <2>2. QED
    BY <1>4, <2>1, AssetParts
<1>6. \A a \in 1..2 : Support(a) \in Int /\ Requirement(a) \in Int /\ Part(a) = Support(a) - Requirement(a)
  BY <1>5 DEF AssetMargin
<1> HIDE DEF Support, Requirement, Part, r, m
<1>7. F \in [1..2 -> Int] /\ G \in [1..2 -> Int] /\ F[1] = Support(1) /\ F[2] = Support(2)
      /\ G[1] = Requirement(1) /\ G[2] = Requirement(2)
  BY <1>6
<1> HIDE DEF F, G, Fs, Gs, health
<1>8. health.support = F[1] + F[2] /\ health.requirement = G[1] + G[2]
  BY <1>2, <1>3, <1>7, SumOfTwo
<1>9. 1 \in 1..2 /\ 2 \in 1..2
  OBVIOUS
<1>10. ExcessMargin(health) = Part(1) + Part(2)
  BY <1>6, <1>7, <1>8, <1>9 DEF ExcessMargin
<1>11. health.support \in Int /\ health.requirement \in Int
  BY <1>6, <1>7, <1>8, <1>9
<1>12. QED
  BY <1>10, <1>11 DEF health, Part, PartOf, SidesOK

LEMMA RatiosOfListing ==
    ASSUME NEW listing \in Listings, NEW a \in 1..2
    PROVE  /\ listing[a].optUtilization \in Nat
           /\ \A factors \in {listing[a].initial, listing[a].maintenance} :
                 complementToHundred(factors.haircut) \in Nat /\ excessToHundred(factors.margin) \in Nat
<1>1. listing[a].optUtilization \in Nat
      /\ \A factors \in {listing[a].initial, listing[a].maintenance} : factors.haircut \in 0..RATIO_ONE /\ factors.margin \in Nat
  BY PureCallsAssumption, Zenon
<1>2. RATIO_ONE \in Nat
  BY AmountsAssumption
<1>3. QED
  BY <1>1, <1>2 DEF complementToHundred, excessToHundred

LEMMA HealthOfOnePosition ==
    ASSUME NEW cash \in Cashes, NEW pool \in Pools, NEW prices \in UsdPrices, NEW limit \in Limits, NEW isBuy \in BOOLEAN,
           NEW listing \in Listings,
           call = [op |-> "trade", cash |-> cash, pool |-> pool, prices |-> prices, limit |-> limit, isBuy |-> isBuy,
                   instruments |-> listing]
    PROVE  HealthFollowsPosition
<1> DEFINE Margin(c, q) == ExcessMargin(positionHealth(c, q, listing, prices, FALSE))
           Part(a, c, q) == AssetMargin(prices[a], c, q, complementToHundred(listing[a].maintenance.haircut),
                                        excessToHundred(listing[a].maintenance.margin), listing[a].optUtilization)
           Exact(a) == ExactMargin(prices[a], cash[a], pool[a], complementToHundred(listing[a].maintenance.haircut),
                                   excessToHundred(listing[a].maintenance.margin), listing[a].optUtilization)
           scale == RATIO_ONE * RATIO_ONE * PRICE_RESCALE_FACTOR
<1>1. cash \in [1..2 -> Nat] /\ pool \in [1..2 -> Int] /\ prices \in [1..2 -> Nat]
  BY PureCallsAssumption
<1>2. \A a \in 1..2 : /\ listing[a].optUtilization \in Nat
                      /\ complementToHundred(listing[a].maintenance.haircut) \in Nat
                      /\ excessToHundred(listing[a].maintenance.margin) \in Nat
  BY RatiosOfListing
<1>3. ASSUME NEW c \in [1..2 -> Nat], NEW q \in [1..2 -> Int]
      PROVE  Margin(c, q) = Part(1, c[1], q[1]) + Part(2, c[2], q[2])
  <2>1. \A a \in 1..2 : getRF(listing[a], FALSE) = listing[a].maintenance
    BY DEF getRF
  <2>2. RatiosOK(listing, FALSE)
    BY <1>2, <2>1 DEF RatiosOK
  <2>3. Margin(c, q) = PartOf(1, c[1], q[1], prices, listing, FALSE) + PartOf(2, c[2], q[2], prices, listing, FALSE)
    BY <1>1, <2>2, HealthOfTwo
  <2>4. 1 \in 1..2 /\ 2 \in 1..2
    OBVIOUS
  <2>5. PartOf(1, c[1], q[1], prices, listing, FALSE) = Part(1, c[1], q[1])
        /\ PartOf(2, c[2], q[2], prices, listing, FALSE) = Part(2, c[2], q[2])
    BY <2>1, <2>4 DEF PartOf
  <2>6. QED
    BY <2>3, <2>5
<1>4. 1 \in 1..2 /\ 2 \in 1..2 /\ cash[1] \in Nat /\ cash[2] \in Nat /\ pool[1] \in Int /\ pool[2] \in Int
  BY <1>1
<1>5. ASSUME NEW a \in 1..2, NEW k \in Nat
      PROVE  /\ Part(a, cash[a], pool[a]) \in Int /\ Part(a, cash[a] + k, pool[a]) \in Int
             /\ Part(a, cash[a] + k, pool[a] - k) \in Int
             /\ Part(a, cash[a], pool[a]) <= Part(a, cash[a] + k, pool[a])
             /\ Part(a, cash[a], pool[a]) <= Part(a, cash[a] + k, pool[a] - k)
             /\ pool[a] <= 0 => Part(a, cash[a], pool[a]) = Part(a, cash[a] + k, pool[a] - k)
  <2> DEFINE p == prices[a]
             r == complementToHundred(listing[a].maintenance.haircut)
             m == excessToHundred(listing[a].maintenance.margin)
             u == listing[a].optUtilization
             c == cash[a]
             q == pool[a]
  <2>1. p \in Nat /\ r \in Nat /\ m \in Nat /\ u \in Nat /\ c \in Nat /\ q \in Int /\ c + k \in Nat /\ q - k \in Int /\ 0 \in Nat
    BY <1>1, <1>2
  <2> HIDE DEF p, r, m, u, c, q
  <2>2. AssetMargin(p, c + k, q, r, m, u) \in Int /\ AssetMargin(p, c + k, q - k, r, m, u) \in Int
    BY <2>1, AssetMoves
  <2>3. AssetMargin(p, c, q, r, m, u) \in Int
    BY <2>1, AssetMoves
  <2>4. AssetMargin(p, c, q, r, m, u) <= AssetMargin(p, c + k, q, r, m, u)
    BY <2>1, AssetMoves
  <2>5. AssetMargin(p, c, q, r, m, u) <= AssetMargin(p, c + k, q - k, r, m, u)
    BY <2>1, AssetMoves
  <2>6. q <= 0 => AssetMargin(p, c, q, r, m, u) >= AssetMargin(p, c + k, q - k, r, m, u)
    BY <2>1, AssetMoves
  <2>7. q <= 0 => AssetMargin(p, c, q, r, m, u) = AssetMargin(p, c + k, q - k, r, m, u)
    BY <2>2, <2>3, <2>5, <2>6
  <2>8. QED
    BY <2>2, <2>3, <2>4, <2>5, <2>7 DEF p, r, m, u, c, q
<1>6. ASSUME NEW a \in 1..2
      PROVE  LET off == Part(a, cash[a], pool[a]) * scale - Exact(a)
             IN  Exact(a) \in Int /\ off \in Int /\ -scale < off /\ off < scale
  <2>1. prices[a] \in Nat /\ cash[a] \in Nat /\ pool[a] \in Int
    BY <1>1
  <2>2. QED
    BY <1>2, <2>1, AssetTruncated, Zenon
<1> HIDE DEF Part
<1>7. Margin(cash, pool) = Part(1, cash[1], pool[1]) + Part(2, cash[2], pool[2])
  BY <1>1, <1>3
<1>8. ASSUME NEW k \in {1, 7}
      PROVE  /\ Margin(cash, pool) <= Margin(<<cash[1] + k, cash[2]>>, pool)
             /\ pool[1] >= k => Margin(cash, pool) <= Margin(<<cash[1] + k, cash[2]>>, <<pool[1] - k, pool[2]>>)
             /\ pool[2] <= 0 => Margin(cash, pool) = Margin(<<cash[1], cash[2] + k>>, <<pool[1], pool[2] - k>>)
  <2>1. k \in Nat /\ cash[1] + k \in Nat /\ cash[2] + k \in Nat /\ pool[1] - k \in Int /\ pool[2] - k \in Int
    BY <1>4
  <2>2. /\ <<cash[1] + k, cash[2]>> \in [1..2 -> Nat] /\ <<cash[1], cash[2] + k>> \in [1..2 -> Nat]
        /\ <<pool[1] - k, pool[2]>> \in [1..2 -> Int] /\ <<pool[1], pool[2] - k>> \in [1..2 -> Int]
    BY <1>4, <2>1
  <2> HIDE DEF Margin
  <2>3. Margin(<<cash[1] + k, cash[2]>>, pool) = Part(1, cash[1] + k, pool[1]) + Part(2, cash[2], pool[2])
    BY <1>1, <1>3, <2>2
  <2>4. Margin(<<cash[1] + k, cash[2]>>, <<pool[1] - k, pool[2]>>) = Part(1, cash[1] + k, pool[1] - k) + Part(2, cash[2], pool[2])
    BY <1>3, <2>2
  <2>5. Margin(<<cash[1], cash[2] + k>>, <<pool[1], pool[2] - k>>) = Part(1, cash[1], pool[1]) + Part(2, cash[2] + k, pool[2] - k)
    BY <1>3, <2>2
  <2>6. QED
    BY <1>4, <1>5, <1>7, <2>1, <2>3, <2>4, <2>5
<1>9. bigintAbs(Margin(cash, pool) * RATIO_ONE * RATIO_ONE * PRICE_RESCALE_FACTOR - (Exact(1) + Exact(2)))
         < 2 * RATIO_ONE * RATIO_ONE * PRICE_RESCALE_FACTOR
  <2> DEFINE x == Part(1, cash[1], pool[1])
             y == Part(2, cash[2], pool[2])
  <2>1. x \in Int /\ y \in Int
    BY <1>4, <1>5
  <2>2. scale \in Nat \ {0} /\ RATIO_ONE \in Nat /\ PRICE_RESCALE_FACTOR \in Nat
    BY Scales
  <2>3. /\ Exact(1) \in Int /\ x * scale - Exact(1) \in Int /\ -scale < x * scale - Exact(1) /\ x * scale - Exact(1) < scale
        /\ Exact(2) \in Int /\ y * scale - Exact(2) \in Int /\ -scale < y * scale - Exact(2) /\ y * scale - Exact(2) < scale
    BY <1>4, <1>6
  <2>4. Margin(cash, pool) * RATIO_ONE * RATIO_ONE * PRICE_RESCALE_FACTOR = x * scale + y * scale
    <3> HIDE DEF x, y, Margin
    <3>1. \A a, b, c, d \in Int : (a + b) * c * c * d = a * (c * c * d) + b * (c * c * d)
      OBVIOUS
    <3>2. (x + y) * RATIO_ONE * RATIO_ONE * PRICE_RESCALE_FACTOR = x * scale + y * scale
      BY <2>1, <2>2, <3>1
    <3>3. Margin(cash, pool) = x + y
      BY <1>7 DEF x, y
    <3>4. QED
      BY <3>2, <3>3
  <2>5. 2 * RATIO_ONE * RATIO_ONE * PRICE_RESCALE_FACTOR = 2 * scale
    BY <2>2
  <2> DEFINE d == (x * scale + y * scale) - (Exact(1) + Exact(2))
  <2> HIDE DEF x, y, scale, Exact, Margin
  <2>6. d \in Int /\ -(2 * scale) < d /\ d < 2 * scale
    BY <2>1, <2>2, <2>3
  <2> HIDE DEF d
  <2>7. bigintAbs(d) < 2 * scale
    BY <2>2, <2>6 DEF bigintAbs
  <2>8. QED
    BY <2>4, <2>5, <2>7 DEF d
<1>10. QED
  <2>1. call.cash = cash /\ call.pool = pool /\ call.prices = prices /\ call.instruments = listing
    OBVIOUS
  <2>2. \A a \in 1..2 : Exact(a) =
           prices[a] * (IF cash[a] + pool[a] < 0
                        THEN (cash[a] + pool[a]) * excessToHundred(listing[a].maintenance.margin) * RATIO_ONE
                        ELSE complementToHundred(listing[a].maintenance.haircut)
                                * ((cash[a] + pool[a]) * RATIO_ONE - bigintMax(0, pool[a]) * listing[a].optUtilization))
    BY DEF ExactMargin
  <2> HIDE DEF Exact
  <2>3. QED
    BY <1>4, <1>8, <1>9, <2>1, <2>2, Zenon DEF HealthFollowsPosition

\* Whatever the position, the prices and the ratios, the margin follows what is moved.
THEOREM MarginFollowsPosition == PureSpec => []HealthFollowsPosition
<1>1. CallOfKind => HealthFollowsPosition
  <2> SUFFICES ASSUME CallOfKind, call.op = "trade"
               PROVE  HealthFollowsPosition
    BY DEF HealthFollowsPosition
  <2>1. PICK cash \in Cashes, pool \in Pools, prices \in UsdPrices, limit \in Limits, isBuy \in BOOLEAN, listing \in Listings :
           call = [op |-> "trade", cash |-> cash, pool |-> pool, prices |-> prices, limit |-> limit, isBuy |-> isBuy,
                   instruments |-> listing]
    BY DEF CallOfKind, Idle
  <2>2. QED
    BY <2>1, HealthOfOnePosition
<1>2. QED
  BY <1>1, CallsOfKind, PTL

-----------------------------------------------------------------------------
(* What is available for trade.                                            *)

\* What is gained by selling W and f more for y of the other asset, and what is due.
LEMMA CoverArithmetic ==
    ASSUME NEW R \in Nat \ {0}, NEW S \in Nat \ {0}, NEW p1 \in Nat, NEW p2 \in Nat,
           NEW h \in 0..R, NEW hb \in 0..R, NEW ms \in Nat, NEW W \in Nat, NEW f \in Nat, NEW y \in Nat, NEW v \in Nat,
           NEW s1 \in Nat, NEW cut1 \in Nat, NEW s2 \in Nat, NEW cut2 \in Nat, NEW after2 \in Nat, NEW req \in Nat, NEW g \in Nat,
           NEW M \in Int, M = S * (s1 - cut1 + s2 - cut2),
           (R * S) * s1 <= p1 * W * (R - h),
           R * g < (R * S) * cut1 + R * S,
           (R * S) * s2 <= v,
           v + p2 * y * (R - hb) < (R * S) * after2 + R * S,
           (f + W) * p1 < p2 * y + p2,
           p1 * (f * (hb + ms)) <= R * (M + g) + p1 * ((h - hb) * W),
           (R * S) * req <= p1 * f * (R + ms)
    PROVE  S * (after2 - cut2 - req) + p2 + 2 * S > 0
<1> DEFINE D == R * S
           H == R - h
           B == R - hb
           w == hb + ms
           X1 == p1 * W * H
           X2 == p1 * W * B
           X3 == p1 * f * B
           X4 == p1 * (f * w)
           X5 == p2 * y * B
           X6 == p2 * B
<1>1. H \in Nat /\ B \in Nat /\ w \in Nat /\ R + ms = B + w /\ h - hb = B - H /\ R \in Nat /\ S \in Nat /\ B <= R
  OBVIOUS
<1>2. D \in Nat
  BY <1>1
<1>3. D * s1 <= X1 /\ R * g < D * cut1 + D /\ D * s2 <= v /\ v + X5 < D * after2 + D
  OBVIOUS
<1>4. X4 <= R * (M + g) + p1 * ((h - hb) * W) /\ D * req <= p1 * f * (R + ms)
  OBVIOUS
<1>5. D * (after2 - cut2 - req) + R * p2 + (D + D) = R * (S * (after2 - cut2 - req) + p2 + 2 * S)
  <2>1. \A a, b \in Nat, d, e \in Int : (a * b) * d + a * e + (a * b + a * b) = a * (b * d + e + 2 * b)
    OBVIOUS
  <2>2. after2 - cut2 - req \in Int /\ p2 \in Int
    OBVIOUS
  <2>3. QED
    BY <1>1, <2>1, <2>2
<1>6. p1 * f * (R + ms) = X4 + X3
  <2> HIDE DEF B, w
  <2>1. \A a, b, c, d \in Nat : a * b * (c + d) = a * (b * d) + a * b * c
    OBVIOUS
  <2>2. QED
    BY <1>1, <2>1
<1>7. p1 * ((h - hb) * W) = X2 - X1
  <2> HIDE DEF B, H
  <2>1. \A a, b, c, d \in Nat : a * ((c - d) * b) = a * b * c - a * b * d
    OBVIOUS
  <2>2. QED
    BY <1>1, <2>1
<1>8. R * (M + g) = D * s1 - D * cut1 + D * s2 - D * cut2 + R * g
  <2>1. \A a, b, c, d, e, k, l \in Nat : a * (b * (c - d + e - k) + l) = (a * b) * c - (a * b) * d + (a * b) * e - (a * b) * k + a * l
    OBVIOUS
  <2>2. QED
    BY <1>1, <2>1
<1>9. X3 + X2 <= X5 + X6
  <2> HIDE DEF B
  <2>1. p1 * f + p1 * W <= p2 * y + p2
    BY <1>1
  <2>2. \A a, b, c \in Nat : a <= b => a * c <= b * c
    OBVIOUS
  <2>3. p1 * f + p1 * W \in Nat /\ p2 * y + p2 \in Nat
    OBVIOUS
  <2>4. (p1 * f + p1 * W) * B <= (p2 * y + p2) * B
    BY <1>1, <2>1, <2>2, <2>3
  <2>5. \A a, b, c, d, e \in Nat : (a * b + c * d) * e = a * b * e + c * d * e
    OBVIOUS
  <2>6. \A a, b, e \in Nat : (a * b + a) * e = a * b * e + a * e
    OBVIOUS
  <2>7. QED
    BY <1>1, <2>4, <2>5, <2>6
<1>10. X6 <= R * p2
  <2> HIDE DEF B
  <2>1. \A a, b, c \in Nat : a <= b => c * a <= b * c
    OBVIOUS
  <2>2. QED
    BY <1>1, <2>1
<1>11. X1 \in Int /\ X2 \in Int /\ X3 \in Int /\ X4 \in Int /\ X5 \in Int /\ X6 \in Int /\ R * p2 \in Int
       /\ D * s1 \in Int /\ D * cut1 \in Int /\ D * s2 \in Int /\ D * cut2 \in Int /\ D * after2 \in Int /\ D * req \in Int /\ R * g \in Int
  <2>1. \A a, b \in Nat : a * b \in Nat
    OBVIOUS
  <2> HIDE DEF B, H, D, w
  <2>2. QED
    BY <1>1, <1>2, <2>1
<1>12. D * (after2 - cut2 - req) = D * after2 - D * cut2 - D * req
  <2> HIDE DEF D
  <2>1. \A a, b, c, d \in Nat : a * (b - c - d) = a * b - a * c - a * d
    OBVIOUS
  <2>2. QED
    BY <1>2, <2>1
<1>13. D * (after2 - cut2 - req) + R * p2 + (D + D) > 0
  <2> HIDE DEF X1, X2, X3, X4, X5, X6, D, H, B, w
  <2> DEFINE t1 == D * s1
             t2 == D * cut1
             t3 == D * s2
             t4 == D * cut2
             t5 == D * after2
             t6 == D * req
             t7 == R * g
             t8 == R * p2
             t9 == p1 * ((h - hb) * W)
             t10 == p1 * f * (R + ms)
             t11 == R * (M + g)
             t12 == D * (after2 - cut2 - req)
  <2>1. /\ t1 <= X1 /\ t7 < t2 + D /\ t3 <= v /\ v + X5 < t5 + D /\ X4 <= t11 + t9 /\ t6 <= t10 /\ t10 = X4 + X3
        /\ t9 = X2 - X1 /\ t11 = t1 - t2 + t3 - t4 + t7 /\ X3 + X2 <= X5 + X6 /\ X6 <= t8 /\ t12 = t5 - t4 - t6
    BY <1>3, <1>4, <1>6, <1>7, <1>8, <1>9, <1>10, <1>12
  <2>2. /\ X1 \in Int /\ X2 \in Int /\ X3 \in Int /\ X4 \in Int /\ X5 \in Int /\ X6 \in Int /\ t8 \in Int
        /\ t1 \in Int /\ t2 \in Int /\ t3 \in Int /\ t4 \in Int /\ t5 \in Int /\ t6 \in Int /\ t7 \in Int /\ v \in Int /\ D \in Int
    BY <1>2, <1>11
  <2> HIDE DEF t1, t2, t3, t4, t5, t6, t7, t8, t9, t10, t11, t12
  <2>3. t12 + t8 + (D + D) > 0
    BY <2>1, <2>2
  <2>4. QED
    BY <2>3 DEF t12, t8
<1>14. R * (S * (after2 - cut2 - req) + p2 + 2 * S) > 0
  BY <1>5, <1>13
<1>15. \A a \in Nat, b \in Int : a * b > 0 => b > 0
  OBVIOUS
<1>16. S * (after2 - cut2 - req) + p2 + 2 * S \in Int
  BY <1>1
<1>17. QED
  BY <1>1, <1>14, <1>15, <1>16

\* A quotient has the sign of what is divided.
LEMMA QuotHasSign ==
    ASSUME NEW a \in Int, NEW b \in Nat \ {0}
    PROVE  Quot(a, b) \in Int /\ (a >= 0 => Quot(a, b) \in Nat) /\ (a <= 0 => Quot(a, b) <= 0) /\ Quot(0, b) = 0
<1>1. \A x \in Nat : x \div b \in Nat /\ 0 \div b = 0
  OBVIOUS
<1>2. CASE a >= 0
  <2>1. a \in Nat /\ 0 \in Nat
    BY <1>2
  <2>2. Quot(a, b) = a \div b /\ Quot(0, b) = 0 \div b
    BY <2>1, QuotOfNats
  <2>3. a <= 0 => a = 0
    BY <2>1
  <2>4. QED
    BY <1>1, <2>1, <2>2, <2>3
<1>3. CASE a < 0
  <2>1. (a < 0) = TRUE /\ (b < 0) = FALSE /\ -a \in Nat /\ bigintAbs(a) = -a /\ bigintAbs(b) = b /\ 0 \in Nat
    BY <1>3 DEF bigintAbs
  <2>2. Quot(a, b) = -((-a) \div b) /\ Quot(0, b) = 0 \div b
    BY <2>1, QuotOfNats DEF Quot
  <2>3. QED
    BY <1>1, <1>3, <2>1, <2>2
<1>4. QED
  BY <1>2, <1>3

\* What an asset's part of the margin is without a debt: its support less what is
\* held back, and that is less than the support.
PartIsSupport(p, r, m, u, cash, pool) ==
    /\ AssetMargin(p, cash, pool, r, m, u) = Quot(p * (cash + pool) * r, RATIO_ONE * PRICE_RESCALE_FACTOR) - LendCut(p, pool, r, u)
    /\ AssetMargin(p, cash, pool, r, m, u) \in Nat
    /\ LendCut(p, pool, r, u) \in Nat
    /\ p * pool * r * u < RATIO_ONE * RATIO_ONE * PRICE_RESCALE_FACTOR * LendCut(p, pool, r, u)
                             + RATIO_ONE * RATIO_ONE * PRICE_RESCALE_FACTOR

LEMMA NoDebtPart ==
    ASSUME NEW p \in Nat, NEW r \in Nat, NEW m \in Nat, NEW u \in Nat, u <= RATIO_ONE, NEW cash \in Nat, NEW pool \in Nat
    PROVE  PartIsSupport(p, r, m, u, cash, pool)
<1> DEFINE D == RATIO_ONE * PRICE_RESCALE_FACTOR
           E == RATIO_ONE * RATIO_ONE * PRICE_RESCALE_FACTOR
           R == RATIO_ONE
           held == LendCut(p, pool, r, u)
           support == Quot(p * (cash + pool) * r, D)
<1>1. D \in Nat \ {0} /\ E \in Nat \ {0} /\ E = R * D /\ R \in Nat \ {0}
  BY Scales
<1>2. cash + pool \in Nat /\ ~(cash + pool < 0) /\ cash + pool \in Int
  OBVIOUS
<1>3. AssetMargin(p, cash, pool, r, m, u) = support - held
  <2>1. AssetSupport(p, cash + pool, r) = support /\ AssetRequirement(p, cash + pool, m) = 0
    BY <1>2 DEF AssetSupport, AssetRequirement
  <2>2. support \in Nat /\ held \in Nat
    <3>1. \A s, q \in Int : AssetSupport(p, s, r) \in Nat /\ LendCut(p, q, r, u) \in Nat
      BY AssetParts
    <3>2. pool \in Int
      OBVIOUS
    <3>3. QED
      BY <1>2, <2>1, <3>1, <3>2
  <2> HIDE DEF support, held
  <2>3. support - held - 0 = support - held
    BY <2>1, <2>2
  <2>4. QED
    BY <2>1, <2>3 DEF AssetMargin, held
<1>4. \A a, b \in Nat : a * b \in Nat
  OBVIOUS
<1>5. p * (cash + pool) * r \in Nat /\ p * pool * r \in Nat /\ p * pool * r * u \in Nat
  BY <1>2, <1>4
<1>6. held = Quot(p * pool * r * u, E)
  <2>1. CASE pool > 0
    BY <2>1 DEF LendCut
  <2>2. CASE pool = 0
    <3>1. p * pool * r * u = 0
      <4>1. p * pool = 0
        BY <2>2
      <4>2. p * pool * r = 0
        BY <4>1
      <4>3. QED
        BY <4>2
    <3>2. Quot(0, E) = 0
      BY <1>1, QuotHasSign
    <3>3. held = 0
      BY <2>2 DEF LendCut
    <3>4. QED
      BY <3>1, <3>2, <3>3
  <2>3. QED
    BY <2>1, <2>2
<1>7. held \in Nat /\ E * held <= p * pool * r * u /\ p * pool * r * u < E * held + E
  <2> HIDE DEF held, E
  <2>1. QED
    BY <1>1, <1>5, <1>6, QuotOfNats
<1>8. support \in Nat /\ p * (cash + pool) * r < D * support + D
  <2> HIDE DEF D
  <2>1. QED
    BY <1>1, <1>5, QuotOfNats
<1>9. held <= support
  <2> DEFINE a == p * pool * r
             b == p * (cash + pool) * r
  <2>1. a <= b
    <3>1. \A x, y \in Nat : p * x * r <= p * (y + x) * r
      <4>1. \A x, y \in Nat : p * (y + x) * r = p * y * r + p * x * r /\ p * y * r \in Nat
        BY <1>4
      <4>2. QED
        BY <1>4, <4>1
    <3>2. QED
      BY <3>1
  <2>2. a \in Nat /\ b \in Nat
    BY <1>5
  <2> HIDE DEF a, b, D, E, held, support
  <2>3. a * u <= R * b
    <3>1. a * u <= a * R /\ a * R <= b * R /\ b * R = R * b
      BY <1>1, <2>1, <2>2
    <3>2. QED
      BY <1>1, <2>2, <3>1
  <2>4. E * held <= a * u
    BY <1>7 DEF a
  <2>5. E * held = R * (D * held)
    BY <1>1, <1>7
  <2>6. R * (D * held) <= R * b
    BY <1>1, <1>7, <2>2, <2>3, <2>4, <2>5
  <2>7. D * held <= b
    <3>1. \A x, y \in Int : R * x <= R * y => x <= y
      BY <1>1
    <3>2. D * held \in Int
      BY <1>1, <1>7
    <3>3. QED
      BY <2>2, <2>6, <3>1, <3>2
  <2>8. D * held < D * (support + 1)
    BY <1>1, <1>7, <1>8, <2>2, <2>7 DEF b
  <2>9. \A x, y \in Int : D * x < D * y => x < y
    BY <1>1
  <2>10. QED
    BY <1>7, <1>8, <2>8, <2>9
<1>10. QED
  <2>1. support - held \in Nat
    BY <1>7, <1>8, <1>9
  <2>2. QED
    BY <1>3, <1>7, <2>1 DEF PartIsSupport

\* Times the rescaling factor, as the caller of the trade sees it.
MarginIsOfParts(cash, pool, prices, listing) ==
    ExcessMargin(marginWithoutOrders(cash, pool, listing, prices, TRUE))
       = PRICE_RESCALE_FACTOR * (PartOf(1, cash[1], pool[1], prices, listing, TRUE) + PartOf(2, cash[2], pool[2], prices, listing, TRUE))

LEMMA MarginOfTwo ==
    ASSUME NEW cash \in [1..2 -> Nat], NEW pool \in [1..2 -> Int], NEW prices \in [1..2 -> Nat], NEW listing, RatiosOK(listing, TRUE)
    PROVE  MarginIsOfParts(cash, pool, prices, listing)
<1> DEFINE health == positionHealth(cash, pool, listing, prices, TRUE)
           margin == marginWithoutOrders(cash, pool, listing, prices, TRUE)
           parts == PartOf(1, cash[1], pool[1], prices, listing, TRUE) + PartOf(2, cash[2], pool[2], prices, listing, TRUE)
<1>1. ExcessMargin(health) = parts /\ SidesOK(health)
  BY HealthOfTwo
<1>2. health = [support |-> health.support, requirement |-> health.requirement, unoffsetLiabilities |-> health.unoffsetLiabilities,
                isInitialMargin |-> health.isInitialMargin, prices |-> health.prices]
  BY DEF positionHealth
<1>3. margin = [health EXCEPT !.support = @ * PRICE_RESCALE_FACTOR, !.requirement = @ * PRICE_RESCALE_FACTOR]
  BY DEF marginWithoutOrders
<1> HIDE DEF health, margin, parts
<1>4. margin.support = health.support * PRICE_RESCALE_FACTOR /\ margin.requirement = health.requirement * PRICE_RESCALE_FACTOR
  BY <1>2, <1>3
<1>5. PRICE_RESCALE_FACTOR \in Nat
  BY Scales
<1>6. \A a, b, c \in Int : a * c - b * c = c * (a - b)
  OBVIOUS
<1>7. ExcessMargin(margin) = PRICE_RESCALE_FACTOR * ExcessMargin(health)
  BY <1>1, <1>4, <1>5, <1>6 DEF ExcessMargin, SidesOK
<1>8. QED
  BY <1>1, <1>7 DEF margin, parts, MarginIsOfParts

\* What may be borrowed of the sold asset, or must be left, when the margin is M.
FirstShortfall(s, b, optUtilization, price, M, withLend, lend) ==
    Quot(Quot(M + Quot(Quot(price * complementToHundred(s.haircut) * optUtilization, RATIO_ONE) * lend, RATIO_ONE), price) * RATIO_ONE
            + (s.haircut - b.haircut) * withLend,
         b.haircut + s.margin)

RiskFactorsOK(factors) == factors.haircut \in 0..RATIO_ONE /\ factors.margin \in Nat

SoldIs(sell, buy, margin, cash, pool, price, c, l) ==
    LET f == FirstShortfall(sell.initial, buy.initial, sell.optUtilization, price, ExcessMargin(margin), c + l, l)
    IN  f \in Int /\ availableForTrade(sell, buy, margin, cash, pool) = bigintMax(0, f + (c + l))

\* What is available without debts: nothing is offset.
LEMMA SoldWithoutDebts ==
    ASSUME NEW sell, NEW buy, NEW margin, NEW cash, NEW pool, NEW c \in Nat, NEW l \in Nat, NEW price \in Nat \ {0}, NEW buyPrice \in Nat \ {0},
           getAmountOrZero(cash, sell.asset) = c, getAmountOrZero(pool, sell.asset) = l,
           getAmountOrZero(margin.unoffsetLiabilities, buy.asset) = 0,
           margin.prices[sell.asset] = price, margin.prices[buy.asset] = buyPrice, ExcessMargin(margin) \in Int,
           RiskFactorsOK(sell.initial), RiskFactorsOK(buy.initial), sell.optUtilization \in Nat,
           buy.initial.haircut + sell.initial.margin > 0
    PROVE  SoldIs(sell, buy, margin, cash, pool, price, c, l)
<1> DEFINE R == RATIO_ONE
           s == sell.initial
           b == buy.initial
           w == b.haircut + s.margin
           M == ExcessMargin(margin)
           W == c + l
           K == Quot(price * complementToHundred(s.haircut) * sell.optUtilization, R)
           Lc == M + Quot(K * l, R)
           f == Quot(Quot(Lc, price) * R + (s.haircut - b.haircut) * W, w)
           details == getInstrumentMarginDetails(sell.asset, margin, cash, pool)
           offset == bigintMin(Quot((f + W) * price, buyPrice), 0)
           adjustment == offsetAdjustment(b, buyPrice, offset)
           more == Quot(adjustment * R, buyPrice * w)
<1>1. R \in Nat \ {0} /\ w \in Nat \ {0} /\ s.haircut \in 0..R /\ b.haircut \in 0..R /\ b.margin \in Nat /\ s.margin \in Nat
      /\ sell.optUtilization \in Nat /\ complementToHundred(s.haircut) \in Nat /\ M \in Int /\ W \in Nat
  BY Scales DEF RiskFactorsOK, complementToHundred
<1>2. f \in Int
  <2> HIDE DEF R, s, b, w, M, W
  <2>1. \A x, y \in Nat : x * y \in Nat
    OBVIOUS
  <2>2. price * complementToHundred(s.haircut) * sell.optUtilization \in Nat
    BY <1>1, <2>1
  <2>3. K \in Nat
    BY <1>1, <2>2, QuotOfNats
  <2> HIDE DEF K
  <2>4. Quot(K * l, R) \in Nat
    BY <1>1, <2>1, <2>3, QuotOfNats
  <2>5. Lc \in Int
    BY <1>1, <2>4
  <2> HIDE DEF Lc
  <2>6. Quot(Lc, price) \in Int
    BY <2>5, QuotHasSign
  <2>7. \A x, y, z, k \in Int : x * y + z * k \in Int
    OBVIOUS
  <2>8. s.haircut - b.haircut \in Int /\ W \in Int /\ R \in Int
    BY <1>1
  <2>9. Quot(Lc, price) * R + (s.haircut - b.haircut) * W \in Int
    BY <2>6, <2>7, <2>8
  <2>10. QED
    BY <1>1, <2>9, QuotHasSign
<1>3. details.availableMargin = M /\ details.availableCash = c /\ details.lend = l
  BY DEF getInstrumentMarginDetails
<1>4. availableForTrade(sell, buy, margin, cash, pool) = bigintMax(0, f + more + W)
  <2> HIDE DEF M, details
  <2>1. QED
    BY <1>3, Zenon DEF availableForTrade, details
<1>5. f + W >= 0 => more = 0
  <2> SUFFICES ASSUME f + W >= 0 PROVE more = 0
    OBVIOUS
  <2> HIDE DEF f, R, s, b, w, M, W
  <2>1. (f + W) * price \in Nat
    <3>1. f + W \in Nat
      BY <1>1, <1>2
    <3>2. \A x, y \in Nat : x * y \in Nat
      OBVIOUS
    <3>3. QED
      BY <3>1, <3>2
  <2>2. Quot((f + W) * price, buyPrice) \in Nat
    BY <2>1, QuotOfNats
  <2>3. offset = 0
    BY <2>2 DEF bigintMin
  <2>4. adjustment = 0
    <3>1. buyPrice * 0 * (b.margin + b.haircut) = 0
      BY <1>1
    <3>2. QED
      BY <1>1, <2>3, <3>1, QuotHasSign DEF offsetAdjustment, R
  <2>5. adjustment * R = 0 /\ buyPrice * w \in Nat \ {0}
    BY <1>1, <2>4
  <2>6. QED
    BY <2>5, QuotHasSign
<1>6. more \in Int /\ (f + W < 0 => more <= 0)
  <2> HIDE DEF f, R, s, b, w, M, W
  <2> DEFINE q == Quot((f + W) * price, buyPrice)
  <2>1. (f + W) * price \in Int /\ (f + W < 0 => (f + W) * price <= 0)
    <3>1. f + W \in Int
      BY <1>1, <1>2
    <3>2. \A x \in Int, y \in Nat : x * y \in Int /\ (x < 0 => x * y <= 0)
      OBVIOUS
    <3>3. QED
      BY <3>1, <3>2
  <2>2. q \in Int
    BY <2>1, QuotHasSign
  <2>3. offset \in Int /\ offset <= 0
    BY <2>2 DEF bigintMin
  <2> HIDE DEF offset
  <2>4. buyPrice * offset * (b.margin + b.haircut) \in Int /\ buyPrice * offset * (b.margin + b.haircut) <= 0
    <3>1. \A x, z \in Nat, y \in Int : y <= 0 => x * y * z \in Int /\ x * y * z <= 0
      <4>1. \A x \in Nat, y \in Int : y <= 0 => x * y \in Int /\ x * y <= 0
        OBVIOUS
      <4>2. \A z \in Nat, y \in Int : y <= 0 => y * z \in Int /\ y * z <= 0
        OBVIOUS
      <4>3. QED
        BY <4>1, <4>2
    <3>2. b.margin + b.haircut \in Nat
      BY <1>1
    <3>3. QED
      BY <2>3, <3>1, <3>2
  <2>5. adjustment \in Int /\ adjustment <= 0
    BY <1>1, <2>4, QuotHasSign DEF offsetAdjustment, R
  <2> HIDE DEF adjustment
  <2>6. adjustment * R \in Int /\ adjustment * R <= 0 /\ buyPrice * w \in Nat \ {0}
    BY <1>1, <2>5
  <2>7. QED
    BY <2>6, QuotHasSign
<1>7. bigintMax(0, f + more + W) = bigintMax(0, f + W)
  <2> HIDE DEF f, W, more
  <2>1. CASE f + W >= 0
    BY <1>1, <1>2, <1>5, <2>1
  <2>2. CASE f + W < 0
    <3>1. f + more + W < 0
      BY <1>1, <1>2, <1>6, <2>2
    <3>2. QED
      BY <1>1, <1>2, <1>6, <2>2, <3>1 DEF bigintMax
  <2>3. QED
    BY <1>1, <1>2, <2>1, <2>2
<1>8. QED
  BY <1>2, <1>4, <1>7 DEF FirstShortfall, SoldIs

\* The bounds of the first shortfall of an account without debts.
LEMMA ShortfallBounds ==
    ASSUME NEW s, NEW b, RiskFactorsOK(s), RiskFactorsOK(b), b.haircut + s.margin > 0, NEW u \in Nat,
           NEW price \in Nat \ {0}, NEW M \in Nat, NEW W \in Nat, NEW l \in Nat,
           NEW f, f = FirstShortfall(s, b, u, price, M, W, l), f \in Nat \ {0}
    PROVE  \E g \in Nat :
              /\ RATIO_ONE * (RATIO_ONE * g) <= price * l * (RATIO_ONE - s.haircut) * u
              /\ price * (f * (b.haircut + s.margin)) <= RATIO_ONE * (M + g) + price * ((s.haircut - b.haircut) * W)
<1> DEFINE R == RATIO_ONE
           w == b.haircut + s.margin
           H == R - s.haircut
           K == Quot(price * H * u, R)
           g == Quot(K * l, R)
           t == Quot(M + g, price)
           n == t * R + (s.haircut - b.haircut) * W
<1>1. R \in Nat \ {0} /\ w \in Nat \ {0} /\ H \in Nat /\ s.haircut - b.haircut \in Int
  BY Scales DEF RiskFactorsOK
<1>2. f = Quot(n, w)
  BY DEF FirstShortfall, complementToHundred
<1>3. \A x, y \in Nat : x * y \in Nat
  OBVIOUS
<1> HIDE DEF R, w, H
<1>4. K \in Nat /\ R * K <= price * H * u
  BY <1>1, <1>3, QuotOfNats
<1> HIDE DEF K
<1>5. g \in Nat /\ R * g <= K * l
  BY <1>1, <1>3, <1>4, QuotOfNats
<1> HIDE DEF g
<1>6. t \in Nat /\ price * t <= M + g
  <2>1. M + g \in Nat
    BY <1>5
  <2>2. QED
    BY <2>1, QuotOfNats
<1> HIDE DEF t
<1>7. n \in Int
  BY <1>1, <1>6
<1> HIDE DEF n
<1>8. n \in Nat
  BY <1>1, <1>2, <1>7, QuotHasSign
<1>9. w * f <= n
  BY <1>1, <1>2, <1>8, QuotOfNats
<1>10. R * (R * g) <= price * l * H * u
  <2>1. R * (R * g) <= R * (K * l)
    <3>1. \A x, y \in Nat : x <= y => R * x <= R * y
      BY <1>1
    <3>2. QED
      BY <1>1, <1>3, <1>4, <1>5, <3>1
  <2>2. R * (K * l) = (R * K) * l
    BY <1>1, <1>4
  <2>3. (R * K) * l <= (price * H * u) * l
    <3>1. \A x, y, z \in Nat : x <= y => x * z <= y * z
      OBVIOUS
    <3>2. R * K \in Nat /\ price * H * u \in Nat
      BY <1>1, <1>3, <1>4
    <3>3. QED
      BY <1>4, <3>1, <3>2
  <2>4. (price * H * u) * l = price * l * H * u
    <3>1. \A x, y, z, k \in Nat : (x * y * z) * k = x * k * y * z
      OBVIOUS
    <3>2. QED
      BY <1>1, <3>1
  <2>5. R * (R * g) \in Nat /\ R * (K * l) \in Nat /\ (price * H * u) * l \in Nat
    BY <1>1, <1>3, <1>4, <1>5
  <2>6. QED
    BY <2>1, <2>2, <2>3, <2>4, <2>5
<1>11. price * (f * w) <= R * (M + g) + price * ((s.haircut - b.haircut) * W)
  <2> DEFINE d == (s.haircut - b.haircut) * W
  <2>1. d \in Int /\ n = t * R + d
    BY <1>1 DEF n
  <2> HIDE DEF d
  <2>2. f * w <= n /\ f * w \in Nat
    BY <1>1, <1>3, <1>9
  <2>3. price * (f * w) <= price * n
    BY <1>8, <2>2
  <2>4. price * n = R * (price * t) + price * d
    BY <1>1, <1>6, <2>1
  <2>5. R * (price * t) <= R * (M + g)
    <3>1. \A x, y \in Nat : x <= y => R * x <= R * y
      BY <1>1
    <3>2. price * t \in Nat /\ M + g \in Nat
      BY <1>3, <1>5, <1>6
    <3>3. QED
      BY <1>6, <3>1, <3>2
  <2>6. price * (f * w) \in Int /\ price * n \in Int /\ R * (price * t) \in Int /\ R * (M + g) \in Int /\ price * d \in Int
    BY <1>1, <1>3, <1>5, <1>6, <1>8, <2>1, <2>2
  <2>7. price * (f * w) <= R * (M + g) + price * d
    BY <2>3, <2>4, <2>5, <2>6
  <2>8. QED
    BY <2>7 DEF d
<1>12. QED
  BY <1>5, <1>10, <1>11 DEF R, w, H

\* A trade of an account without debts: its margin, what it sells of the first asset
\* and what of that is cash, and what it gets of the second.
TradeWithoutDebts(p1, p2, s, b, u1, u2, m, c1, l1, c2, l2, M, f, sold, fromCash, y) ==
    /\ M = PRICE_RESCALE_FACTOR * (AssetMargin(p1, c1, l1, RATIO_ONE - s.haircut, RATIO_ONE + s.margin, u1)
                                     + AssetMargin(p2, c2, l2, RATIO_ONE - b.haircut, m, u2))
    /\ f = FirstShortfall(s, b, u1, p1, M, c1 + l1, l1)
    /\ sold = bigintMax(0, f + (c1 + l1)) /\ fromCash = bigintMin(sold, c1)
    /\ y = (sold * p1) \div p2

CoveredAfter(p1, p2, s, b, u1, u2, m, c1, l1, c2, l2, sold, fromCash, y) ==
    PRICE_RESCALE_FACTOR
       * (AssetMargin(p1, c1 - fromCash, l1 - (sold - fromCash), RATIO_ONE - s.haircut, RATIO_ONE + s.margin, u1)
            + AssetMargin(p2, c2 + y, l2, RATIO_ONE - b.haircut, m, u2)) + p2 + 2 * PRICE_RESCALE_FACTOR > 0

\* Up to what there is no debt is made; beyond it, the shortfall bounds the debt.
LEMMA CoveredMargin ==
    ASSUME NEW p1 \in Nat \ {0}, NEW p2 \in Nat \ {0}, NEW s, NEW b, RiskFactorsOK(s), RiskFactorsOK(b), b.haircut + s.margin > 0,
           NEW u1 \in 0..RATIO_ONE, NEW u2 \in 0..RATIO_ONE, NEW m \in Nat,
           NEW c1 \in Nat, NEW l1 \in Nat, NEW c2 \in Nat, NEW l2 \in Nat, NEW M, NEW f \in Int, NEW sold, NEW fromCash, NEW y,
           TradeWithoutDebts(p1, p2, s, b, u1, u2, m, c1, l1, c2, l2, M, f, sold, fromCash, y)
    PROVE  CoveredAfter(p1, p2, s, b, u1, u2, m, c1, l1, c2, l2, sold, fromCash, y)
<1> DEFINE R == RATIO_ONE
           S == PRICE_RESCALE_FACTOR
           W == c1 + l1
           H == R - s.haircut
           B == R - b.haircut
           ms == R + s.margin
           part1 == AssetMargin(p1, c1, l1, H, ms, u1)
           part2 == AssetMargin(p2, c2, l2, B, m, u2)
           after1 == AssetMargin(p1, c1 - fromCash, l1 - (sold - fromCash), H, ms, u1)
           after2 == AssetMargin(p2, c2 + y, l2, B, m, u2)
<1>1. R \in Nat \ {0} /\ S \in Nat \ {0} /\ R * S \in Nat \ {0} /\ R * R * S = R * (R * S) /\ H \in Nat /\ B \in Nat /\ ms \in Nat
      /\ u1 \in Nat /\ u1 <= R /\ u2 \in Nat /\ u2 <= R /\ W \in Nat
      /\ s.haircut \in 0..R /\ b.haircut \in 0..R /\ s.margin \in Nat
  BY Scales DEF RiskFactorsOK
<1>t. /\ M = PRICE_RESCALE_FACTOR * (AssetMargin(p1, c1, l1, RATIO_ONE - s.haircut, RATIO_ONE + s.margin, u1)
                                       + AssetMargin(p2, c2, l2, RATIO_ONE - b.haircut, m, u2))
      /\ f = FirstShortfall(s, b, u1, p1, M, c1 + l1, l1)
      /\ sold = bigintMax(0, f + (c1 + l1)) /\ fromCash = bigintMin(sold, c1)
      /\ y = (sold * p1) \div p2
  BY DEF TradeWithoutDebts
<1>2. sold \in Nat /\ y \in Nat /\ sold * p1 < p2 * y + p2
  <2>1. sold \in Nat
    BY <1>1, <1>t DEF bigintMax
  <2>2. sold * p1 \in Nat
    BY <2>1
  <2>3. \A a \in Nat, d \in Nat \ {0} : a \div d \in Nat /\ a < d * (a \div d) + d
    OBVIOUS
  <2>4. QED
    BY <1>t, <2>1, <2>2, <2>3
<1>3. fromCash \in Nat /\ fromCash <= sold /\ fromCash <= c1 /\ (fromCash = sold \/ fromCash = c1)
  BY <1>2, <1>t DEF bigintMin
<1>0. p1 \in Nat /\ p2 \in Nat
  OBVIOUS
<1>4. part1 = Quot(p1 * W * H, R * S) - LendCut(p1, l1, H, u1) /\ part1 \in Nat /\ LendCut(p1, l1, H, u1) \in Nat
      /\ p1 * l1 * H * u1 < R * R * S * LendCut(p1, l1, H, u1) + R * R * S
  <2>1. PartIsSupport(p1, H, ms, u1, c1, l1)
    <3> HIDE DEF H, ms
    <3>1. QED
      BY <1>0, <1>1, NoDebtPart
  <2>2. QED
    BY <2>1, Zenon DEF PartIsSupport
<1>5. part2 = Quot(p2 * (c2 + l2) * B, R * S) - LendCut(p2, l2, B, u2) /\ part2 \in Nat /\ LendCut(p2, l2, B, u2) \in Nat
  <2>1. PartIsSupport(p2, B, m, u2, c2, l2)
    <3> HIDE DEF B
    <3>1. QED
      BY <1>0, <1>1, NoDebtPart
  <2>2. QED
    BY <2>1, Zenon DEF PartIsSupport
<1>6. c2 + y \in Nat /\ after2 = Quot(p2 * (c2 + y + l2) * B, R * S) - LendCut(p2, l2, B, u2) /\ after2 \in Nat
  <2>1. c2 + y \in Nat
    BY <1>2
  <2>2. PartIsSupport(p2, B, m, u2, c2 + y, l2)
    <3> HIDE DEF B
    <3>1. QED
      BY <1>0, <1>1, <2>1, NoDebtPart
  <2>3. QED
    BY <2>1, <2>2, Zenon DEF PartIsSupport
<1>7. M = S * (part1 + part2) /\ M \in Nat
  <2>1. M = S * (part1 + part2)
    BY <1>t
  <2> HIDE DEF part1, part2, S
  <2>2. QED
    BY <1>1, <1>4, <1>5, <2>1
<1>8. CASE sold <= W
  <2>1. c1 - fromCash \in Nat /\ l1 - (sold - fromCash) \in Nat
    BY <1>2, <1>3, <1>8
  <2>2. after1 \in Nat
    <3>1. PartIsSupport(p1, H, ms, u1, c1 - fromCash, l1 - (sold - fromCash))
      <4> HIDE DEF H, ms
      <4>1. QED
        BY <1>0, <1>1, <2>1, NoDebtPart
    <3>2. QED
      BY <3>1, Zenon DEF PartIsSupport
  <2> HIDE DEF after1, after2, S
  <2>3. S * (after1 + after2) \in Nat
    BY <1>1, <1>6, <2>2
  <2>4. S * (after1 + after2) + p2 + 2 * S > 0
    BY <1>1, <2>3
  <2>5. QED
    BY <2>4 DEF after1, after2, S, CoveredAfter
<1>9. CASE sold > W
  <2>1. f \in Nat \ {0} /\ sold = f + W /\ fromCash = c1 /\ c1 - fromCash = 0 /\ l1 - (sold - fromCash) = -f
    BY <1>1, <1>2, <1>3, <1>9, <1>t DEF bigintMax, bigintMin
  <2> DEFINE D == R * S
             s1 == Quot(p1 * W * H, D)
             s2 == Quot(p2 * (c2 + l2) * B, D)
             more2 == Quot(p2 * (c2 + y + l2) * B, D)
             cut1 == LendCut(p1, l1, H, u1)
             cut2 == LendCut(p2, l2, B, u2)
             req == Quot(p1 * f * ms, D)
             v == p2 * (c2 + l2) * B
  <2>2. after1 = 0 - req
    <3>1. AssetMargin(p1, 0, -f, H, ms, u1) = AssetSupport(p1, 0 + -f, H) - LendCut(p1, -f, H, u1) - AssetRequirement(p1, 0 + -f, ms)
      BY DEF AssetMargin
    <3>2. 0 + -f = -f /\ -f < 0 /\ ~(-f > 0) /\ -(-f) = f
      BY <2>1
    <3>3. AssetSupport(p1, -f, H) = 0 /\ LendCut(p1, -f, H, u1) = 0 /\ AssetRequirement(p1, -f, ms) = req
      BY <3>2 DEF AssetSupport, LendCut, AssetRequirement
    <3> HIDE DEF req, H, ms
    <3>4. after1 = 0 - 0 - req
      BY <2>1, <3>1, <3>2, <3>3
    <3>5. QED
      BY <3>4
  <2>3. \A a, d \in Nat : a * d \in Nat
    OBVIOUS
  <2>4. s1 \in Nat /\ D * s1 <= p1 * W * H
    <3> HIDE DEF W, H, R, S
    <3>1. QED
      BY <1>1, <2>3, QuotOfNats
  <2>5. s2 \in Nat /\ D * s2 <= v /\ v \in Nat
    <3>1. c2 + l2 \in Nat
      OBVIOUS
    <3> HIDE DEF B, R, S
    <3>2. v \in Nat
      BY <1>1, <2>3, <3>1
    <3>3. QED
      BY <1>1, <3>2, QuotOfNats
  <2>6. more2 \in Nat /\ v + p2 * y * B < D * more2 + D
    <3>1. p2 * (c2 + y + l2) * B = v + p2 * y * B
      <4> HIDE DEF B
      <4>1. \A a, d, e, k, n \in Nat : a * (d + k + e) * n = a * (d + e) * n + a * k * n
        OBVIOUS
      <4>2. QED
        BY <1>1, <1>2, <4>1
    <3>2. p2 * (c2 + y + l2) * B \in Nat
      <4>1. c2 + y + l2 \in Nat
        BY <1>2
      <4> HIDE DEF B
      <4>2. QED
        BY <1>1, <2>3, <4>1
    <3> HIDE DEF B, R, S, v
    <3>3. p2 * (c2 + y + l2) * B < D * more2 + D /\ more2 \in Nat
      BY <1>1, <3>2, QuotOfNats
    <3>4. QED
      BY <3>1, <3>3
  <2>7. req \in Nat /\ D * req <= p1 * f * (R + s.margin)
    <3> HIDE DEF R, S
    <3>1. p1 * f * ms \in Nat
      <4> HIDE DEF ms
      <4>1. QED
        BY <1>1, <2>1, <2>3
    <3>2. QED
      BY <1>1, <3>1, QuotOfNats
  <2>8. PICK g \in Nat : /\ R * (R * g) <= p1 * l1 * H * u1
                         /\ p1 * (f * (b.haircut + s.margin)) <= R * (M + g) + p1 * ((s.haircut - b.haircut) * W)
    BY <1>1, <1>7, <1>t, <2>1, ShortfallBounds
  <2>9. R * g < D * cut1 + D
    <3> HIDE DEF cut1, H, R, S
    <3>1. R * R * S * cut1 + R * R * S = R * (D * cut1 + D)
      BY <1>1, <1>4 DEF cut1
    <3>2. R * (R * g) < R * (D * cut1 + D)
      <4>1. p1 * l1 * H * u1 \in Nat /\ R * (R * g) \in Nat /\ R * (D * cut1 + D) \in Int
        BY <1>1, <1>4, <2>3 DEF cut1
      <4>2. p1 * l1 * H * u1 < R * (D * cut1 + D)
        BY <1>4, <3>1 DEF cut1
      <4>3. QED
        BY <2>8, <4>1, <4>2
    <3>3. \A x, z \in Int : R * x < R * z => x < z
      BY <1>1
    <3>4. R * g \in Int /\ D * cut1 + D \in Int
      BY <1>1, <1>4 DEF cut1
    <3>5. QED
      BY <3>2, <3>3, <3>4
  <2>10. cut1 \in Nat /\ cut2 \in Nat
    BY <1>4, <1>5
  <2>11. part1 + part2 = s1 - cut1 + s2 - cut2 /\ after1 + after2 = more2 - cut2 - req
    <3>1. part1 = s1 - cut1 /\ part2 = s2 - cut2 /\ after2 = more2 - cut2
      BY <1>4, <1>5, <1>6
    <3> HIDE DEF part1, part2, after1, after2, s1, s2, more2, cut1, cut2, req
    <3>2. QED
      BY <2>2, <2>4, <2>5, <2>6, <2>7, <2>10, <3>1
  <2>12. M = S * (s1 - cut1 + s2 - cut2) /\ M \in Int
    BY <1>7, <2>11
  <2>13. (f + W) * p1 < p2 * y + p2
    BY <1>2, <2>1
  <2>14. S * (more2 - cut2 - req) + p2 + 2 * S > 0
    <3> HIDE DEF s1, s2, more2, cut1, cut2, req, v, W, R, S
    <3>1. p1 \in Nat /\ p2 \in Nat /\ f \in Nat
      BY <2>1
    <3>2. D * s1 <= p1 * W * (R - s.haircut) /\ v + p2 * y * (R - b.haircut) < D * more2 + D
      BY <2>4, <2>6
    <3>3. QED
      BY <1>1, <1>2, <2>4, <2>5, <2>6, <2>7, <2>8, <2>9, <2>10, <2>12, <2>13, <3>1, <3>2, CoverArithmetic
  <2>15. S * (after1 + after2) + p2 + 2 * S > 0
    BY <2>11, <2>14
  <2>16. QED
    BY <2>15 DEF after1, after2, S, CoveredAfter
<1>10. QED
  BY <1>1, <1>2, <1>8, <1>9

LEMMA TradeOfOnePosition ==
    ASSUME NEW cash \in Cashes, NEW pool \in Pools, NEW prices \in UsdPrices, NEW listing \in Listings,
           call.op = "trade", call.cash = cash, call.pool = pool, call.prices = prices, call.instruments = listing
    PROVE  TradeIsCovered
<1> DEFINE sell == listing[1]
           buy == listing[2]
           s == sell.initial
           b == buy.initial
           sold == availableForTrade(sell, buy, MarginNow, cash, pool)
           y == Bought(sold, prices[1], prices[2])
<1>1. SUFFICES ASSUME \A a \in 1..2 : pool[a] >= 0 /\ listing[a].optUtilization <= RATIO_ONE,
                      b.haircut + s.margin > 0
               PROVE  MarginAfter(sold, y) + prices[2] + 2 * PRICE_RESCALE_FACTOR > 0
  BY Zenon DEF TradeIsCovered
<1> DEFINE c1 == cash[1]
           c2 == cash[2]
           l1 == pool[1]
           l2 == pool[2]
           p1 == prices[1]
           p2 == prices[2]
           u1 == sell.optUtilization
           u2 == buy.optUtilization
           m == excessToHundred(b.margin)
           M == ExcessMargin(MarginNow)
           f == FirstShortfall(s, b, u1, p1, M, c1 + l1, l1)
           fromCash == bigintMin(sold, c1)
           newCash == <<c1 - fromCash, c2 + y>>
           newPool == <<l1 - (sold - fromCash), l2>>
<1>2. 1 \in 1..2 /\ 2 \in 1..2
  OBVIOUS
<1>3. cash \in [1..2 -> Nat] /\ pool \in [1..2 -> Int] /\ prices \in [1..2 -> Nat \ {0}]
  BY PureCallsAssumption
<1>4. c1 \in Nat /\ c2 \in Nat /\ l1 \in Nat /\ l2 \in Nat /\ p1 \in Nat \ {0} /\ p2 \in Nat \ {0}
  BY <1>1, <1>2, <1>3
<1>5. \A a \in 1..2 : /\ listing[a].asset = a /\ listing[a].optUtilization \in Nat
                      /\ RiskFactorsOK(listing[a].initial)
  BY PureCallsAssumption, Zenon DEF RiskFactorsOK
<1>6. sell.asset = 1 /\ buy.asset = 2 /\ RiskFactorsOK(s) /\ RiskFactorsOK(b) /\ u1 \in Nat /\ u2 \in Nat
  BY <1>2, <1>5
<1>7. RATIO_ONE \in Nat /\ u1 \in 0..RATIO_ONE /\ u2 \in 0..RATIO_ONE
  BY <1>1, <1>2, <1>6, Scales
<1>8. RatiosOK(listing, TRUE)
  <2>1. \A a \in 1..2 : getRF(listing[a], TRUE) = listing[a].initial
    BY DEF getRF
  <2>2. QED
    BY <2>1, RatiosOfListing DEF RatiosOK
<1>9. /\ complementToHundred(s.haircut) = RATIO_ONE - s.haircut /\ complementToHundred(b.haircut) = RATIO_ONE - b.haircut
      /\ excessToHundred(s.margin) = RATIO_ONE + s.margin /\ m \in Nat
  BY <1>6, <1>7 DEF complementToHundred, excessToHundred, RiskFactorsOK
<1>10. ASSUME NEW c, NEW q
       PROVE  /\ PartOf(1, c, q, prices, listing, TRUE) = AssetMargin(p1, c, q, RATIO_ONE - s.haircut, RATIO_ONE + s.margin, u1)
              /\ PartOf(2, c, q, prices, listing, TRUE) = AssetMargin(p2, c, q, RATIO_ONE - b.haircut, m, u2)
  BY <1>9 DEF PartOf, getRF
<1>11. prices \in [1..2 -> Nat]
  BY <1>3
<1>12. M = PRICE_RESCALE_FACTOR * (AssetMargin(p1, c1, l1, RATIO_ONE - s.haircut, RATIO_ONE + s.margin, u1)
                                     + AssetMargin(p2, c2, l2, RATIO_ONE - b.haircut, m, u2))
  <2>1. MarginNow = marginWithoutOrders(cash, pool, listing, prices, TRUE)
    BY DEF MarginNow
  <2>2. M = PRICE_RESCALE_FACTOR * (PartOf(1, c1, l1, prices, listing, TRUE) + PartOf(2, c2, l2, prices, listing, TRUE))
    <3>1. MarginIsOfParts(cash, pool, prices, listing)
      BY <1>3, <1>8, <1>11, MarginOfTwo
    <3>2. QED
      BY <2>1, <3>1, Zenon DEF MarginIsOfParts
  <2>3. QED
    BY <1>10, <2>2, Zenon
<1>13. M \in Int
  <2>1. /\ AssetMargin(p1, c1, l1, RATIO_ONE - s.haircut, RATIO_ONE + s.margin, u1) \in Int
        /\ AssetMargin(p2, c2, l2, RATIO_ONE - b.haircut, m, u2) \in Int
    <3>1. RATIO_ONE - s.haircut \in Nat /\ RATIO_ONE + s.margin \in Nat /\ RATIO_ONE - b.haircut \in Nat
          /\ u1 <= RATIO_ONE /\ u2 <= RATIO_ONE
      BY <1>6, <1>7 DEF RiskFactorsOK
    <3> HIDE DEF c1, c2, l1, l2, p1, p2, u1, u2, s, b, m
    <3>2. PartIsSupport(p1, RATIO_ONE - s.haircut, RATIO_ONE + s.margin, u1, c1, l1)
      BY <1>4, <1>6, <3>1, NoDebtPart
    <3>3. PartIsSupport(p2, RATIO_ONE - b.haircut, m, u2, c2, l2)
      BY <1>4, <1>6, <1>9, <3>1, NoDebtPart
    <3>4. QED
      BY <3>2, <3>3 DEF PartIsSupport
  <2>2. QED
    BY <1>12, <2>1, Scales
<1>14. MarginNow.prices = prices /\ getAmountOrZero(MarginNow.unoffsetLiabilities, 2) = 0
  <2> DEFINE health == positionHealth(cash, pool, listing, prices, TRUE)
             Sum(a) == getAmountOrZero(cash, a) + getAmountOrZero(pool, a)
  <2>1. /\ health = [support |-> health.support, requirement |-> health.requirement, unoffsetLiabilities |-> health.unoffsetLiabilities,
                     isInitialMargin |-> health.isInitialMargin, prices |-> health.prices]
        /\ health.prices = prices
        /\ health.unoffsetLiabilities = [a \in {e \in DOMAIN cash \cup DOMAIN pool : Sum(e) < 0} |-> -Sum(a)]
    BY DEF positionHealth
  <2>2. MarginNow = [health EXCEPT !.support = @ * PRICE_RESCALE_FACTOR, !.requirement = @ * PRICE_RESCALE_FACTOR]
    BY DEF MarginNow, marginWithoutOrders
  <2>3. ~(Sum(2) < 0)
    <3>1. getAmountOrZero(cash, 2) = c2 /\ getAmountOrZero(pool, 2) = l2
      BY <1>3 DEF getAmountOrZero
    <3>2. QED
      BY <1>4, <3>1
  <2>4. 2 \notin DOMAIN health.unoffsetLiabilities
    BY <2>1, <2>3
  <2> HIDE DEF health
  <2>5. MarginNow.prices = health.prices /\ MarginNow.unoffsetLiabilities = health.unoffsetLiabilities
    BY <2>1, <2>2
  <2>6. QED
    BY <2>1, <2>4, <2>5 DEF getAmountOrZero
<1>15. getAmountOrZero(cash, 1) = c1 /\ getAmountOrZero(pool, 1) = l1
  BY <1>3 DEF getAmountOrZero
<1>16. f \in Int /\ sold = bigintMax(0, f + (c1 + l1))
  <2>1. SoldIs(sell, buy, MarginNow, cash, pool, p1, c1, l1)
    <3>1. /\ getAmountOrZero(cash, sell.asset) = c1 /\ getAmountOrZero(pool, sell.asset) = l1
          /\ getAmountOrZero(MarginNow.unoffsetLiabilities, buy.asset) = 0
          /\ MarginNow.prices[sell.asset] = p1 /\ MarginNow.prices[buy.asset] = p2
      BY <1>6, <1>14, <1>15
    <3> HIDE DEF c1, l1, p1, p2, sell, buy
    <3>2. QED
      BY <1>1, <1>4, <1>6, <1>13, <3>1, SoldWithoutDebts
  <2>2. QED
    BY <2>1, Zenon DEF SoldIs
<1>17. sold \in Nat /\ y = (sold * p1) \div p2 /\ y \in Nat
  <2>1. sold \in Nat
    BY <1>4, <1>16 DEF bigintMax
  <2> HIDE DEF sold
  <2>2. sold * p1 \in Nat
    BY <1>4, <2>1
  <2>3. QED
    BY <1>4, <2>1, <2>2 DEF Bought
<1>18. fromCash \in Nat /\ fromCash <= c1 /\ newCash \in [1..2 -> Nat] /\ newPool \in [1..2 -> Int]
  <2> HIDE DEF sold, y, c1, c2, l1, l2
  <2>1. fromCash \in Nat /\ fromCash <= c1
    BY <1>4, <1>17 DEF bigintMin
  <2>2. QED
    BY <1>4, <1>17, <2>1
<1>19. MarginAfter(sold, y) = PRICE_RESCALE_FACTOR * (PartOf(1, newCash[1], newPool[1], prices, listing, TRUE)
                                                       + PartOf(2, newCash[2], newPool[2], prices, listing, TRUE))
  <2>1. MarginAfter(sold, y) = ExcessMargin(marginWithoutOrders(newCash, newPool, listing, prices, TRUE))
    BY Zenon DEF MarginAfter
  <2> HIDE DEF newCash, newPool, sold, y
  <2>2. MarginIsOfParts(newCash, newPool, prices, listing)
    BY <1>8, <1>11, <1>18, MarginOfTwo
  <2>3. QED
    BY <2>1, <2>2, Zenon DEF MarginIsOfParts
<1>20. newCash[1] = c1 - fromCash /\ newCash[2] = c2 + y /\ newPool[1] = l1 - (sold - fromCash) /\ newPool[2] = l2
  OBVIOUS
<1>21. PRICE_RESCALE_FACTOR * (AssetMargin(p1, c1 - fromCash, l1 - (sold - fromCash), RATIO_ONE - s.haircut, RATIO_ONE + s.margin, u1)
                                 + AssetMargin(p2, c2 + y, l2, RATIO_ONE - b.haircut, m, u2)) + p2 + 2 * PRICE_RESCALE_FACTOR > 0
  <2>1. TradeWithoutDebts(p1, p2, s, b, u1, u2, m, c1, l1, c2, l2, M, f, sold, fromCash, y)
    BY <1>12, <1>16, <1>17, Zenon DEF TradeWithoutDebts
  <2>2. CoveredAfter(p1, p2, s, b, u1, u2, m, c1, l1, c2, l2, sold, fromCash, y)
    <3> HIDE DEF sold, y, c1, c2, l1, l2, p1, p2, s, b, u1, u2, m, M, sell, buy, fromCash, f
    <3>1. b.haircut + s.margin > 0
      BY <1>1 DEF b, s
    <3>2. QED
      BY <1>4, <1>6, <1>7, <1>9, <1>16, <2>1, <3>1, CoveredMargin
  <2>3. QED
    BY <2>2, Zenon DEF CoveredAfter
<1>22. QED
  <2>1. MarginAfter(sold, y) = PRICE_RESCALE_FACTOR * (AssetMargin(p1, c1 - fromCash, l1 - (sold - fromCash), RATIO_ONE - s.haircut, RATIO_ONE + s.margin, u1)
                                                         + AssetMargin(p2, c2 + y, l2, RATIO_ONE - b.haircut, m, u2))
    <3>1. /\ PartOf(1, newCash[1], newPool[1], prices, listing, TRUE)
                = AssetMargin(p1, newCash[1], newPool[1], RATIO_ONE - s.haircut, RATIO_ONE + s.margin, u1)
          /\ PartOf(2, newCash[2], newPool[2], prices, listing, TRUE)
                = AssetMargin(p2, newCash[2], newPool[2], RATIO_ONE - b.haircut, m, u2)
      BY <1>10, Zenon
    <3> HIDE DEF newCash, newPool, sold, y, fromCash, s, b, m, p1, p2, u1, u2, c1, c2, l1, l2, buy, sell
    <3>2. QED
      BY <1>19, <1>20, <3>1, Zenon
  <2>2. QED
    BY <1>21, <2>1

\* What availableForTrade says an account without debts may sell is covered at the
\* oracle's prices, but for a unit of what is bought and two rescaled units.
THEOREM AvailableForTradeIsCovered == PureSpec => []TradeIsCovered
<1>1. CallOfKind => TradeIsCovered
  <2> SUFFICES ASSUME CallOfKind, call.op = "trade"
               PROVE  TradeIsCovered
    BY DEF TradeIsCovered
  <2>1. PICK cash \in Cashes, pool \in Pools, prices \in UsdPrices, limit \in Limits, isBuy \in BOOLEAN, listing \in Listings :
           call = [op |-> "trade", cash |-> cash, pool |-> pool, prices |-> prices, limit |-> limit, isBuy |-> isBuy,
                   instruments |-> listing]
    BY DEF CallOfKind, Idle
  <2>2. call.cash = cash /\ call.pool = pool /\ call.prices = prices /\ call.instruments = listing
    BY <2>1
  <2>3. QED
    BY <2>2, TradeOfOnePosition
<1>2. QED
  BY <1>1, CallsOfKind, PTL

-----------------------------------------------------------------------------
(* Stopwatches: sums, what a call does to one watch, and what any calls    *)
(* make of any watches, one call after the other.                          *)

\* The only sums that grow number by number are those of the beginnings of a sequence.
LEMMA SumIs ==
    ASSUME NEW s \in Seq(Int), NEW g \in [0..Len(s) -> Int], g[0] = 0, \A k \in 1..Len(s) : g[k] = g[k - 1] + s[k]
    PROVE  SumOf(s) = g[Len(s)]
<1> DEFINE L == Len(s)
           Body(p) == [k \in 0..L |-> IF k = 0 THEN 0 ELSE p[k - 1] + s[k]]
           sum == CHOOSE p : p = Body(p)
<1>1. L \in Nat
  OBVIOUS
<1>2. g = Body(g)
  <2>1. \A k \in 0..L : k = 0 \/ k \in 1..L
    BY <1>1
  <2>2. \A k \in 0..L : g[k] = Body(g)[k]
    BY <2>1
  <2>3. QED
    BY <2>2
<1>3. sum = Body(sum)
  <2> HIDE DEF Body
  <2> QED BY <1>2
<1>4. SumOf(s) = sum[L]
  BY DEF SumOf
<1> HIDE DEF sum
<1>5. \A k \in 0..L : sum[k] = IF k = 0 THEN 0 ELSE sum[k - 1] + s[k]
  BY <1>3
<1> DEFINE T == {k \in Nat : k <= L => sum[k] = g[k]}
<1>6. 0 \in T
  BY <1>1, <1>5
<1>7. ASSUME NEW k \in Nat, k \in T PROVE k + 1 \in T
  <2>1. SUFFICES ASSUME k + 1 <= L PROVE sum[k + 1] = g[k + 1]
    OBVIOUS
  <2>2. k + 1 \in 1..L /\ k + 1 \in 0..L /\ (k + 1) - 1 = k /\ k <= L /\ k + 1 # 0
    BY <1>1, <2>1
  <2>3. sum[k + 1] = sum[k] + s[k + 1]
    BY <1>5, <2>2
  <2>4. g[k + 1] = g[k] + s[k + 1]
    BY <2>2
  <2>5. sum[k] = g[k]
    BY <1>7, <2>2
  <2> HIDE DEF L
  <2>6. QED
    BY <2>3, <2>4, <2>5
<1>8. Nat \subseteq T
  <2> HIDE DEF T
  <2> QED BY <1>6, <1>7, NatInduct
<1>9. QED
  BY <1>1, <1>4, <1>8

\* There are such sums.
LEMMA SumGrows ==
    ASSUME NEW s \in Seq(Int)
    PROVE  \E g \in [0..Len(s) -> Int] : /\ g[0] = 0 /\ \A k \in 1..Len(s) : g[k] = g[k - 1] + s[k]
                                         /\ SumOf(s) = g[Len(s)]
<1> DEFINE step == [x \in Nat \X Int |-> IF x[1] + 1 \in 1..Len(s) THEN x[2] + s[x[1] + 1] ELSE 0]
<1>1. step \in [Nat \X Int -> Int] /\ 0 \in Int
  OBVIOUS
<1>2. \A n \in Nat, x \in Int : n + 1 \in 1..Len(s) => step[<<n, x>>] = x + s[n + 1]
  OBVIOUS
<1> HIDE DEF step
<1>3. PICK f \in [Nat -> Int] : Iterates(f, 0, step)
  BY <1>1, NatRecursion
<1> DEFINE g == [k \in 0..Len(s) |-> f[k]]
<1>4. \A k \in 1..Len(s) : k - 1 \in Nat /\ (k - 1) + 1 = k /\ k - 1 \in 0..Len(s) /\ k \in 0..Len(s)
  OBVIOUS
<1>5. g \in [0..Len(s) -> Int] /\ g[0] = 0
  BY <1>3 DEF Iterates
<1>6. \A k \in 1..Len(s) : g[k] = g[k - 1] + s[k]
  <2> SUFFICES ASSUME NEW k \in 1..Len(s) PROVE g[k] = g[k - 1] + s[k]
    OBVIOUS
  <2>1. f[(k - 1) + 1] = step[<<k - 1, f[k - 1]>>]
    BY <1>3, <1>4 DEF Iterates
  <2>2. f[k - 1] \in Int
    BY <1>3, <1>4
  <2>3. f[k] = f[k - 1] + s[k]
    BY <1>2, <1>4, <2>1, <2>2
  <2>4. QED
    BY <1>4, <2>3
<1>7. SumOf(s) = g[Len(s)]
  <2> HIDE DEF g
  <2> QED BY <1>5, <1>6, SumIs
<1>8. QED
  <2> HIDE DEF g
  <2> QED BY <1>5, <1>6, <1>7

LEMMA SumOfAppended ==
    ASSUME NEW s \in Seq(Int), NEW t \in Seq(Int), Len(t) = Len(s) + 1, \A i \in 1..Len(s) : t[i] = s[i]
    PROVE  SumOf(t) = SumOf(s) + t[Len(t)] /\ SumOf(s) \in Int
<1>1. PICK g \in [0..Len(t) -> Int] : /\ g[0] = 0 /\ \A k \in 1..Len(t) : g[k] = g[k - 1] + t[k]
                                      /\ SumOf(t) = g[Len(t)]
  BY SumGrows
<1> DEFINE h == [k \in 0..Len(s) |-> g[k]]
<1>2. \A k \in 1..Len(s) : k \in 1..Len(t) /\ k \in 0..Len(s) /\ k - 1 \in 0..Len(s) /\ k \in 0..Len(t)
  OBVIOUS
<1>3. h \in [0..Len(s) -> Int] /\ h[0] = 0 /\ \A k \in 1..Len(s) : h[k] = h[k - 1] + s[k]
  BY <1>1, <1>2
<1>4. Len(s) \in 0..Len(s) /\ Len(t) \in 1..Len(t) /\ Len(t) - 1 = Len(s)
  OBVIOUS
<1>5. SumOf(s) = h[Len(s)] /\ h[Len(s)] = g[Len(s)] /\ h[Len(s)] \in Int
  <2>1. SumOf(s) = h[Len(s)]
    <3> HIDE DEF h
    <3> QED BY <1>3, SumIs
  <2>2. QED
    BY <1>3, <1>4, <2>1
<1>6. g[Len(t)] = g[Len(s)] + t[Len(t)]
  BY <1>1, <1>4
<1>7. QED
  BY <1>1, <1>5, <1>6

\* One number changed, the sum changes by as much.
LEMMA SumOfChanged ==
    ASSUME NEW s \in Seq(Int), NEW t \in Seq(Int), Len(t) = Len(s), NEW w \in 1..Len(s),
           \A i \in 1..Len(s) : i # w => t[i] = s[i]
    PROVE  SumOf(t) = SumOf(s) + (t[w] - s[w]) /\ SumOf(s) \in Int
<1> DEFINE L == Len(s)
           d == t[w] - s[w]
<1>1. L \in Nat /\ L = Len(t) /\ w \in 1..L /\ d \in Int /\ \A k \in 1..L : s[k] \in Int /\ t[k] \in Int
  OBVIOUS
<1>2. PICK g \in [0..L -> Int] : g[0] = 0 /\ (\A k \in 1..L : g[k] = g[k - 1] + s[k]) /\ SumOf(s) = g[L]
  BY SumGrows
<1> DEFINE h == [k \in 0..L |-> IF k < w THEN g[k] ELSE g[k] + d]
<1>3. h \in [0..L -> Int] /\ h[0] = 0
  BY <1>1, <1>2
<1>4. ASSUME NEW k \in 1..L PROVE h[k] = h[k - 1] + t[k]
  <2>0. k - 1 \in 0..L /\ k \in 0..L
    BY <1>1
  <2>1. g[k] = g[k - 1] + s[k] /\ g[k - 1] \in Int /\ s[k] \in Int /\ t[k] \in Int
    <3> HIDE DEF L
    <3> QED BY <1>1, <1>2, <2>0
  <2>2. CASE k = w
    <3>1. h[k] = g[k] + d /\ h[k - 1] = g[k - 1] /\ d = t[k] - s[k]
      BY <2>0, <2>1, <2>2
    <3> HIDE DEF h, d
    <3>2. QED
      BY <2>1, <3>1
  <2>3. CASE k < w
    <3>1. h[k] = g[k] /\ h[k - 1] = g[k - 1] /\ t[k] = s[k]
      BY <2>0, <2>1, <2>3
    <3> HIDE DEF h, d
    <3>2. QED
      BY <2>1, <3>1
  <2>4. CASE k > w
    <3>1. h[k] = g[k] + d /\ h[k - 1] = g[k - 1] + d /\ t[k] = s[k]
      BY <2>0, <2>1, <2>4
    <3> HIDE DEF h, d
    <3>2. QED
      BY <1>1, <2>1, <3>1
  <2>5. QED
    BY <1>1, <2>2, <2>3, <2>4
<1>5. SumOf(t) = h[L]
  <2> HIDE DEF h, d
  <2> QED BY <1>1, <1>3, <1>4, SumIs
<1>6. h[L] = g[L] + d /\ g[L] \in Int
  BY <1>1, <1>2
<1>7. QED
  BY <1>2, <1>5, <1>6

\* Without its first number.
LEMMA SumOfRest ==
    ASSUME NEW s \in Seq(Int), NEW t \in Seq(Int), Len(s) = Len(t) + 1, \A i \in 1..Len(t) : t[i] = s[i + 1]
    PROVE  SumOf(s) = s[1] + SumOf(t) /\ SumOf(t) \in Int /\ s[1] \in Int
<1> DEFINE L == Len(t)
<1>1. L \in Nat /\ Len(s) = L + 1 /\ s[1] \in Int
  OBVIOUS
<1>2. PICK g \in [0..L -> Int] : g[0] = 0 /\ (\A k \in 1..L : g[k] = g[k - 1] + t[k]) /\ SumOf(t) = g[L]
  BY SumGrows
<1> DEFINE h == [k \in 0..L + 1 |-> IF k = 0 THEN 0 ELSE s[1] + g[k - 1]]
<1>3. h \in [0..L + 1 -> Int] /\ h[0] = 0
  BY <1>1, <1>2
<1>4. ASSUME NEW k \in 1..L + 1 PROVE h[k] = h[k - 1] + s[k]
  <2>1. CASE k = 1
    BY <1>1, <1>2, <2>1
  <2>2. CASE k # 1
    <3> DEFINE j == k - 1
    <3>1. j \in 1..L /\ j # 0 /\ j \in 0..L + 1 /\ j + 1 = k /\ j - 1 \in 0..L /\ k # 0 /\ k \in 0..L + 1 /\ k - 1 = j
      BY <1>1, <2>2
    <3> HIDE DEF j
    <3>2. h[k] = s[1] + g[j] /\ h[j] = s[1] + g[j - 1]
      BY <3>1
    <3>3. s[k] = t[j] /\ s[k] \in Int
      <4>1. \A i \in 1..L : t[i] = s[i + 1] /\ s[i + 1] \in Int
        BY <1>1
      <4>2. QED
        BY <3>1, <4>1
    <3>4. g[j] = g[j - 1] + t[j] /\ g[j - 1] \in Int
      <4> HIDE DEF L
      <4> QED BY <1>2, <3>1
    <3> HIDE DEF h
    <3>5. h[k] = h[j] + s[k]
      BY <1>1, <3>2, <3>3, <3>4
    <3>6. QED
      BY <3>1, <3>5
  <2>3. QED
    BY <2>1, <2>2
<1>5. SumOf(s) = h[L + 1]
  <2> HIDE DEF h, L
  <2> QED BY <1>1, <1>3, <1>4, SumIs
<1>6. h[L + 1] = s[1] + g[L] /\ g[L] \in Int
  BY <1>1, <1>2
<1>7. QED
  BY <1>1, <1>2, <1>5, <1>6

LEMMA SumOfNone == SumOf(<<>>) = 0
<1> DEFINE g == [k \in 0..0 |-> 0]
<1>1. <<>> \in Seq(Int) /\ Len(<<>>) = 0 /\ g \in [0..0 -> Int] /\ g[0] = 0 /\ \A k \in 1..0 : g[k] = g[k - 1] + <<>>[k]
  OBVIOUS
<1> HIDE DEF g
<1>2. QED
  BY <1>1, SumIs

\* The tasks of a stopwatch whose watches have these names.
UnderWay == [name : TaskNames, start : Int]
Done     == [name : TaskNames, span : Int]
WatchNames(names) == {names[w] : w \in DOMAIN names}
Summaries(names) == UNION {[keys -> Int] : keys \in SUBSET (WatchNames(names) \X TaskNames)}
Watches(names) == [name : WatchNames(names), currentTasks : Seq(UnderWay), completedTasks : Seq(Done)]
Stopwatches(names) ==
    [active : BOOLEAN, summary : Summaries(names), watches : [1..Len(names) -> Watches(names)]]

Orders == {Oldest, Newest}

\* r is sw but for its watch w, which keeps its name, and the summary.
OnlyChanges(names, sw, w, r) ==
    /\ sw \in Stopwatches(names) /\ r \in Stopwatches(names) /\ w \in 1..Len(names) /\ r.active = sw.active
    /\ \A v \in 1..Len(names) : v # w => r.watches[v] = sw.watches[v]
    /\ r.watches[w].name = sw.watches[w].name

\* r is sw with one more task under way, or with a watch cleaned.
Begun(names, sw, w, task, n, r) ==
    /\ OnlyChanges(names, sw, w, r) /\ r.summary = sw.summary
    /\ r.watches[w].completedTasks = sw.watches[w].completedTasks
    /\ r.watches[w].currentTasks = Append(sw.watches[w].currentTasks, [name |-> task, start |-> n])
Cleaned(names, sw, w, r) ==
    /\ OnlyChanges(names, sw, w, r) /\ r.summary = sw.summary
    /\ r.watches[w].completedTasks = <<>> /\ r.watches[w].currentTasks = <<>>
CleanOf(sw, w) == [sw EXCEPT !.watches[w].currentTasks = <<>>, !.watches[w].completedTasks = <<>>]

\* What a stop takes of the tasks under way: the first or the last.
Takes(tasks, order, taken) ==
    /\ tasks \in Seq(UnderWay) /\ taken.rest \in Seq(UnderWay) /\ Len(tasks) = Len(taken.rest) + 1
    /\ taken.task \in UnderWay
    /\ \/ order = Oldest /\ taken.task = tasks[1] /\ \A i \in 1..Len(taken.rest) : taken.rest[i] = tasks[i + 1]
       \/ order = Newest /\ taken.task = tasks[Len(tasks)] /\ \A i \in 1..Len(taken.rest) : taken.rest[i] = tasks[i]

\* The total under a key, and no other, grows by a span.
Totals(sw, r, key, span) == \A k : sumSpan(r.summary, k) = sumSpan(sw.summary, k) + (IF k = key THEN span ELSE 0)

\* r is sw after a stop of its watch w, which has tasks under way.
Stopped(names, sw, w, n, order, r) ==
    \E taken : \E done \in Done :
        /\ OnlyChanges(names, sw, w, r) /\ Takes(sw.watches[w].currentTasks, order, taken)
        /\ done.name = taken.task.name /\ done.span = n - taken.task.start
        /\ r.watches[w].completedTasks = Append(sw.watches[w].completedTasks, done)
        /\ r.watches[w].currentTasks = taken.rest
        /\ Totals(sw, r, <<sw.watches[w].name, done.name>>, done.span)

LEMMA StartedTask ==
    ASSUME NEW names, NEW sw \in Stopwatches(names), NEW w \in 1..Len(names), NEW task \in TaskNames, NEW n \in Int
    PROVE  Begun(names, sw, w, task, n, _start(sw, w, task, n))
<1> DEFINE r == _start(sw, w, task, n)
<1> HIDE DEF r
<1> DEFINE watch == sw.watches[w]
           begun == [name |-> task, start |-> n]
           new == [watch EXCEPT !.currentTasks = Append(watch.currentTasks, begun)]
<1>1. watch \in Watches(names) /\ begun \in UnderWay
  BY DEF Stopwatches, UnderWay
<1> HIDE DEF watch, begun
<1>2. new \in Watches(names) /\ new.name = watch.name /\ new.completedTasks = watch.completedTasks
      /\ new.currentTasks = Append(watch.currentTasks, begun)
  <2>1. watch.currentTasks \in Seq(UnderWay)
    BY <1>1 DEF Watches
  <2>2. Append(watch.currentTasks, begun) \in Seq(UnderWay)
    BY <1>1, <2>1
  <2>3. QED
    BY <1>1, <2>2 DEF Watches
<1>3. r = [sw EXCEPT !.watches = [sw.watches EXCEPT ![w] = new]]
  BY DEF _start, watch, begun, r
<1> HIDE DEF new
<1>4. r \in Stopwatches(names) /\ r.active = sw.active /\ r.summary = sw.summary
      /\ r.watches = [sw.watches EXCEPT ![w] = new] /\ sw.watches \in [1..Len(names) -> Watches(names)]
  <2>1. sw.watches \in [1..Len(names) -> Watches(names)]
    BY DEF Stopwatches
  <2>2. [sw.watches EXCEPT ![w] = new] \in [1..Len(names) -> Watches(names)]
    BY <1>2, <2>1
  <2>3. QED
    BY <1>3, <2>1, <2>2 DEF Stopwatches
<1>5. r.watches[w] = new /\ \A v \in 1..Len(names) : v # w => r.watches[v] = sw.watches[v]
  BY <1>4
<1>6. QED
  BY <1>2, <1>4, <1>5 DEF watch, begun, OnlyChanges, Begun, r

LEMMA CleanedWatch ==
    ASSUME NEW names, NEW sw \in Stopwatches(names), NEW w \in 1..Len(names)
    PROVE  Cleaned(names, sw, w, CleanOf(sw, w))
<1> DEFINE r == CleanOf(sw, w)
<1> HIDE DEF r
<1> DEFINE watch == sw.watches[w]
           new == [watch EXCEPT !.currentTasks = <<>>, !.completedTasks = <<>>]
<1>1. watch \in Watches(names)
  BY DEF Stopwatches
<1> HIDE DEF watch
<1>2. new \in Watches(names) /\ new.name = watch.name /\ new.completedTasks = <<>> /\ new.currentTasks = <<>>
  <2>1. <<>> \in Seq(UnderWay) /\ <<>> \in Seq(Done)
    OBVIOUS
  <2>2. QED
    BY <1>1, <2>1 DEF Watches
<1>3. r = [sw EXCEPT !.watches = [sw.watches EXCEPT ![w] = new]]
  BY DEF Stopwatches, watch, r, CleanOf
<1> HIDE DEF new
<1>4. r \in Stopwatches(names) /\ r.active = sw.active /\ r.summary = sw.summary
      /\ r.watches = [sw.watches EXCEPT ![w] = new] /\ sw.watches \in [1..Len(names) -> Watches(names)]
  <2>1. sw.watches \in [1..Len(names) -> Watches(names)]
    BY DEF Stopwatches
  <2>2. [sw.watches EXCEPT ![w] = new] \in [1..Len(names) -> Watches(names)]
    BY <1>2, <2>1
  <2>3. QED
    BY <1>3, <2>1, <2>2 DEF Stopwatches
<1>5. r.watches[w] = new /\ \A v \in 1..Len(names) : v # w => r.watches[v] = sw.watches[v]
  BY <1>4
<1>6. QED
  BY <1>2, <1>4, <1>5 DEF watch, OnlyChanges, Cleaned, r

LEMMA TakenTask ==
    ASSUME NEW tasks \in Seq(UnderWay), tasks # <<>>, NEW order \in Orders
    PROVE  Takes(tasks, order, TakeTask(tasks, order))
<1> DEFINE taken == TakeTask(tasks, order)
<1> HIDE DEF taken
<1>1. CASE order = Oldest
  <2>1. taken = [task |-> Head(tasks), rest |-> Tail(tasks)]
    BY <1>1 DEF TakeTask, taken
  <2>2. QED
    BY <1>1, <2>1 DEF Takes, taken
<1>2. CASE order # Oldest
  <2>1. taken = [task |-> Last(tasks), rest |-> Front(tasks)]
    BY <1>2 DEF TakeTask, taken
  <2>2. taken.task = tasks[Len(tasks)] /\ taken.rest = SubSeq(tasks, 1, Len(tasks) - 1)
    BY <2>1 DEF Last, Front
  <2>3. order = Newest /\ Len(tasks) \in Nat \ {0}
    BY <1>2 DEF Orders
  <2> HIDE DEF UnderWay
  <2>4. \A i \in 1..Len(tasks) : tasks[i] \in UnderWay
    OBVIOUS
  <2> DEFINE m == Len(tasks) - 1
  <2>5. m \in Nat /\ m - 1 + 1 = m /\ \A i \in 1..m : tasks[i] \in UnderWay
    <3> DEFINE L == Len(tasks)
    <3>1. L \in Nat \ {0}
      BY <2>3
    <3>2. \A i \in 1..L : tasks[i] \in UnderWay
      BY <2>4
    <3> HIDE DEF L
    <3>3. QED
      BY <3>1, <3>2 DEF L
  <2>6. taken.rest \in Seq(UnderWay) /\ Len(taken.rest) = m /\ \A i \in 1..m : taken.rest[i] = tasks[i]
    <3>1. SubSeq(tasks, 1, m) \in Seq(UnderWay)
          /\ Len(SubSeq(tasks, 1, m)) = (IF 1 <= m THEN m - 1 + 1 ELSE 0)
          /\ \A i \in 1..m - 1 + 1 : SubSeq(tasks, 1, m)[i] = tasks[1 + i - 1]
      <4> HIDE DEF m
      <4> QED BY <2>5, SubSeqProperties
    <3> DEFINE rest == SubSeq(tasks, 1, m)
    <3> HIDE DEF rest, m
    <3>2. \A i \in 1..m : 1 + i - 1 = i
      BY <2>5
    <3>3. QED
      BY <2>2, <2>5, <3>1, <3>2 DEF rest, m
  <2>7. Len(tasks) = Len(taken.rest) + 1 /\ \A i \in 1..Len(taken.rest) : taken.rest[i] = tasks[i]
    <3>1. Len(tasks) = m + 1
      BY <2>3
    <3> HIDE DEF m
    <3>2. QED
      BY <2>6, <3>1
  <2>8. taken.task \in UnderWay
    BY <2>2, <2>3, <2>4
  <2>9. QED
    BY <2>2, <2>3, <2>6, <2>7, <2>8 DEF Takes, taken
<1> QED BY <1>1, <1>2

LEMMA StoppedTask ==
    ASSUME NEW names, NEW sw \in Stopwatches(names), NEW w \in 1..Len(names), NEW n \in Int, NEW order \in Orders,
           sw.watches[w].currentTasks # <<>>
    PROVE  Stopped(names, sw, w, n, order, _stop(sw, w, n, order))
<1> DEFINE r == _stop(sw, w, n, order)
           watch == sw.watches[w]
           taken == TakeTask(watch.currentTasks, order)
           done == [name |-> taken.task.name, span |-> n - taken.task.start]
           key == <<watch.name, taken.task.name>>
           new == [watch EXCEPT !.currentTasks = taken.rest, !.completedTasks = Append(watch.completedTasks, done)]
           sums == _addToSummary(sw.summary, watch.name, done)
<1>1. watch \in Watches(names) /\ watch.currentTasks \in Seq(UnderWay)
  BY DEF Stopwatches, Watches
<1>2. Takes(watch.currentTasks, order, taken) /\ taken.task \in UnderWay /\ taken.rest \in Seq(UnderWay)
  <2>1. Takes(watch.currentTasks, order, taken)
    <3> HIDE DEF UnderWay
    <3> QED BY <1>1, TakenTask
  <2> HIDE DEF taken
  <2>2. QED
    BY <2>1 DEF Takes
<1> HIDE DEF taken
<1>3. done \in Done /\ done.span \in Int /\ done.name = taken.task.name
  BY <1>2 DEF UnderWay, Done
<1>4. new \in Watches(names) /\ new.name = watch.name /\ new.completedTasks = Append(watch.completedTasks, done)
      /\ new.currentTasks = taken.rest
  <2> HIDE DEF watch
  <2>1. watch.completedTasks \in Seq(Done)
    BY <1>1 DEF Watches
  <2>2. Append(watch.completedTasks, done) \in Seq(Done)
    BY <1>3, <2>1
  <2>3. QED
    BY <1>1, <1>2, <2>2 DEF Watches
<1>5. sw.summary \in Summaries(names) /\ key \in WatchNames(names) \X TaskNames /\ key = <<watch.name, done.name>>
  BY <1>1, <1>2, <1>3 DEF Stopwatches, Watches, UnderWay
<1>6. PICK keys \in SUBSET (WatchNames(names) \X TaskNames) : sw.summary \in [keys -> Int]
  BY <1>5 DEF Summaries
<1>7. \A k : sumSpan(sw.summary, k) \in Int /\ sumSpan(sw.summary, k) = IF k \in keys THEN sw.summary[k] ELSE 0
  BY <1>6 DEF sumSpan
<1>8. sums = [k \in {key} \cup keys |-> IF k = key THEN sumSpan(sw.summary, key) + done.span ELSE sw.summary[k]]
  <2>1. DOMAIN sw.summary = keys
    BY <1>6
  <2>2. QED
    BY <1>5, <2>1 DEF _addToSummary, WithTotal
<1> HIDE DEF sums, new, watch
<1>9. sums \in [{key} \cup keys -> Int] /\ {key} \cup keys \in SUBSET (WatchNames(names) \X TaskNames)
  BY <1>3, <1>5, <1>6, <1>7, <1>8
<1>10. sums \in Summaries(names)
  BY <1>9 DEF Summaries
<1>11. r = [sw EXCEPT !.watches = [sw.watches EXCEPT ![w] = new], !.summary = sums]
  BY DEF _stop, new, sums, watch, Stopwatches, taken
<1> HIDE DEF r, done, key
<1>12. r \in Stopwatches(names) /\ r.active = sw.active /\ r.summary = sums
       /\ r.watches = [sw.watches EXCEPT ![w] = new] /\ sw.watches \in [1..Len(names) -> Watches(names)]
  BY <1>4, <1>10, <1>11 DEF Stopwatches
<1>13. r.watches[w] = new /\ \A v \in 1..Len(names) : v # w => r.watches[v] = sw.watches[v]
  BY <1>12
<1>14. ASSUME NEW k PROVE sumSpan(r.summary, k) = sumSpan(sw.summary, k) + (IF k = key THEN done.span ELSE 0)
  <2>1. sumSpan(sums, k) = IF k \in {key} \cup keys THEN sums[k] ELSE 0
    BY <1>9 DEF sumSpan
  <2>2. CASE k = key
    BY <1>8, <1>12, <2>1, <2>2
  <2>3. CASE k # key
    <3>1. sumSpan(sums, k) = IF k \in keys THEN sw.summary[k] ELSE 0
      BY <1>8, <2>1, <2>3
    <3>2. QED
      BY <1>7, <1>12, <2>3, <3>1
  <2>4. QED
    BY <2>2, <2>3
<1>15. OnlyChanges(names, sw, w, r)
  BY <1>4, <1>12, <1>13 DEF watch, OnlyChanges
<1>16. Totals(sw, r, key, done.span)
  BY <1>14 DEF Totals
<1>17. done.span = n - taken.task.start
  BY DEF done
<1>18. Stopped(names, sw, w, n, order, r)
  BY <1>2, <1>3, <1>4, <1>5, <1>13, <1>15, <1>16, <1>17 DEF watch, Stopped
<1>19. QED
  BY <1>18 DEF r

LEMMA SumNotNegative == ASSUME NEW s \in Seq(Int), \A k \in 1..Len(s) : s[k] >= 0 PROVE SumOf(s) \in Int /\ SumOf(s) >= 0
<1> DEFINE L == Len(s)
<1>1. PICK g \in [0..L -> Int] : g[0] = 0 /\ (\A k \in 1..L : g[k] = g[k - 1] + s[k]) /\ SumOf(s) = g[L]
  BY SumGrows
<1>2. L \in Nat /\ \A k \in 1..L : s[k] \in Int /\ s[k] >= 0
  OBVIOUS
<1> HIDE DEF L
<1> DEFINE T == {k \in Nat : k <= L => g[k] >= 0}
<1>3. 0 \in T
  BY <1>1
<1>4. ASSUME NEW k \in Nat, k \in T PROVE k + 1 \in T
  <2>1. SUFFICES ASSUME k + 1 <= L PROVE g[k + 1] >= 0
    OBVIOUS
  <2>2. k + 1 \in 1..L /\ (k + 1) - 1 = k /\ k <= L /\ k \in 0..L
    BY <1>2, <2>1
  <2>3. g[k + 1] = g[k] + s[k + 1] /\ g[k] \in Int /\ g[k] >= 0
    BY <1>1, <1>4, <2>2
  <2>4. QED
    BY <1>2, <2>2, <2>3
<1>5. Nat \subseteq T
  <2> HIDE DEF T
  <2> QED BY <1>3, <1>4, NatInduct
<1>6. L \in T /\ L \in 0..L
  BY <1>2, <1>5
<1>7. QED
  BY <1>1, <1>6

\* What the tasks under way began at adds up to.
Starts(tasks) == SumOf([i \in 1..Len(tasks) |-> tasks[i].start])

\* A watch's completed time less when its tasks under way began.
Balance(watch) == AllSpans(watch.completedTasks) - Starts(watch.currentTasks)

LEMMA SpansOfOneMore ==
    ASSUME NEW tasks \in Seq(Done), NEW done \in Done, NEW name
    PROVE  /\ SpansOf(tasks, name) \in Int
           /\ SpansOf(Append(tasks, done), name) = SpansOf(tasks, name) + (IF done.name = name THEN done.span ELSE 0)
<1> DEFINE span(t) == IF t.name = name THEN t.span ELSE 0
           more == Append(tasks, done)
           s == [i \in 1..Len(tasks) |-> span(tasks[i])]
           t == [i \in 1..Len(more) |-> span(more[i])]
<1>1. \A d \in Done : span(d) \in Int
  BY DEF Done
<1>2. more \in Seq(Done) /\ Len(more) = Len(tasks) + 1 /\ Len(tasks) \in Nat /\ more[Len(more)] = done
      /\ \A i \in 1..Len(tasks) : more[i] = tasks[i] /\ tasks[i] \in Done
  OBVIOUS
<1> HIDE DEF more
<1>3. \A i \in 1..Len(more) : more[i] \in Done
  BY <1>2
<1> HIDE DEF span
<1>4. s \in Seq(Int) /\ Len(s) = Len(tasks)
  BY <1>1, <1>2
<1>5. t \in Seq(Int) /\ Len(t) = Len(more)
  BY <1>1, <1>2, <1>3
<1>6. \A i \in 1..Len(s) : t[i] = s[i]
  BY <1>2, <1>4
<1>7. t[Len(t)] = span(done)
  BY <1>2, <1>5
<1>8. SpansOf(tasks, name) = SumOf(s) /\ SpansOf(more, name) = SumOf(t)
  BY DEF SpansOf, span
<1> HIDE DEF s, t
<1>9. SumOf(t) = SumOf(s) + t[Len(t)] /\ SumOf(s) \in Int
  BY <1>2, <1>4, <1>5, <1>6, SumOfAppended
<1>10. QED
  BY <1>7, <1>8, <1>9 DEF span, more

LEMMA AllSpansOfOneMore ==
    ASSUME NEW tasks \in Seq(Done), NEW done \in Done
    PROVE  AllSpans(tasks) \in Int /\ AllSpans(Append(tasks, done)) = AllSpans(tasks) + done.span
<1> DEFINE more == Append(tasks, done)
           s == [i \in 1..Len(tasks) |-> tasks[i].span]
           t == [i \in 1..Len(more) |-> more[i].span]
<1>1. \A d \in Done : d.span \in Int
  BY DEF Done
<1>2. more \in Seq(Done) /\ Len(more) = Len(tasks) + 1 /\ Len(tasks) \in Nat /\ more[Len(more)] = done
      /\ \A i \in 1..Len(tasks) : more[i] = tasks[i] /\ tasks[i] \in Done
  OBVIOUS
<1> HIDE DEF more
<1>3. \A i \in 1..Len(more) : more[i] \in Done
  BY <1>2
<1>4. s \in Seq(Int) /\ Len(s) = Len(tasks)
  BY <1>1, <1>2
<1>5. t \in Seq(Int) /\ Len(t) = Len(more)
  BY <1>1, <1>2, <1>3
<1>6. \A i \in 1..Len(s) : t[i] = s[i]
  BY <1>2, <1>4
<1>7. t[Len(t)] = done.span
  BY <1>2, <1>5
<1>8. AllSpans(tasks) = SumOf(s) /\ AllSpans(more) = SumOf(t)
  BY DEF AllSpans
<1> HIDE DEF s, t
<1>9. SumOf(t) = SumOf(s) + t[Len(t)] /\ SumOf(s) \in Int
  BY <1>2, <1>4, <1>5, <1>6, SumOfAppended
<1>10. QED
  BY <1>7, <1>8, <1>9 DEF more

LEMMA StartsOfOneMore ==
    ASSUME NEW tasks \in Seq(UnderWay), NEW more \in Seq(UnderWay), NEW task, Len(more) = Len(tasks) + 1,
           \/ task = more[Len(more)] /\ \A i \in 1..Len(tasks) : tasks[i] = more[i]
           \/ task = more[1] /\ \A i \in 1..Len(tasks) : tasks[i] = more[i + 1]
    PROVE  Starts(tasks) \in Int /\ Starts(more) = Starts(tasks) + task.start /\ task.start \in Int
<1> DEFINE s == [i \in 1..Len(tasks) |-> tasks[i].start]
           t == [i \in 1..Len(more) |-> more[i].start]
<1>1. \A d \in UnderWay : d.start \in Int
  BY DEF UnderWay
<1>2. Len(tasks) \in Nat /\ \A i \in 1..Len(tasks) : tasks[i] \in UnderWay
  OBVIOUS
<1>3. \A i \in 1..Len(more) : more[i] \in UnderWay
  OBVIOUS
<1>4. s \in Seq(Int) /\ Len(s) = Len(tasks)
  BY <1>1, <1>2
<1>5. t \in Seq(Int) /\ Len(t) = Len(more)
  BY <1>1, <1>2, <1>3
<1>6. Starts(tasks) = SumOf(s) /\ Starts(more) = SumOf(t)
  BY DEF Starts
<1>7. CASE task = more[Len(more)] /\ \A i \in 1..Len(tasks) : tasks[i] = more[i]
  <2>1. \A i \in 1..Len(s) : t[i] = s[i]
    BY <1>2, <1>4, <1>7
  <2>2. t[Len(t)] = task.start /\ task.start \in Int
    BY <1>1, <1>2, <1>3, <1>5, <1>7
  <2> HIDE DEF s, t
  <2>3. SumOf(t) = SumOf(s) + t[Len(t)] /\ SumOf(s) \in Int
    BY <1>2, <1>4, <1>5, <2>1, SumOfAppended
  <2>4. QED
    BY <1>6, <2>2, <2>3
<1>8. CASE task = more[1] /\ \A i \in 1..Len(tasks) : tasks[i] = more[i + 1]
  <2>1. \A i \in 1..Len(s) : s[i] = t[i + 1]
    BY <1>2, <1>4, <1>8
  <2>2. t[1] = task.start /\ task.start \in Int
    BY <1>1, <1>2, <1>3, <1>5, <1>8
  <2> HIDE DEF s, t
  <2>3. SumOf(t) = t[1] + SumOf(s) /\ SumOf(s) \in Int
    BY <1>2, <1>4, <1>5, <2>1, SumOfRest
  <2>4. QED
    BY <1>6, <2>2, <2>3
<1>9. QED
  BY <1>7, <1>8

CompletedMoves(sw, w, r, key) ==
    /\ Completed(sw, key) \in Int
    /\ Completed(r, key) = Completed(sw, key)
         + (IF sw.watches[w].name = key[1]
            THEN SpansOf(r.watches[w].completedTasks, key[2]) - SpansOf(sw.watches[w].completedTasks, key[2]) ELSE 0)

\* One watch changed, what is completed changes by as much as on that watch.
LEMMA CompletedOnOneWatch ==
    ASSUME NEW names, Len(names) \in Nat, NEW sw, NEW r, NEW w, OnlyChanges(names, sw, w, r), NEW key
    PROVE  CompletedMoves(sw, w, r, key)
<1> DEFINE L == Len(names)
           Part(watch) == IF watch.name = key[1] THEN SpansOf(watch.completedTasks, key[2]) ELSE 0
           s == [v \in DOMAIN sw.watches |-> Part(sw.watches[v])]
           t == [v \in DOMAIN r.watches |-> Part(r.watches[v])]
<1>1. /\ DOMAIN sw.watches = 1..L /\ DOMAIN r.watches = 1..L /\ L \in Nat
      /\ w \in 1..L /\ r.watches[w].name = sw.watches[w].name
      /\ \A v \in 1..L : sw.watches[v] \in Watches(names) /\ r.watches[v] \in Watches(names)
      /\ \A v \in 1..L : v # w => r.watches[v] = sw.watches[v]
  BY DEF Stopwatches, OnlyChanges
<1>2. ASSUME NEW watch \in Watches(names) PROVE Part(watch) \in Int
  <2>1. watch.completedTasks \in Seq(Done)
    BY DEF Watches
  <2>2. SpansOf(watch.completedTasks, key[2]) \in Int
    <3>1. CASE Done = {}
      <4>1. watch.completedTasks = <<>>
        BY <2>1, <3>1
      <4> DEFINE s0 == [i \in 1..0 |-> IF <<>>[i].name = key[2] THEN <<>>[i].span ELSE 0]
      <4>2. SpansOf(<<>>, key[2]) = SumOf(s0) /\ s0 = <<>>
        BY DEF SpansOf
      <4>3. QED
        BY <4>1, <4>2, SumOfNone
    <3>2. CASE Done # {}
      BY <2>1, <3>2, SpansOfOneMore
    <3>3. QED
      BY <3>1, <3>2
  <2>3. QED
    BY <2>2
<1>3. Completed(sw, key) = SumOf(s) /\ Completed(r, key) = SumOf(t)
  BY DEF Completed
<1> HIDE DEF Part
<1>4. s \in Seq(Int) /\ Len(s) = L /\ t \in Seq(Int) /\ Len(t) = L
  BY <1>1, <1>2
<1>5. \A v \in 1..L : s[v] = Part(sw.watches[v]) /\ t[v] = Part(r.watches[v])
  BY <1>1
<1> HIDE DEF s, t
<1> HIDE DEF L
<1>6. SumOf(t) = SumOf(s) + (t[w] - s[w]) /\ SumOf(s) \in Int
  <2>1. \A v \in 1..Len(s) : v # w => t[v] = s[v]
    BY <1>1, <1>4, <1>5
  <2>2. w \in 1..Len(s) /\ Len(t) = Len(s)
    BY <1>1, <1>4
  <2>3. QED
    BY <1>4, <2>1, <2>2, SumOfChanged
<1>7. t[w] - s[w] = (IF sw.watches[w].name = key[1]
                   THEN SpansOf(r.watches[w].completedTasks, key[2]) - SpansOf(sw.watches[w].completedTasks, key[2]) ELSE 0)
  <2>1. s[w] = Part(sw.watches[w]) /\ t[w] = Part(r.watches[w]) /\ r.watches[w].name = sw.watches[w].name
    BY <1>1, <1>5
  <2>2. QED
    BY <2>1 DEF Part
<1>8. QED
  BY <1>3, <1>6, <1>7 DEF CompletedMoves

\* Of no tasks there is nothing to add up.
LEMMA NoSpans == AllSpans(<<>>) = 0 /\ Starts(<<>>) = 0 /\ \A name : SpansOf(<<>>, name) = 0
<1>1. [i \in 1..0 |-> <<>>[i].span] = <<>> /\ [i \in 1..0 |-> <<>>[i].start] = <<>>
      /\ \A name : [i \in 1..0 |-> IF <<>>[i].name = name THEN <<>>[i].span ELSE 0] = <<>>
  OBVIOUS
<1>2. Len(<<>>) = 0
  OBVIOUS
<1>3. QED
  BY <1>1, <1>2, SumOfNone DEF SpansOf, AllSpans, Starts

LEMMA SpansAreCounted == ASSUME NEW tasks \in Seq(Done) PROVE AllSpans(tasks) \in Int /\ \A name : SpansOf(tasks, name) \in Int
<1>1. CASE Done = {}
  <2>1. tasks = <<>>
    BY <1>1
  <2>2. QED
    BY <2>1, NoSpans
<1>2. CASE Done # {}
  BY <1>2, SpansOfOneMore, AllSpansOfOneMore
<1>3. QED
  BY <1>1, <1>2

LEMMA SpansNotNegative ==
    ASSUME NEW tasks \in Seq(Done), \A i \in 1..Len(tasks) : tasks[i].span >= 0, NEW name
    PROVE  SpansOf(tasks, name) \in Int /\ SpansOf(tasks, name) >= 0
<1> DEFINE s == [i \in 1..Len(tasks) |-> IF tasks[i].name = name THEN tasks[i].span ELSE 0]
<1>1. \A i \in 1..Len(tasks) : tasks[i].span \in Int
  <2>1. \A i \in 1..Len(tasks) : tasks[i] \in Done
    OBVIOUS
  <2>2. QED
    BY <2>1 DEF Done
<1>2. s \in Seq(Int) /\ Len(s) = Len(tasks) /\ \A i \in 1..Len(s) : s[i] >= 0
  BY <1>1
<1>3. SpansOf(tasks, name) = SumOf(s)
  BY DEF SpansOf
<1> HIDE DEF s
<1>4. QED
  BY <1>2, <1>3, SumNotNegative

\* Nothing began after n, nothing took less than no time, and the summary is short of
\* nothing that is completed, nor over it unless a watch was cleaned.
NothingLost(names, sw, n, cleaned) ==
    /\ sw \in Stopwatches(names)
    /\ \A w \in 1..Len(names) :
          /\ \A i \in 1..Len(sw.watches[w].currentTasks) : sw.watches[w].currentTasks[i].start <= n
          /\ \A i \in 1..Len(sw.watches[w].completedTasks) : sw.watches[w].completedTasks[i].span >= 0
    /\ \A name, task : LET key == <<name, task>>
                       IN  /\ sumSpan(sw.summary, key) \in Int /\ Completed(sw, key) \in Int
                           /\ sumSpan(sw.summary, key) >= Completed(sw, key)
                           /\ ~cleaned => sumSpan(sw.summary, key) = Completed(sw, key)

LEMMA StartLosesNothing ==
    ASSUME NEW names, Len(names) \in Nat, NEW n \in Int, NEW cleaned \in BOOLEAN, NEW sw, NothingLost(names, sw, n, cleaned),
           NEW w \in 1..Len(names), NEW task \in TaskNames
    PROVE  NothingLost(names, _start(sw, w, task, n), n, cleaned)
<1> DEFINE r == _start(sw, w, task, n)
<1> HIDE DEF r
<1>0. sw \in Stopwatches(names)
  BY DEF NothingLost
<1> DEFINE begun == [name |-> task, start |-> n]
           tasks == sw.watches[w].currentTasks
<1>1. /\ OnlyChanges(names, sw, w, r) /\ r.summary = sw.summary
      /\ r.watches[w].completedTasks = sw.watches[w].completedTasks
      /\ r.watches[w].currentTasks = Append(tasks, begun)
  <2>1. Begun(names, sw, w, task, n, r)
    BY <1>0, StartedTask DEF r
  <2>2. QED
    BY <2>1 DEF Begun
<1>2. ASSUME NEW key PROVE Completed(r, key) = Completed(sw, key)
  <2>1. sw.watches[w].completedTasks \in Seq(Done)
    BY <1>0 DEF Stopwatches, Watches
  <2>2. SpansOf(sw.watches[w].completedTasks, key[2]) \in Int
    BY <2>1, SpansAreCounted
  <2>3. QED
    <3>1. CompletedMoves(sw, w, r, key)
      BY <1>1, CompletedOnOneWatch
    <3>2. QED
      BY <1>1, <2>2, <3>1 DEF CompletedMoves
<1>3. \A i \in 1..Len(Append(tasks, begun)) : Append(tasks, begun)[i].start <= n
  <2>1. tasks \in Seq(UnderWay) /\ begun.start = n
    BY <1>0 DEF Stopwatches, Watches
  <2>2. \A i \in 1..Len(tasks) : tasks[i].start <= n
    BY DEF NothingLost
  <2> HIDE DEF tasks, begun
  <2>3. \A i \in 1..Len(Append(tasks, begun)) :
           \/ i \in 1..Len(tasks) /\ Append(tasks, begun)[i] = tasks[i]
           \/ Append(tasks, begun)[i] = begun
    BY <2>1
  <2>4. QED
    BY <2>1, <2>2, <2>3
<1> HIDE DEF tasks, begun
<1>4. ASSUME NEW v \in 1..Len(names)
      PROVE  /\ \A i \in 1..Len(r.watches[v].currentTasks) : r.watches[v].currentTasks[i].start <= n
             /\ \A i \in 1..Len(r.watches[v].completedTasks) : r.watches[v].completedTasks[i].span >= 0
  <2>1. CASE v = w
    BY <1>1, <1>3, <2>1 DEF NothingLost
  <2>2. CASE v # w
    BY <1>1, <2>2 DEF NothingLost, OnlyChanges
  <2>3. QED
    BY <2>1, <2>2
<1>5. r \in Stopwatches(names)
  BY <1>1 DEF OnlyChanges
<1>6. QED
  BY <1>1, <1>2, <1>4, <1>5 DEF NothingLost, r

LEMMA StopLosesNothing ==
    ASSUME NEW names, Len(names) \in Nat, NEW n \in Int, NEW cleaned \in BOOLEAN, NEW sw, NothingLost(names, sw, n, cleaned),
           NEW w \in 1..Len(names), NEW order \in Orders
    PROVE  NothingLost(names, _stop(sw, w, n, order), n, cleaned)
<1> DEFINE r == _stop(sw, w, n, order)
<1> HIDE DEF r
<1> DEFINE tasks == sw.watches[w].currentTasks
<1>1. CASE tasks = <<>>
  BY <1>1 DEF _stop, r
<1>2. CASE tasks # <<>>
  <2>0. sw \in Stopwatches(names) /\ tasks \in Seq(UnderWay) /\ sw.watches[w].completedTasks \in Seq(Done)
    <3>1. sw \in Stopwatches(names)
      BY DEF NothingLost
    <3>2. QED
      BY <3>1 DEF Stopwatches, Watches
  <2>1. Stopped(names, sw, w, n, order, r)
    <3> HIDE DEF tasks
    <3> QED BY <1>2, <2>0, StoppedTask DEF tasks, r
  <2>2. PICK taken : \E done \in Done :
             /\ OnlyChanges(names, sw, w, r) /\ Takes(tasks, order, taken)
             /\ done.name = taken.task.name /\ done.span = n - taken.task.start
             /\ r.watches[w].completedTasks = Append(sw.watches[w].completedTasks, done)
             /\ r.watches[w].currentTasks = taken.rest
             /\ Totals(sw, r, <<sw.watches[w].name, done.name>>, done.span)
    BY <2>1 DEF Stopped
  <2>3. PICK done \in Done :
             /\ OnlyChanges(names, sw, w, r) /\ Takes(tasks, order, taken)
             /\ done.name = taken.task.name /\ done.span = n - taken.task.start
             /\ r.watches[w].completedTasks = Append(sw.watches[w].completedTasks, done)
             /\ r.watches[w].currentTasks = taken.rest
             /\ Totals(sw, r, <<sw.watches[w].name, done.name>>, done.span)
    BY <2>2
  <2> DEFINE before == sw.watches[w].completedTasks
  <2>4. taken.task.start \in Int /\ taken.task.start <= n /\ \A i \in 1..Len(taken.rest) : taken.rest[i].start <= n
    <3>1. \A i \in 1..Len(tasks) : tasks[i].start <= n
      BY DEF NothingLost
    <3> HIDE DEF tasks
    <3>2. Len(tasks) \in 1..Len(tasks) /\ 1 \in 1..Len(tasks)
          /\ \A i \in 1..Len(taken.rest) : i \in 1..Len(tasks) /\ i + 1 \in 1..Len(tasks)
      BY <2>3 DEF Takes
    <3>3. taken.task.start \in Int
      BY <2>3 DEF Takes, UnderWay
    <3>4. QED
      BY <2>3, <3>1, <3>2, <3>3 DEF Takes
  <2>5. done.span \in Int /\ done.span >= 0
    BY <2>3, <2>4
  <2>6. \A i \in 1..Len(Append(before, done)) : Append(before, done)[i].span >= 0
    <3>1. \A i \in 1..Len(before) : before[i].span >= 0
      BY DEF NothingLost
    <3> HIDE DEF before
    <3>2. before \in Seq(Done)
      BY <2>0 DEF before
    <3>3. \A i \in 1..Len(Append(before, done)) :
             \/ i \in 1..Len(before) /\ Append(before, done)[i] = before[i]
             \/ Append(before, done)[i] = done
      BY <3>2
    <3>4. QED
      BY <2>5, <3>1, <3>3
  <2> HIDE DEF before, tasks
  <2>7. ASSUME NEW name, NEW task, NEW key, key = <<name, task>>
        PROVE  /\ Completed(r, key) \in Int /\ sumSpan(r.summary, key) \in Int
               /\ sumSpan(r.summary, key) >= Completed(r, key)
               /\ ~cleaned => sumSpan(r.summary, key) = Completed(r, key)
    <3> DEFINE more == IF sw.watches[w].name = name /\ done.name = task THEN done.span ELSE 0
    <3>1. SpansOf(Append(before, done), task) = SpansOf(before, task) + (IF done.name = task THEN done.span ELSE 0)
          /\ SpansOf(before, task) \in Int
      BY <2>0, SpansOfOneMore DEF before
    <3>2. Completed(r, key) = Completed(sw, key)
                + (IF sw.watches[w].name = key[1]
                   THEN SpansOf(r.watches[w].completedTasks, key[2]) - SpansOf(sw.watches[w].completedTasks, key[2]) ELSE 0)
          /\ Completed(sw, key) \in Int
      <4>1. CompletedMoves(sw, w, r, key)
        BY <2>3, CompletedOnOneWatch
      <4>2. QED
        BY <4>1 DEF CompletedMoves
    <3>3. Completed(r, key) = Completed(sw, key) + more
      <4>1. key[1] = name /\ key[2] = task
        BY <2>7
      <4>2. CASE sw.watches[w].name = name
        BY <2>3, <2>5, <3>1, <3>2, <4>1, <4>2 DEF before
      <4>3. CASE sw.watches[w].name # name
        BY <2>3, <2>5, <3>1, <3>2, <4>1, <4>3 DEF before
      <4>4. QED
        BY <4>2, <4>3
    <3>4. sumSpan(r.summary, key) = sumSpan(sw.summary, key) + more
      BY <2>3, <2>7 DEF Totals
    <3>5. more \in Int
      BY <2>5
    <3>6. /\ sumSpan(sw.summary, key) \in Int /\ Completed(sw, key) \in Int
          /\ sumSpan(sw.summary, key) >= Completed(sw, key)
          /\ ~cleaned => sumSpan(sw.summary, key) = Completed(sw, key)
      BY <2>7 DEF NothingLost
    <3> HIDE DEF more
    <3>7. QED
      BY <3>3, <3>4, <3>5, <3>6
  <2>8. ASSUME NEW v \in 1..Len(names)
        PROVE  /\ \A i \in 1..Len(r.watches[v].currentTasks) : r.watches[v].currentTasks[i].start <= n
               /\ \A i \in 1..Len(r.watches[v].completedTasks) : r.watches[v].completedTasks[i].span >= 0
    <3>1. CASE v = w
      BY <2>3, <2>4, <2>6, <3>1 DEF before
    <3>2. CASE v # w
      BY <2>3, <3>2 DEF NothingLost, OnlyChanges
    <3>3. QED
      BY <3>1, <3>2
  <2>9. r \in Stopwatches(names)
    BY <2>3 DEF OnlyChanges
  <2>10. QED
    BY <2>7, <2>8, <2>9 DEF NothingLost, r
<1>3. QED
  BY <1>1, <1>2 DEF r

LEMMA CleanLosesNothing ==
    ASSUME NEW names, Len(names) \in Nat, NEW n \in Int, NEW cleaned \in BOOLEAN, NEW sw, NothingLost(names, sw, n, cleaned),
           NEW w \in 1..Len(names)
    PROVE  NothingLost(names, CleanOf(sw, w), n, TRUE)
<1> DEFINE r == CleanOf(sw, w)
<1> HIDE DEF r
<1>0. sw \in Stopwatches(names)
  BY DEF NothingLost
<1>1. /\ OnlyChanges(names, sw, w, r) /\ r.summary = sw.summary
      /\ r.watches[w].completedTasks = <<>> /\ r.watches[w].currentTasks = <<>>
  <2>1. Cleaned(names, sw, w, r)
    BY <1>0, CleanedWatch DEF r
  <2>2. QED
    BY <2>1 DEF Cleaned
<1> DEFINE before == sw.watches[w].completedTasks
<1>2. before \in Seq(Done) /\ \A i \in 1..Len(before) : before[i].span >= 0
  <2>1. before \in Seq(Done)
    BY <1>0 DEF Stopwatches, Watches
  <2>2. QED
    BY <2>1 DEF NothingLost
<1> HIDE DEF before
<1>3. ASSUME NEW name, NEW task, NEW key, key = <<name, task>>
      PROVE  /\ Completed(r, key) \in Int /\ sumSpan(r.summary, key) \in Int
             /\ sumSpan(r.summary, key) >= Completed(r, key)
  <2>1. SpansOf(before, key[2]) \in Int /\ SpansOf(before, key[2]) >= 0 /\ SpansOf(<<>>, key[2]) = 0
    BY <1>2, SpansNotNegative, NoSpans
  <2>2. Completed(r, key) = Completed(sw, key)
              + (IF sw.watches[w].name = key[1]
                 THEN SpansOf(r.watches[w].completedTasks, key[2]) - SpansOf(sw.watches[w].completedTasks, key[2]) ELSE 0)
        /\ Completed(sw, key) \in Int
    <3>1. CompletedMoves(sw, w, r, key)
      BY <1>1, CompletedOnOneWatch
    <3>2. QED
      BY <3>1 DEF CompletedMoves
  <2>3. Completed(r, key) \in Int /\ Completed(r, key) <= Completed(sw, key)
    BY <1>1, <2>1, <2>2 DEF before
  <2>4. sumSpan(sw.summary, key) \in Int /\ sumSpan(sw.summary, key) >= Completed(sw, key)
    BY <1>3 DEF NothingLost
  <2>5. QED
    BY <1>1, <2>2, <2>3, <2>4
<1>4. ASSUME NEW v \in 1..Len(names)
      PROVE  /\ \A i \in 1..Len(r.watches[v].currentTasks) : r.watches[v].currentTasks[i].start <= n
             /\ \A i \in 1..Len(r.watches[v].completedTasks) : r.watches[v].completedTasks[i].span >= 0
  <2>1. CASE v = w
    BY <1>1, <2>1
  <2>2. CASE v # w
    BY <1>1, <2>2 DEF NothingLost, OnlyChanges
  <2>3. QED
    BY <2>1, <2>2
<1>5. r \in Stopwatches(names)
  BY <1>1 DEF OnlyChanges
<1>6. QED
  BY <1>3, <1>4, <1>5 DEF NothingLost, r

\* The calls a stopwatch of these names takes.
CallFits(names, c) ==
    /\ c.do \notin {"on", "off"} => c.w \in 1..Len(names)
    /\ c.do \in {"start", "next"} => c.task \in TaskNames

\* What a call may do, by what it asks for.
MayDo(sw, c, n, order, r) ==
    \/ r = sw
    \/ c.do \in {"on", "off"} /\ \E b \in BOOLEAN : r = [sw EXCEPT !.active = b]
    \/ c.do = "clean" /\ r = CleanOf(sw, c.w)
    \/ c.do = "start" /\ r = _start(sw, c.w, c.task, n)
    \/ c.do \in {"stop", "dump", "dumpIf"} /\ r = _stop(sw, c.w, n, order)
    \/ c.do = "next" /\ r = _start(_stop(sw, c.w, n, order), c.w, c.task, n)

LEMMA CalledIs == ASSUME NEW sw, NEW c, NEW n, NEW order PROVE MayDo(sw, c, n, order, Called(sw, c, n, order))
  BY DEF Called, MayDo, CleanOf

LEMMA CallLosesNothing ==
    ASSUME NEW names, Len(names) \in Nat, NEW n \in Int, NEW cleaned \in BOOLEAN, NEW sw, NothingLost(names, sw, n, cleaned),
           NEW c, CallFits(names, c), c.do = "clean" => cleaned, NEW order \in Orders
    PROVE  NothingLost(names, Called(sw, c, n, order), n, cleaned)
<1> DEFINE r == Called(sw, c, n, order)
<1> HIDE DEF r
<1>1. MayDo(sw, c, n, order, r)
  BY CalledIs DEF r
<1>2. ASSUME \E b \in BOOLEAN : r = [sw EXCEPT !.active = b]
      PROVE  NothingLost(names, r, n, cleaned)
  <2>1. PICK b \in BOOLEAN : r = [sw EXCEPT !.active = b]
    BY <1>2
  <2>2. r \in Stopwatches(names) /\ r.watches = sw.watches /\ r.summary = sw.summary
    BY <2>1 DEF NothingLost, Stopwatches
  <2>3. \A key : Completed(r, key) = Completed(sw, key)
    BY <2>2 DEF Completed
  <2>4. QED
    BY <2>2, <2>3 DEF NothingLost
<1>3. ASSUME c.do = "clean" /\ r = CleanOf(sw, c.w)
      PROVE  NothingLost(names, r, n, cleaned)
  <2>1. c.w \in 1..Len(names) /\ cleaned = TRUE
    BY <1>3 DEF CallFits
  <2>2. NothingLost(names, r, n, TRUE)
    BY <1>3, <2>1, CleanLosesNothing
  <2>3. QED
    BY <2>1, <2>2
<1>4. ASSUME c.do = "start" /\ r = _start(sw, c.w, c.task, n)
      PROVE  NothingLost(names, r, n, cleaned)
  <2>1. c.w \in 1..Len(names) /\ c.task \in TaskNames
    BY <1>4 DEF CallFits
  <2>2. QED
    BY <1>4, <2>1, StartLosesNothing
<1>5. ASSUME c.do \in {"stop", "dump", "dumpIf"} /\ r = _stop(sw, c.w, n, order)
      PROVE  NothingLost(names, r, n, cleaned)
  <2>1. c.w \in 1..Len(names)
    BY <1>5 DEF CallFits
  <2>2. QED
    BY <1>5, <2>1, StopLosesNothing
<1>6. ASSUME c.do = "next" /\ r = _start(_stop(sw, c.w, n, order), c.w, c.task, n)
      PROVE  NothingLost(names, r, n, cleaned)
  <2>1. c.w \in 1..Len(names) /\ c.task \in TaskNames
    BY <1>6 DEF CallFits
  <2>2. NothingLost(names, _stop(sw, c.w, n, order), n, cleaned)
    BY <2>1, StopLosesNothing
  <2>3. QED
    BY <1>6, <2>1, <2>2, StartLosesNothing
<1>7. NothingLost(names, r, n, cleaned)
  BY <1>1, <1>2, <1>3, <1>4, <1>5, <1>6 DEF MayDo
<1>8. QED
  BY <1>7 DEF r

LEMMA CallKeepsType ==
    ASSUME NEW names, NEW sw \in Stopwatches(names), NEW c, CallFits(names, c), NEW n \in Int, NEW order \in Orders
    PROVE  Called(sw, c, n, order) \in Stopwatches(names)
<1> DEFINE r == Called(sw, c, n, order)
<1> HIDE DEF r
<1>1. MayDo(sw, c, n, order, r)
  BY CalledIs DEF r
<1>2. ASSUME NEW w \in 1..Len(names) PROVE _stop(sw, w, n, order) \in Stopwatches(names)
  <2>1. CASE sw.watches[w].currentTasks = <<>>
    BY <2>1 DEF _stop
  <2>2. CASE sw.watches[w].currentTasks # <<>>
    <3>1. Stopped(names, sw, w, n, order, _stop(sw, w, n, order))
      BY <2>2, StoppedTask
    <3>2. QED
      BY <3>1 DEF Stopped, OnlyChanges
  <2>3. QED
    BY <2>1, <2>2
<1>3. ASSUME NEW s \in Stopwatches(names), NEW w \in 1..Len(names), NEW task \in TaskNames
      PROVE  _start(s, w, task, n) \in Stopwatches(names)
  <2>1. Begun(names, s, w, task, n, _start(s, w, task, n))
    BY StartedTask
  <2>2. QED
    BY <2>1 DEF Begun, OnlyChanges
<1>4. ASSUME NEW w \in 1..Len(names) PROVE CleanOf(sw, w) \in Stopwatches(names)
  <2>1. Cleaned(names, sw, w, CleanOf(sw, w))
    BY CleanedWatch
  <2>2. QED
    BY <2>1 DEF Cleaned, OnlyChanges
<1>5. ASSUME NEW b \in BOOLEAN PROVE [sw EXCEPT !.active = b] \in Stopwatches(names)
  BY DEF Stopwatches
<1>6. c.do \notin {"on", "off"} => c.w \in 1..Len(names)
  BY DEF CallFits
<1>7. c.do \in {"start", "next"} => c.task \in TaskNames
  BY DEF CallFits
<1>8. r \in Stopwatches(names)
  BY <1>1, <1>2, <1>3, <1>4, <1>5, <1>6, <1>7 DEF MayDo
<1>9. QED
  BY <1>8 DEF r

LEMMA NewWatchesFit ==
    ASSUME NEW names, names \in Seq(WatchNames(names))
    PROVE  NewWatches(names) \in Stopwatches(names)
<1>1. DOMAIN names = 1..Len(names) /\ \A w \in 1..Len(names) : names[w] \in WatchNames(names)
  BY DEF WatchNames
<1>2. <<>> \in Seq(UnderWay) /\ <<>> \in Seq(Done)
  OBVIOUS
<1>3. \A w \in 1..Len(names) : NewWatch(names[w]) \in Watches(names)
  BY <1>1, <1>2 DEF NewWatch, Watches
<1>4. <<>> \in Summaries(names)
  <2>1. <<>> \in [{} -> Int]
    OBVIOUS
  <2>2. {} \in SUBSET (WatchNames(names) \X TaskNames)
    OBVIOUS
  <2>3. QED
    BY <2>1, <2>2 DEF Summaries
<1>5. QED
  BY <1>1, <1>3, <1>4 DEF NewWatches, Stopwatches

\* m is what one call after the other makes of new watches.
Follows(names, calls, order, m) ==
    m[0] = NewWatches(names) /\ \A n \in 1..Len(calls) : m[n] = Called(m[n - 1], calls[n], n, order)

LEMMA MeasuredFollows ==
    ASSUME NEW names, names \in Seq(WatchNames(names)), NEW calls, Len(calls) \in Nat,
           \A i \in 1..Len(calls) : CallFits(names, calls[i]), NEW order \in Orders
    PROVE  Follows(names, calls, order, Measured(names, calls, order))
<1> DEFINE L == Len(calls)
           S == Stopwatches(names)
           step == [x \in Nat \X S |-> IF x[1] + 1 \in 1..L THEN Called(x[2], calls[x[1] + 1], x[1] + 1, order) ELSE x[2]]
           Body(p) == [n \in 0..L |-> IF n = 0 THEN NewWatches(names) ELSE Called(p[n - 1], calls[n], n, order)]
<1>0. L \in Nat /\ \A i \in 1..L : CallFits(names, calls[i])
  OBVIOUS
<1> HIDE DEF L
<1>1. NewWatches(names) \in S
  BY NewWatchesFit
<1>2. \A sw \in S, n \in Nat : n + 1 \in 1..L => Called(sw, calls[n + 1], n + 1, order) \in S
  <2> SUFFICES ASSUME NEW sw \in S, NEW n \in Nat, n + 1 \in 1..L PROVE Called(sw, calls[n + 1], n + 1, order) \in S
    OBVIOUS
  <2>1. CallFits(names, calls[n + 1]) /\ n + 1 \in Int
    BY <1>0
  <2>2. QED
    BY <2>1, CallKeepsType
<1> HIDE DEF S
<1>3. step \in [Nat \X S -> S]
  BY <1>2
<1>4. \A n \in Nat, sw \in S : n + 1 \in 1..L => step[<<n, sw>>] = Called(sw, calls[n + 1], n + 1, order)
  OBVIOUS
<1> HIDE DEF step
<1>5. PICK f \in [Nat -> S] : Iterates(f, NewWatches(names), step)
  BY <1>1, <1>3, NatRecursion
<1> DEFINE g == [n \in 0..L |-> f[n]]
<1>6. \A n \in 1..L : n - 1 \in Nat /\ (n - 1) + 1 = n /\ n - 1 \in 0..L /\ n \in 0..L /\ n # 0
  BY <1>0
<1>7. g[0] = NewWatches(names) /\ \A n \in 1..L : g[n] = Called(g[n - 1], calls[n], n, order)
  <2>1. g[0] = NewWatches(names)
    BY <1>0, <1>5 DEF Iterates
  <2>2. ASSUME NEW n \in 1..L PROVE g[n] = Called(g[n - 1], calls[n], n, order)
    <3>1. f[(n - 1) + 1] = step[<<n - 1, f[n - 1]>>]
      BY <1>5, <1>6 DEF Iterates
    <3>2. f[n - 1] \in S
      BY <1>5, <1>6
    <3>3. f[n] = Called(f[n - 1], calls[n], n, order)
      BY <1>4, <1>6, <3>1, <3>2
    <3>4. QED
      BY <1>6, <3>3
  <2>3. QED
    BY <2>1, <2>2
<1>8. g = Body(g)
  <2>1. \A n \in 0..L : n = 0 \/ n \in 1..L
    BY <1>0
  <2>2. \A n \in 0..L : g[n] = Body(g)[n]
    <3>1. \A n \in 0..L : Body(g)[n] = IF n = 0 THEN NewWatches(names) ELSE Called(g[n - 1], calls[n], n, order)
      OBVIOUS
    <3> HIDE DEF Body
    <3>2. QED
      BY <1>7, <2>1, <3>1
  <2>3. QED
    BY <2>2
<1> DEFINE m == CHOOSE p : p = Body(p)
<1>9. m = Body(m)
  <2> HIDE DEF Body
  <2> QED BY <1>8
<1>10. Measured(names, calls, order) = m
  BY DEF Measured, L
<1> HIDE DEF m
<1>11. \A n \in 0..L : m[n] = IF n = 0 THEN NewWatches(names) ELSE Called(m[n - 1], calls[n], n, order)
  BY <1>9
<1>12. QED
  BY <1>0, <1>6, <1>10, <1>11 DEF Follows, L

LEMMA SumOfZeros == ASSUME NEW s \in Seq(Int), \A k \in 1..Len(s) : s[k] = 0 PROVE SumOf(s) = 0
<1> DEFINE g == [k \in 0..Len(s) |-> 0]
<1>1. Len(s) \in Nat /\ \A k \in 1..Len(s) : k \in 0..Len(s) /\ k - 1 \in 0..Len(s)
  OBVIOUS
<1>2. g \in [0..Len(s) -> Int] /\ g[0] = 0 /\ g[Len(s)] = 0 /\ \A k \in 1..Len(s) : g[k] = g[k - 1] + s[k]
  BY <1>1
<1> HIDE DEF g
<1>3. QED
  BY <1>2, SumIs

LEMMA NewWatchesLoseNothing ==
    ASSUME NEW names, names \in Seq(WatchNames(names))
    PROVE  NothingLost(names, NewWatches(names), 0, FALSE)
<1> DEFINE sw == NewWatches(names)
<1>1. sw \in Stopwatches(names)
  BY NewWatchesFit
<1>2. DOMAIN names = 1..Len(names) /\ Len(names) \in Nat
  OBVIOUS
<1>3. sw.summary = <<>> /\ DOMAIN sw.watches = 1..Len(names)
      /\ \A w \in 1..Len(names) : sw.watches[w].currentTasks = <<>> /\ sw.watches[w].completedTasks = <<>>
  BY <1>2 DEF NewWatches, NewWatch
<1> HIDE DEF sw
<1>4. ASSUME NEW key PROVE Completed(sw, key) = 0 /\ sumSpan(sw.summary, key) = 0
  <2> DEFINE s == [w \in DOMAIN sw.watches |->
                     IF sw.watches[w].name = key[1] THEN SpansOf(sw.watches[w].completedTasks, key[2]) ELSE 0]
  <2>1. Completed(sw, key) = SumOf(s)
    BY DEF Completed
  <2>2. \A w \in 1..Len(names) : s[w] = 0
    BY <1>3, NoSpans
  <2>3. s \in Seq(Int) /\ Len(s) = Len(names)
    BY <1>2, <1>3, NoSpans
  <2> HIDE DEF s
  <2>4. SumOf(s) = 0
    BY <2>2, <2>3, SumOfZeros
  <2>5. sumSpan(sw.summary, key) = 0
    <3>1. DOMAIN sw.summary = {}
      BY <1>3
    <3>2. QED
      BY <3>1 DEF sumSpan
  <2>6. QED
    BY <2>1, <2>4, <2>5
<1>5. Len(<<>>) = 0
  OBVIOUS
<1>6. NothingLost(names, sw, 0, FALSE)
  BY <1>1, <1>3, <1>4, <1>5 DEF NothingLost
<1>7. QED
  BY <1>6 DEF sw

LEMMA MeasuresLoseNothing ==
    ASSUME NEW names, names \in Seq(WatchNames(names)), NEW calls, Len(calls) \in Nat,
           \A i \in 1..Len(calls) : CallFits(names, calls[i]), NEW order \in Orders,
           NEW m, Follows(names, calls, order, m), NEW cleaned \in BOOLEAN,
           \A i \in 1..Len(calls) : calls[i].do = "clean" => cleaned
    PROVE  \A n \in 0..Len(calls) : NothingLost(names, m[n], n, cleaned)
<1> DEFINE L == Len(calls)
           T == {n \in Nat : n <= L => NothingLost(names, m[n], n, cleaned)}
<1>0. L \in Nat /\ Len(names) \in Nat /\ \A i \in 1..L : CallFits(names, calls[i]) /\ (calls[i].do = "clean" => cleaned)
  OBVIOUS
<1>1. 0 \in T
  <2>1. NothingLost(names, m[0], 0, FALSE)
    BY NewWatchesLoseNothing DEF Follows
  <2>2. NothingLost(names, m[0], 0, cleaned)
    BY <2>1 DEF NothingLost
  <2>3. QED
    BY <2>2
<1>2. ASSUME NEW n \in Nat, n \in T PROVE n + 1 \in T
  <2>1. SUFFICES ASSUME n + 1 <= L PROVE NothingLost(names, m[n + 1], n + 1, cleaned)
    OBVIOUS
  <2>2. n + 1 \in 1..L /\ (n + 1) - 1 = n /\ n <= L /\ n + 1 \in Int /\ n + 1 >= n
    BY <1>0, <2>1
  <2>3. m[n + 1] = Called(m[n], calls[n + 1], n + 1, order)
    BY <2>2 DEF Follows
  <2>4. NothingLost(names, m[n], n, cleaned)
    BY <1>2, <2>2
  <2> DEFINE sw == m[n]
  <2> HIDE DEF sw
  <2>5. NothingLost(names, sw, n + 1, cleaned)
    <3>1. NothingLost(names, sw, n, cleaned)
      BY <2>4 DEF sw
    <3>2. ASSUME NEW w \in 1..Len(names), NEW i \in 1..Len(sw.watches[w].currentTasks)
          PROVE  sw.watches[w].currentTasks[i].start <= n + 1
      <4>1. sw.watches[w].currentTasks[i].start <= n
        BY <3>1 DEF NothingLost
      <4>2. sw.watches[w].currentTasks \in Seq(UnderWay)
        BY <3>1 DEF NothingLost, Stopwatches, Watches
      <4>3. sw.watches[w].currentTasks[i] \in UnderWay
        BY <4>2
      <4>4. sw.watches[w].currentTasks[i].start \in Int
        BY <4>3 DEF UnderWay
      <4>5. QED
        BY <2>2, <4>1, <4>4
    <3>3. QED
      BY <3>1, <3>2 DEF NothingLost
  <2>6. CallFits(names, calls[n + 1]) /\ (calls[n + 1].do = "clean" => cleaned)
    BY <1>0, <2>2
  <2>7. NothingLost(names, Called(sw, calls[n + 1], n + 1, order), n + 1, cleaned)
    BY <1>0, <2>2, <2>5, <2>6, CallLosesNothing
  <2>8. QED
    BY <2>3, <2>7 DEF sw
<1>3. Nat \subseteq T
  <2> HIDE DEF T
  <2> QED BY <1>1, <1>2, NatInduct
<1>4. QED
  BY <1>0, <1>3

\* With at most one task under way the order of stopping does not matter.
LEMMA OneTaskNoOrder ==
    ASSUME NEW names, NEW sw \in Stopwatches(names), NEW c, CallFits(names, c), NEW n \in Int,
           \A w \in 1..Len(names) : Len(sw.watches[w].currentTasks) <= 1
    PROVE  Called(sw, c, n, Oldest) = Called(sw, c, n, Newest)
<1>1. ASSUME NEW w \in 1..Len(names) PROVE _stop(sw, w, n, Oldest) = _stop(sw, w, n, Newest)
  <2> DEFINE tasks == sw.watches[w].currentTasks
  <2>1. tasks \in Seq(UnderWay) /\ Len(tasks) <= 1
    BY DEF Stopwatches, Watches
  <2>2. CASE tasks = <<>>
    BY <2>2 DEF _stop
  <2>3. CASE tasks # <<>>
    <3> HIDE DEF tasks
    <3>1. TakeTask(tasks, Oldest) = [task |-> Head(tasks), rest |-> Tail(tasks)]
          /\ TakeTask(tasks, Newest) = [task |-> Last(tasks), rest |-> Front(tasks)]
      BY DEF TakeTask, Oldest, Newest
    <3>2. Len(tasks) = 1
      BY <2>1, <2>3
    <3>3. Head(tasks) = Last(tasks)
      BY <2>1, <3>2 DEF Last
    <3>4. Tail(tasks) = <<>>
      <4>1. tasks \in Seq(UnderWay) /\ tasks # <<>>
        BY <2>1, <2>3
      <4>2. Tail(tasks) \in Seq(UnderWay) /\ Len(Tail(tasks)) = Len(tasks) - 1
        BY <4>1, HeadTailProperties
      <4>3. Len(Tail(tasks)) = 0
        BY <3>2, <4>2
      <4>4. QED
        BY <4>2, <4>3, EmptySeq
    <3>5. Front(tasks) = <<>>
      BY <3>2, SubSeqEmpty DEF Front
    <3>6. TakeTask(tasks, Oldest) = TakeTask(tasks, Newest)
      BY <3>1, <3>3, <3>4, <3>5
    <3>7. QED
      BY <3>6 DEF _stop, tasks
  <2>4. QED
    BY <2>2, <2>3
<1>2. c.do \notin {"on", "off"} => c.w \in 1..Len(names)
  BY DEF CallFits
<1>3. CASE c.do \in {"stop", "next", "dump", "dumpIf"}
  <2>1. _stop(sw, c.w, n, Oldest) = _stop(sw, c.w, n, Newest)
    BY <1>1, <1>2, <1>3
  <2>2. QED
    BY <2>1 DEF Called
<1>4. CASE c.do \notin {"stop", "next", "dump", "dumpIf"}
  BY <1>4 DEF Called
<1>5. QED
  BY <1>3, <1>4

LEMMA NotNestedNoOrder ==
    ASSUME NEW names, names \in Seq(WatchNames(names)), NEW calls, Len(calls) \in Nat,
           \A i \in 1..Len(calls) : CallFits(names, calls[i]),
           NEW queue, Follows(names, calls, Oldest, queue), NEW stack, Follows(names, calls, Newest, stack),
           \A n \in 1..Len(calls), w \in DOMAIN names : ~(Len(queue[n].watches[w].currentTasks) > 1)
    PROVE  queue[Len(calls)] = stack[Len(calls)]
<1> DEFINE L == Len(calls)
           T == {n \in Nat : n <= L => queue[n] = stack[n] /\ queue[n] \in Stopwatches(names)}
<1>0. L \in Nat /\ Len(names) \in Nat /\ DOMAIN names = 1..Len(names) /\ \A i \in 1..L : CallFits(names, calls[i])
  OBVIOUS
<1>1. 0 \in T
  <2>1. queue[0] = stack[0] /\ queue[0] \in Stopwatches(names)
    BY NewWatchesFit DEF Follows
  <2>2. QED
    BY <2>1
<1>2. ASSUME NEW n \in Nat, n \in T PROVE n + 1 \in T
  <2>1. SUFFICES ASSUME n + 1 <= L PROVE queue[n + 1] = stack[n + 1] /\ queue[n + 1] \in Stopwatches(names)
    OBVIOUS
  <2>2. n + 1 \in 1..L /\ (n + 1) - 1 = n /\ n <= L /\ n + 1 \in Int /\ (n = 0 \/ n \in 1..L)
    BY <1>0, <2>1
  <2>3. queue[n + 1] = Called(queue[n], calls[n + 1], n + 1, Oldest)
        /\ stack[n + 1] = Called(stack[n], calls[n + 1], n + 1, Newest)
    BY <2>2 DEF Follows
  <2>4. queue[n] = stack[n] /\ queue[n] \in Stopwatches(names)
    BY <1>2, <2>2
  <2>5. \A w \in 1..Len(names) : Len(queue[n].watches[w].currentTasks) <= 1
    <3> SUFFICES ASSUME NEW w \in 1..Len(names) PROVE Len(queue[n].watches[w].currentTasks) <= 1
      OBVIOUS
    <3>1. queue[n].watches[w].currentTasks \in Seq(UnderWay)
      BY <2>4 DEF Stopwatches, Watches
    <3>2. Len(queue[n].watches[w].currentTasks) \in Nat
      BY <3>1, LenProperties
    <3>3. CASE n = 0
      <4>1. queue[0] = NewWatches(names)
        BY DEF Follows
      <4>2. queue[0].watches[w].currentTasks = <<>>
        BY <1>0, <4>1 DEF NewWatches, NewWatch
      <4>3. QED
        BY <3>3, <4>2
    <3>4. CASE n \in 1..L
      BY <1>0, <3>2, <3>4
    <3>5. QED
      BY <2>2, <3>3, <3>4
  <2>6. CallFits(names, calls[n + 1])
    BY <1>0, <2>2
  <2>7. Called(queue[n], calls[n + 1], n + 1, Oldest) = Called(queue[n], calls[n + 1], n + 1, Newest)
    BY <2>2, <2>4, <2>5, <2>6, OneTaskNoOrder
  <2>8. Called(queue[n], calls[n + 1], n + 1, Oldest) \in Stopwatches(names)
    BY <2>2, <2>4, <2>6, CallKeepsType DEF Orders
  <2>9. QED
    BY <2>3, <2>4, <2>7, <2>8
<1>3. Nat \subseteq T
  <2> HIDE DEF T
  <2> QED BY <1>1, <1>2, NatInduct
<1>4. QED
  BY <1>0, <1>3

\* Two stopwatches as busy as each other: as many tasks under way on each watch, and
\* as much completed once they are all stopped.
SameBusy(q, s) == Len(q.currentTasks) = Len(s.currentTasks) /\ Balance(q) = Balance(s)
AsBusy(names, queue, stack) ==
    /\ queue \in Stopwatches(names) /\ stack \in Stopwatches(names) /\ queue.active = stack.active
    /\ \A w \in 1..Len(names) : SameBusy(queue.watches[w], stack.watches[w])

\* What one call does to a watch: a task more, or one less, or none left.
LEMMA BusyAfterStart ==
    ASSUME NEW names, NEW sw, NEW w, NEW task, NEW n \in Int, NEW r, Begun(names, sw, w, task, n, r), task \in TaskNames
    PROVE  /\ Len(r.watches[w].currentTasks) = Len(sw.watches[w].currentTasks) + 1
           /\ Balance(r.watches[w]) = Balance(sw.watches[w]) - n
           /\ Len(sw.watches[w].currentTasks) \in Nat /\ Balance(sw.watches[w]) \in Int
<1> DEFINE tasks == sw.watches[w].currentTasks
           begun == [name |-> task, start |-> n]
           more == r.watches[w].currentTasks
<1>1. tasks \in Seq(UnderWay) /\ begun \in UnderWay /\ begun.start = n /\ more = Append(tasks, begun)
      /\ sw.watches[w].completedTasks \in Seq(Done) /\ r.watches[w].completedTasks = sw.watches[w].completedTasks
  BY DEF Begun, OnlyChanges, Stopwatches, Watches, UnderWay
<1> HIDE DEF tasks, begun, more
<1>2. more \in Seq(UnderWay) /\ Len(more) = Len(tasks) + 1 /\ more[Len(more)] = begun
      /\ Len(tasks) \in Nat /\ \A i \in 1..Len(tasks) : tasks[i] = more[i]
  BY <1>1
<1>3. Starts(tasks) \in Int /\ Starts(more) = Starts(tasks) + begun.start
  BY <1>1, <1>2, StartsOfOneMore
<1>4. AllSpans(sw.watches[w].completedTasks) \in Int
  BY <1>1, SpansAreCounted
<1>5. QED
  BY <1>1, <1>2, <1>3, <1>4 DEF Balance, tasks, more

LEMMA BusyAfterStop ==
    ASSUME NEW names, NEW sw, NEW w, NEW n \in Int, NEW order, NEW r, Stopped(names, sw, w, n, order, r)
    PROVE  /\ Len(sw.watches[w].currentTasks) = Len(r.watches[w].currentTasks) + 1
           /\ Balance(r.watches[w]) = Balance(sw.watches[w]) + n
           /\ Len(r.watches[w].currentTasks) \in Nat /\ Balance(sw.watches[w]) \in Int
<1> DEFINE tasks == sw.watches[w].currentTasks
           before == sw.watches[w].completedTasks
<1>1. PICK taken : \E done \in Done :
           /\ OnlyChanges(names, sw, w, r) /\ Takes(tasks, order, taken)
           /\ done.name = taken.task.name /\ done.span = n - taken.task.start
           /\ r.watches[w].completedTasks = Append(before, done)
           /\ r.watches[w].currentTasks = taken.rest
  BY DEF Stopped
<1>2. PICK done \in Done :
           /\ OnlyChanges(names, sw, w, r) /\ Takes(tasks, order, taken)
           /\ done.name = taken.task.name /\ done.span = n - taken.task.start
           /\ r.watches[w].completedTasks = Append(before, done)
           /\ r.watches[w].currentTasks = taken.rest
  BY <1>1
<1>3. before \in Seq(Done)
  BY <1>2 DEF OnlyChanges, Stopwatches, Watches
<1> HIDE DEF tasks, before
<1>4. /\ tasks \in Seq(UnderWay) /\ taken.rest \in Seq(UnderWay) /\ Len(tasks) = Len(taken.rest) + 1
      /\ \/ taken.task = tasks[1] /\ \A i \in 1..Len(taken.rest) : taken.rest[i] = tasks[i + 1]
         \/ taken.task = tasks[Len(tasks)] /\ \A i \in 1..Len(taken.rest) : taken.rest[i] = tasks[i]
  BY <1>2 DEF Takes
<1> DEFINE rest == taken.rest
           task == taken.task
<1>5. Starts(rest) \in Int /\ Starts(tasks) = Starts(rest) + task.start /\ task.start \in Int
  <2> HIDE DEF rest, task
  <2>1. /\ tasks \in Seq(UnderWay) /\ rest \in Seq(UnderWay) /\ Len(tasks) = Len(rest) + 1
        /\ \/ task = tasks[Len(tasks)] /\ \A i \in 1..Len(rest) : rest[i] = tasks[i]
           \/ task = tasks[1] /\ \A i \in 1..Len(rest) : rest[i] = tasks[i + 1]
    BY <1>4 DEF rest, task
  <2>2. QED
    BY <2>1, StartsOfOneMore
<1>6. AllSpans(before) \in Int /\ AllSpans(Append(before, done)) = AllSpans(before) + done.span
  BY <1>3, AllSpansOfOneMore
<1>7. Len(rest) \in Nat
  BY <1>4
<1>8. QED
  BY <1>2, <1>4, <1>5, <1>6, <1>7 DEF Balance, tasks, before

LEMMA StartsAsBusy ==
    ASSUME NEW names, NEW q, NEW s, AsBusy(names, q, s), NEW w \in 1..Len(names), NEW task \in TaskNames, NEW n \in Int
    PROVE  AsBusy(names, _start(q, w, task, n), _start(s, w, task, n))
<1> DEFINE q1 == _start(q, w, task, n)
           s1 == _start(s, w, task, n)
<1>1. Begun(names, q, w, task, n, q1) /\ Begun(names, s, w, task, n, s1)
  BY StartedTask DEF AsBusy
<1> HIDE DEF q1, s1
<1>2. /\ Len(q1.watches[w].currentTasks) = Len(q.watches[w].currentTasks) + 1
      /\ Balance(q1.watches[w]) = Balance(q.watches[w]) - n
  BY <1>1, BusyAfterStart
<1>3. /\ Len(s1.watches[w].currentTasks) = Len(s.watches[w].currentTasks) + 1
      /\ Balance(s1.watches[w]) = Balance(s.watches[w]) - n
  BY <1>1, BusyAfterStart
<1>4. OnlyChanges(names, q, w, q1) /\ OnlyChanges(names, s, w, s1)
  BY <1>1 DEF Begun
<1>5. SameBusy(q1.watches[w], s1.watches[w])
  BY <1>2, <1>3 DEF AsBusy, SameBusy
<1>6. \A v \in 1..Len(names) : v # w => SameBusy(q1.watches[v], s1.watches[v])
  BY <1>4 DEF AsBusy, OnlyChanges
<1>7. QED
  BY <1>4, <1>5, <1>6 DEF AsBusy, OnlyChanges, q1, s1

LEMMA StopsAsBusy ==
    ASSUME NEW names, NEW q, NEW s, AsBusy(names, q, s), NEW w \in 1..Len(names), NEW n \in Int
    PROVE  AsBusy(names, _stop(q, w, n, Oldest), _stop(s, w, n, Newest))
<1> DEFINE q1 == _stop(q, w, n, Oldest)
           s1 == _stop(s, w, n, Newest)
<1>0. q \in Stopwatches(names) /\ s \in Stopwatches(names) /\ SameBusy(q.watches[w], s.watches[w])
  BY DEF AsBusy
<1>1. q.watches[w].currentTasks \in Seq(UnderWay) /\ s.watches[w].currentTasks \in Seq(UnderWay)
  BY <1>0 DEF Stopwatches, Watches
<1>2. q.watches[w].currentTasks = <<>> <=> s.watches[w].currentTasks = <<>>
  BY <1>0, <1>1, EmptySeq DEF SameBusy
<1>3. CASE q.watches[w].currentTasks = <<>>
  BY <1>2, <1>3 DEF _stop
<1>4. CASE q.watches[w].currentTasks # <<>>
  <2>1. Stopped(names, q, w, n, Oldest, q1)
    BY <1>0, <1>4, StoppedTask DEF Orders
  <2>2. Stopped(names, s, w, n, Newest, s1)
    BY <1>0, <1>2, <1>4, StoppedTask DEF Orders
  <2> HIDE DEF q1, s1
  <2>3. /\ Len(q.watches[w].currentTasks) = Len(q1.watches[w].currentTasks) + 1
        /\ Balance(q1.watches[w]) = Balance(q.watches[w]) + n /\ Len(q1.watches[w].currentTasks) \in Nat
    BY <2>1, BusyAfterStop
  <2>4. /\ Len(s.watches[w].currentTasks) = Len(s1.watches[w].currentTasks) + 1
        /\ Balance(s1.watches[w]) = Balance(s.watches[w]) + n /\ Len(s1.watches[w].currentTasks) \in Nat
    BY <2>2, BusyAfterStop
  <2>5. OnlyChanges(names, q, w, q1) /\ OnlyChanges(names, s, w, s1)
    BY <2>1, <2>2 DEF Stopped
  <2>6. SameBusy(q1.watches[w], s1.watches[w])
    <3>1. Len(q.watches[w].currentTasks) = Len(s.watches[w].currentTasks)
          /\ Balance(q.watches[w]) = Balance(s.watches[w])
      BY <1>0 DEF SameBusy
    <3>2. Len(q1.watches[w].currentTasks) = Len(s1.watches[w].currentTasks)
      <4> DEFINE a == Len(q1.watches[w].currentTasks)
                 b == Len(s1.watches[w].currentTasks)
                 d == Len(q.watches[w].currentTasks)
      <4>1. a \in Nat /\ b \in Nat /\ d = a + 1 /\ d = b + 1
        BY <2>3, <2>4, <3>1
      <4> HIDE DEF a, b, d
      <4>2. a = b
        BY <4>1
      <4>3. QED
        BY <4>2 DEF a, b
    <3>3. Balance(q1.watches[w]) = Balance(s1.watches[w])
      BY <2>3, <2>4, <3>1
    <3>4. QED
      BY <3>2, <3>3 DEF SameBusy
  <2>7. \A v \in 1..Len(names) : v # w => SameBusy(q1.watches[v], s1.watches[v])
    BY <2>5 DEF AsBusy, OnlyChanges
  <2>8. QED
    BY <2>5, <2>6, <2>7 DEF AsBusy, OnlyChanges, q1, s1
<1>5. QED
  BY <1>3, <1>4

LEMMA CleansAsBusy ==
    ASSUME NEW names, NEW q, NEW s, AsBusy(names, q, s), NEW w \in 1..Len(names)
    PROVE  AsBusy(names, CleanOf(q, w), CleanOf(s, w))
<1> DEFINE q1 == CleanOf(q, w)
           s1 == CleanOf(s, w)
<1>1. Cleaned(names, q, w, q1) /\ Cleaned(names, s, w, s1)
  BY CleanedWatch DEF AsBusy
<1> HIDE DEF q1, s1
<1>2. OnlyChanges(names, q, w, q1) /\ OnlyChanges(names, s, w, s1)
  BY <1>1 DEF Cleaned
<1>3. SameBusy(q1.watches[w], s1.watches[w])
  BY <1>1 DEF Cleaned, SameBusy, Balance
<1>4. \A v \in 1..Len(names) : v # w => SameBusy(q1.watches[v], s1.watches[v])
  BY <1>2 DEF AsBusy, OnlyChanges
<1>5. QED
  BY <1>2, <1>3, <1>4 DEF AsBusy, OnlyChanges, q1, s1

LEMMA CallsAsBusy ==
    ASSUME NEW names, NEW q, NEW s, AsBusy(names, q, s), NEW c, CallFits(names, c), c.do # "dumpIf", NEW n \in Int
    PROVE  AsBusy(names, Called(q, c, n, Oldest), Called(s, c, n, Newest))
<1>0. c.do \notin {"on", "off"} => c.w \in 1..Len(names)
  BY DEF CallFits
<1>1. CASE c.do \in {"on", "off"}
  <2>1. PICK b \in BOOLEAN : Called(q, c, n, Oldest) = [q EXCEPT !.active = b]
                             /\ Called(s, c, n, Newest) = [s EXCEPT !.active = b]
    BY <1>1 DEF Called
  <2>2. AsBusy(names, [q EXCEPT !.active = b], [s EXCEPT !.active = b])
    BY DEF AsBusy, Stopwatches
  <2>3. QED
    BY <2>1, <2>2
<1>2. CASE c.do = "clean"
  <2>1. Called(q, c, n, Oldest) = CleanOf(q, c.w) /\ Called(s, c, n, Newest) = CleanOf(s, c.w)
    BY <1>2 DEF Called, CleanOf
  <2>2. QED
    BY <1>0, <1>2, <2>1, CleansAsBusy
<1>3. CASE c.do \notin {"on", "off", "clean"} /\ ~q.active
  <2>1. ~s.active
    BY <1>3 DEF AsBusy
  <2>2. Called(q, c, n, Oldest) = q /\ Called(s, c, n, Newest) = s
    BY <1>3, <2>1 DEF Called
  <2>3. QED
    BY <2>2
<1>4. CASE c.do \notin {"on", "off", "clean"} /\ q.active
  <2>1. s.active
    BY <1>4 DEF AsBusy
  <2>2. CASE c.do = "start"
    <3>1. Called(q, c, n, Oldest) = _start(q, c.w, c.task, n) /\ Called(s, c, n, Newest) = _start(s, c.w, c.task, n)
      BY <1>4, <2>1, <2>2 DEF Called
    <3>2. c.w \in 1..Len(names) /\ c.task \in TaskNames
      BY <2>2 DEF CallFits
    <3>3. QED
      BY <3>1, <3>2, StartsAsBusy
  <2>3. CASE c.do \in {"stop", "dump"}
    <3>1. Called(q, c, n, Oldest) = _stop(q, c.w, n, Oldest) /\ Called(s, c, n, Newest) = _stop(s, c.w, n, Newest)
      BY <1>4, <2>1, <2>3 DEF Called
    <3>2. c.w \in 1..Len(names)
      BY <1>0, <1>4
    <3>3. QED
      BY <3>1, <3>2, StopsAsBusy
  <2>4. CASE c.do = "next"
    <3>1. Called(q, c, n, Oldest) = _start(_stop(q, c.w, n, Oldest), c.w, c.task, n)
          /\ Called(s, c, n, Newest) = _start(_stop(s, c.w, n, Newest), c.w, c.task, n)
      BY <1>4, <2>1, <2>4 DEF Called
    <3>2. c.w \in 1..Len(names) /\ c.task \in TaskNames
      BY <2>4 DEF CallFits
    <3>3. AsBusy(names, _stop(q, c.w, n, Oldest), _stop(s, c.w, n, Newest))
      BY <3>2, StopsAsBusy
    <3>4. QED
      BY <3>1, <3>2, <3>3, StartsAsBusy
  <2>5. CASE c.do \notin {"start", "stop", "dump", "next"}
    <3>1. Called(q, c, n, Oldest) = q /\ Called(s, c, n, Newest) = s
      BY <1>4, <2>5 DEF Called
    <3>2. QED
      BY <3>1
  <2>6. QED
    BY <2>2, <2>3, <2>4, <2>5
<1>5. QED
  BY <1>1, <1>2, <1>3, <1>4

LEMMA MeasuresAsBusy ==
    ASSUME NEW names, names \in Seq(WatchNames(names)), NEW calls, Len(calls) \in Nat,
           \A i \in 1..Len(calls) : CallFits(names, calls[i]) /\ calls[i].do # "dumpIf",
           NEW queue, Follows(names, calls, Oldest, queue), NEW stack, Follows(names, calls, Newest, stack)
    PROVE  AsBusy(names, queue[Len(calls)], stack[Len(calls)])
<1> DEFINE L == Len(calls)
           T == {n \in Nat : n <= L => AsBusy(names, queue[n], stack[n])}
<1>0. L \in Nat /\ \A i \in 1..L : CallFits(names, calls[i]) /\ calls[i].do # "dumpIf"
  OBVIOUS
<1>1. 0 \in T
  <2>1. AsBusy(names, queue[0], stack[0])
    BY NewWatchesFit DEF Follows, AsBusy, SameBusy
  <2>2. QED
    BY <2>1
<1>2. ASSUME NEW n \in Nat, n \in T PROVE n + 1 \in T
  <2>1. SUFFICES ASSUME n + 1 <= L PROVE AsBusy(names, queue[n + 1], stack[n + 1])
    OBVIOUS
  <2>2. n + 1 \in 1..L /\ (n + 1) - 1 = n /\ n <= L /\ n + 1 \in Int
    BY <1>0, <2>1
  <2>3. queue[n + 1] = Called(queue[n], calls[n + 1], n + 1, Oldest)
        /\ stack[n + 1] = Called(stack[n], calls[n + 1], n + 1, Newest)
    BY <2>2 DEF Follows
  <2>4. AsBusy(names, queue[n], stack[n])
    BY <1>2, <2>2
  <2>5. CallFits(names, calls[n + 1]) /\ calls[n + 1].do # "dumpIf"
    BY <1>0, <2>2
  <2>6. AsBusy(names, Called(queue[n], calls[n + 1], n + 1, Oldest), Called(stack[n], calls[n + 1], n + 1, Newest))
    BY <2>2, <2>4, <2>5, CallsAsBusy
  <2>7. QED
    BY <2>3, <2>6
<1>3. Nat \subseteq T
  <2> HIDE DEF T
  <2> QED BY <1>1, <1>2, NatInduct
<1>4. QED
  BY <1>0, <1>3

LEMMA SpansOfOneMeasure ==
    ASSUME call.op = "stopwatch", call.names \in WatchLists, call.calls \in CallLists
    PROVE  SpansAddUp
<1> DEFINE names == call.names
           calls == call.calls
           last == Len(calls)
<1>1. /\ names \in Seq(WatchNames(names)) /\ calls \in Seq({calls[i] : i \in DOMAIN calls})
      /\ \A i \in DOMAIN calls : CallFits(names, calls[i])
  <2>1. names \in Seq(WatchNames(names)) /\ calls \in Seq({calls[i] : i \in DOMAIN calls})
    BY PureCallsAssumption DEF WatchNames
  <2>2. DOMAIN names = 1..Len(names)
    BY <2>1
  <2>3. QED
    BY <2>1, <2>2, PureCallsAssumption DEF CallFits
<1> HIDE DEF names, calls
<1>2. last \in Nat /\ DOMAIN calls = 1..last /\ DOMAIN names = 1..Len(names) /\ Len(names) \in Nat
  <2>1. DOMAIN names = 1..Len(names) /\ Len(names) \in Nat
    BY <1>1
  <2>2. last \in Nat /\ DOMAIN calls = 1..last
    BY <1>1
  <2>3. QED
    BY <2>1, <2>2
<1> DEFINE queue == Measured(names, calls, Oldest)
           stack == Measured(names, calls, Newest)
           Used(do) == \E i \in 1..last : calls[i].do = do
<1>3. Follows(names, calls, Oldest, queue) /\ Follows(names, calls, Newest, stack)
  BY <1>1, <1>2, MeasuredFollows DEF Orders
<1> HIDE DEF queue, stack, last
<1>4. ASSUME NEW w \in DOMAIN names, NEW task \in TaskNames, NEW key, key = <<names[w], task>>
      PROVE  /\ sumSpan(queue[last].summary, key) >= Completed(queue[last], key)
             /\ ~Used("clean") => sumSpan(queue[last].summary, key) = Completed(queue[last], key)
  <2>1. \A n \in 0..last : NothingLost(names, queue[n], n, Used("clean"))
    BY <1>1, <1>2, <1>3, MeasuresLoseNothing DEF last, Orders
  <2>2. NothingLost(names, queue[last], last, Used("clean"))
    <3>1. last \in 0..last
      BY <1>2
    <3> HIDE DEF Used
    <3>2. QED
      BY <2>1, <3>1
  <2>3. QED
    BY <1>4, <2>2 DEF NothingLost
<1>5. ASSUME ~ \E n \in 1..last : \E w \in DOMAIN names : Len(queue[n].watches[w].currentTasks) > 1
      PROVE  queue[last] = stack[last]
  BY <1>1, <1>2, <1>3, <1>5, NotNestedNoOrder DEF last
<1>6. ASSUME ~Used("dumpIf"), NEW w \in DOMAIN names, queue[last].watches[w].currentTasks = <<>>
      PROVE  AllSpans(queue[last].watches[w].completedTasks) = AllSpans(stack[last].watches[w].completedTasks)
  <2>1. AsBusy(names, queue[last], stack[last])
    BY <1>1, <1>2, <1>3, <1>6, MeasuresAsBusy DEF last
  <2> DEFINE q == queue[last].watches[w]
             s == stack[last].watches[w]
  <2>2. SameBusy(q, s) /\ q \in Watches(names) /\ s \in Watches(names)
    BY <1>2, <2>1 DEF AsBusy, Stopwatches
  <2>3. q.currentTasks = <<>>
    BY <1>6
  <2> HIDE DEF q, s
  <2>4. s.currentTasks = <<>> /\ s.completedTasks \in Seq(Done) /\ q.completedTasks \in Seq(Done)
    <3>1. s.currentTasks \in Seq(UnderWay) /\ s.completedTasks \in Seq(Done) /\ q.completedTasks \in Seq(Done)
      BY <2>2 DEF Watches
    <3>2. Len(s.currentTasks) = 0
      BY <2>2, <2>3 DEF SameBusy
    <3>3. QED
      BY <3>1, <3>2, EmptySeq
  <2>5. AllSpans(q.completedTasks) \in Int /\ AllSpans(s.completedTasks) \in Int
    BY <2>4, SpansAreCounted
  <2>6. AllSpans(q.completedTasks) - Starts(<<>>) = AllSpans(s.completedTasks) - Starts(<<>>) /\ Starts(<<>>) = 0
    BY <2>2, <2>3, <2>4, NoSpans DEF SameBusy, Balance
  <2>7. AllSpans(q.completedTasks) = AllSpans(s.completedTasks)
    BY <2>5, <2>6
  <2>8. QED
    BY <2>7 DEF q, s
<1>7. QED
  BY <1>4, <1>5, <1>6 DEF SpansAddUp, names, calls, last, queue, stack

\* The summary of stopwatches is what the completed tasks of their name took, tasks
\* that are not nested are measured from their own start to their own stop, and
\* nested ones together as long as on a stack, for any names and any calls.
THEOREM SpansHold == PureSpec => []SpansAddUp
<1>1. CallOfKind => SpansAddUp
  <2>1. SUFFICES ASSUME call.op = "stopwatch", call.names \in WatchLists, call.calls \in CallLists PROVE SpansAddUp
    BY DEF CallOfKind, Idle, SpansAddUp
  <2>2. QED
    BY <2>1, SpansOfOneMeasure
<1>2. QED
  BY <1>1, CallsOfKind, PTL
=============================================================================
