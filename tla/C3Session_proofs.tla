---------------------------- MODULE C3Session_proofs ----------------------------
(***************************************************************************)
(* Proofs about C3Session for any instruments, requests, logins and         *)
(* operations, and any bounds: what is signed is what was asked for, and    *)
(* what the server refuses is refused for a reason its caller can know of.  *)
(***************************************************************************)
EXTENDS C3Session, SequenceTheorems, TLAPS

Sizes == 0..Len(Instruments)

LEMMA SnapshotCuts ==
    ASSUME NEW n \in Sizes
    PROVE  /\ Len(Instruments) \in Nat /\ DOMAIN Snapshot(n) = 1..n
           /\ \A i \in 1..n : Snapshot(n)[i] = Instruments[i]
<1>1. /\ Instruments \in Seq(Range(Instruments)) /\ Len(Instruments) \in Nat
      /\ DOMAIN Instruments = 1..Len(Instruments)
  BY C3SessionAssumption, LenProperties
<1>2. n \in 0..Len(Instruments)
  BY DEF Sizes
<1>3. /\ Snapshot(n) \in Seq(Range(Instruments)) /\ Len(Snapshot(n)) = n
      /\ \A i \in 1..n : Snapshot(n)[i] = Instruments[i]
  BY <1>1, <1>2, SubSeqProperties DEF Snapshot
<1>4. QED
  BY <1>1, <1>3, LenProperties

\* A list that has an asset has it in one place, the same in every longer list.
LEMMA SlotsStay ==
    ASSUME NEW n \in Sizes, NEW m \in Sizes, n <= m, NEW a, HasSlot(Snapshot(n), a)
    PROVE  /\ HasSlot(Snapshot(m), a)
           /\ getSlotId(Snapshot(n), a) = getSlotId(Snapshot(m), a)
           /\ getSlotId(Snapshot(n), a) \in Int
           /\ Instruments[getSlotId(Snapshot(n), a) + 1] = a
<1>1. /\ DOMAIN Snapshot(n) = 1..n /\ DOMAIN Snapshot(m) = 1..m /\ n \in Nat /\ m \in Nat
      /\ \A i \in 1..n : Snapshot(n)[i] = Instruments[i]
      /\ \A i \in 1..m : Snapshot(m)[i] = Instruments[i]
      /\ DOMAIN Instruments = 1..Len(Instruments) /\ m <= Len(Instruments)
      /\ Len(Instruments) \in Nat
  BY SnapshotCuts, LenProperties, C3SessionAssumption DEF Sizes
<1>2. PICK k \in 1..n : Instruments[k] = a
  BY <1>1 DEF HasSlot
<1>3. k \in 1..m /\ k \in DOMAIN Instruments
  BY <1>1
<1>4. \A i \in DOMAIN Instruments : Instruments[i] = a => i = k
  BY <1>2, <1>3, C3SessionAssumption
<1>5. \A i \in 1..n : Snapshot(n)[i] = a <=> i = k
  BY <1>1, <1>2, <1>4
<1>6. \A i \in 1..m : Snapshot(m)[i] = a <=> i = k
  BY <1>1, <1>2, <1>3, <1>4
<1>7. getSlotId(Snapshot(n), a) = k - 1
  <2>1. (CHOOSE i \in DOMAIN Snapshot(n) : Snapshot(n)[i] = a) = k
    BY <1>1, <1>5
  <2>2. QED
    BY <2>1 DEF getSlotId
<1>8. getSlotId(Snapshot(m), a) = k - 1
  <2>1. (CHOOSE i \in DOMAIN Snapshot(m) : Snapshot(m)[i] = a) = k
    BY <1>1, <1>3, <1>6
  <2>2. QED
    BY <2>1 DEF getSlotId
<1>9. HasSlot(Snapshot(m), a)
  BY <1>1, <1>3, <1>6 DEF HasSlot
<1>10. k - 1 \in Int /\ (k - 1) + 1 = k
  BY <1>1
<1>11. QED
  BY <1>2, <1>7, <1>8, <1>9, <1>10

\* The assets of a request are pairs of a list.
LEMMA RequestHasPairs ==
    ASSUME NEW r \in Requests
    PROVE  /\ DOMAIN r.give = 1..Len(r.give) /\ Len(r.give) \in Nat
           /\ DOMAIN r.take = 1..Len(r.take) /\ Len(r.take) \in Nat
           /\ r.give \in Seq(Range(r.give)) /\ r.take \in Seq(Range(r.take))
           /\ \A i \in DOMAIN r.give : r.give[i][2] \in Int
           /\ \A i \in DOMAIN r.take : r.take[i][2] \in Int
<1>1. /\ r.give \in Seq(Range(r.give)) /\ r.take \in Seq(Range(r.take))
      /\ \A i \in DOMAIN r.give : r.give[i][2] \in Int
      /\ \A i \in DOMAIN r.take : r.take[i][2] \in Int
  BY RequestsAssumption
<1>2. QED
  BY <1>1, LenProperties

\* All assets of a request are known just when those of both its baskets are.
LEMMA KnownBaskets ==
    ASSUME NEW r \in Requests, NEW list
    PROVE  Known(r, list) <=> /\ \A i \in DOMAIN r.give : HasSlot(list, r.give[i][1])
                              /\ \A i \in DOMAIN r.take : HasSlot(list, r.take[i][1])
<1> DEFINE both == r.give \o r.take
           S == Range(r.give) \cup Range(r.take)
           g == Len(r.give)
           t == Len(r.take)
<1>1. /\ DOMAIN r.give = 1..g /\ DOMAIN r.take = 1..t /\ g \in Nat /\ t \in Nat
      /\ r.give \in Seq(S) /\ r.take \in Seq(S)
  <2>1. Range(r.give) \subseteq S /\ Range(r.take) \subseteq S
    OBVIOUS
  <2> HIDE DEF S
  <2>2. r.give \in Seq(S) /\ r.take \in Seq(S)
    BY <2>1, RequestHasPairs
  <2>3. QED
    BY <2>2, RequestHasPairs
<1> HIDE DEF S
<1>2. /\ both \in Seq(S) /\ Len(both) = g + t
      /\ \A i \in 1..g : both[i] = r.give[i]
      /\ \A i \in g + 1..g + t : both[i] = r.take[i - g]
  <2>1. both \in Seq(S) /\ Len(both) = Len(r.give) + Len(r.take)
    BY <1>1, ConcatProperties
  <2>2. \A i \in 1..g + t : both[i] = IF i <= g THEN r.give[i] ELSE r.take[i - g]
    BY <1>1, ConcatProperties
  <2>3. Len(both) = g + t
    BY <2>1
  <2> HIDE DEF both, g, t
  <2>4. \A i \in 1..g : i \in 1..g + t /\ i <= g
    BY <1>1
  <2>5. \A i \in g + 1..g + t : i \in 1..g + t /\ ~(i <= g)
    BY <1>1
  <2>6. QED
    BY <2>1, <2>2, <2>3, <2>4, <2>5
<1>3. DOMAIN both = 1..g + t
  BY <1>1, <1>2, LenProperties
<1>4. Known(r, list) <=> \A i \in 1..g + t : HasSlot(list, both[i][1])
  BY <1>3 DEF Known
<1> HIDE DEF both, g, t
<1>5. (\A i \in 1..g + t : HasSlot(list, both[i][1]))
        <=> /\ \A i \in 1..g : HasSlot(list, r.give[i][1])
            /\ \A i \in 1..t : HasSlot(list, r.take[i][1])
  <2>1. ASSUME \A i \in 1..g + t : HasSlot(list, both[i][1])
        PROVE  /\ \A i \in 1..g : HasSlot(list, r.give[i][1])
               /\ \A i \in 1..t : HasSlot(list, r.take[i][1])
    <3>1. \A i \in 1..g : i \in 1..g + t
      BY <1>1
    <3>2. \A i \in 1..t : i + g \in 1..g + t /\ i + g \in g + 1..g + t /\ (i + g) - g = i
      BY <1>1
    <3>3. QED
      BY <1>2, <2>1, <3>1, <3>2
  <2>2. ASSUME /\ \A i \in 1..g : HasSlot(list, r.give[i][1])
               /\ \A i \in 1..t : HasSlot(list, r.take[i][1])
        PROVE  \A i \in 1..g + t : HasSlot(list, both[i][1])
    <3>1. \A i \in 1..g + t : i \in 1..g \/ (i \in g + 1..g + t /\ i - g \in 1..t)
      BY <1>1
    <3>2. QED
      BY <1>2, <2>2, <3>1
  <2>3. QED
    BY <2>1, <2>2
<1>6. QED
  BY <1>1, <1>4, <1>5

\* A list that was fetched keeps knowing what it knew when it was shorter.
LEMMA KnownStays ==
    ASSUME NEW r \in Requests, NEW n \in Sizes, NEW m \in Sizes, n <= m, Known(r, Snapshot(n))
    PROVE  Known(r, Snapshot(m))
<1>1. /\ \A i \in DOMAIN r.give : HasSlot(Snapshot(n), r.give[i][1])
      /\ \A i \in DOMAIN r.take : HasSlot(Snapshot(n), r.take[i][1])
  BY KnownBaskets
<1>2. \A a : HasSlot(Snapshot(n), a) => HasSlot(Snapshot(m), a)
  BY SlotsStay
<1>3. QED
  BY <1>1, <1>2, KnownBaskets

-------------------------------------------------------------------------------
(* What is signed.                                                          *)

\* SignedAsAsked of one request and the operation signed for it.
AsAsked(asked, signed) ==
    LET slot == ServerSlot(asked.give[1][1])
        amount == asked.give[1][2]
    IN  CASE asked.kind \in {"lend", "repay"}     -> signed = [op |-> "PoolMove", slot |-> slot, amount |-> amount]
          [] asked.kind \in {"redeem", "borrow"}  -> signed = [op |-> "PoolMove", slot |-> slot, amount |-> -amount]
          [] asked.kind = "withdraw" -> signed.slot = slot /\ signed.amount = amount
          [] asked.kind = "deposit"  -> /\ signed.signed.type = "transfer" /\ signed.signed.amount = amount
                                        /\ \E i \in 2..Len(signed.group) : signed.group[i - 1] = signed.signed
                                                                            /\ signed.group[i] = [type |-> "call", slot |-> slot]
          [] asked.kind = "order" -> signed.sell[1] = slot /\ signed.buy[1] = ServerSlot(asked.take[1][1])
          [] asked.kind = "liquidate" ->
                /\ DOMAIN signed.cash = {ServerSlot(asked.give[i][1]) : i \in DOMAIN asked.give}
                /\ \A i \in Once(asked.give) : signed.cash[ServerSlot(asked.give[i][1])] = asked.give[i][2]
                /\ \A i \in Once(asked.take) : signed.pool[ServerSlot(asked.take[i][1])] = asked.take[i][2]

\* The pairs of a basket with slots for assets, as Operation makes them.
SlotsOf(pairs, list) == [i \in DOMAIN pairs |-> <<getSlotId(list, pairs[i][1]), pairs[i][2]>>]

LEMMA OperationByKind ==
    ASSUME NEW r, NEW list
    PROVE  LET give == SlotsOf(r.give, list)
               take == SlotsOf(r.take, list)
           IN  /\ r.kind \in PoolMoves =>
                    Operation(r, list) = createPoolMove(give[1][1], Direction(r.kind) * give[1][2])
               /\ r.kind = "withdraw" => Operation(r, list) = createWithdraw(give[1][1], give[1][2])
               /\ r.kind = "deposit" =>
                    Operation(r, list) = prepareAlgorandDeposit(give[1][1], give[1][2])
               /\ r.kind = "order" => Operation(r, list) = encodeOrderData(give[1], take[1])
               /\ r.kind = "liquidate" =>
                    Operation(r, list) = createLiquidation(LastWins(give), LastWins(take))
BY DEF Operation, SlotsOf, PoolMoves

\* With any list that knows the assets of a basket, each slot is the server's.
LEMMA SlotsAreTheServers ==
    ASSUME NEW n \in Sizes, listed \in Sizes, n <= listed, NEW pairs,
           \A i \in DOMAIN pairs : HasSlot(Snapshot(n), pairs[i][1])
    PROVE  /\ DOMAIN SlotsOf(pairs, Snapshot(n)) = DOMAIN pairs
           /\ \A i \in DOMAIN pairs :
                /\ SlotsOf(pairs, Snapshot(n))[i] = <<ServerSlot(pairs[i][1]), pairs[i][2]>>
                /\ SlotsOf(pairs, Snapshot(n))[i][1] = ServerSlot(pairs[i][1])
                /\ SlotsOf(pairs, Snapshot(n))[i][2] = pairs[i][2]
           /\ \A i, j \in DOMAIN pairs :
                ServerSlot(pairs[i][1]) = ServerSlot(pairs[j][1]) => pairs[i][1] = pairs[j][1]
<1>1. \A i \in DOMAIN pairs :
        /\ getSlotId(Snapshot(n), pairs[i][1]) = ServerSlot(pairs[i][1])
        /\ Instruments[ServerSlot(pairs[i][1]) + 1] = pairs[i][1]
  BY SlotsStay DEF ServerSlot
<1>2. QED
  BY <1>1 DEF SlotsOf

\* The Map of a basket holds the amount of every asset that comes once.
LEMMA BasketIsComplete ==
    ASSUME NEW n \in Sizes, listed \in Sizes, n <= listed,
           NEW pairs, pairs \in Seq(Range(pairs)),
           \A i \in DOMAIN pairs : HasSlot(Snapshot(n), pairs[i][1])
    PROVE  LET map == LastWins(SlotsOf(pairs, Snapshot(n)))
           IN  /\ DOMAIN map = {ServerSlot(pairs[i][1]) : i \in DOMAIN pairs}
               /\ \A i \in Once(pairs) : map[ServerSlot(pairs[i][1])] = pairs[i][2]
<1> DEFINE slots == SlotsOf(pairs, Snapshot(n))
           last(slot) == CHOOSE i \in DOMAIN slots :
                            slots[i][1] = slot /\ \A j \in i + 1..Len(slots) : slots[j][1] # slot
<1>1. /\ DOMAIN pairs = 1..Len(pairs) /\ Len(pairs) \in Nat
      /\ DOMAIN slots = DOMAIN pairs
      /\ \A i \in DOMAIN pairs : slots[i][1] = ServerSlot(pairs[i][1]) /\ slots[i][2] = pairs[i][2]
      /\ \A i, j \in DOMAIN pairs : slots[i][1] = slots[j][1] => pairs[i][1] = pairs[j][1]
  BY SlotsAreTheServers, LenProperties
<1>2. Len(slots) = Len(pairs)
  <2>1. slots = [i \in 1..Len(pairs) |-> slots[i]]
    BY <1>1 DEF SlotsOf
  <2>2. slots \in Seq(Range(slots))
    <3>1. slots \in [1..Len(pairs) -> Range(slots)]
      BY <1>1, <2>1 DEF Range
    <3>2. QED
      BY <1>1, <3>1, SeqDef
  <2>3. QED
    BY <1>1, <2>2, LenProperties
<1> HIDE DEF slots
<1>3. LastWins(slots) = [slot \in {slots[i][1] : i \in DOMAIN slots} |-> slots[last(slot)][2]]
  BY DEF LastWins
<1>4. DOMAIN LastWins(slots) = {ServerSlot(pairs[i][1]) : i \in DOMAIN pairs}
  BY <1>1, <1>3
<1>5. ASSUME NEW i \in Once(pairs)
      PROVE  LastWins(slots)[ServerSlot(pairs[i][1])] = pairs[i][2]
  <2> DEFINE slot == slots[i][1]
  <2>1. i \in DOMAIN pairs /\ \A j \in DOMAIN pairs : slots[j][1] = slot => j = i
    BY <1>1 DEF Once
  <2>2. \A j \in i + 1..Len(slots) : j \in DOMAIN pairs /\ j # i
    BY <1>1, <1>2, <2>1
  <2>3. last(slot) = i
    BY <1>1, <2>1, <2>2
  <2> HIDE DEF last
  <2>4. LastWins(slots)[slot] = slots[i][2]
    BY <1>1, <1>3, <2>1, <2>3
  <2>5. QED
    BY <1>1, <2>1, <2>4
<1>6. QED
  BY <1>4, <1>5 DEF slots

\* Whatever list it was made with, an operation says what was asked for as the
\* server reads it by now.
LEMMA OperationAsAsked ==
    ASSUME NEW r \in Requests, NEW n \in Sizes, listed \in Sizes, n <= listed, Known(r, Snapshot(n))
    PROVE  AsAsked(r, Operation(r, Snapshot(n)))
<1> DEFINE give == SlotsOf(r.give, Snapshot(n))
           take == SlotsOf(r.take, Snapshot(n))
           slot == ServerSlot(r.give[1][1])
           amount == r.give[1][2]
           signed == Operation(r, Snapshot(n))
<1>1. /\ r.kind \in {"lend", "redeem", "borrow", "repay", "withdraw", "deposit", "order", "liquidate"}
      /\ r.kind # "liquidate" => Len(r.give) > 0
      /\ r.kind = "order" => Len(r.take) > 0
  BY RequestsAssumption
<1>2. /\ \A i \in DOMAIN r.give : HasSlot(Snapshot(n), r.give[i][1])
      /\ \A i \in DOMAIN r.take : HasSlot(Snapshot(n), r.take[i][1])
  BY KnownBaskets
<1>3. /\ \A i \in DOMAIN r.give : give[i][1] = ServerSlot(r.give[i][1]) /\ give[i][2] = r.give[i][2]
      /\ \A i \in DOMAIN r.take : take[i][1] = ServerSlot(r.take[i][1])
  BY <1>2, SlotsAreTheServers
<1>4. /\ r.kind # "liquidate" => give[1][1] = slot /\ give[1][2] = amount /\ amount \in Int
      /\ r.kind = "order" => take[1][1] = ServerSlot(r.take[1][1])
  <2>1. r.kind # "liquidate" => 1 \in DOMAIN r.give
    BY <1>1, RequestHasPairs
  <2>2. r.kind = "order" => 1 \in DOMAIN r.take
    BY <1>1, RequestHasPairs
  <2>3. QED
    BY <1>3, <2>1, <2>2, RequestHasPairs
<1>5. /\ r.kind \in PoolMoves => signed = createPoolMove(give[1][1], Direction(r.kind) * give[1][2])
      /\ r.kind = "withdraw" => signed = createWithdraw(give[1][1], give[1][2])
      /\ r.kind = "deposit" => signed = prepareAlgorandDeposit(give[1][1], give[1][2])
      /\ r.kind = "order" => signed = encodeOrderData(give[1], take[1])
      /\ r.kind = "liquidate" => signed = createLiquidation(LastWins(give), LastWins(take))
  BY OperationByKind
<1> HIDE DEF give, take, slot, amount, signed
<1>6. CASE r.kind \in {"lend", "repay"}
  <2>1. signed = createPoolMove(slot, Direction(r.kind) * amount) /\ Direction(r.kind) = 1 /\ amount \in Int
    BY <1>4, <1>5, <1>6 DEF PoolMoves, Direction
  <2>2. 1 * amount = amount
    BY <2>1
  <2>3. signed = [op |-> "PoolMove", slot |-> slot, amount |-> amount]
    BY <2>1, <2>2 DEF createPoolMove
  <2>4. QED
    BY <1>6, <2>3 DEF AsAsked, slot, amount, signed
<1>7. CASE r.kind \in {"redeem", "borrow"}
  <2>1. signed = createPoolMove(slot, Direction(r.kind) * amount) /\ Direction(r.kind) = -1 /\ amount \in Int
    BY <1>4, <1>5, <1>7 DEF PoolMoves, Direction
  <2>2. (-1) * amount = -amount
    BY <2>1
  <2>3. signed = [op |-> "PoolMove", slot |-> slot, amount |-> -amount]
    BY <2>1, <2>2 DEF createPoolMove
  <2>4. QED
    BY <1>7, <2>3 DEF AsAsked, slot, amount, signed
<1>8. CASE r.kind = "withdraw"
  <2>1. signed.slot = slot /\ signed.amount = amount
    BY <1>4, <1>5, <1>8 DEF createWithdraw
  <2>2. QED
    BY <1>8, <2>1 DEF AsAsked, slot, amount, signed
<1>9. CASE r.kind = "deposit"
  <2>1. signed = prepareAlgorandDeposit(slot, amount)
    BY <1>4, <1>5, <1>9
  <2>2. /\ signed.signed = [type |-> "transfer", amount |-> amount]
        /\ signed.group = << [type |-> "pay", amount |-> 0], [type |-> "call", slot |-> NoList],
                              [type |-> "transfer", amount |-> amount], [type |-> "call", slot |-> slot] >>
    BY <2>1 DEF prepareAlgorandDeposit, generateStandardDepositGroup
  <2>3. /\ Len(signed.group) = 4 /\ signed.group[3] = signed.signed
        /\ signed.group[4] = [type |-> "call", slot |-> slot]
    BY <2>2
  <2>4. \E i \in 2..Len(signed.group) : signed.group[i - 1] = signed.signed
                                         /\ signed.group[i] = [type |-> "call", slot |-> slot]
    <3>1. 4 \in 2..Len(signed.group) /\ 4 - 1 = 3
      BY <2>3
    <3>2. QED
      BY <2>3, <3>1
  <2>5. signed.signed.type = "transfer" /\ signed.signed.amount = amount
    BY <2>2
  <2>6. QED
    BY <1>9, <2>4, <2>5 DEF AsAsked, slot, amount, signed
<1>10. CASE r.kind = "order"
  <2>1. signed.sell[1] = slot /\ signed.buy[1] = ServerSlot(r.take[1][1])
    BY <1>4, <1>5, <1>10 DEF encodeOrderData
  <2>2. QED
    BY <1>10, <2>1 DEF AsAsked, slot, signed
<1>11. CASE r.kind = "liquidate"
  <2>1. signed.cash = LastWins(give) /\ signed.pool = LastWins(take)
    BY <1>5, <1>11 DEF createLiquidation
  <2>2. /\ DOMAIN LastWins(give) = {ServerSlot(r.give[i][1]) : i \in DOMAIN r.give}
        /\ \A i \in Once(r.give) : LastWins(give)[ServerSlot(r.give[i][1])] = r.give[i][2]
    <3>1. r.give \in Seq(Range(r.give))
      BY RequestHasPairs
    <3>2. QED
      BY <1>2, <3>1, BasketIsComplete DEF give
  <2>3. \A i \in Once(r.take) : LastWins(take)[ServerSlot(r.take[i][1])] = r.take[i][2]
    <3>1. r.take \in Seq(Range(r.take))
      BY RequestHasPairs
    <3>2. QED
      BY <1>2, <3>1, BasketIsComplete DEF take
  <2>4. QED
    BY <1>11, <2>1, <2>2, <2>3 DEF AsAsked, signed
<1>12. QED
  BY <1>1, <1>6, <1>7, <1>8, <1>9, <1>10, <1>11 DEF signed

-------------------------------------------------------------------------------
(* The inductive invariant.                                                 *)

\* What is ever signed: an operation over a list the SDK may have had.
SignedOperations == UNION {{Operation(r, Snapshot(n)) : n \in {m \in Sizes : Known(r, Snapshot(m))}} : r \in Requests}

LoginState == [pc : {"idle", "challenged", "completing", "opened", "status"}, nonce : Nat, ephemeral : BOOLEAN,
               key : Nat, expires : Nat, token : Nat, stored : Nat]
CallState  == [pc : {"idle", "fetching", "params", "signing", "posting"}, account : Nat,
               request : Requests \cup {NoRequest}, answer : Sizes \cup {NoList},
               operation : SignedOperations \cup {NoRequest}, lastValid : Nat, signer : Nat]
AccountState == [token : Nat, key : Nat, expires : Nat, stored : Nat]

TypeOK ==
    /\ listed \in InitialListed..Len(Instruments) /\ time \in Nat
    /\ nonces \in Nat /\ challenges \in SUBSET Nat /\ sessions \in Seq([live : BOOLEAN, key : Nat])
    /\ delegations \in SUBSET [key : Nat, expires : Nat] /\ revoked \in SUBSET Nat
    /\ instrumentCache \in Sizes \cup {NoList} /\ query \in Sizes \cup {NoList, NoQuery}
    /\ keys \in Nat /\ closures \in SUBSET Nat
    /\ login \in [Logins -> LoginState] /\ call \in [Calls -> CallState]
    /\ accounts \in Seq(AccountState)

\* The lists the server has answered with.
Lists == InitialListed..listed

\* Whoever holds a key had it delegated until then, or the delegation was revoked.
Granted(key, expires) ==
    key = NoKey \/ key \in revoked \/ \E d \in delegations : d.key = key /\ d.expires = expires

\* An Account, and the login that makes it, has an opened session and its key's delegation.
SessionOK(entry) ==
    entry.token \in DOMAIN sessions /\ Granted(entry.key, entry.expires) /\ Granted(entry.stored, entry.expires)

CallOK(entry) ==
    /\ entry.answer \in Lists \cup {NoList}
    /\ entry.pc # "idle" => entry.request \in Requests /\ entry.account \in DOMAIN accounts
    /\ entry.pc \in {"params", "signing", "posting"} =>
          \E n \in Lists : Known(entry.request, Snapshot(n)) /\ entry.operation = Operation(entry.request, Snapshot(n))
    /\ entry.pc = "posting" => entry.signer \in {NoKey, accounts[entry.account].key}

IInv ==
    /\ TypeOK
    /\ instrumentCache \in Lists \cup {NoList} /\ query \in Lists \cup {NoList, NoQuery}
    /\ \A c \in Calls : CallOK(call[c])
    /\ \A l \in Logins : login[l].pc \in {"opened", "status"} => SessionOK(login[l])
    /\ \A i \in DOMAIN accounts : SessionOK(accounts[i])

LEMMA ConstantsAreOK ==
    /\ Len(Instruments) \in Nat /\ InitialListed \in Sizes /\ NoKey \in Nat /\ NoKey = 0
    /\ Validity \in Nat /\ SessionDuration \in Nat /\ NoList \notin Sizes /\ NoQuery \notin Sizes
<1>1. Len(Instruments) \in Nat
  BY C3SessionAssumption, LenProperties
<1>2. QED
  BY <1>1, C3SessionAssumption DEF Sizes, NoKey, NoList, NoQuery

LEMMA ListsAreSizes ==
    ASSUME TypeOK
    PROVE  /\ Lists \subseteq Sizes /\ listed \in Sizes /\ listed \in Lists /\ InitialListed \in Lists
           /\ \A n \in Lists : n <= listed /\ InitialListed <= n
<1>1. InitialListed \in 0..Len(Instruments) /\ Len(Instruments) \in Nat /\ listed \in InitialListed..Len(Instruments)
  BY ConstantsAreOK, C3SessionAssumption DEF TypeOK
<1>2. QED
  BY <1>1 DEF Lists, Sizes

LEMMA OperationIsSigned ==
    ASSUME NEW r \in Requests, NEW n \in Sizes, Known(r, Snapshot(n))
    PROVE  Operation(r, Snapshot(n)) \in SignedOperations
BY DEF SignedOperations

LEMMA IdleIsOK ==
    /\ IdleLogin \in LoginState /\ IdleLogin.pc = "idle"
    /\ IdleCall \in CallState /\ CallOK(IdleCall)
<1>1. IdleLogin \in LoginState /\ IdleLogin.pc = "idle"
  BY DEF IdleLogin, LoginState, NoKey
<1>2. IdleCall \in CallState
  BY DEF IdleCall, CallState, NoKey
<1>3. IdleCall.pc = "idle" /\ IdleCall.answer = NoList
  BY DEF IdleCall
<1>4. CallOK(IdleCall)
  BY <1>3 DEF CallOK
<1>5. QED
  BY <1>1, <1>2, <1>4

\* A call that has its list knows the instruments in it, or it rejects.
LEMMA ContinuedIsOK ==
    ASSUME TypeOK, NEW e \in CallState, e.request \in Requests, e.account \in DOMAIN accounts, NEW n \in Lists
    PROVE  Continued(e, n) \in CallState /\ CallOK(Continued(e, n))
<1> DEFINE new == [e EXCEPT !.pc = IF e.request.kind = "order" THEN "signing" ELSE "params", !.answer = NoList,
                            !.operation = Operation(e.request, Snapshot(n))]
<1>1. Continued(e, n) = IF ~Known(e.request, Snapshot(n)) \/ ~Valid(e.request) THEN IdleCall ELSE new
  BY DEF Continued
<1>2. CASE ~Known(e.request, Snapshot(n)) \/ ~Valid(e.request)
  BY <1>1, <1>2, IdleIsOK
<1>3. CASE Known(e.request, Snapshot(n)) /\ Valid(e.request)
  <2>1. Operation(e.request, Snapshot(n)) \in SignedOperations
    BY <1>3, ListsAreSizes, OperationIsSigned
  <2>2. new \in CallState
    BY <2>1 DEF CallState
  <2>3. /\ new.pc \in {"params", "signing"} /\ new.answer = NoList /\ new.request = e.request
        /\ new.account = e.account /\ new.operation = Operation(e.request, Snapshot(n))
    BY DEF CallState
  <2> HIDE DEF new
  <2>4. CallOK(new)
    BY <1>3, <2>3 DEF CallOK
  <2>5. QED
    BY <1>1, <1>3, <2>2, <2>4
<1>4. QED
  BY <1>2, <1>3

\* A step of one call, or of none.
LEMMA OneCallMoves ==
    ASSUME IInv, UNCHANGED <<server, sdk>>, NEW c \in Calls, NEW e \in CallState, CallOK(e), SetCall(c, e)
    PROVE  call' \in [Calls -> CallState] /\ \A d \in Calls : CallOK(call[d])'
<1>1. call \in [Calls -> CallState] /\ call' = [call EXCEPT ![c] = e]
  BY DEF SetCall, IInv, TypeOK
<1>2. call' \in [Calls -> CallState] /\ \A d \in Calls : call'[d] = IF d = c THEN e ELSE call[d]
  BY <1>1
<1>3. accounts' = accounts /\ listed' = listed
  BY DEF server, sdk
<1>4. \A d \in Calls : CallOK(call[d])
  BY DEF IInv
<1>5. \A d \in Calls : CallOK(call[d])'
  <2>1. ASSUME NEW d \in Calls PROVE CallOK(call[d])'
    <3>1. CASE d = c
      <4>1. call'[d] = e
        BY <1>2, <3>1
      <4>2. QED
        BY <1>3, <4>1 DEF CallOK, Lists
    <3>2. CASE d # c
      <4>1. call'[d] = call[d] /\ CallOK(call[d])
        BY <1>2, <1>4, <3>2
      <4>2. QED
        BY <1>3, <4>1 DEF CallOK, Lists
    <3>3. QED
      BY <3>1, <3>2
  <2>2. QED
    BY <2>1
<1>6. QED
  BY <1>2, <1>5

LEMMA CallActionIsOK ==
    ASSUME IInv, NEW c \in Calls, NEW e \in CallState, CallOK(e), SetCall(c, e),
           UNCHANGED <<server, auth, sdk, query>>, instrumentCache' \in Lists \cup {NoList}
    PROVE  IInv'
<1>1. call' \in [Calls -> CallState] /\ \A d \in Calls : CallOK(call[d])'
  BY OneCallMoves
<1>2. /\ UNCHANGED <<listed, time, nonces, challenges, sessions, delegations, revoked, query>>
      /\ UNCHANGED <<keys, closures, login, accounts>>
  BY DEF server, auth, sdk
<1>3. instrumentCache' \in Sizes \cup {NoList}
  BY ListsAreSizes DEF IInv
<1>4. TypeOK'
  BY <1>1, <1>2, <1>3 DEF IInv, TypeOK
<1>5. instrumentCache' \in Lists' \cup {NoList} /\ query' \in Lists' \cup {NoList, NoQuery}
  BY <1>2 DEF IInv, Lists
<1>6. \A l \in Logins : (login[l].pc \in {"opened", "status"} => SessionOK(login[l]))'
  BY <1>2 DEF IInv, SessionOK, Granted
<1>7. \A i \in (DOMAIN accounts)' : SessionOK(accounts[i])'
  BY <1>2 DEF IInv, SessionOK, Granted
<1>8. QED
  BY <1>1, <1>4, <1>5, <1>6, <1>7 DEF IInv

LEMMA LoginActionIsOK ==
    ASSUME IInv, NEW l \in Logins, NEW e \in LoginState, e.pc \in {"opened", "status"} => SessionOK(e), SetLogin(l, e),
           UNCHANGED <<server, sessions, delegations, revoked, lists, accounts, call>>,
           nonces' \in Nat, challenges' \in SUBSET Nat, keys' \in Nat, closures' \in SUBSET Nat
    PROVE  IInv'
<1>1. login' = [login EXCEPT ![l] = e] /\ login \in [Logins -> LoginState]
  BY DEF SetLogin, IInv, TypeOK
<1>2. login' \in [Logins -> LoginState] /\ \A m \in Logins : login'[m] = IF m = l THEN e ELSE login[m]
  BY <1>1
<1>3. /\ UNCHANGED <<listed, time, sessions, delegations, revoked, instrumentCache, query, accounts, call>>
  BY DEF server, lists
<1>4. TypeOK'
  BY <1>2, <1>3 DEF IInv, TypeOK
<1>5. instrumentCache' \in Lists' \cup {NoList} /\ query' \in Lists' \cup {NoList, NoQuery}
  BY <1>3 DEF IInv, Lists
<1>6. \A c \in Calls : CallOK(call[c])'
  BY <1>3 DEF IInv, CallOK, Lists
<1>7. \A m \in Logins : (login[m].pc \in {"opened", "status"} => SessionOK(login[m]))'
  BY <1>2, <1>3 DEF IInv, SessionOK, Granted
<1>8. \A i \in (DOMAIN accounts)' : SessionOK(accounts[i])'
  BY <1>3 DEF IInv, SessionOK, Granted
<1>9. QED
  BY <1>4, <1>5, <1>6, <1>7, <1>8 DEF IInv

\* The server lists an instrument, time passes, a query fetches the list.
LEMMA ListActionIsOK ==
    ASSUME IInv, listed' \in listed..Len(Instruments), time' \in Nat, UNCHANGED <<auth, sdk, call>>,
           instrumentCache' \in Lists \cup {NoList}, query' \in Lists \cup {NoList, NoQuery}
    PROVE  IInv'
<1>1. /\ UNCHANGED <<nonces, challenges, sessions, delegations, revoked>>
      /\ UNCHANGED <<keys, closures, login, accounts, call>>
  BY DEF auth, sdk
<1>2. Lists \subseteq Lists' /\ listed' \in InitialListed..Len(Instruments) /\ Lists \subseteq Sizes
  BY ConstantsAreOK, C3SessionAssumption, ListsAreSizes DEF IInv, TypeOK, Lists
<1>3. TypeOK'
  BY <1>1, <1>2 DEF IInv, TypeOK
<1>4. instrumentCache' \in Lists' \cup {NoList} /\ query' \in Lists' \cup {NoList, NoQuery}
  BY <1>2
<1>5. \A c \in Calls : CallOK(call[c])'
  <2>1. ASSUME NEW c \in Calls PROVE CallOK(call[c])'
    <3>1. CallOK(call[c]) /\ call'[c] = call[c] /\ accounts' = accounts
      BY <1>1 DEF IInv
    <3> HIDE DEF Lists
    <3>2. QED
      BY <1>2, <3>1 DEF CallOK
  <2>2. QED
    BY <2>1
<1>6. \A l \in Logins : (login[l].pc \in {"opened", "status"} => SessionOK(login[l]))'
  BY <1>1 DEF IInv, SessionOK, Granted
<1>7. \A i \in (DOMAIN accounts)' : SessionOK(accounts[i])'
  BY <1>1 DEF IInv, SessionOK, Granted
<1>8. QED
  BY <1>3, <1>4, <1>5, <1>6, <1>7 DEF IInv

LEMMA InitIsOK == Init => IInv
<1> SUFFICES ASSUME Init PROVE IInv
  OBVIOUS
<1>1. listed = InitialListed /\ InitialListed \in 0..Len(Instruments) /\ Len(Instruments) \in Nat
  BY ConstantsAreOK, C3SessionAssumption DEF Init
<1>2. login \in [Logins -> LoginState] /\ \A l \in Logins : login[l].pc = "idle"
  BY IdleIsOK DEF Init
<1>3. call \in [Calls -> CallState] /\ \A c \in Calls : CallOK(call[c])
  BY IdleIsOK DEF Init
<1>4. sessions = <<>> /\ accounts = <<>> /\ DOMAIN accounts = {}
  BY DEF Init
<1>5. sessions \in Seq([live : BOOLEAN, key : Nat]) /\ accounts \in Seq(AccountState)
  BY <1>4
<1>6. TypeOK
  BY <1>1, <1>2, <1>3, <1>5 DEF Init, TypeOK
<1>7. QED
  BY <1>2, <1>3, <1>4, <1>6 DEF Init, IInv

\* Sessions are opened and closed, and delegations made and revoked.
LEMMA AuthActionIsOK ==
    ASSUME IInv, UNCHANGED <<server, lists, keys, closures, accounts, call>>,
           nonces' \in Nat, challenges' \in SUBSET Nat, sessions' \in Seq([live : BOOLEAN, key : Nat]),
           delegations' \in SUBSET [key : Nat, expires : Nat], revoked' \in SUBSET Nat,
           DOMAIN sessions \subseteq DOMAIN sessions',
           \A key, expires : Granted(key, expires) => Granted(key, expires)',
           login' \in [Logins -> LoginState],
           \A l \in Logins : login'[l] = login[l] \/ SessionOK(login[l])'
    PROVE  IInv'
<1>1. UNCHANGED <<listed, time, instrumentCache, query, keys, closures, accounts, call>>
  BY DEF server, lists
<1>2. TypeOK'
  BY <1>1 DEF IInv, TypeOK
<1>3. instrumentCache' \in Lists' \cup {NoList} /\ query' \in Lists' \cup {NoList, NoQuery}
  BY <1>1 DEF IInv, Lists
<1>4. \A c \in Calls : CallOK(call[c])'
  BY <1>1 DEF IInv, CallOK, Lists
<1>5. \A l \in Logins : (login[l].pc \in {"opened", "status"} => SessionOK(login[l]))'
  <2>1. ASSUME NEW l \in Logins, login'[l].pc \in {"opened", "status"}, login'[l] = login[l]
        PROVE  SessionOK(login[l])'
    <3>1. SUFFICES ASSUME NEW entry, entry = login[l] PROVE SessionOK(login[l])'
      OBVIOUS
    <3>2. SessionOK(entry) /\ login'[l] = entry
      BY <2>1, <3>1 DEF IInv
    <3>3. entry.token \in DOMAIN sessions' /\ Granted(entry.key, entry.expires)' /\ Granted(entry.stored, entry.expires)'
      BY <3>2 DEF SessionOK
    <3>4. QED
      BY <3>2, <3>3 DEF SessionOK, Granted
  <2>2. QED
    BY <2>1
<1>6. \A i \in (DOMAIN accounts)' : SessionOK(accounts[i])'
  <2>1. ASSUME NEW i \in DOMAIN accounts PROVE SessionOK(accounts[i])'
    <3>1. SUFFICES ASSUME NEW entry, entry = accounts[i] PROVE SessionOK(accounts[i])'
      OBVIOUS
    <3>2. SessionOK(entry) /\ accounts'[i] = entry
      BY <1>1, <3>1 DEF IInv
    <3>3. entry.token \in DOMAIN sessions' /\ Granted(entry.key, entry.expires)' /\ Granted(entry.stored, entry.expires)'
      BY <3>2 DEF SessionOK
    <3>4. QED
      BY <3>2, <3>3 DEF SessionOK, Granted
  <2>2. QED
    BY <1>1, <2>1
<1>7. QED
  BY <1>2, <1>3, <1>4, <1>5, <1>6 DEF IInv

LEMMA LoginIsTyped ==
    ASSUME IInv, NEW l \in Logins
    PROVE  /\ login[l] \in LoginState /\ (login[l].pc \in {"opened", "status"} => SessionOK(login[l]))
           /\ nonces \in Nat /\ challenges \in SUBSET Nat /\ keys \in Nat /\ closures \in SUBSET Nat /\ time \in Nat
           /\ SessionDuration \in Nat /\ Validity \in Nat
BY ConstantsAreOK DEF IInv, TypeOK

LEMMA LoginsAreOK ==
    ASSUME IInv, NEW l \in Logins,
           StartLogin(l) \/ SignNonce(l) \/ CallCompleteLogin(l) \/ LoginFails(l) \/ Resume(l) \/ LoginStatus(l)
    PROVE  IInv'
<1>0. /\ login[l] \in LoginState /\ (login[l].pc \in {"opened", "status"} => SessionOK(login[l]))
      /\ nonces \in Nat /\ challenges \in SUBSET Nat /\ keys \in Nat /\ closures \in SUBSET Nat /\ time \in Nat
      /\ SessionDuration \in Nat
  BY LoginIsTyped
<1>1. CASE StartLogin(l)
  <2>1. PICK b \in BOOLEAN : SetLogin(l, [IdleLogin EXCEPT !.pc = "challenged", !.nonce = nonces', !.ephemeral = b])
    BY <1>1 DEF StartLogin
  <2> DEFINE e == [IdleLogin EXCEPT !.pc = "challenged", !.nonce = nonces', !.ephemeral = b]
  <2>2. /\ nonces' \in Nat /\ challenges' \in SUBSET Nat /\ keys' \in Nat /\ closures' \in SUBSET Nat
        /\ UNCHANGED <<server, sessions, delegations, revoked, lists, accounts, call>>
    <3>1. /\ nonces' = nonces + 1 /\ challenges' = challenges \cup {nonces'}
          /\ UNCHANGED <<server, sessions, delegations, revoked, lists, keys, closures, accounts, call>>
      BY <1>1 DEF StartLogin
    <3>2. QED
      BY <1>0, <3>1
  <2>3. e \in LoginState /\ e.pc = "challenged"
    BY <2>2 DEF IdleLogin, LoginState, NoKey
  <2> HIDE DEF e
  <2>4. SetLogin(l, e)
    BY <2>1 DEF e
  <2>5. QED
    BY <2>2, <2>3, <2>4, LoginActionIsOK
<1>2. CASE SignNonce(l)
  <2> DEFINE e == [login[l] EXCEPT !.pc = "completing"]
  <2>1. /\ nonces' \in Nat /\ challenges' \in SUBSET Nat /\ keys' \in Nat
        /\ UNCHANGED <<server, sessions, delegations, revoked, lists, accounts, call>>
    BY <1>0, <1>2 DEF SignNonce, auth
  <2>2. e \in LoginState /\ e.pc = "completing"
    BY <1>0 DEF LoginState
  <2>3. closures' \in SUBSET Nat
    BY <1>0, <1>2 DEF SignNonce, LoginState
  <2>4. SetLogin(l, IdleLogin) \/ SetLogin(l, e)
    BY <1>2 DEF SignNonce
  <2> HIDE DEF e
  <2>5. QED
    BY <2>1, <2>2, <2>3, <2>4, IdleIsOK, LoginActionIsOK
<1>3. CASE CallCompleteLogin(l)
  <2>1. PICK nonce \in closures :
          SetLogin(l, [IdleLogin EXCEPT !.pc = "completing", !.nonce = nonce, !.ephemeral = TRUE,
                                        !.key = keys + 1, !.expires = time + SessionDuration])
    BY <1>3 DEF CallCompleteLogin
  <2> DEFINE e == [IdleLogin EXCEPT !.pc = "completing", !.nonce = nonce, !.ephemeral = TRUE,
                                    !.key = keys + 1, !.expires = time + SessionDuration]
  <2>2. /\ nonces' \in Nat /\ challenges' \in SUBSET Nat /\ keys' \in Nat /\ closures' \in SUBSET Nat
        /\ UNCHANGED <<server, sessions, delegations, revoked, lists, accounts, call>>
    <3>1. keys' = keys + 1 /\ UNCHANGED <<server, auth, lists, closures, accounts, call>>
      BY <1>3 DEF CallCompleteLogin
    <3>2. QED
      BY <1>0, <3>1 DEF auth
  <2>3. nonce \in Nat /\ keys + 1 \in Nat /\ time + SessionDuration \in Nat
    BY <1>0
  <2>4. e \in LoginState /\ e.pc = "completing"
    BY <2>3 DEF IdleLogin, LoginState, NoKey
  <2> HIDE DEF e
  <2>5. SetLogin(l, e)
    BY <2>1 DEF e
  <2>6. QED
    BY <2>2, <2>4, <2>5, LoginActionIsOK
<1>4. CASE LoginFails(l)
  <2>1. /\ nonces' \in Nat /\ challenges' \in SUBSET Nat /\ keys' \in Nat /\ closures' \in SUBSET Nat
        /\ UNCHANGED <<server, sessions, delegations, revoked, lists, accounts, call>> /\ SetLogin(l, IdleLogin)
    BY <1>0, <1>4 DEF LoginFails, auth
  <2>2. QED
    BY <2>1, IdleIsOK, LoginActionIsOK
<1>5. CASE Resume(l)
  <2>1. PICK i \in DOMAIN accounts :
          SetLogin(l, IF accounts[i].stored = NoKey
                      THEN [IdleLogin EXCEPT !.pc = "opened", !.token = accounts[i].token]
                      ELSE [IdleLogin EXCEPT !.pc = "status", !.token = accounts[i].token,
                                             !.stored = accounts[i].stored, !.expires = accounts[i].expires])
    BY <1>5 DEF Resume
  <2> DEFINE e == IF accounts[i].stored = NoKey
                  THEN [IdleLogin EXCEPT !.pc = "opened", !.token = accounts[i].token]
                  ELSE [IdleLogin EXCEPT !.pc = "status", !.token = accounts[i].token,
                                         !.stored = accounts[i].stored, !.expires = accounts[i].expires]
  <2>2. /\ nonces' \in Nat /\ challenges' \in SUBSET Nat /\ keys' \in Nat /\ closures' \in SUBSET Nat
        /\ UNCHANGED <<server, sessions, delegations, revoked, lists, accounts, call>>
    BY <1>0, <1>5 DEF Resume, auth
  <2>3. SessionOK(accounts[i]) /\ accounts[i] \in AccountState
    BY DEF IInv, TypeOK
  <2>4. e \in LoginState
    BY <2>3 DEF IdleLogin, LoginState, NoKey, AccountState
  <2>5. e.token = accounts[i].token /\ e.key = NoKey /\ (e.stored = NoKey \/ (e.stored = accounts[i].stored /\ e.expires = accounts[i].expires))
    BY DEF IdleLogin
  <2> HIDE DEF e
  <2>6. SessionOK(e)
    BY <2>3, <2>5 DEF SessionOK, Granted
  <2>7. SetLogin(l, e)
    BY <2>1 DEF e
  <2>8. QED
    BY <2>2, <2>4, <2>6, <2>7, LoginActionIsOK
<1>6. CASE LoginStatus(l)
  <2>1. /\ nonces' \in Nat /\ challenges' \in SUBSET Nat /\ keys' \in Nat /\ closures' \in SUBSET Nat
        /\ UNCHANGED <<server, sessions, delegations, revoked, lists, accounts, call>>
    BY <1>0, <1>6 DEF LoginStatus, auth
  <2>2. CASE SetLogin(l, IdleLogin)
    BY <2>1, <2>2, IdleIsOK, LoginActionIsOK
  <2>3. ASSUME NEW b \in BOOLEAN,
               SetLogin(l, [login[l] EXCEPT !.pc = "opened", !.key = IF b THEN login[l].stored ELSE NoKey])
        PROVE  IInv'
    <3> DEFINE e == [login[l] EXCEPT !.pc = "opened", !.key = IF b THEN login[l].stored ELSE NoKey]
    <3>1. e \in LoginState
      BY <1>0 DEF LoginState, NoKey
    <3>2. e.token = login[l].token /\ e.key \in {login[l].stored, NoKey} /\ e.stored = login[l].stored
            /\ e.expires = login[l].expires
      BY <1>0 DEF LoginState
    <3>3. SessionOK(login[l])
      BY <1>0, <1>6 DEF LoginStatus
    <3> HIDE DEF e
    <3>4. SessionOK(e)
      BY <3>2, <3>3 DEF SessionOK, Granted
    <3>5. SetLogin(l, e)
      BY <2>3 DEF e
    <3>6. QED
      BY <2>1, <3>1, <3>4, <3>5, LoginActionIsOK
  <2>4. QED
    BY <1>6, <2>2, <2>3 DEF LoginStatus
<1>7. QED
  BY <1>1, <1>2, <1>3, <1>4, <1>5, <1>6

LEMMA AppendedIsLast ==
    ASSUME NEW S, NEW s \in Seq(S), NEW e \in S
    PROVE  /\ Append(s, e) \in Seq(S) /\ DOMAIN s = 1..Len(s) /\ Len(s) \in Nat
           /\ Len(Append(s, e)) = Len(s) + 1 /\ DOMAIN Append(s, e) = DOMAIN s \cup {Len(s) + 1}
           /\ Append(s, e)[Len(s) + 1] = e /\ \A i \in DOMAIN s : Append(s, e)[i] = s[i]
<1>1. /\ Append(s, e) \in Seq(S) /\ Len(Append(s, e)) = Len(s) + 1 /\ Append(s, e)[Len(s) + 1] = e
      /\ \A i \in 1..Len(s) : Append(s, e)[i] = s[i]
  BY AppendProperties
<1>2. Len(s) \in Nat /\ DOMAIN s = 1..Len(s) /\ DOMAIN Append(s, e) = 1..Len(s) + 1
  BY <1>1, LenProperties
<1>3. 1..Len(s) + 1 = 1..Len(s) \cup {Len(s) + 1}
  BY <1>2
<1>4. QED
  BY <1>1, <1>2, <1>3

LEMMA ServerCompletesIsOK ==
    ASSUME IInv, NEW l \in Logins, ServerCompletes(l)
    PROVE  IInv'
<1> DEFINE session == [live |-> TRUE, key |-> login[l].key]
           grant == [key |-> login[l].key, expires |-> login[l].expires]
<1>1. PICK b \in BOOLEAN :
        /\ login[l].key = NoKey => ~b
        /\ SetLogin(l, [login[l] EXCEPT !.pc = "opened", !.token = Len(sessions'),
                                             !.stored = IF b THEN login[l].key ELSE NoKey])
  BY DEF ServerCompletes
<1> DEFINE e == [login[l] EXCEPT !.pc = "opened", !.token = Len(sessions'), !.stored = IF b THEN login[l].key ELSE NoKey]
<1>2. /\ UNCHANGED <<server, nonces, revoked, lists, keys, closures, accounts, call>>
      /\ challenges' = challenges \ {login[l].nonce} /\ sessions' = Append(sessions, session)
      /\ delegations' = IF login[l].key = NoKey THEN delegations ELSE delegations \cup {grant}
  BY DEF ServerCompletes
<1>3. /\ login[l] \in LoginState /\ nonces \in Nat /\ challenges \in SUBSET Nat
      /\ sessions \in Seq([live : BOOLEAN, key : Nat]) /\ revoked \in SUBSET Nat
      /\ delegations \in SUBSET [key : Nat, expires : Nat] /\ login \in [Logins -> LoginState]
  BY DEF IInv, TypeOK
<1>4. session \in [live : BOOLEAN, key : Nat] /\ grant \in [key : Nat, expires : Nat]
      /\ grant.key = login[l].key /\ grant.expires = login[l].expires
  BY <1>3 DEF LoginState
<1> HIDE DEF session, grant
<1>5. /\ sessions' \in Seq([live : BOOLEAN, key : Nat]) /\ Len(sessions') \in Nat
      /\ DOMAIN sessions \subseteq DOMAIN sessions' /\ Len(sessions') \in DOMAIN sessions'
  <2>1. /\ sessions' \in Seq([live : BOOLEAN, key : Nat]) /\ Len(sessions) \in Nat
        /\ Len(sessions') = Len(sessions) + 1 /\ DOMAIN sessions' = DOMAIN sessions \cup {Len(sessions) + 1}
    BY <1>2, <1>3, <1>4, AppendedIsLast
  <2>2. QED
    BY <2>1
<1>6. challenges' \in SUBSET Nat /\ nonces' \in Nat /\ revoked' \in SUBSET Nat
      /\ delegations' \in SUBSET [key : Nat, expires : Nat]
  BY <1>2, <1>3, <1>4
<1>7. ASSUME NEW key, NEW expires, Granted(key, expires) PROVE Granted(key, expires)'
  <2>1. delegations \subseteq delegations' /\ revoked' = revoked
    BY <1>2
  <2>2. QED
    BY <1>7, <2>1 DEF Granted
<1>8. /\ e \in LoginState /\ e.token = Len(sessions') /\ e.key = login[l].key /\ e.expires = login[l].expires
      /\ e.stored \in {login[l].key, NoKey}
  BY <1>3, <1>5 DEF LoginState, NoKey
<1> HIDE DEF e
<1>9. login' = [login EXCEPT ![l] = e]
  BY <1>1 DEF SetLogin, e
<1>10. login' \in [Logins -> LoginState] /\ \A m \in Logins : login'[m] = IF m = l THEN e ELSE login[m]
  BY <1>3, <1>8, <1>9
<1>11. SessionOK(login[l])'
  <2>1. login'[l] = e
    BY <1>10
  <2>2. e.key = NoKey \/ (grant \in delegations' /\ grant.key = e.key /\ grant.expires = e.expires)
    BY <1>2, <1>4, <1>8
  <2>3. QED
    BY <1>5, <1>8, <2>1, <2>2 DEF SessionOK, Granted
<1>12. \A m \in Logins : login'[m] = login[m] \/ SessionOK(login[m])'
  <2>1. ASSUME NEW m \in Logins, m = l PROVE SessionOK(login[m])'
    BY <1>11, <2>1 DEF SessionOK, Granted
  <2>2. QED
    BY <1>10, <2>1
<1>13. QED
  BY <1>2, <1>5, <1>6, <1>7, <1>10, <1>12, AuthActionIsOK

LEMMA LogoutIsOK ==
    ASSUME IInv, NEW i \in DOMAIN accounts, Logout(i)
    PROVE  IInv'
<1>1. /\ sessions' = [sessions EXCEPT ![accounts[i].token].live = FALSE]
      /\ UNCHANGED <<server, nonces, challenges, delegations, revoked, lists, sdk, call>>
  BY DEF Logout
<1>2. /\ nonces \in Nat /\ challenges \in SUBSET Nat /\ sessions \in Seq([live : BOOLEAN, key : Nat])
      /\ delegations \in SUBSET [key : Nat, expires : Nat] /\ revoked \in SUBSET Nat /\ login \in [Logins -> LoginState]
  BY DEF IInv, TypeOK
<1>3. accounts[i].token \in DOMAIN sessions
  BY DEF IInv, SessionOK
<1>4. sessions' \in Seq([live : BOOLEAN, key : Nat]) /\ DOMAIN sessions \subseteq DOMAIN sessions'
  <2> DEFINE t == accounts[i].token
             S == [live : BOOLEAN, key : Nat]
             closed == [sessions[t] EXCEPT !.live = FALSE]
  <2>1. t \in 1..Len(sessions) /\ Len(sessions) \in Nat /\ DOMAIN sessions = 1..Len(sessions)
    BY <1>2, <1>3, LenProperties
  <2>2. closed \in S
    <3>1. sessions[t] \in S
      BY <1>2, <2>1, ElementOfSeq
    <3>2. QED
      BY <3>1
  <2>3. sessions' = [sessions EXCEPT ![t] = closed]
    BY <1>1
  <2> HIDE DEF closed, t, S
  <2>4. sessions \in Seq(S)
    BY <1>2 DEF S
  <2>5. sessions' \in Seq(S) /\ Len(sessions') = Len(sessions)
    BY <2>1, <2>2, <2>3, <2>4, ExceptSeq
  <2>6. QED
    BY <2>1, <2>3, <2>5 DEF S
<1>5. ASSUME NEW key, NEW expires, Granted(key, expires) PROVE Granted(key, expires)'
  BY <1>1, <1>5 DEF Granted
<1>6. QED
  BY <1>1, <1>2, <1>4, <1>5, AuthActionIsOK DEF sdk

LEMMA RevokeDelegationIsOK ==
    ASSUME IInv, NEW i \in DOMAIN accounts, RevokeDelegation(i)
    PROVE  IInv'
<1>1. PICK d \in delegations : delegations' = delegations \ {d} /\ revoked' = revoked \cup {d.key}
  BY DEF RevokeDelegation
<1>2. UNCHANGED <<server, nonces, challenges, sessions, lists, sdk, call>>
  BY DEF RevokeDelegation
<1>3. /\ nonces \in Nat /\ challenges \in SUBSET Nat /\ sessions \in Seq([live : BOOLEAN, key : Nat])
      /\ delegations \in SUBSET [key : Nat, expires : Nat] /\ revoked \in SUBSET Nat /\ login \in [Logins -> LoginState]
  BY DEF IInv, TypeOK
<1>4. delegations' \in SUBSET [key : Nat, expires : Nat] /\ revoked' \in SUBSET Nat
  <2>1. d.key \in Nat
    BY <1>3
  <2>2. QED
    BY <1>1, <1>3, <2>1
<1>5. ASSUME NEW key, NEW expires, Granted(key, expires) PROVE Granted(key, expires)'
  <2>1. CASE key = NoKey \/ key \in revoked
    BY <1>1, <2>1 DEF Granted
  <2>2. ASSUME NEW g \in delegations, g.key = key, g.expires = expires PROVE Granted(key, expires)'
    <3>1. g = d \/ g \in delegations'
      BY <1>1
    <3>2. QED
      BY <1>1, <2>2, <3>1 DEF Granted
  <2>3. QED
    BY <1>5, <2>1, <2>2 DEF Granted
<1>6. QED
  BY <1>2, <1>3, <1>4, <1>5, AuthActionIsOK DEF sdk

LEMMA GenerateAccountEntityIsOK ==
    ASSUME IInv, NEW l \in Logins, GenerateAccountEntity(l)
    PROVE  IInv'
<1> DEFINE made == [token |-> login[l].token, key |-> login[l].key, expires |-> login[l].expires,
                    stored |-> login[l].stored]
<1>1. /\ login[l].pc = "opened" /\ accounts' = Append(accounts, made) /\ login' = [login EXCEPT ![l] = IdleLogin]
      /\ UNCHANGED <<server, auth, lists, keys, closures, call>>
  BY DEF GenerateAccountEntity, SetLogin
<1>2. /\ login[l] \in LoginState /\ login \in [Logins -> LoginState] /\ accounts \in Seq(AccountState)
      /\ SessionOK(login[l])
  BY <1>1 DEF IInv, TypeOK
<1>3. /\ UNCHANGED <<listed, time, nonces, challenges, sessions, delegations, revoked>>
      /\ UNCHANGED <<instrumentCache, query, keys, closures, call>>
  BY <1>1 DEF server, auth, lists
<1>4. made \in AccountState /\ SessionOK(made)
  BY <1>2 DEF LoginState, AccountState, SessionOK
<1> HIDE DEF made
<1>5. /\ accounts' \in Seq(AccountState) /\ DOMAIN accounts' = DOMAIN accounts \cup {Len(accounts) + 1}
      /\ accounts'[Len(accounts) + 1] = made /\ \A i \in DOMAIN accounts : accounts'[i] = accounts[i]
  BY <1>1, <1>2, <1>4, AppendedIsLast
<1>6. login' \in [Logins -> LoginState] /\ \A m \in Logins : login'[m] = IF m = l THEN IdleLogin ELSE login[m]
  BY <1>1, <1>2, IdleIsOK
<1>7. TypeOK'
  BY <1>3, <1>5, <1>6 DEF IInv, TypeOK
<1>8. instrumentCache' \in Lists' \cup {NoList} /\ query' \in Lists' \cup {NoList, NoQuery}
  BY <1>3 DEF IInv, Lists
<1>9. \A c \in Calls : CallOK(call[c])'
  <2>1. ASSUME NEW c \in Calls PROVE CallOK(call[c])'
    <3>1. CallOK(call[c]) /\ call'[c] = call[c] /\ listed' = listed
      BY <1>3 DEF IInv
    <3>2. QED
      BY <1>5, <3>1 DEF CallOK, Lists
  <2>2. QED
    BY <2>1
<1>10. \A m \in Logins : (login[m].pc \in {"opened", "status"} => SessionOK(login[m]))'
  BY <1>3, <1>6, IdleIsOK DEF IInv, SessionOK, Granted
<1>11. \A i \in (DOMAIN accounts)' : SessionOK(accounts[i])'
  <2>1. ASSUME NEW i \in DOMAIN accounts' PROVE SessionOK(accounts[i])'
    <3>1. SessionOK(accounts'[i])
      BY <1>4, <1>5 DEF IInv
    <3>2. QED
      BY <1>3, <3>1 DEF SessionOK, Granted
  <2>2. QED
    BY <2>1
<1>12. QED
  BY <1>7, <1>8, <1>9, <1>10, <1>11 DEF IInv

LEMMA CallsAreOK ==
    ASSUME IInv, NEW c \in Calls,
           Begin(c) \/ ServerLists(c) \/ StoreList(c) \/ CallFails(c) \/ GetOperationParams(c) \/ Sign(c) \/ Submit(c)
    PROVE  IInv'
<1>1. /\ call[c] \in CallState /\ CallOK(call[c]) /\ instrumentCache \in Lists \cup {NoList}
      /\ accounts \in Seq(AccountState) /\ time \in Nat
  BY DEF IInv, TypeOK
<1>2. /\ Validity \in Nat /\ NoList \notin Lists /\ Lists \subseteq Sizes /\ listed \in Lists
  BY ConstantsAreOK, ListsAreSizes DEF IInv
<1>3. CASE Begin(c)
  <2>1. PICK i \in DOMAIN accounts, request \in Requests :
          SetCall(c, IF instrumentCache = NoList
                     THEN [[IdleCall EXCEPT !.account = i, !.request = request] EXCEPT !.pc = "fetching"]
                     ELSE Continued([IdleCall EXCEPT !.account = i, !.request = request], instrumentCache))
    BY <1>3 DEF Begin
  <2> DEFINE entry == [IdleCall EXCEPT !.account = i, !.request = request]
             asking == [entry EXCEPT !.pc = "fetching"]
  <2>2. i \in Nat
    BY <1>1, LenProperties
  <2>3. entry \in CallState /\ entry.account = i /\ entry.request = request /\ entry.answer = NoList
    BY <2>2 DEF IdleCall, CallState, NoKey
  <2>4. /\ asking \in CallState /\ asking.pc = "fetching" /\ asking.account = i /\ asking.request = request
        /\ asking.answer = NoList
    BY <2>2 DEF IdleCall, CallState, NoKey
  <2>5. SetCall(c, asking) \/ (instrumentCache # NoList /\ SetCall(c, Continued(entry, instrumentCache)))
    BY <2>1
  <2> HIDE DEF entry, asking
  <2>6. CallOK(asking)
    BY <2>4 DEF CallOK
  <2>7. UNCHANGED <<server, auth, sdk, query>> /\ instrumentCache' \in Lists \cup {NoList}
    BY <1>1, <1>3 DEF Begin, lists
  <2>8. CASE SetCall(c, asking)
    BY <2>4, <2>6, <2>7, <2>8, CallActionIsOK
  <2>9. CASE instrumentCache # NoList /\ SetCall(c, Continued(entry, instrumentCache))
    <3>1. Continued(entry, instrumentCache) \in CallState /\ CallOK(Continued(entry, instrumentCache))
      BY <1>1, <2>3, <2>9, ContinuedIsOK DEF IInv
    <3>2. QED
      BY <2>7, <2>9, <3>1, CallActionIsOK
  <2>10. QED
    BY <2>5, <2>8, <2>9
<1>4. CASE ServerLists(c)
  <2> DEFINE e == [call[c] EXCEPT !.answer = listed]
  <2>1. /\ call[c].pc = "fetching" /\ SetCall(c, e) /\ UNCHANGED <<server, auth, sdk, query>>
        /\ instrumentCache' \in Lists \cup {NoList}
    BY <1>1, <1>4 DEF ServerLists, lists
  <2>2. e \in CallState /\ e.pc = "fetching" /\ e.account = call[c].account /\ e.request = call[c].request /\ e.answer = listed
    BY <1>1, <1>2, <2>1 DEF CallState
  <2> HIDE DEF e
  <2>3. CallOK(e)
    BY <1>1, <1>2, <2>1, <2>2 DEF CallOK
  <2>4. QED
    BY <2>1, <2>2, <2>3, CallActionIsOK
<1>5. CASE StoreList(c)
  <2>1. /\ call[c].pc = "fetching" /\ call[c].answer # NoList /\ instrumentCache' = call[c].answer
        /\ SetCall(c, Continued(call[c], call[c].answer)) /\ UNCHANGED <<server, auth, query, sdk>>
    BY <1>5 DEF StoreList
  <2>2. call[c].answer \in Lists /\ call[c].request \in Requests /\ call[c].account \in DOMAIN accounts
    BY <1>1, <2>1 DEF CallOK
  <2>3. Continued(call[c], call[c].answer) \in CallState /\ CallOK(Continued(call[c], call[c].answer))
    BY <1>1, <2>2, ContinuedIsOK DEF IInv
  <2>4. QED
    BY <2>1, <2>2, <2>3, CallActionIsOK
<1>6. CASE CallFails(c) \/ Submit(c)
  <2>1. SetCall(c, IdleCall) /\ UNCHANGED <<server, auth, sdk, query>> /\ instrumentCache' \in Lists \cup {NoList}
    BY <1>1, <1>6 DEF CallFails, Submit, lists
  <2>2. QED
    BY <2>1, IdleIsOK, CallActionIsOK
<1>7. CASE GetOperationParams(c)
  <2> DEFINE e == [call[c] EXCEPT !.pc = "signing", !.lastValid = time + Validity]
  <2>1. /\ call[c].pc = "params" /\ SetCall(c, e) /\ UNCHANGED <<server, auth, sdk, query>>
        /\ instrumentCache' \in Lists \cup {NoList}
    BY <1>1, <1>7 DEF GetOperationParams, lists
  <2>2. /\ e \in CallState /\ e.pc = "signing" /\ e.account = call[c].account /\ e.request = call[c].request
        /\ e.answer = call[c].answer /\ e.operation = call[c].operation
    <3>1. time + Validity \in Nat
      BY <1>1, <1>2
    <3>2. QED
      BY <1>1, <3>1 DEF CallState
  <2> HIDE DEF e
  <2>3. CallOK(e)
    BY <1>1, <2>1, <2>2 DEF CallOK
  <2>4. QED
    BY <2>1, <2>2, <2>3, CallActionIsOK
<1>8. CASE Sign(c)
  <2> DEFINE signer == IF call[c].request.kind \in {"withdraw", "deposit"} THEN NoKey ELSE accounts[call[c].account].key
             e == [call[c] EXCEPT !.pc = "posting", !.signer = signer]
  <2>1. /\ call[c].pc = "signing" /\ SetCall(c, e) /\ UNCHANGED <<server, auth, sdk, query>>
        /\ instrumentCache' \in Lists \cup {NoList}
    BY <1>1, <1>8 DEF Sign, lists
  <2>2. signer \in Nat /\ signer \in {NoKey, accounts[call[c].account].key}
    <3>1. call[c].account \in DOMAIN accounts
      BY <1>1, <2>1 DEF CallOK
    <3>2. accounts[call[c].account] \in AccountState
      BY <1>1, <3>1, LenProperties, ElementOfSeq
    <3>3. QED
      BY <3>2 DEF AccountState, NoKey
  <2> HIDE DEF signer
  <2>3. /\ e \in CallState /\ e.pc = "posting" /\ e.account = call[c].account /\ e.request = call[c].request
        /\ e.answer = call[c].answer /\ e.operation = call[c].operation /\ e.signer = signer
    BY <1>1, <2>2 DEF CallState
  <2> HIDE DEF e
  <2>4. CallOK(e)
    BY <1>1, <2>1, <2>2, <2>3 DEF CallOK
  <2>5. QED
    BY <2>1, <2>3, <2>4, CallActionIsOK
<1>9. QED
  BY <1>3, <1>4, <1>5, <1>6, <1>7, <1>8

LEMMA ListsAreOK ==
    ASSUME IInv, ListInstrument \/ ClockTicks \/ BeginQuery \/ QueryListed \/ EndQuery
    PROVE  IInv'
<1>1. /\ listed \in Nat /\ time \in Nat /\ Len(Instruments) \in Nat /\ listed \in 0..Len(Instruments) /\ listed \in Lists
      /\ instrumentCache \in Lists \cup {NoList} /\ query \in Lists \cup {NoList, NoQuery}
  BY ConstantsAreOK, ListsAreSizes DEF IInv, TypeOK, Sizes
<1> HIDE DEF Lists
<1>2. CASE ListInstrument
  <2>1. listed < Len(Instruments) /\ listed' = listed + 1 /\ UNCHANGED <<time, auth, lists, sdk, call>>
    BY <1>2 DEF ListInstrument
  <2>2. listed' \in listed..Len(Instruments)
    BY <1>1, <2>1
  <2>3. QED
    BY <1>1, <2>1, <2>2, ListActionIsOK DEF lists
<1>3. ASSUME UNCHANGED listed PROVE listed' \in listed..Len(Instruments)
  BY <1>1, <1>3
<1>4. CASE ClockTicks
  <2>1. UNCHANGED listed /\ time' = time + 1 /\ UNCHANGED <<auth, lists, sdk, call>>
    BY <1>4 DEF ClockTicks
  <2>2. time' \in Nat
    BY <1>1, <2>1
  <2>3. QED
    BY <1>1, <1>3, <2>1, <2>2, ListActionIsOK DEF lists
<1>5. CASE BeginQuery \/ QueryListed \/ EndQuery
  <2>1. /\ UNCHANGED <<listed, time, auth, sdk, call>>
        /\ instrumentCache' \in Lists \cup {NoList} /\ query' \in Lists \cup {NoList, NoQuery}
    BY <1>1, <1>5 DEF BeginQuery, QueryListed, EndQuery, server
  <2>2. QED
    BY <1>1, <1>3, <2>1, ListActionIsOK
<1>6. QED
  BY <1>2, <1>4, <1>5

LEMMA StepIsOK ==
    ASSUME IInv, [Next]_vars
    PROVE  IInv'
<1>1. CASE UNCHANGED vars
  <2>1. /\ UNCHANGED <<listed, time, nonces, challenges, sessions, delegations, revoked>>
        /\ UNCHANGED <<instrumentCache, query, keys, closures, login, accounts, call>>
    BY <1>1 DEF vars, server, auth, lists, sdk
  <2>2. TypeOK'
    BY <2>1 DEF IInv, TypeOK
  <2>3. QED
    BY <2>1, <2>2 DEF IInv, CallOK, SessionOK, Granted, Lists
<1>2. CASE Next
  <2>1. CASE ListInstrument \/ ClockTicks \/ BeginQuery \/ QueryListed \/ EndQuery
    BY <2>1, ListsAreOK
  <2>2. CASE \E l \in Logins : \/ StartLogin(l) \/ SignNonce(l) \/ CallCompleteLogin(l)
                               \/ ServerCompletes(l) \/ LoginFails(l) \/ GenerateAccountEntity(l)
                               \/ Resume(l) \/ LoginStatus(l)
    BY <2>2, LoginsAreOK, ServerCompletesIsOK, GenerateAccountEntityIsOK
  <2>3. CASE \E i \in DOMAIN accounts : Logout(i) \/ RevokeDelegation(i)
    BY <2>3, LogoutIsOK, RevokeDelegationIsOK
  <2>4. CASE \E c \in Calls : \/ Begin(c) \/ ServerLists(c) \/ StoreList(c) \/ CallFails(c)
                              \/ GetOperationParams(c) \/ Sign(c) \/ Submit(c)
    BY <2>4, CallsAreOK
  <2>5. QED
    BY <1>2, <2>1, <2>2, <2>3, <2>4 DEF Next
<1>3. QED
  BY <1>1, <1>2

-------------------------------------------------------------------------------
(* The theorems.                                                            *)

\* Whatever overlaps, an SDK's calls hold operations over lists the server
\* answered with, and Accounts, and the logins that make them, have an opened
\* session and a delegation for their key that nobody but the owner took back.
THEOREM SessionInvariant == Spec => []IInv
<1>1. Init => IInv
  BY InitIsOK
<1>2. IInv /\ [Next]_vars => IInv'
  BY StepIsOK
<1>3. QED
  BY <1>1, <1>2, PTL DEF Spec

\* The server's, the SDK's and its Accounts' state keeps its type.
THEOREM TypeCorrect == Spec => []TypeOK
<1>1. IInv => TypeOK
  BY DEF IInv
<1>2. QED
  BY <1>1, SessionInvariant, PTL

\* What is signed is what was asked for, at the slots the server has by then,
\* however old the list is that the SDK took them from, and whatever the
\* instruments, the requests and the number of calls (account.ts
\* encodeAndSignPoolMoveOperation, liquidate; c3sdk.ts getInstrumentCache).
THEOREM OperationsAreAsAsked == Spec => []SignedAsAsked
<1>1. IInv => SignedAsAsked
  <2> SUFFICES ASSUME IInv PROVE SignedAsAsked
    OBVIOUS
  <2>1. ASSUME NEW c \in Calls, call[c].pc \in {"signing", "posting"}
        PROVE  AsAsked(call[c].request, call[c].operation)
    <3>1. PICK n \in Lists : /\ Known(call[c].request, Snapshot(n)) /\ call[c].request \in Requests
                             /\ call[c].operation = Operation(call[c].request, Snapshot(n))
      BY <2>1 DEF IInv, CallOK
    <3>2. n \in Sizes /\ listed \in Sizes /\ n <= listed
      BY ListsAreSizes DEF IInv
    <3>3. QED
      BY <3>1, <3>2, OperationAsAsked
  <2>2. QED
    BY <2>1 DEF SignedAsAsked, AsAsked
<1>2. QED
  BY <1>1, SessionInvariant, PTL

\* The server refuses an operation only for a reason its caller can know of, and
\* no list the SDK uses lacks what was listed when the SDK was made (c3sdk.ts
\* login, _loginWithEphemeral, completeLogin, getInstrumentCache).
THEOREM NothingElseIsRefused == Spec => []RefusalsAreExplained
<1>1. IInv => RefusalsAreExplained
  <2> SUFFICES ASSUME IInv PROVE RefusalsAreExplained
    OBVIOUS
  <2>1. ASSUME NEW c \in Calls, call[c].pc = "posting"
        PROVE  LET account == accounts[call[c].account]
               IN  \/ Accepted(c)
                   \/ ~sessions[account.token].live
                   \/ call[c].request.kind # "order" /\ time > call[c].lastValid
                   \/ call[c].signer \in revoked
                   \/ call[c].signer # NoKey /\ time > account.expires
    <3> DEFINE account == accounts[call[c].account]
    <3>1. /\ call[c].account \in DOMAIN accounts /\ call[c].signer \in {NoKey, account.key}
          /\ call[c] \in CallState /\ accounts \in Seq(AccountState) /\ time \in Nat
      BY <2>1 DEF IInv, TypeOK, CallOK
    <3>2. Granted(account.key, account.expires)
      BY <3>1 DEF IInv, SessionOK
    <3>3. account.expires \in Nat /\ call[c].lastValid \in Nat
      <4>1. account \in AccountState
        BY <3>1, LenProperties, ElementOfSeq
      <4>2. QED
        BY <3>1, <4>1 DEF CallState, AccountState
    <3> HIDE DEF account
    <3>4. time <= call[c].lastValid \/ time > call[c].lastValid
      BY <3>1, <3>3
    <3>5. time <= account.expires \/ time > account.expires
      BY <3>1, <3>3
    <3>6. \/ call[c].signer = NoKey \/ call[c].signer \in revoked \/ time > account.expires
          \/ \E grant \in delegations : grant.key = call[c].signer /\ time <= grant.expires
      BY <3>1, <3>2, <3>5 DEF Granted
    <3>7. \/ Accepted(c) \/ ~sessions[account.token].live
          \/ call[c].request.kind # "order" /\ time > call[c].lastValid
          \/ call[c].signer \in revoked
          \/ call[c].signer # NoKey /\ time > account.expires
      BY <3>4, <3>6 DEF Accepted, account
    <3>8. QED
      BY <3>7 DEF account
  <2>2. ASSUME NEW request \in Requests, Known(request, Snapshot(InitialListed)),
               NEW list \in ({instrumentCache, query} \cup {call[c].answer : c \in Calls}) \ {NoList, NoQuery}
        PROVE  Known(request, Snapshot(list))
    <3>1. list \in Lists
      BY DEF IInv, CallOK
    <3>2. list \in Sizes /\ InitialListed \in Sizes /\ InitialListed <= list
      BY <3>1, ConstantsAreOK, ListsAreSizes DEF IInv
    <3>3. QED
      BY <2>2, <3>2, KnownStays
  <2>3. QED
    BY <2>1, <2>2 DEF RefusalsAreExplained
<1>2. QED
  BY <1>1, SessionInvariant, PTL

=============================================================================
