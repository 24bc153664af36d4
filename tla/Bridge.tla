------------------------------- MODULE Bridge -------------------------------
(***************************************************************************)
(* Which way an asset crosses chains and what is sent with it, after       *)
(* common/src/wormhole (dictionary.ts, constants.ts, service.ts, utils.ts) *)
(* and sdk/src/internal/helpers/deposit.ts: by Wormhole's token bridge, or *)
(* by Circle's CCTP through a hub.  A token address is a name and the      *)
(* chain it is on, "any" when a table gives one address to several chains; *)
(* an asset is its chain and its token.  The session that follows a        *)
(* deposit or a withdrawal is in WormholeDeposit and WormholeWithdraw.     *)
(***************************************************************************)
EXTENDS Operations

CONSTANTS
    BridgeDecimals,      \* 8: the decimals Wormhole keeps of an amount
    EvmNativeDecimals    \* 18

Token(name, chain) == [name |-> name, on |-> chain]
Placeholder == Token("0xcafe", "any")

-----------------------------------------------------------------------------
(* WormholeDictionary.                                                     *)
getCCTPHubChainId == "avax"
getCCTPAvailableChains(network) ==
    {"arbitrum", "eth", "avax"} \cup (IF network = "TESTNET" THEN {"sepolia", "arbitrum_sepolia"} ELSE {})
isValidCCTPChain(network, chain) == chain \in getCCTPAvailableChains(network)

\* A contract is one of the kinds of bridge and the chain it is on.
Contract(kind, chain) == Parsed([bridge |-> kind, on |-> chain], <<>>)
getTokenBridgeContractAddress(bridges, chain) ==
    IF chain \in bridges THEN Contract("tokenBridge", chain) ELSE Failed
getWormholeCctpIntegrationContractAddress(network, chain) ==
    IF ~isValidCCTPChain(network, chain) THEN Failed
    ELSE Contract("cctp", IF network = "DEVNET" THEN "any" ELSE chain)

\* On DEVNET the id of Algos.
getAvaxUsdcAsaId(network) == IF network = "DEVNET" THEN 0 ELSE 77

getUSDCTokenAddress(network, chain) ==
    IF ~isValidCCTPChain(network, chain) THEN Failed
    ELSE Parsed(IF network = "DEVNET" THEN Placeholder ELSE Token("usdc", chain), <<>>)

isCCTPAsset(network, asset) ==
    LET usdc == getUSDCTokenAddress(network, asset.chain) IN usdc.ok /\ usdc.value = asset.token

\* The entry of the test chain the network is not for is empty.
createWrappedAssetMap(network) ==
    [chain \in {SUPPORTED_CHAIN_IDS[i] : i \in DOMAIN SUPPORTED_CHAIN_IDS} \ {"algorand"} |->
        CASE chain = "solana"   -> Token("wsol", "solana")
          [] network = "DEVNET" -> Token("wrapped", "any")
          [] <<network, chain>> \in {<<"MAINNET", "arbitrum_sepolia">>, <<"TESTNET", "arbitrum">>} -> Token("", "any")
          [] OTHER -> Token("wrapped", chain)]
isWrappedCurrency(network, asset) == createWrappedAssetMap(network)[asset.chain] = asset.token

isCctpWithdraw(network, instrument, destination) ==
    /\ instrument.asaId = getAvaxUsdcAsaId(network)
    /\ destination # getCCTPHubChainId /\ isValidCCTPChain(network, destination)

-----------------------------------------------------------------------------
(* What the service sends.                                                 *)
isEVMChain(chain) == CHAIN_ID_TO_ACCOUNT_TYPE(chain) = C3_ACCOUNT_TYPE_EVM
ChainNumber(chain) == CHOOSE i \in DOMAIN SUPPORTED_CHAIN_IDS : SUPPORTED_CHAIN_IDS[i] = chain

WormholeDepositText == <<119, 68>>   \* "wormholeDeposit", cut
CctpWithdrawText    == <<99, 87>>    \* "cctpWithdraw", cut
getAlgorandIdAsString(appId) == EncodeUint(appId, KeyLength)

\* mutant: the application's id before the amount to repay.
CallDataAppIdFirst(chain, appId, repayAmount, receiver, sender) ==
    [payload |-> WormholeDepositText \o getPublicKey(receiver) \o EncodeUint(appId, WordBytes) \o EncodeUint(repayAmount, WordBytes)
                     \o EncodeUint(ChainNumber(chain), 2) \o getPublicKey(sender),
     recipient |-> [chain |-> "algorand", address |-> getAlgorandIdAsString(appId)]]
buildDepositCallData(chain, appId, repayAmount, receiver, sender) ==
    [payload |-> WormholeDepositText \o getPublicKey(receiver) \o EncodeUint(repayAmount, WordBytes) \o EncodeUint(appId, WordBytes)
                     \o EncodeUint(ChainNumber(chain), 2) \o getPublicKey(sender),
     recipient |-> [chain |-> "algorand", address |-> getAlgorandIdAsString(appId)]]

\* Both token bridges take the chain's own currency where its wrapped token is named.
Transfer(contract, native, asset, amount, sender, to, payload) ==
    [contract |-> contract, native |-> native, asset |-> asset, amount |-> amount, sender |-> sender, to |-> to, payload |-> payload]

createWormholeTxForEvmNetworkDeposit(network, bridges, asset, amount, appId, repayAmount, receiver, sender) ==
    LET data == buildDepositCallData(asset.chain, appId, repayAmount, receiver, sender)
    IN  Transfer(getTokenBridgeContractAddress(bridges, asset.chain).value, isWrappedCurrency(network, asset),
                 asset, amount, sender, data.recipient, data.payload)

createWormholeTxForSolanaNetworkDeposit(network, bridges, asset, amount, appId, repayAmount, receiver, sender) ==
    LET data == buildDepositCallData(asset.chain, appId, repayAmount, receiver, sender)
    IN  Transfer(getTokenBridgeContractAddress(bridges, "solana").value, isWrappedCurrency(network, asset),
                 asset, amount, sender, data.recipient, data.payload)

\* The hub takes the place of the recipient.
createWormholeTxForEvmNetworkDeposit_CCTP(network, asset, amount, appId, repayAmount, receiver, sender, hubAddress) ==
    LET data == buildDepositCallData(asset.chain, appId, repayAmount, receiver, sender)
    IN  Transfer(getWormholeCctpIntegrationContractAddress(network, asset.chain).value, FALSE,
                 asset, amount, sender, [chain |-> getCCTPHubChainId, address |-> hubAddress], data.payload)

createWormholeTxForAlgorandNetworkWithdraw(to) == [to |-> to, payload |-> <<>>]

createWormholeTxForAlgorandNetworkWithdraw_CCTP(to, hubAddress, appId) ==
    [to |-> [chain |-> getCCTPHubChainId, address |-> hubAddress],
     payload |-> CctpWithdrawText \o to.address \o EncodeUint(ChainNumber(to.chain), 2) \o EncodeUint(appId, WordBytes)]

\* The bridges' registries: on Algorand the asset of a token, and the copies of tokens on other chains.
getMirrorAsset(registry, asset, dest) ==
    LET toAlgorand == {r \in registry.assets : r.chain = asset.chain /\ r.token = asset.token}
        original   == {r \in registry.assets : r.asaId = asset.token}
        copies(o)  == {c \in registry.copies : c.chain = dest /\ c.original = o}
        One(set, Of(_)) == IF set = {} THEN Failed ELSE Parsed(Of(CHOOSE r \in set : TRUE), <<>>)
    IN  CASE asset.chain = dest \/ "algorand" \notin {asset.chain, dest} -> Failed
          [] dest = "algorand" -> One(toAlgorand, LAMBDA r : r.asaId)
          [] OTHER -> IF original = {} THEN Failed
                      ELSE LET o == CHOOSE r \in original : TRUE
                           IN  IF o.chain = dest THEN Parsed(o.token, <<>>)
                               ELSE IF isEVMChain(o.chain) THEN One(copies(o), LAMBDA c : c.token) ELSE Failed

-----------------------------------------------------------------------------
(* Deposits and withdrawals of the SDK.                                    *)
ChainsOf(instrument, chain) == SelectSeq(instrument.chains, LAMBDA c : c.chain = chain)

\* By CCTP when the instrument's first chain holds Circle's token; the chain may have no token bridge.
getWormholeDepositInfo(network, bridges, instrument, origin) ==
    LET isCCTP == origin # getCCTPHubChainId /\ isCCTPAsset(network, instrument.chains[1])
        own    == ChainsOf(instrument, origin)
        bridge == IF isCCTP THEN getWormholeCctpIntegrationContractAddress(network, origin)
                  ELSE getTokenBridgeContractAddress(bridges, origin)
        token  == IF isCCTP THEN getUSDCTokenAddress(network, origin)
                  ELSE IF own = <<>> THEN Failed ELSE Parsed(own[1].token, <<>>)
    IN  IF instrument.chains = <<>> \/ ~bridge.ok \/ ~token.ok THEN Failed
        ELSE Parsed([isCCTP |-> isCCTP, bridge |-> bridge.value, token |-> token.value], <<>>)

parseUnits(decimal, decimals) ==
    IF Len(decimal.decimals) > decimals THEN Failed ELSE Parsed(decimalToFixedPoint(decimal, decimals), <<>>)

\* In the token's own units; ten lamports to a unit, whatever the instrument's decimals.
ParsedAmount(network, asset, amount, decimals, tokenDecimals) ==
    LET native == isWrappedCurrency(network, asset)
    IN  IF asset.chain = "solana" /\ native THEN Parsed(amount * 10, <<>>)
        ELSE parseUnits(toDecimal(amount, decimals), IF native THEN EvmNativeDecimals ELSE tokenDecimals)

\* What is approved for the bridge before it takes the tokens of an EVM account.
Approved(network, asset, amount, bridge, allowance) ==
    IF ~isEVMChain(asset.chain) \/ isWrappedCurrency(network, asset) \/ allowance >= amount THEN <<>>
    ELSE <<[spender |-> bridge, amount |-> amount]>>

depositAsset(network, bridges, d, asset, info, receiver) ==
    LET parsed == ParsedAmount(network, asset, d.amount, d.instrument.decimals, d.tokenDecimals)
        amount == parsed.value
        Create(Tx(_, _, _, _, _, _, _, _)) == Tx(network, bridges, asset, amount, d.appId, d.repayAmount, receiver, d.sender)
        sent == IF info.isCCTP
                THEN createWormholeTxForEvmNetworkDeposit_CCTP(network, asset, amount, d.appId, d.repayAmount, receiver, d.sender, d.hub)
                ELSE IF isEVMChain(asset.chain) THEN Create(createWormholeTxForEvmNetworkDeposit)
                ELSE Create(createWormholeTxForSolanaNetworkDeposit)
    IN  IF ~parsed.ok \/ (info.isCCTP /\ ~isEVMChain(asset.chain)) THEN Failed
        ELSE Parsed([call |-> sent, approved |-> Approved(network, asset, amount, info.bridge, d.allowance)], <<>>)

prepareWormholeDeposit(network, bridges, d) ==
    LET info == getWormholeDepositInfo(network, bridges, d.instrument, d.origin)
        asset == [chain |-> d.origin, token |-> info.value.token]
    IN  IF d.instrument.chains = <<>> \/ ~info.ok THEN Failed
        ELSE depositAsset(network, bridges, d, asset, info.value, accountIdToUserAddress(d.account))

\* The checks of a withdrawal before it is signed and submitted, and the information
\* it looks up afterwards, which may throw too.
WithdrawChecks(network, instrument, destination) ==
    isCctpWithdraw(network, instrument, destination) \/ ChainsOf(instrument, destination) # <<>>
WithdrawFollowUp(network, bridges, instrument, destination) ==
    getWormholeDepositInfo(network, bridges, instrument, destination)

-----------------------------------------------------------------------------
(* The message of Wormhole's token bridge, and the server's check of it.   *)
VaaOf(sent, tokenDecimals) ==
    LET decimals == IF ~sent.native THEN tokenDecimals
                    ELSE IF sent.asset.chain = "solana" THEN BridgeDecimals + 1 ELSE EvmNativeDecimals
    IN  [Type |-> 3, ToAddress |-> sent.to.address, ToChain |-> sent.to.chain, FromChain |-> sent.asset.chain,
         Contract |-> sent.asset.token, FromAddress |-> getPublicKey(sent.sender), Payload |-> sent.payload,
         Amount |-> sent.amount \div tenPower(decimals - bigintMin(decimals, BridgeDecimals))]

validateVaa(vaa, instruments, appId) ==
    LET Known(i) == \E c \in DOMAIN i.chains : i.chains[c] = [chain |-> vaa.FromChain, token |-> vaa.Contract]
        start == Len(WormholeDepositText) + KeyLength
        known == SelectSeq(instruments, Known)
    IN  IF \/ vaa.Type # 3
           \/ SubSeq(vaa.Payload, 1, Len(WormholeDepositText)) # WormholeDepositText
           \/ vaa.ToAddress # getAlgorandIdAsString(appId)
           \/ vaa.ToChain # "algorand" /\ ~isEVMChain(vaa.ToChain)
           \/ vaa.FromChain \notin {SUPPORTED_CHAIN_IDS[i] : i \in DOMAIN SUPPORTED_CHAIN_IDS}
           \/ known = <<>>
        THEN Failed
        ELSE Parsed([instrument |-> known[1], amount |-> vaa.Amount, from |-> vaa.FromAddress,
                     repayAmount |-> DecodeUint(SubSeq(vaa.Payload, start + 1, start + WordBytes))], <<>>)
=============================================================================
