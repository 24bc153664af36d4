---------------------------- MODULE AccountIds ----------------------------
(***************************************************************************)
(* C3 account ids, after common/src/utils/encoding.ts and common/src/      *)
(* chains: the public key of a user's address, a checksum and, for the     *)
(* chains added later, the account type.  The ids of Algorand and EVM      *)
(* accounts carry no type: decoding tells them apart by the zeros an EVM   *)
(* address is padded with.  An address is its format and its bytes.        *)
(***************************************************************************)
EXTENDS Bytes

C3_ACCOUNT_TYPE_ALGORAND == 0
C3_ACCOUNT_TYPE_EVM      == 1
C3_ACCOUNT_TYPE_SOLANA   == 2
C3_ACCOUNT_TYPES == {C3_ACCOUNT_TYPE_ALGORAND, C3_ACCOUNT_TYPE_EVM, C3_ACCOUNT_TYPE_SOLANA}

\* SUPPORTED_CHAIN_IDS, in the order findChainIdByAddress tries them.
SUPPORTED_CHAIN_IDS == <<"algorand", "eth", "avax", "arbitrum", "arbitrum_sepolia", "bsc", "solana", "sepolia">>

CHAIN_ID_TO_ACCOUNT_TYPE(chainId) ==
    CASE chainId = "algorand" -> C3_ACCOUNT_TYPE_ALGORAND
      [] chainId = "solana"   -> C3_ACCOUNT_TYPE_SOLANA
      [] OTHER                -> C3_ACCOUNT_TYPE_EVM

\* A chain's isValidAddress looks at the text's format only.
isValidAddress(chainId, address) == CHAIN_ID_TO_ACCOUNT_TYPE(chainId) = address.format

findChainIdByAddress(address) ==
    SUPPORTED_CHAIN_IDS[CHOOSE i \in DOMAIN SUPPORTED_CHAIN_IDS :
                           /\ isValidAddress(SUPPORTED_CHAIN_IDS[i], address)
                           /\ \A j \in 1..i - 1 : ~isValidAddress(SUPPORTED_CHAIN_IDS[j], address)]

\* decodeEthereumAddress pads; the other formats hold a whole key.
getPublicKey(address) ==
    IF address.format = C3_ACCOUNT_TYPE_EVM THEN padLeftUint8Array(address.bytes, KeyLength) ELSE address.bytes

Padding(publicKey) == SubSeq(publicKey, 1, KeyLength - EvmLength)
IsPadded(publicKey) == Padding(publicKey) = Zeros(KeyLength - EvmLength)

getAddressByPublicKey(c3AccountType, publicKey) ==
    [format |-> c3AccountType,
     bytes  |-> IF c3AccountType = C3_ACCOUNT_TYPE_EVM THEN Drop(publicKey, KeyLength - EvmLength) ELSE publicKey]

\* The checksum's three characters' worth of digest: here its last byte.
getChecksum(encodedType, publicKey) == <<sha256Hash(encodedType \o publicKey)[DigestLength]>>

\* mutant: no id carries its type.
EncodeUntyped(publicKey, chainId) == [type |-> <<>>, body |-> publicKey \o getChecksum(<<>>, publicKey)]

\* An id without a type is a legacy one; the two differ in length.
encodeAccountId(publicKey, chainId) ==
    LET type == CHAIN_ID_TO_ACCOUNT_TYPE(chainId)
        encodedType == IF type \in {C3_ACCOUNT_TYPE_ALGORAND, C3_ACCOUNT_TYPE_EVM} THEN <<>> ELSE <<type>>
    IN  [type |-> encodedType, body |-> publicKey \o getChecksum(encodedType, publicKey)]

decodeAccountIdFull(accountId) ==
    LET publicKey == SubSeq(accountId.body, 1, KeyLength)
        type == IF accountId.type # <<>> THEN accountId.type[1]
                ELSE IF IsPadded(publicKey) THEN C3_ACCOUNT_TYPE_EVM ELSE C3_ACCOUNT_TYPE_ALGORAND
    IN  IF type \notin C3_ACCOUNT_TYPES \/ getChecksum(accountId.type, publicKey) # Drop(accountId.body, KeyLength)
        THEN Failed
        ELSE Parsed([publicKey |-> publicKey, c3AccountType |-> type], <<>>)

userAddressToAccountId(address) == encodeAccountId(getPublicKey(address), findChainIdByAddress(address))

accountIdToUserAddress(accountId) ==
    LET decoded == decodeAccountIdFull(accountId).value
    IN  getAddressByPublicKey(decoded.c3AccountType, decoded.publicKey)
=============================================================================
