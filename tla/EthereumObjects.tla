--------------------------- MODULE EthereumObjects ---------------------------
(***************************************************************************)
(* Ethereum transactions and what the Etherlink kernel keeps, in RLP.       *)
(*                                                                          *)
(* First the RLP codec as the kernel uses it (the rlp crate, external) and  *)
(* the helpers of ethereum/src/rlp_helpers.rs built on it.  A byte string   *)
(* is a sequence of 0..255.  Widths are scaled: a U256 or an H256 has       *)
(* WordBytes bytes instead of 32, a u64 or a timestamp LongBytes instead of *)
(* 8, an H160 AddressBytes instead of 20.  A Result or an Option is a       *)
(* sequence of at most one element: Ok(x) or Err.                           *)
(*                                                                          *)
(* Then the transactions of the three versions the kernel reads             *)
(* (tx_common.rs, tx_signature.rs, access_list.rs): the fields of the       *)
(* common record, their encoding and decoding, and who signed them.  Keccak *)
(* and secp256k1 are external: Keccak is a digest of the bytes, a signature *)
(* carries its key in r and the digest of what it signs in s, and the       *)
(* recovery of a signature of something else is an address of nobody.       *)
(*                                                                          *)
(* Then receipts, transaction objects and blocks (ethereum/src/transaction  *)
(* and block.rs), the transactions of the inbox, of the delayed inbox, of   *)
(* blueprints and of the block in progress (kernel/src/inbox.rs,            *)
(* delayed_inbox.rs, sequencer_blueprint.rs, block_in_progress.rs).         *)
(***************************************************************************)
EXTENDS Integers, Sequences, SequencesExt

CONSTANTS WordBytes, LongBytes, AddressBytes

ASSUME WidthAssumption ==
    /\ LongBytes \in Nat \ {0} /\ AddressBytes \in Nat \ {0}
    /\ WordBytes \in Nat /\ LongBytes < WordBytes /\ WordBytes < 4

Ok(x) == <<x>>
Err == <<>>
Is(result) == Len(result) = 1

\* ------------------------------------------------- numbers and their bytes
Pow256 == [i \in 0..3 |-> 256 ^ i]
LongMax == Pow256[LongBytes] - 1
WordMax == Pow256[WordBytes] - 1

FromBe(b) ==
    LET value[i \in 0..Len(b)] == IF i = 0 THEN 0 ELSE value[i - 1] * 256 + b[i]
    IN value[Len(b)]
BeFixed(n, width) == [i \in 1..width |-> (n \div Pow256[width - i]) % 256]
LeFixed(n, width) == [i \in 1..width |-> (n \div Pow256[i - 1]) % 256]
FromLe(b) == FromBe(Reverse(b))
\* Big endian without leading zeros; zero is the empty string.
BeMinimal(n) ==
    BeFixed(n, IF n = 0 THEN 0 ELSE IF n < 256 THEN 1 ELSE IF n < 65536 THEN 2 ELSE 3)

\* ------------------------------------------------------ the rlp crate
Header(base, n) == IF n < 56 THEN <<base + n>> ELSE <<base + 56, n>>
RlpValue(b) == IF Len(b) = 1 /\ b[1] < 128 THEN b ELSE Header(128, Len(b)) \o b
RlpNumber(n) == RlpValue(BeMinimal(n))
RlpList(items) == Header(192, Len(FlattenSeq(items))) \o FlattenSeq(items)
EmptyData == RlpValue(<<>>)

IsList(raw) == raw # <<>> /\ raw[1] >= 192
HeaderSize(b) == CASE b < 128 -> 0 [] b \in {184, 248} -> 2 [] OTHER -> 1
\* The bytes after the header that the item whose header starts with b takes,
\* when the header has one byte.
BodySize(b) == CASE b < 128 -> 0 [] b \in 128..191 -> b - 128 [] OTHER -> b - 192

\* The raw items that follow one another in a byte string; cur is the item
\* being read, need the bytes it lacks and long whether its size comes next.
ReadByte(acc, b) ==
    LET starts == acc.need = 0 /\ ~acc.long
        cur == Append(acc.cur, b)
        long == starts /\ HeaderSize(b) = 2
        need == CASE acc.long -> b
                  [] starts -> IF long THEN 0 ELSE BodySize(b)
                  [] OTHER -> acc.need - 1
    IN IF need = 0 /\ ~long
         THEN [items |-> Append(acc.items, cur), cur |-> <<>>, need |-> 0, long |-> FALSE]
         ELSE [items |-> acc.items, cur |-> cur, need |-> need, long |-> long]
NothingRead == [items |-> <<>>, cur |-> <<>>, need |-> 0, long |-> FALSE]
ReadAll(b) ==
    LET read[i \in 0..Len(b)] == IF i = 0 THEN NothingRead ELSE ReadByte(read[i - 1], b[i])
    IN read[Len(b)]
PayloadOf(raw) == SubSeq(raw, HeaderSize(raw[1]) + 1, Len(raw))
\* The last byte of a list, by its header.
ListEnd(raw) ==
    HeaderSize(raw[1]) + (IF HeaderSize(raw[1]) = 2 THEN raw[2] ELSE BodySize(raw[1]))
WholeList(raw) == Len(raw) >= HeaderSize(raw[1]) /\ Len(raw) >= ListEnd(raw)
ListPayload(raw) == SubSeq(raw, HeaderSize(raw[1]) + 1, ListEnd(raw))
\* decoder.iter() over a list: the bytes after the list are ignored, and so is
\* an item that its end cuts; Err when the list is longer than the bytes.
Items(raw) == IF IsList(raw) /\ WholeList(raw) THEN Ok(ReadAll(ListPayload(raw)).items) ELSE Err
\* A decoder that asks for a list of a number of items in counts.
ListOf(raw, counts) ==
    LET items == Items(raw) IN IF Is(items) /\ Len(items[1]) \in counts THEN items ELSE Err
\* decoder.data()
Data(raw) == IF raw = <<>> \/ IsList(raw) THEN Err ELSE Ok(PayloadOf(raw))

Bounded(data, max) ==
    IF Is(data) /\ Len(data[1]) <= max /\ (data[1] = <<>> \/ data[1][1] # 0)
      THEN Ok(FromBe(data[1])) ELSE Err
Exactly(data, size) == IF Is(data) /\ Len(data[1]) = size THEN data ELSE Err

\* decode_field at each type: U256, u64, u8, H160, H256 or [u8; 32], Vec<u8>
AsU256(raw) == Bounded(Data(raw), WordBytes)
AsU64(raw) == Bounded(Data(raw), LongBytes)
AsU8(raw) == Bounded(Data(raw), 1)
AsH160(raw) == Exactly(Data(raw), AddressBytes)
AsBytes(raw) == Data(raw)

\* ------------------------------------------------------- rlp_helpers.rs
ZeroHash == [i \in 1..WordBytes |-> 0]

\* next: an item more than the list has is an error
next(items, i) == IF i <= Len(items) THEN Ok(items[i]) ELSE Err

PadHash(b) == [i \in 1..(WordBytes - Len(b)) |-> 0] \o b
\* Zeros that the encoder removed are put back; the empty string is zero.
decode_h256(raw) ==
    LET data == Data(raw)
    IN IF Is(data) /\ Len(data[1]) <= WordBytes THEN Ok(PadHash(data[1])) ELSE Err

IsEmpty(raw) == raw = <<128>> \/ raw = <<192>>
Optional(result) == IF Is(result) THEN Ok(Ok(result[1])) ELSE Err
decode_option_h160(raw) == IF IsEmpty(raw) THEN Ok(Err) ELSE Optional(AsH160(raw))
decode_option_bytes(raw) == IF IsEmpty(raw) THEN Ok(Err) ELSE Optional(AsBytes(raw))

\* A list of results as the result of a list.
Collect(results) ==
    IF \A i \in DOMAIN results : Is(results[i])
      THEN Ok([i \in DOMAIN results |-> results[i][1]]) ELSE Err

decode_tx_hash(raw) == Exactly(Data(raw), WordBytes)

append_option(value, encoded) == IF Is(value) THEN encoded ELSE EmptyData
append_vec(data) == IF data = <<>> THEN EmptyData ELSE RlpValue(data)
append_h256(h) == IF h = ZeroHash THEN EmptyData ELSE RlpValue(h)

FixedLe(data, width) ==
    IF Is(data) /\ Len(data[1]) = width THEN Ok(FromLe(data[1])) ELSE Err
\* No width is asked for a U256; from_little_endian panics beyond 32 bytes.
decode_field_u256_le(raw) ==
    LET data == Data(raw) IN IF Is(data) THEN Ok(FromLe(data[1])) ELSE Err
append_u256_le(n) == RlpValue(LeFixed(n, WordBytes))
decode_field_u64_le(raw) == FixedLe(Data(raw), LongBytes)
append_u64_le(n) == RlpValue(LeFixed(n, LongBytes))
decode_field_u16_le(raw) == FixedLe(Data(raw), 2)
append_u16_le(n) == RlpValue(LeFixed(n, 2))
decode_timestamp(raw) == FixedLe(Data(raw), LongBytes)
append_timestamp(t) == RlpValue(LeFixed(t, LongBytes))

HashesOf(items) == Collect([i \in DOMAIN items |-> decode_h256(items[i])])
decode_transaction_hash_list(raw) ==
    LET items == Items(raw) IN IF Is(items) THEN HashesOf(items[1]) ELSE Ok(<<>>)

decode_transaction_type(raw) ==
    LET tag == AsU8(raw)
    IN IF Is(tag) /\ tag[1] \in 0..2 THEN Ok(<<"Legacy", "Eip2930", "Eip1559">>[tag[1] + 1])
       ELSE Err
decode_transaction_status(raw) ==
    LET tag == AsU8(raw)
    IN IF Is(tag) /\ tag[1] \in 0..1 THEN Ok(<<"Failure", "Success">>[tag[1] + 1]) ELSE Err

\* --------------------------------------------------------- cryptography
HalfWord == (WordMax + 1) \div 2
Keccak256(b) ==
    LET digest[i \in 0..Len(b)] ==
            IF i = 0 THEN 1 ELSE (digest[i - 1] * 31 + b[i]) % (HalfWord - 19)
    IN digest[Len(b)] + 1
Parity(digest) == digest % 2
HashOf(b) == BeFixed(Keccak256(b), WordBytes)
\* sign and recover of libsecp256k1; the address of key k is its own number
Nobody == BeFixed(238, AddressBytes)
AddressOf(key) == BeFixed(key, AddressBytes)
recover(digest, r, s, recovery_id) ==
    IF FromBe(s) = digest /\ recovery_id = Parity(digest)
      THEN Ok(AddressOf(FromBe(r) % 256))
      ELSE IF recovery_id < 2 THEN Ok(Nobody) ELSE Err

\* ------------------------------------------------------- tx_signature.rs
\* TxSignature::new: neither coordinate may be zero.
TxSignature(v, r, s) ==
    IF r # ZeroHash /\ s # ZeroHash THEN Ok([v |-> v, r |-> r, s |-> s]) ELSE Err

checked(n) == IF n \in 0..WordMax THEN Ok(n) ELSE Err
\* {0, 1} + chain_id * 2 + 35, or + 27 before EIP-155
legacy_base(chain_id) == IF Is(chain_id) THEN checked(chain_id[1] * 2 + 35) ELSE Ok(27)
legacy_compute_parity(v, chain_id) ==
    LET base == legacy_base(chain_id)
    IN IF Is(base) /\ v - base[1] \in 0..1 THEN Ok(v - base[1]) ELSE Err

is_high(s) == FromBe(s) >= HalfWord
\* The (signature, recovery id) of a legacy transaction: only the id varies.
signature_legacy(sig, chain_id) ==
    IF is_high(sig.s) THEN Err ELSE legacy_compute_parity(sig.v, chain_id)
signature_typed(sig) == IF is_high(sig.s) \/ sig.v >= 4 THEN Err ELSE Ok(sig.v)

compute_v(chain_id, parity) ==
    IF chain_id = <<0>> THEN Err
    ELSE LET base == legacy_base(chain_id)
         IN IF Is(base) THEN checked(parity + base[1]) ELSE Err
\* What libsecp256k1 returns for a key: both coordinates on a full word.
sign_secp256k1(digest, key) ==
    [r |-> BeFixed(key, WordBytes), s |-> BeFixed(digest, WordBytes), parity |-> Parity(digest)]
Signature(v, sig) == [v |-> v, r |-> sig.r, s |-> sig.s]
sign_legacy(digest, key, chain_id) ==
    LET v == compute_v(chain_id, Parity(digest))
    IN IF Is(v) THEN Ok(Signature(v[1], sign_secp256k1(digest, key))) ELSE Err
sign(digest, key) == Ok(Signature(Parity(digest), sign_secp256k1(digest, key)))

rlp_append_signature(sig) == <<RlpNumber(sig.v), RlpValue(sig.r), RlpValue(sig.s)>>
\* A transaction object always has a signature: a deposit's is (0, 0, 0).
rlp_append_opt(signature) ==
    IF Is(signature) THEN rlp_append_signature(signature[1])
    ELSE <<RlpNumber(0), RlpValue(ZeroHash), RlpValue(ZeroHash)>>
rlp_decode_opt(v, r, s) ==
    IF ~(Is(v) /\ Is(r) /\ Is(s)) THEN Err
    ELSE IF r[1] = ZeroHash /\ s[1] = ZeroHash /\ v[1] = 0 THEN Ok(Err)
    ELSE Optional(TxSignature(v[1], r[1], s[1]))

\* --------------------------------------------------------- access_list.rs
AccessListItem_encode(item) ==
    RlpList(<<RlpValue(item.address),
              RlpList([i \in DOMAIN item.storage_keys |-> RlpValue(item.storage_keys[i])])>>)
StorageKeys(items) ==
    IF Is(items) THEN Collect([i \in DOMAIN items[1] |-> Exactly(Data(items[1][i]), WordBytes)])
    ELSE Err
AccessListItem_decode(raw) ==
    LET items == ListOf(raw, {2})
        keys == StorageKeys(Items(items[1][2]))
        address == AsH160(items[1][1])
    IN IF Is(items) /\ Is(keys) /\ Is(address)
         THEN Ok([address |-> address[1], storage_keys |-> keys[1]]) ELSE Err
AccessList_encode(list) == RlpList([i \in DOMAIN list |-> AccessListItem_encode(list[i])])
AccessList_decode(raw) ==
    LET items == Items(raw)
    IN IF Is(items) THEN Collect([i \in DOMAIN items[1] |-> AccessListItem_decode(items[1][i])])
       ELSE Err

\* ----------------------------------------------------------- tx_common.rs
\* EthereumTransactionCommon: the fields of every version
EthereumTransactionCommon(type, chain_id, nonce, priority, max_fee, gas_limit, to, value, data, access_list, signature) ==
    [type_ |-> type, chain_id |-> chain_id, nonce |-> nonce,
     max_priority_fee_per_gas |-> priority, max_fee_per_gas |-> max_fee,
     gas_limit |-> gas_limit, to |-> to, value |-> value, data |-> data,
     access_list |-> access_list, signature |-> signature]

\* (v, r, s) at positions i.. of the list: all there or none.
rlp_decode_vrs(items, i) ==
    LET v == AsU256(items[i])
        r == decode_h256(items[i + 1])
        s == decode_h256(items[i + 2])
    IN CASE Len(items) = i + 2 /\ Is(v) /\ Is(r) /\ Is(s) -> Ok(Ok(<<v[1], r[1], s[1]>>))
         [] Len(items) < i -> Ok(Err)
         [] OTHER -> Err

\* The six fields every version has, from position i on, as results.
CommonFields(items, i) ==
    [gas_limit |-> AsU64(items[i]), to |-> decode_option_h160(items[i + 1]),
     value |-> AsU256(items[i + 2]), data |-> AsBytes(items[i + 3])]
FieldsOk(fields) == \A name \in DOMAIN fields : Is(fields[name])

\* The chain id of a legacy transaction: v itself when unsigned, hidden in v
\* when signed, absent before EIP-155.
legacy_chain_id(v, unsigned) ==
    CASE unsigned -> Ok(Ok(v))
      [] ~unsigned /\ v > 36 -> Ok(Ok((v - 35) \div 2))
      [] ~unsigned /\ v \in {27, 28} -> Ok(Err)
      [] OTHER -> Err

legacy_tx(nonce, gas_price, rest, chain_id, signature) ==
    IF Is(nonce) /\ Is(gas_price) /\ FieldsOk(rest) /\ Is(chain_id) /\ Is(signature)
      THEN Ok(EthereumTransactionCommon("Legacy", chain_id[1], nonce[1], gas_price[1],
                  gas_price[1], rest.gas_limit[1], rest.to[1], rest.value[1], rest.data[1],
                  <<>>, signature[1]))
      ELSE Err
legacy_signed(items, vrs, unsigned) ==
    legacy_tx(AsU256(items[1]), AsU256(items[2]), CommonFields(items, 3),
              legacy_chain_id(vrs[1], unsigned),
              IF unsigned THEN Ok(Err) ELSE Optional(TxSignature(vrs[1], vrs[2], vrs[3])))
rlp_decode_legacy_tx(raw) ==
    LET items == ListOf(raw, {9})
        vrs == rlp_decode_vrs(items[1], 7)
    IN IF Is(items) /\ Is(vrs) /\ Is(vrs[1])
         THEN legacy_signed(items[1], vrs[1][1],
                            vrs[1][1][2] = ZeroHash /\ vrs[1][1][3] = ZeroHash)
         ELSE Err

typed_signature(vrs) ==
    IF ~Is(vrs) THEN Err
    ELSE IF Is(vrs[1]) THEN Optional(TxSignature(vrs[1][1][1], vrs[1][1][2], vrs[1][1][3]))
    ELSE Ok(Err)
typed_tx(type, chain_id, nonce, priority, max_fee, rest, access_list, signature) ==
    IF /\ Is(chain_id) /\ Is(nonce) /\ Is(priority) /\ Is(max_fee) /\ FieldsOk(rest)
       /\ Is(access_list) /\ Is(signature)
      THEN Ok(EthereumTransactionCommon(type, chain_id, nonce[1], priority[1], max_fee[1],
                  rest.gas_limit[1], rest.to[1], rest.value[1], rest.data[1], access_list[1],
                  signature[1]))
      ELSE Err
rlp_decode_eip2930_tx(raw) ==
    LET items == ListOf(raw, {8, 11})
        l == items[1]
    IN IF Is(items)
         THEN typed_tx("Eip2930", AsU256(l[1]), AsU256(l[2]), AsU256(l[3]), AsU256(l[3]),
                       CommonFields(l, 4), AccessList_decode(l[8]),
                       typed_signature(rlp_decode_vrs(l, 9)))
         ELSE Err
rlp_decode_eip1559_tx(raw) ==
    LET items == ListOf(raw, {9, 12})
        l == items[1]
    IN IF Is(items)
         THEN typed_tx("Eip1559", AsU256(l[1]), AsU256(l[2]), AsU256(l[3]), AsU256(l[4]),
                       CommonFields(l, 5), AccessList_decode(l[9]),
                       typed_signature(rlp_decode_vrs(l, 10)))
         ELSE Err

\* from_bytes: the first byte is the version of a typed transaction, or the
\* header of a legacy one's list.
from_bytes(b) ==
    CASE b = <<>> -> Err
      [] b # <<>> /\ b[1] = 1 -> rlp_decode_eip2930_tx(Tail(b))
      [] b # <<>> /\ b[1] = 2 -> rlp_decode_eip1559_tx(Tail(b))
      [] OTHER -> rlp_decode_legacy_tx(b)

EncodedTail(tx) ==
    <<RlpNumber(tx.gas_limit), append_option(tx.to, RlpValue(tx.to[1])), RlpNumber(tx.value),
      append_vec(tx.data)>>
EncodedSignature(tx) == IF Is(tx.signature) THEN rlp_append_signature(tx.signature[1]) ELSE <<>>

\* Before EIP-155 an unsigned transaction has six fields, which from_bytes
\* does not read: it is only what gets signed.
rlp_encode_legacy_pre_eip155(tx) ==
    RlpList(<<RlpNumber(tx.nonce), RlpNumber(tx.max_fee_per_gas)>> \o EncodedTail(tx)
            \o EncodedSignature(tx))
rlp_encode_legacy_post_eip155(tx, chain_id) ==
    RlpList(<<RlpNumber(tx.nonce), RlpNumber(tx.max_fee_per_gas)>> \o EncodedTail(tx)
            \o IF Is(tx.signature) THEN EncodedSignature(tx)
               ELSE <<RlpNumber(chain_id), append_h256(ZeroHash), append_h256(ZeroHash)>>)
rlp_encode_legacy_tx(tx) ==
    IF Is(tx.chain_id) THEN rlp_encode_legacy_post_eip155(tx, tx.chain_id[1])
    ELSE rlp_encode_legacy_pre_eip155(tx)
rlp_encode_eip2930_tx(tx) ==
    RlpList(<<RlpNumber(tx.chain_id[1]), RlpNumber(tx.nonce), RlpNumber(tx.max_fee_per_gas)>>
            \o EncodedTail(tx) \o <<AccessList_encode(tx.access_list)>> \o EncodedSignature(tx))
rlp_encode_eip1559_tx(tx) ==
    RlpList(<<RlpNumber(tx.chain_id[1]), RlpNumber(tx.nonce),
              RlpNumber(tx.max_priority_fee_per_gas), RlpNumber(tx.max_fee_per_gas)>>
            \o EncodedTail(tx) \o <<AccessList_encode(tx.access_list)>> \o EncodedSignature(tx))

to_bytes(tx) ==
    CASE tx.type_ = "Legacy" -> rlp_encode_legacy_tx(tx)
      [] tx.type_ = "Eip2930" -> <<1>> \o rlp_encode_eip2930_tx(tx)
      [] tx.type_ = "Eip1559" -> <<2>> \o rlp_encode_eip1559_tx(tx)

message(tx) == Keccak256(to_bytes([tx EXCEPT !.signature = Err]))
signature(tx) ==
    IF ~Is(tx.signature) THEN Err
    ELSE IF tx.type_ = "Legacy" THEN signature_legacy(tx.signature[1], tx.chain_id)
    ELSE signature_typed(tx.signature[1])
recovered(tx, recovery_id) ==
    IF Is(recovery_id) THEN recover(message(tx), tx.signature[1].r, tx.signature[1].s, recovery_id[1])
    ELSE Err
caller(tx) == recovered(tx, signature(tx))
sign_transaction(tx, key) ==
    LET sig == IF tx.type_ = "Legacy" THEN sign_legacy(message(tx), key, tx.chain_id)
               ELSE sign(message(tx), key)
    IN IF Is(sig) THEN Ok([tx EXCEPT !.signature = sig]) ELSE Err

\* The price a receipt reports; a fee below the base fee is an error.
overall_gas_price(tx, base_fee_per_gas) ==
    IF tx.max_fee_per_gas >= base_fee_per_gas THEN Ok(base_fee_per_gas) ELSE Err
execution_gas_limit(tx) == tx.gas_limit

\* ------------------------------------------------- what the kernel keeps
\* A tag of one byte and the name it stands for.
TypeTag(type) == [Legacy |-> 0, Eip2930 |-> 1, Eip1559 |-> 2][type]
StatusTag(status) == [Failure |-> 0, Success |-> 1][status]

\* ------------------------------------------------------------- logs, bloom
\* A bloom is a set of bits, its encoding one byte instead of 256 (external).
BloomBits == 0..7
RlpBloom(bloom) ==
    RlpValue(<<FoldLeft(LAMBDA acc, i : acc + IF i \in bloom THEN 2 ^ i ELSE 0, 0,
                        [i \in 1..8 |-> i - 1])>>)
AsBloom(raw) ==
    LET byte == Exactly(Data(raw), 1)
    IN IF Is(byte) THEN Ok({i \in BloomBits : (byte[1][1] \div 2 ^ i) % 2 = 1}) ELSE Err
Accrue(b) == {Keccak256(b) % 8}

logs_to_bloom(logs) ==
    UNION ({Accrue(logs[i].log.address) : i \in DOMAIN logs}
           \cup {Accrue(t) : t \in UNION {Range(logs[i].log.topics) : i \in DOMAIN logs}})

\* The list of a sequence, given the encoding of its elements.
RlpHashes(hashes) == RlpList([i \in DOMAIN hashes |-> RlpValue(hashes[i])])
AsHashes(raw) ==
    LET items == Items(raw)
    IN IF Is(items) THEN Collect([i \in DOMAIN items[1] |-> decode_tx_hash(items[1][i])]) ELSE Err

\* Log of the ethereum crate (external)
Log_encode(log) == RlpList(<<RlpValue(log.address), RlpHashes(log.topics), RlpValue(log.data)>>)
LogOf(address, topics, data) ==
    IF Is(address) /\ Is(topics) /\ Is(data)
      THEN Ok([address |-> address[1], topics |-> topics[1], data |-> data[1]]) ELSE Err
Log_decode(raw) ==
    LET items == ListOf(raw, {3})
    IN IF Is(items) THEN LogOf(AsH160(items[1][1]), AsHashes(items[1][2]), AsBytes(items[1][3]))
       ELSE Err

IndexedLog_encode(l) == RlpList(<<Log_encode(l.log), append_u64_le(l.index)>>)
IndexedLogOf(log, index) ==
    IF Is(log) /\ Is(index) THEN Ok([log |-> log[1], index |-> index[1]]) ELSE Err
IndexedLog_decode(raw) ==
    LET items == ListOf(raw, {2})
    IN IF Is(items) THEN IndexedLogOf(Log_decode(items[1][1]), decode_field_u64_le(items[1][2]))
       ELSE Err
Logs_decode(items) ==
    IF Is(items) THEN Collect([i \in DOMAIN items[1] |-> IndexedLog_decode(items[1][i])]) ELSE Err

\* A record of results as the result of a record.
Struct(fields) ==
    IF FieldsOk(fields) THEN Ok([name \in DOMAIN fields |-> fields[name][1]]) ELSE Err

\* ---------------------------------------------------------------- receipts
TransactionReceipt_encode(r) ==
    RlpList(<<RlpValue(r.hash), RlpNumber(r.index), append_u256_le(r.block_number),
              RlpValue(r.from), append_option(r.to, RlpValue(r.to[1])),
              append_u256_le(r.cumulative_gas_used), append_u256_le(r.effective_gas_price),
              append_u256_le(r.gas_used),
              append_option(r.contract_address, RlpValue(r.contract_address[1])),
              RlpList([i \in DOMAIN r.logs |-> IndexedLog_encode(r.logs[i])]),
              RlpBloom(r.logs_bloom), RlpNumber(TypeTag(r.type_)),
              RlpNumber(StatusTag(r.status))>>)
ReceiptFields(l) ==
    [hash |-> decode_h256(l[1]), index |-> AsU256(l[2]),
     block_number |-> decode_field_u256_le(l[3]), from |-> AsH160(l[4]),
     to |-> decode_option_h160(l[5]), cumulative_gas_used |-> decode_field_u256_le(l[6]),
     effective_gas_price |-> decode_field_u256_le(l[7]), gas_used |-> decode_field_u256_le(l[8]),
     contract_address |-> decode_option_h160(l[9]), logs |-> Logs_decode(Items(l[10])),
     logs_bloom |-> AsBloom(l[11]), type_ |-> decode_transaction_type(l[12]),
     status |-> decode_transaction_status(l[13])]
TransactionReceipt_decode(raw) ==
    LET items == ListOf(raw, {13}) IN IF Is(items) THEN Struct(ReceiptFields(items[1])) ELSE Err

\* ------------------------------------------------------ transaction objects
TransactionObject_encode(o) ==
    RlpList(<<append_u256_le(o.block_number), RlpValue(o.from), append_u256_le(o.gas_used),
              append_u256_le(o.gas_price), RlpValue(o.hash), RlpValue(o.input),
              append_u256_le(o.nonce), append_option(o.to, RlpValue(o.to[1])),
              RlpNumber(o.index), append_u256_le(o.value)>> \o rlp_append_opt(o.signature))
ObjectFields(l) ==
    [block_number |-> decode_field_u256_le(l[1]), from |-> AsH160(l[2]),
     gas_used |-> decode_field_u256_le(l[3]), gas_price |-> decode_field_u256_le(l[4]),
     hash |-> decode_h256(l[5]), input |-> AsBytes(l[6]), nonce |-> decode_field_u256_le(l[7]),
     to |-> decode_option_h160(l[8]), index |-> AsU256(l[9]),
     value |-> decode_field_u256_le(l[10]),
     signature |-> rlp_decode_opt(AsU256(l[11]), decode_h256(l[12]), decode_h256(l[13]))]
TransactionObject_decode(raw) ==
    LET items == ListOf(raw, {13}) IN IF Is(items) THEN Struct(ObjectFields(items[1])) ELSE Err

\* ------------------------------------------------------------------ blocks
\* dummy_hash: the root reported when the storage has no hash at a path
DummyHash == [i \in 1..WordBytes |-> 48]

\* The hash covers the header only; an absent field is the empty string.
BlockHash(number, parent_hash, logs_bloom, roots, gas_used, timestamp) ==
    HashOf(RlpList(<<RlpValue(parent_hash), RlpHashes(roots), RlpBloom(logs_bloom), EmptyData,
                     append_u256_le(number), EmptyData, RlpNumber(gas_used),
                     RlpNumber(timestamp), EmptyData>>))

L2Block_new(number, transactions, timestamp, parent_hash, logs_bloom, roots, gas_used) ==
    [number |-> number, parent_hash |-> parent_hash,
     hash |-> BlockHash(number, parent_hash, logs_bloom, roots, gas_used, timestamp),
     logs_bloom |-> logs_bloom, transactions_root |-> roots[1], state_root |-> roots[2],
     receipts_root |-> roots[3], miner |-> Err, extra_data |-> Err, gas_limit |-> Err,
     gas_used |-> gas_used, timestamp |-> timestamp, transactions |-> transactions]

\* constants: what the EVM sees of the block; first_block before any block
constants(block, chain_id, base_fee_per_gas) ==
    [number |-> block.number, timestamp |-> block.timestamp,
     gas_limit |-> IF Is(block.gas_limit) THEN block.gas_limit[1] ELSE 1,
     base_fee_per_gas |-> base_fee_per_gas, chain_id |-> chain_id]
first_block(timestamp, chain_id, base_fee_per_gas) ==
    [number |-> 0, timestamp |-> timestamp, gas_limit |-> 1,
     base_fee_per_gas |-> base_fee_per_gas, chain_id |-> chain_id]

L2Block_encode(b) ==
    RlpList(<<append_u256_le(b.number), RlpValue(b.hash), RlpValue(b.parent_hash),
              RlpBloom(b.logs_bloom), RlpValue(b.transactions_root), RlpValue(b.state_root),
              RlpValue(b.receipts_root), append_option(b.miner, RlpValue(b.miner[1])),
              append_option(b.extra_data, RlpValue(b.extra_data[1])),
              append_option(b.gas_limit, append_u64_le(b.gas_limit[1])),
              RlpHashes(b.transactions), append_u256_le(b.gas_used),
              append_timestamp(b.timestamp)>>)
BlockFields(l) ==
    [number |-> decode_field_u256_le(l[1]), hash |-> decode_h256(l[2]),
     parent_hash |-> decode_h256(l[3]), logs_bloom |-> AsBloom(l[4]),
     transactions_root |-> AsBytes(l[5]), state_root |-> AsBytes(l[6]),
     receipts_root |-> AsBytes(l[7]), miner |-> decode_option_bytes(l[8]),
     extra_data |-> decode_option_bytes(l[9]),
     gas_limit |-> IF IsEmpty(l[10]) THEN Ok(Err) ELSE Optional(decode_field_u64_le(l[10])),
     transactions |-> decode_transaction_hash_list(l[11]),
     gas_used |-> decode_field_u256_le(l[12]), timestamp |-> decode_timestamp(l[13])]
L2Block_decode(raw) ==
    LET items == ListOf(raw, {13}) IN IF Is(items) THEN Struct(BlockFields(items[1])) ELSE Err

\* ------------------------------------------- transactions of the kernel
\* TransactionContent: an Ethereum transaction or a deposit; the fields of
\* the other kind are absent.
Ethereum(tx) == [ethereum |-> Ok(tx), deposit |-> Err]
Deposit(amount, receiver) == [ethereum |-> Err, deposit |-> Ok([amount |-> amount, receiver |-> receiver])]

Deposit_encode(d) == RlpList(<<RlpNumber(d.amount), RlpValue(d.receiver)>>)
DepositOf(amount, receiver) ==
    IF Is(amount) /\ Is(receiver) THEN Ok(Deposit(amount[1], receiver[1])) ELSE Err
Deposit_decode(raw) ==
    LET items == ListOf(raw, {2})
    IN IF Is(items) THEN DepositOf(AsU256(items[1][1]), AsH160(items[1][2])) ELSE Err

ETHEREUM_TX_TAG == 1
DEPOSIT_TX_TAG == 2
\* The inbox and the delayed inbox tag a transaction in the same way.
TransactionContent_encode(content) ==
    IF Is(content.ethereum)
      THEN RlpList(<<RlpNumber(ETHEREUM_TX_TAG), RlpValue(to_bytes(content.ethereum[1]))>>)
      ELSE RlpList(<<RlpNumber(DEPOSIT_TX_TAG), Deposit_encode(content.deposit[1])>>)
EthereumContent(tx) == IF Is(tx) THEN Ok(Ethereum(tx[1])) ELSE Err
EthereumBytes(data) == IF Is(data) THEN EthereumContent(from_bytes(data[1])) ELSE Err
TransactionContent_decode(raw) ==
    LET items == ListOf(raw, {2})
        tag == AsU8(items[1][1])
    IN CASE Is(items) /\ tag = <<ETHEREUM_TX_TAG>> -> EthereumBytes(AsBytes(items[1][2]))
         [] Is(items) /\ tag = <<DEPOSIT_TX_TAG>> -> Deposit_decode(items[1][2])
         [] OTHER -> Err
DelayedTransaction_encode(content) == TransactionContent_encode(content)
DelayedTransaction_decode(raw) == TransactionContent_decode(raw)

Transaction_encode(t) == RlpList(<<RlpValue(t.tx_hash), TransactionContent_encode(t.content)>>)
Transaction_decode(raw) ==
    LET items == ListOf(raw, {2})
    IN IF Is(items)
         THEN Struct([tx_hash |-> decode_tx_hash(items[1][1]),
                      content |-> TransactionContent_decode(items[1][2])])
         ELSE Err
Queue_encode(txs) == RlpList([i \in DOMAIN txs |-> Transaction_encode(txs[i])])
Queue_decode(items) ==
    IF Is(items) THEN Collect([i \in DOMAIN items[1] |-> Transaction_decode(items[1][i])]) ELSE Err

\* --------------------------------------------------------------- blueprints
BlueprintWithDelayedHashes_encode(b) ==
    RlpList(<<RlpHashes(b.delayed_hashes), Queue_encode(b.transactions),
              append_timestamp(b.timestamp)>>)
BlueprintWithDelayedHashes_decode(raw) ==
    LET items == ListOf(raw, {3})
    IN IF Is(items)
         THEN Struct([delayed_hashes |-> AsHashes(items[1][1]),
                      transactions |-> Queue_decode(Items(items[1][2])),
                      timestamp |-> decode_timestamp(items[1][3])])
         ELSE Err

\* What is stored of a blueprint: a chunk of the sequencer, or a blueprint made
\* of the messages of the inbox when there is no sequencer.
Blueprint_encode(b) == RlpList(<<Queue_encode(b.transactions), append_timestamp(b.timestamp)>>)
Blueprint_decode(raw) ==
    LET items == ListOf(raw, {2})
    IN IF Is(items)
         THEN Struct([transactions |-> Queue_decode(Items(items[1][1])),
                      timestamp |-> decode_timestamp(items[1][2])])
         ELSE Err
SequencerChunk(chunk) == [chunk |-> Ok(chunk), blueprint |-> Err]
InboxBlueprint(blueprint) == [chunk |-> Err, blueprint |-> Ok(blueprint)]
StoreBlueprint_encode(b) ==
    RlpList(IF Is(b.chunk) THEN <<RlpNumber(0), RlpValue(b.chunk[1])>>
            ELSE <<RlpNumber(1), Blueprint_encode(b.blueprint[1])>>)
StoreBlueprint_decode(raw) ==
    LET items == ListOf(raw, {2})
        tag == AsU8(items[1][1])
        chunk == AsBytes(items[1][2])
        blueprint == Blueprint_decode(items[1][2])
    IN CASE Is(items) /\ tag = Ok(0) /\ Is(chunk) -> Ok(SequencerChunk(chunk[1]))
         [] Is(items) /\ tag = Ok(1) /\ Is(blueprint) -> Ok(InboxBlueprint(blueprint[1]))
         [] OTHER -> Err

\* The sequencer signs the RLP of the four fields of a chunk.
UnsignedFields(b) ==
    <<RlpValue(b.chunk), append_u256_le(b.number), append_u16_le(b.nb_chunks),
      append_u16_le(b.chunk_index)>>
UnsignedSequencerBlueprint_encode(b) == RlpList(UnsignedFields(b))
SequencerBlueprint_encode(b) == RlpList(Append(UnsignedFields(b), RlpValue(b.signature)))
SequencerBlueprint_decode(raw) ==
    LET items == ListOf(raw, {5})
    IN IF Is(items)
         THEN Struct([chunk |-> AsBytes(items[1][1]), number |-> decode_field_u256_le(items[1][2]),
                      nb_chunks |-> decode_field_u16_le(items[1][3]),
                      chunk_index |-> decode_field_u16_le(items[1][4]),
                      signature |-> Exactly(Data(items[1][5]), WordBytes)])
         ELSE Err

\* -------------------------------------------------------- block in progress
\* The ticks are not stored: the next run starts from zero.
BlockInProgress_encode(bip) ==
    RlpList(<<RlpNumber(bip.number), Queue_encode(bip.tx_queue), RlpHashes(bip.valid_txs),
              RlpNumber(bip.cumulative_gas), RlpNumber(bip.index), RlpNumber(bip.gas_price),
              RlpValue(bip.parent_hash), RlpBloom(bip.logs_bloom), RlpNumber(bip.logs_offset),
              append_timestamp(bip.timestamp)>>)
BlockInProgressFields(l) ==
    [number |-> AsU256(l[1]), tx_queue |-> Queue_decode(Items(l[2])), valid_txs |-> AsHashes(l[3]),
     cumulative_gas |-> AsU256(l[4]), index |-> AsU256(l[5]), gas_price |-> AsU256(l[6]),
     parent_hash |-> Exactly(Data(l[7]), WordBytes), logs_bloom |-> AsBloom(l[8]),
     logs_offset |-> AsU64(l[9]), timestamp |-> decode_timestamp(l[10]),
     estimated_ticks |-> Ok(0)]
BlockInProgress_decode(raw) ==
    LET items == ListOf(raw, {10}) IN IF Is(items) THEN Struct(BlockInProgressFields(items[1])) ELSE Err
=============================================================================
