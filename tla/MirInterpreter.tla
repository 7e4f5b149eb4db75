--------------------------- MODULE MirInterpreter ---------------------------
(***************************************************************************)
(* The interpreter of MIR (contrib/mir/src/interpreter.rs) on typed        *)
(* instructions, and its lazy storage of big maps (ast/big_map.rs).  Gas   *)
(* is counted in units of one charge.                                      *)
(***************************************************************************)
EXTENDS MirTypechecker, Bitwise

CONSTANTS Amount, Balance, Level, Now, MinBlockTime, SelfHash, Sender, Source,
          VotingPowers

(***************************************************************************)
(* Gas and the counters of the context                                     *)
(***************************************************************************)
Exhausted == -1

\* The state of an execution: the stack, and a context of the gas, the two
\* counters and (a history variable) the tickets minted; tag says how it goes or how it ended.
Run(st, c) == [tag |-> "ok", st |-> st, c |-> c]
Stop(r, tag) == [r EXCEPT !.tag = tag]
unreachable_state(r) == Stop(r, "unreachable")
Running(r) == r.tag = "ok"

consume(r) ==
  IF r.c.gas = Exhausted THEN Stop(r, "gas_panic")
  ELSE IF r.c.gas = 0 THEN [Stop(r, "out_of_gas") EXCEPT !.c.gas = Exhausted]
  ELSE [r EXCEPT !.c.gas = @ - 1]

push(r, v) == [r EXCEPT !.st = Append(@, v)]
popped(r, n) == [r EXCEPT !.st = Under(@, n)]
\* The variant of a value, and whether the top values have these variants,
\* the top first; "" is any variant.  pop! panics when they have not.
VariantOf(v) ==
  CASE v[1] \in Closures -> "Closure"
    [] v[1] \in {"None", "Some"} -> "Option"
    [] v[1] \in {"Left", "Right"} -> "Or"
    [] OTHER -> v[1]
Fits(st, vs) ==
  Has(st, Len(vs)) /\ \A k \in DOMAIN vs : vs[k] \in {"", VariantOf(At(st, k - 1))}

operation_counter(r) == [r EXCEPT !.c.operations = @ + 1]
origination_counter(r) == [r EXCEPT !.c.originations = @ + 1]

(***************************************************************************)
(* Numbers and bytes                                                       *)
(***************************************************************************)
Overflow == <<"overflow">>
CheckedMutez(n) == IF n \in 0..MaxMutez THEN <<"Mutez", n>> ELSE Overflow

AddOperands ==
  [IntInt |-> <<"Int", "Int">>, NatNat |-> <<"Nat", "Nat">>, IntNat |-> <<"Int", "Nat">>,
   NatInt |-> <<"Nat", "Int">>, MutezMutez |-> <<"Mutez", "Mutez">>, Fr |-> <<"Fr", "Fr">>,
   G1 |-> <<"G1", "G1">>, G2 |-> <<"G2", "G2">>]
Add(ov, a, b) ==
  CASE ov = "NatNat" -> <<"Nat", a[2] + b[2]>>
    [] ov = "MutezMutez" -> CheckedMutez(a[2] + b[2])
    [] ov \in {"Fr", "G1", "G2"} -> <<ov, (a[2] + b[2]) % Order>>
    [] OTHER -> <<"Int", a[2] + b[2]>>

MulOperands ==
  [NatNat |-> <<"Nat", "Nat">>, NatInt |-> <<"Nat", "Int">>, IntNat |-> <<"Int", "Nat">>,
   IntInt |-> <<"Int", "Int">>, MutezNat |-> <<"Mutez", "Nat">>, NatMutez |-> <<"Nat", "Mutez">>,
   G1Fr |-> <<"G1", "Fr">>, G2Fr |-> <<"G2", "Fr">>, FrFr |-> <<"Fr", "Fr">>,
   NatFr |-> <<"Nat", "Fr">>, IntFr |-> <<"Int", "Fr">>, FrNat |-> <<"Fr", "Nat">>,
   FrInt |-> <<"Fr", "Int">>]
Mul(ov, a, b) ==
  CASE ov = "NatNat" -> <<"Nat", a[2] * b[2]>>
    [] ov \in {"NatInt", "IntNat", "IntInt"} -> <<"Int", a[2] * b[2]>>
    [] ov \in {"MutezNat", "NatMutez"} -> CheckedMutez(a[2] * b[2])
    [] ov \in {"G1Fr", "G2Fr"} -> <<a[1], (a[2] * b[2]) % Order>>
    [] OTHER -> <<"Fr", (a[2] * b[2]) % Order>>

\* Two byte strings combined from their right ends; the length is that of
\* the shorter (AND) or of the longer one (OR, XOR).
Longer(a, b) == IF Len(a) > Len(b) THEN a ELSE b
Shorter(a, b) == IF Len(a) > Len(b) THEN b ELSE a
ZipRight(a, b, Op(_, _)) ==
  LET l == Longer(a, b) s == Shorter(a, b) d == Len(l) - Len(s) IN
  [k \in DOMAIN l |-> IF k <= d THEN l[k] ELSE Op(l[k], s[k - d])]
AndBytes(a, b) == TopOf(ZipRight(a, b, LAMBDA x, y : x & y), Len(Shorter(a, b)))

RECURSIVE Power2Above(_)
Power2Above(n) == IF n = 0 THEN 1 ELSE 2 * Power2Above(n \div 2)
LogicOperands(p, ov) ==
  CASE p = "SUB_MUTEZ" -> <<"Mutez", "Mutez">>
    [] p \in {"AND", "OR", "XOR"} ->
         [nat |-> <<"Nat", "Nat">>, bool |-> <<"Bool", "Bool">>, bytes |-> <<"Bytes", "Bytes">>,
          IntNat |-> <<"Int", "Nat">>][ov]
    [] OTHER -> <<ov>>
LogicResult(p, ov, a, b) ==
  CASE p = "SUB_MUTEZ" -> Option(a[2] >= b[2], <<"Mutez", a[2] - b[2]>>)
    [] p = "NEG" /\ ov \in {"Nat", "Int"} -> <<"Int", -a[2]>>
    [] p = "NEG" /\ ov \notin {"Nat", "Int"} -> <<ov, (Order - a[2]) % Order>>
    [] p = "NOT" /\ ov = "Bool" -> <<"Bool", ~a[2]>>
    [] p = "NOT" /\ ov \in {"Int", "Nat"} -> <<"Int", -a[2] - 1>>
    [] p = "NOT" /\ ov = "Bytes" -> <<"Bytes", [k \in DOMAIN a[2] |-> 255 - a[2][k]]>>
    [] p = "AND" /\ ov = "bool" -> <<"Bool", a[2] /\ b[2]>>
    [] p = "OR" /\ ov = "bool" -> <<"Bool", a[2] \/ b[2]>>
    [] p = "XOR" /\ ov = "bool" -> <<"Bool", a[2] # b[2]>>
    [] p = "AND" /\ ov \in {"nat", "IntNat"} -> <<"Nat", (a[2] % Power2Above(b[2])) & b[2]>>
    [] p = "OR" /\ ov = "nat" -> <<"Nat", a[2] | b[2]>>
    [] p = "XOR" /\ ov = "nat" -> <<"Nat", a[2] ^^ b[2]>>
    [] p = "AND" /\ ov = "bytes" -> <<"Bytes", AndBytes(a[2], b[2])>>
    [] p = "OR" /\ ov = "bytes" -> <<"Bytes", ZipRight(a[2], b[2], LAMBDA x, y : x | y)>>
    [] p = "XOR" /\ ov = "bytes" -> <<"Bytes", ZipRight(a[2], b[2], LAMBDA x, y : x ^^ y)>>

\* Big-endian bytes; the signed ones are the shortest two's complement.
RECURSIVE Unsigned(_)
Unsigned(b) == IF b = <<>> THEN 0 ELSE Unsigned(SubSeq(b, 1, Len(b) - 1)) * 256 + Last(b)
Signed(b) == Unsigned(b) - (IF b # <<>> /\ b[1] >= 128 THEN 256 ^ Len(b) ELSE 0)
RECURSIVE UnsignedBytes(_)
UnsignedBytes(n) == IF n = 0 THEN <<>> ELSE Append(UnsignedBytes(n \div 256), n % 256)
RECURSIVE SignedBytes(_)
SignedBytes(n) ==
  IF n = 0 THEN <<>>
  ELSE IF n \in (-128)..127 THEN <<n % 256>> ELSE
       LET high == SignedBytes(n \div 256)
           sign == IF n < 0 THEN 255 ELSE 0
       IN Append(IF high = <<>> THEN <<sign>> ELSE high, n % 256)

ConversionOperands(p, ov) ==
  IF p \in {"INT", "BYTES"}
  THEN << [nat |-> "Nat", bytes |-> "Bytes", int |-> "Int", bls12_381_fr |-> "Fr"][ov] >>
  ELSE IF p = "NAT" THEN <<"Bytes">> ELSE <<"Int">>
ConversionResult(p, ov, a) ==
  LET n == a[2] IN
  CASE p = "INT" -> <<"Int", IF ov = "bytes" THEN Signed(n) ELSE n>>
    [] p = "NAT" -> <<"Nat", Unsigned(n)>>
    [] p = "BYTES" -> <<"Bytes", IF ov = "nat" THEN UnsignedBytes(n) ELSE SignedBytes(n)>>
    [] p = "ABS" -> <<"Nat", IF n < 0 THEN -n ELSE n>>
    [] p = "ISNAT" -> Option(n >= 0, <<"Nat", n>>)
    [] p = "GT" -> <<"Bool", n > 0>>
    [] p = "GE" -> <<"Bool", n >= 0>>
    [] p = "EQ" -> <<"Bool", n = 0>>
    [] p = "NEQ" -> <<"Bool", n # 0>>
    [] p = "LE" -> <<"Bool", n <= 0>>
    [] p = "LT" -> <<"Bool", n < 0>>

(***************************************************************************)
(* Strings, bytes and the context                                          *)
(***************************************************************************)
Slice(s, start, length) ==
  Option(start < Len(s[2]) /\ start + length <= Len(s[2]),
         <<s[1], SubSeq(s[2], start + 1, start + length)>>)

StringOperands(p, ov) ==
  LET v == IF ov \in {"string", "strings"} THEN "String" ELSE "Bytes" IN
  CASE p = "SLICE" -> <<"Nat", "Nat", v>>
    [] p = "CONCAT" /\ ov \in {"string", "bytes"} -> <<v, v>>
    [] p = "CONCAT" /\ ov \notin {"string", "bytes"} -> <<"List">>
StringResult(p, ov, st) ==
  LET a == At(st, 0) IN
  CASE p = "SLICE" -> Slice(At(st, 2), a[2], At(st, 1)[2])
    [] p = "CONCAT" /\ ov \in {"string", "bytes"} -> <<a[1], a[2] \o At(st, 1)[2]>>
    [] p = "CONCAT" /\ ov \notin {"string", "bytes"} ->
         <<IF ov = "strings" THEN "String" ELSE "Bytes",
           FlattenSeq([k \in DOMAIN a[2] |-> a[2][k][2]])>>

\* Hashes, keys and signatures are external: a hash is a fixed number of
\* bytes computed from the message, a signature of a message is the message.
Digest(b) == <<FoldLeft(LAMBDA h, x : (h + x) % 256, Len(b), b)>>
SignatureChecks(key, sig, msg) == sig = msg
PairingCheck(list) ==
  FoldLeft(LAMBDA s, pair : (s + pair[2][2] * pair[3][2]) % Order, 0, list) = 0

ChainOperands(p) ==
  CASE p \in {"VOTING_POWER", "IMPLICIT_ACCOUNT"} -> <<"KeyHash">>
    [] p = "HASH_KEY" -> <<"Key">>
    [] p = "CHECK_SIGNATURE" -> <<"Key", "Signature", "Bytes">>
    [] p = "PAIRING_CHECK" -> <<"List">>
    [] p \in {"BLAKE2B", "KECCAK", "SHA256", "SHA3", "SHA512"} -> <<"Bytes">>
    [] OTHER -> <<>>
ChainResult(p, st) ==
  LET a == At(st, 0) IN
  CASE p = "AMOUNT" -> <<"Mutez", Amount>>
    [] p = "BALANCE" -> <<"Mutez", Balance>>
    [] p = "LEVEL" -> <<"Nat", Level>>
    [] p = "MIN_BLOCK_TIME" -> <<"Nat", MinBlockTime>>
    [] p = "TOTAL_VOTING_POWER" -> <<"Nat", MapThenSumSet(LAMBDA k : VotingPowers[k], DOMAIN VotingPowers)>>
    [] p = "SELF_ADDRESS" -> AddressOf(SelfHash)
    [] p = "SENDER" -> AddressOf(Sender)
    [] p = "SOURCE" -> AddressOf(Source)
    [] p = "NOW" -> <<"Timestamp", Now>>
    [] p = "CHAIN_ID" -> <<"ChainId", <<0>> >>
    [] p = "UNIT" -> <<"Unit">>
    [] p = "VOTING_POWER" -> <<"Nat", IF a[2] \in DOMAIN VotingPowers THEN VotingPowers[a[2]] ELSE 0>>
    [] p = "HASH_KEY" -> <<"KeyHash", a[2]>>
    [] p = "IMPLICIT_ACCOUNT" -> <<"Contract", Implicit(a[2]), DefaultEp>>

CryptoResult(p, st) ==
  LET a == At(st, 0) IN
  CASE p = "CHECK_SIGNATURE" -> <<"Bool", SignatureChecks(a[2], At(st, 1)[2], At(st, 2)[2])>>
    [] p = "PAIRING_CHECK" -> <<"Bool", PairingCheck(a[2])>>
    [] OTHER -> <<"Bytes", Digest(a[2])>>

(***************************************************************************)
(* Big maps: what an overlay and the lazy storage hold                     *)
(***************************************************************************)
\* The lazy storage: id -> [map, kt, vt]; an unknown id panics.
BigMapKnown(m, bm) == m[2] = NoId \/ m[2] \in DOMAIN bm

big_map_get(m, key, bm) ==
  IF key \in DOMAIN m[3] THEN m[3][key]
  ELSE IF m[2] = NoId THEN None
  ELSE IF key \in DOMAIN bm[m[2]].map THEN Some(bm[m[2]].map[key]) ELSE None
big_map_mem(m, key, bm) ==
  IF key \in DOMAIN m[3] THEN m[3][key] # None
  ELSE m[2] # NoId /\ key \in DOMAIN bm[m[2]].map
big_map_update(m, key, value) == [m EXCEPT ![3] = (key :> value) @@ @]

(***************************************************************************)
(* Containers                                                              *)
(***************************************************************************)
MapUpdate(f, key, opt) ==
  IF opt = None THEN [k \in DOMAIN f \ {key} |-> f[k]] ELSE (key :> opt[2]) @@ f
Lookup(c, key, bm) ==
  IF c[1] = "BigMap" THEN big_map_get(c, key, bm)
  ELSE IF key \in DOMAIN c[2] THEN Some(c[2][key]) ELSE None
Updated(c, key, new) ==
  CASE c[1] = "Set" -> <<"Set", IF new[2] THEN c[2] \union {key} ELSE c[2] \ {key}>>
    [] c[1] = "Map" -> <<"Map", MapUpdate(c[2], key, new)>>
    [] c[1] = "BigMap" -> big_map_update(c, key, new)
Cardinal(c) ==
  CASE c[1] = "Set" -> Cardinality(c[2])
    [] c[1] = "Map" -> Cardinality(DOMAIN c[2])
    [] OTHER -> Len(c[2])

ContainerVariant == [set |-> "Set", map |-> "Map", big_map |-> "BigMap", list |-> "List",
                     string |-> "String", bytes |-> "Bytes"]
ContainerOperands(p, ov) ==
  LET c == ContainerVariant[ov] IN
  CASE p \in {"MEM", "GET"} -> <<"", c>>
    [] p \in {"UPDATE", "GET_AND_UPDATE"} -> <<"", IF ov = "set" THEN "Bool" ELSE "Option", c>>
    [] p = "SIZE" -> <<c>>
ContainerResults(p, st, bm) ==
  LET key == At(st, 0) c1 == At(st, 1) c2 == At(st, 2) IN
  CASE p = "MEM" ->
         << <<"Bool", IF c1[1] = "BigMap" THEN big_map_mem(c1, key, bm)
                      ELSE key \in (IF c1[1] = "Set" THEN c1[2] ELSE DOMAIN c1[2])>> >>
    [] p = "GET" -> <<Lookup(c1, key, bm)>>
    [] p = "UPDATE" -> <<Updated(c2, key, c1)>>
    [] p = "GET_AND_UPDATE" -> <<Updated(c2, key, c1), Lookup(c2, key, bm)>>
    [] p = "SIZE" -> << <<"Nat", Cardinal(key)>> >>

(***************************************************************************)
(* The stack, pairs and constructors                                       *)
(***************************************************************************)
StackResult(p, n, st) ==
  LET len == Len(st) IN
  CASE p = "DROP" -> Under(st, n)
    [] p = "DUP" -> Append(st, At(st, n - 1))
    [] p = "DIG" -> Append(RemoveAt(st, len - n), At(st, n))
    [] p = "DUG" -> InsertAt(Under(st, 1), len - n, At(st, 0))
StackPanics(p, n, st) ==
  CASE p = "DROP" -> ~Has(st, n)
    [] p = "DUP" -> n = 0 \/ ~Has(st, n)
    [] p \in {"DIG", "DUG"} -> ~Has(st, n + 1)

\* The same walk as on types, over the values of a comb.
RECURSIVE IsField(_, _)
IsField(n, v) == n = 0 \/ (v[1] = "Pair" /\ (n = 1 \/ IsField(n - 2, v[3])))
RECURSIVE Field(_, _)
Field(n, v) == IF n = 0 THEN v ELSE IF n = 1 THEN v[2] ELSE Field(n - 2, v[3])
RECURSIVE SetField(_, _, _)
SetField(n, v, new) ==
  IF n = 0 THEN new
  ELSE IF n = 1 THEN PairOf(new, v[3]) ELSE PairOf(v[2], SetField(n - 2, v[3], new))
RECURSIVE IsComb(_, _)
IsComb(n, v) == n = 0 \/ (v[1] = "Pair" /\ IsComb(n - 1, v[3]))
RECURSIVE Fill(_, _)
Fill(n, v) == IF n = 0 THEN <<v>> ELSE Append(Fill(n - 1, v[3]), v[2])

PairPanics(p, n, st) ==
  CASE p \in {"CAR", "CDR"} -> ~Fits(st, <<"Pair">>)
    [] p = "PAIR" -> ~Has(st, n)
    [] p = "UNPAIR" -> st = <<>> \/ ~IsComb(n - 1, At(st, 0))
    [] p = "GETN" -> st = <<>> \/ ~IsField(n, At(st, 0))
    [] p = "UPDATEN" -> ~Has(st, 2) \/ ~IsField(n, At(st, 1))
PairResult(p, n, st) ==
  LET top == At(st, 0) below == Under(st, 1) IN
  CASE p = "CAR" -> Append(below, top[2])
    [] p = "CDR" -> Append(below, top[3])
    [] p = "PAIR" -> Append(Under(st, n), CombOfStack(TopOf(st, n), "Pair"))
    [] p = "UNPAIR" -> below \o Fill(n - 1, top)
    [] p = "GETN" -> Append(below, Field(n, top))
    [] p = "UPDATEN" -> Append(Under(st, 2), SetField(n, At(st, 1), top))

ConstructorOperands(p) ==
  CASE p \in {"SOME", "LEFT", "RIGHT"} -> <<"">>
    [] p = "CONS" -> <<"", "List">>
    [] p = "COMPARE" -> <<"", "">>
    [] OTHER -> <<>>
ConstructorResult(i, st) ==
  LET p == i[1] a == At(st, 0) IN
  CASE p = "SOME" -> Some(a)
    [] p = "NONE" -> None
    [] p = "LEFT" -> <<"Left", a>>
    [] p = "RIGHT" -> <<"Right", a>>
    [] p = "NIL" -> <<"List", <<>> >>
    [] p = "CONS" -> <<"List", <<a>> \o At(st, 1)[2]>>
    [] p = "EMPTY_SET" -> <<"Set", {}>>
    [] p = "EMPTY_BIG_MAP" -> <<"BigMap", NoId, <<>>, i[2], i[3]>>
    [] p = "COMPARE" -> <<"Int", partial_cmp(a, At(st, 1))>>

(***************************************************************************)
(* Tickets                                                                 *)
(***************************************************************************)
TicketOperands(p) ==
  CASE p = "TICKET" -> <<"", "Nat">>
    [] p = "READ_TICKET" -> <<"Ticket">>
    [] p = "SPLIT_TICKET" -> <<"Ticket", "Pair">>
    [] p = "JOIN_TICKETS" -> <<"Pair">>
\* Mutant of TicketResults: the parts of a split need not sum up to the ticket.
Mut_TicketResults(p, st) ==
  LET a == At(st, 0) b == At(st, 1) IN
  CASE p = "TICKET" -> <<Option(b[2] # 0, <<"Ticket", SelfHash, a, b[2]>>)>>
    [] p = "READ_TICKET" -> <<a, unwrap_ticket(a)>>
    [] p = "SPLIT_TICKET" ->
         <<Option(b[2][2] > 0 /\ b[3][2] > 0,
                  PairOf([a EXCEPT ![4] = b[2][2]], [a EXCEPT ![4] = b[3][2]]))>>
    [] p = "JOIN_TICKETS" ->
         LET l == a[2] r == a[3] IN
         <<Option(l[3] = r[3] /\ l[2] = r[2], [l EXCEPT ![4] = @ + r[4]])>>
TicketResults(p, st) ==
  LET a == At(st, 0) b == At(st, 1) IN
  CASE p = "TICKET" -> <<Option(b[2] # 0, <<"Ticket", SelfHash, a, b[2]>>)>>
    [] p = "READ_TICKET" -> <<a, unwrap_ticket(a)>>
    [] p = "SPLIT_TICKET" ->
         <<Option(b[2][2] + b[3][2] = a[4] /\ b[2][2] > 0 /\ b[3][2] > 0,
                  PairOf([a EXCEPT ![4] = b[2][2]], [a EXCEPT ![4] = b[3][2]]))>>
    [] p = "JOIN_TICKETS" ->
         LET l == a[2] r == a[3] IN
         <<Option(l[3] = r[3] /\ l[2] = r[2], [l EXCEPT ![4] = @ + r[4]])>>

(***************************************************************************)
(* Packing, contracts and operations                                       *)
(***************************************************************************)
\* Pushes what the typechecker answers.  When it charges gas and none is left,
\* its failure is swallowed: the answer is None, and the gas stays exhausted.
Swallowing(r, charged, answer) ==
  IF ~charged THEN push(r, answer)
  ELSE IF r.c.gas = 0 THEN [push(r, None) EXCEPT !.c.gas = Exhausted]
  ELSE [push(r, answer) EXCEPT !.c.gas = @ - 1]

Unpack(r, ty, bytes, bm) ==
  LET mich == decode_packed(bytes)
  IN Swallowing(r, mich # None, IF mich = None THEN None ELSE typecheck_value(mich[2], ty, bm))

compute_contract_address(n) == AddressOf(Kt1(100 + n))

ContractOperands(p) ==
  CASE p = "UNPACK" -> <<"Bytes">>
    [] p = "ADDRESS" -> <<"Contract">>
    [] p = "CONTRACT" -> <<"Address">>
    [] p = "TRANSFER_TOKENS" -> <<"", "Mutez", "Contract">>
    [] p = "SET_DELEGATE" -> <<"Option">>
    [] p = "CREATE_CONTRACT" -> <<"Option", "Mutez", "">>
    [] p \in {"PACK", "EMIT"} -> <<"">>
    [] p = "SELF" -> <<>>
\* `r' is the execution after the operands of `st' were popped.
InterpretContract(i, st, r, bm) ==
  LET p == i[1]
      a == At(st, 0)
  IN CASE p = "PACK" -> push(r, <<"Bytes", encode_for_pack(into_micheline(a))>>)
       [] p = "UNPACK" -> Unpack(r, i[2], a[2], bm)
       [] p = "SELF" -> push(r, <<"Contract", SelfHash, i[2]>>)
       [] p = "ADDRESS" -> push(r, <<"Address", a[2], a[3]>>)
       [] p = "CONTRACT" ->
            LET address == typecheck_contract_address(a, i[3], i[2])
                found == IF address = None THEN None
                         ELSE Some(<<"Contract", address[2][2], address[2][3]>>)
            IN Swallowing(r, ComparesTypes(a, i[3]), found)

InterpretOperation(i, st, r) ==
  LET p == i[1]
      a == At(st, 0)
      numbered == operation_counter(r)
      emit(op) == push(numbered, <<"Operation", op, numbered.c.operations>>)
  IN CASE p = "TRANSFER_TOKENS" ->
            emit(<<"TransferTokens", a, At(st, 1)[2], <<"Address", At(st, 2)[2], At(st, 2)[3]>> >>)
       [] p = "SET_DELEGATE" -> emit(<<"SetDelegate", a>>)
       [] p = "EMIT" -> emit(<<"Emit", i[2], a, i[3]>>)
       [] p = "CREATE_CONTRACT" ->
            LET s == origination_counter(numbered) IN
            push(push(s, compute_contract_address(s.c.originations)),
                 <<"Operation", <<"CreateContract", a, At(st, 1)[2], At(st, 2), i[2], i[3]>>,
                   s.c.operations>>)

(***************************************************************************)
(* Control                                                                 *)
(***************************************************************************)
RECURSIVE interpret_one(_, _, _)

RECURSIVE InterpretFrom(_, _, _, _)
InterpretFrom(code, k, r, bm) ==
  IF ~Running(r) THEN r
  ELSE IF k > Len(code) THEN consume(r)
  ELSE InterpretFrom(code, k + 1, interpret_one(code[k], r, bm), bm)
interpret(code, r, bm) == InterpretFrom(code, 1, r, bm)

\* The branch an IF takes: its number and what it leaves on the stack.
BranchOperands(p) ==
  CASE p = "IF" -> <<"Bool">>
    [] p = "IF_NONE" -> <<"Option">>
    [] p = "IF_CONS" -> <<"List">>
    [] p = "IF_LEFT" -> <<"Or">>
Branch(p, a) ==
  CASE p = "IF" -> <<IF a[2] THEN 2 ELSE 3, <<>> >>
    [] p = "IF_NONE" -> IF a = None THEN <<2, <<>> >> ELSE <<3, <<a[2]>> >>
    [] p = "IF_CONS" -> IF a[2] = <<>> THEN <<3, <<>> >>
                        ELSE <<2, << <<"List", Tail(a[2])>>, Head(a[2])>> >>
    [] p = "IF_LEFT" -> <<IF a[1] = "Left" THEN 2 ELSE 3, <<a[2]>> >>

\* The round of a loop after its body, which may have ended the execution.
RECURSIVE InterpretLoop(_, _, _)
InterpretLoop(i, before, bm) ==
  LET r == consume(before)
      a == At(r.st, 0)
      again == IF i[1] = "LOOP" THEN a[2] ELSE a[1] = "Left"
      next == IF i[1] = "LOOP" THEN popped(r, 1) ELSE push(popped(r, 1), a[2])
  IN IF ~Running(before) THEN before
     ELSE IF ~Running(r) THEN r
     ELSE IF ~Fits(r.st, <<IF i[1] = "LOOP" THEN "Bool" ELSE "Or">>) THEN unreachable_state(r)
     ELSE IF again THEN InterpretLoop(i, interpret(i[2], next, bm), bm)
     ELSE consume(next)

\* The elements ITER and MAP go through, in order.
Elements(a) ==
  CASE a[1] = "List" -> a[2]
    [] a[1] = "Set" -> Ascending(a[2])
    [] a[1] = "Map" -> LET keys == Ascending(DOMAIN a[2]) IN
                       [k \in DOMAIN keys |-> PairOf(keys[k], a[2][keys[k]])]
    [] a[1] = "None" -> <<>>
    [] a[1] = "Some" -> <<a[2]>>
\* ITER leaves what its block leaves; MAP takes one value back each time.
RECURSIVE ForEach(_, _, _, _, _)
ForEach(elems, code, r, taken, bm) ==
  IF elems = <<>> \/ ~Running(r) THEN <<r, taken>>
  ELSE LET charged == consume(r)
           rest(s) == IF ~Running(s) THEN <<s, taken>>
                      ELSE IF s.st = <<>> THEN <<unreachable_state(s), taken>>
                      ELSE ForEach(Tail(elems), code, popped(s, 1), Append(taken, At(s.st, 0)), bm)
       IN rest(IF Running(charged) THEN interpret(code, push(charged, Head(elems)), bm) ELSE charged)
RECURSIVE ForIter(_, _, _, _)
ForIter(elems, code, r, bm) ==
  IF elems = <<>> \/ ~Running(r) THEN r
  ELSE LET charged == consume(r) IN
       IF ~Running(charged) THEN charged
       ELSE ForIter(Tail(elems), code, interpret(code, push(charged, Head(elems)), bm), bm)
Rebuilt(a, taken) ==
  CASE a[1] = "List" -> <<"List", taken>>
    [] a[1] = "Map" -> LET keys == Ascending(DOMAIN a[2]) IN
         <<"Map", [key \in DOMAIN a[2] |-> taken[CHOOSE k \in DOMAIN keys : keys[k] = key]]>>
    [] a[1] = "None" -> None
    [] a[1] = "Some" -> Some(taken[1])
CollectionOperand == [list |-> "List", set |-> "Set", map |-> "Map", option |-> "Option"]
InterpretCollection(i, r, bm) ==
  LET a == At(r.st, 0)
      elems == Elements(a)
      done(r2, taken) == IF Running(r2) THEN push(r2, Rebuilt(a, taken)) ELSE r2
      mapped(p) == done(p[1], p[2])
  IN IF ~Fits(r.st, <<CollectionOperand[i[2]]>>) THEN unreachable_state(r)
     ELSE IF i[1] = "ITER" THEN ForIter(elems, i[3], popped(r, 1), bm)
     ELSE mapped(ForEach(elems, i[3], popped(r, 1), <<>>, bm))

InterpretDip(i, r, bm) ==
  LET restored(undip) ==
        IF ~Running(undip) THEN undip ELSE [undip EXCEPT !.st = @ \o TopOf(r.st, i[2])]
      dipped(inner) == IF ~Running(inner) THEN inner ELSE restored(consume(inner))
  IN IF ~Has(r.st, i[2]) THEN unreachable_state(r)
     ELSE dipped(interpret(i[3], popped(r, i[2]), bm))

\* A closure is unrolled, its captured arguments paired with the argument.
RECURSIVE Exec(_, _, _, _)
Exec(closure, arg, r, bm) ==
  IF ~Running(r) THEN r
  ELSE IF closure[1] = "Apply" THEN Exec(closure[4], PairOf(closure[3], arg), consume(r), bm)
  ELSE LET st == IF closure[2] THEN <<closure, arg>> ELSE <<arg>>
           returned(s) == IF ~Running(s) THEN s
                          ELSE IF s.st = <<>> THEN unreachable_state(s)
                          ELSE [s EXCEPT !.st = Append(r.st, At(s.st, 0))]
       IN returned(interpret(closure[4], [r EXCEPT !.st = st], bm))

InterpretLambda(i, r, bm) ==
  LET a == At(r.st, 0) b == At(r.st, 1) IN
  CASE i[1] = "LAMBDA" -> push(r, i[2])
    [] i[1] = "EXEC" ->
         IF Fits(r.st, <<"", "Closure">>) THEN Exec(b, a, popped(r, 2), bm) ELSE unreachable_state(r)
    [] i[1] = "APPLY" ->
         IF Fits(r.st, <<"", "Closure">>) THEN push(popped(r, 2), <<"Apply", i[2], a, b>>)
         ELSE unreachable_state(r)

(***************************************************************************)
(* One instruction                                                         *)
(***************************************************************************)
\* The operands an instruction pops and the values it pushes, for those that
\* only compute.
Computes == (Simple \ {"SET_DELEGATE"}) \union ContainerPrims \union ConstructorPrims \union TicketPrims
Operands(i) ==
  LET p == i[1] IN
  CASE p = "ADD" -> AddOperands[i[2]]
    [] p = "MUL" -> MulOperands[i[2]]
    [] p \in Logic -> LogicOperands(p, i[2])
    [] p \in Conversions -> ConversionOperands(p, i[2])
    [] p \in {"CONCAT", "SLICE"} -> StringOperands(p, i[2])
    [] p \in ContainerPrims -> ContainerOperands(p, i[2])
    [] p \in ConstructorPrims -> ConstructorOperands(p)
    [] p \in TicketPrims -> TicketOperands(p)
    [] p \in CryptoPrims \union (ChainReads \ {"SET_DELEGATE"}) -> ChainOperands(p)
Results(i, st, bm) ==
  LET p == i[1] a == At(st, 0) b == At(st, 1) IN
  CASE p = "ADD" -> <<Add(i[2], a, b)>>
    [] p = "MUL" -> <<Mul(i[2], a, b)>>
    [] p \in Logic -> <<LogicResult(p, i[2], a, b)>>
    [] p \in Conversions -> <<ConversionResult(p, i[2], a)>>
    [] p \in {"CONCAT", "SLICE"} -> <<StringResult(p, i[2], st)>>
    [] p \in ContainerPrims -> ContainerResults(p, st, bm)
    [] p \in ConstructorPrims -> <<ConstructorResult(i, st)>>
    [] p \in TicketPrims -> TicketResults(p, st)
    [] p \in CryptoPrims -> <<CryptoResult(p, st)>>
    [] p \in ChainReads \ {"SET_DELEGATE"} -> <<ChainResult(p, st)>>

Compute(i, r, bm) ==
  LET ops == Operands(i)
      n == Len(ops)
      unknown == i[1] \in ContainerPrims
                   /\ \E k \in 1..n : At(r.st, k - 1)[1] = "BigMap" /\ ~BigMapKnown(At(r.st, k - 1), bm)
  IN IF ~Fits(r.st, ops) THEN unreachable_state(r)
     ELSE IF unknown THEN Stop(r, "no_big_map")
     ELSE LET vs == Results(i, r.st, bm) IN
          IF vs[1] = Overflow THEN Stop(r, "overflow")
          ELSE IF i[1] = "COMPARE" /\ vs[1][2] = Incomparable THEN unreachable_state(r)
          ELSE [popped(r, n) EXCEPT !.st = @ \o vs,
                                    !.c.minted = @ + (IF i[1] = "TICKET" THEN At(r.st, 1)[2] ELSE 0)]

interpret_one(i, before, bm) ==
  LET p == i[1]
      r == consume(before)
      operation == p \in OperationPrims \union {"TRANSFER_TOKENS", "SET_DELEGATE"}
      contract == operation \/ p \in ContractPrims
  IN IF p = "FAILWITH" THEN Stop(before, IF before.st = <<>> THEN "unreachable" ELSE "failed")
     ELSE IF p = "NEVER" THEN unreachable_state(before)
     ELSE IF p = "SEQ" THEN interpret(i[2], before, bm)
     ELSE IF ~Running(r) THEN r
     ELSE CASE p \in Computes -> Compute(i, r, bm)
            [] p \in {"DROP", "DUP", "DIG", "DUG"} ->
                 IF StackPanics(p, i[2], r.st) THEN unreachable_state(r)
                 ELSE [r EXCEPT !.st = StackResult(p, i[2], @)]
            [] p = "SWAP" -> IF ~Has(r.st, 2) THEN unreachable_state(r)
                             ELSE [popped(r, 2) EXCEPT !.st = @ \o <<At(r.st, 0), At(r.st, 1)>>]
            [] p = "PUSH" -> push(r, i[2])
            [] p \in PairPrims \union {"GETN", "UPDATEN"} ->
                 IF PairPanics(p, i[2], r.st) THEN unreachable_state(r)
                 ELSE [r EXCEPT !.st = PairResult(p, i[2], @)]
            [] p \in {"IF", "IF_NONE", "IF_CONS", "IF_LEFT"} ->
                 IF ~Fits(r.st, BranchOperands(p)) THEN unreachable_state(r)
                 ELSE LET b == Branch(p, At(r.st, 0)) IN
                      interpret(i[b[1]], [popped(r, 1) EXCEPT !.st = @ \o b[2]], bm)
            [] p \in {"LOOP", "LOOP_LEFT"} -> InterpretLoop(i, r, bm)
            [] p \in {"ITER", "MAP"} -> InterpretCollection(i, r, bm)
            [] p = "DIP" -> InterpretDip(i, r, bm)
            [] p \in LambdaPrims -> InterpretLambda(i, r, bm)
            [] contract ->
                 IF ~Fits(r.st, ContractOperands(p)) THEN unreachable_state(r)
                 ELSE LET rest == popped(r, Len(ContractOperands(p))) IN
                      IF operation THEN InterpretOperation(i, r.st, rest) ELSE InterpretContract(i, r.st, rest, bm)

(***************************************************************************)
(* Big maps at the end of an execution                                     *)
(***************************************************************************)
\* The big maps of a value, in the order of the traversal; sets, tickets,
\* lambdas and emitted events are not looked into.
RECURSIVE collect_big_maps(_)
collect_big_maps(v) ==
  LET all(s) == FlattenSeq([k \in DOMAIN s |-> collect_big_maps(s[k])]) IN
  CASE v[1] = "Pair" -> all(<<v[2], v[3]>>)
    [] v[1] \in {"Some", "Left", "Right"} -> all(<<v[2]>>)
    [] v[1] = "List" -> all(v[2])
    [] v[1] = "Map" -> LET keys == Ascending(DOMAIN v[2]) IN all([k \in DOMAIN keys |-> v[2][keys[k]]])
    [] v[1] = "BigMap" -> <<v>>
    [] v[1] = "Operation" ->
         CASE v[2][1] = "TransferTokens" -> all(<<v[2][2]>>)
           [] v[2][1] = "CreateContract" -> all(<<v[2][4]>>)
           [] OTHER -> <<>>
    [] OTHER -> <<>>

\* The same traversal, each big map replaced by the k-th of `ms'.
RECURSIVE SetBigMaps(_, _)
SetBigMaps(v, ms) ==
  LET n(w) == Len(collect_big_maps(w))
      split(l, r) == <<SetBigMaps(l, SubSeq(ms, 1, n(l))), SetBigMaps(r, SubSeq(ms, n(l) + 1, Len(ms)))>>
      rest(s) == split(Head(s), <<v[1], Tail(s)>>)
  IN IF ms = <<>> THEN v
     ELSE CASE v[1] = "Pair" -> <<"Pair">> \o split(v[2], v[3])
            [] v[1] \in {"Some", "Left", "Right"} -> <<v[1], SetBigMaps(v[2], ms)>>
            [] v[1] = "List" -> LET r == rest(v[2]) IN <<"List", <<r[1]>> \o r[2][2]>>
            [] v[1] = "Map" ->
                 LET keys == Ascending(DOMAIN v[2])
                     r == SetBigMaps(<<"List", [k \in DOMAIN keys |-> v[2][keys[k]]]>>, ms)[2]
                 IN <<"Map", [key \in DOMAIN v[2] |-> r[CHOOSE k \in DOMAIN keys : keys[k] = key]]>>
            [] v[1] = "BigMap" -> ms[1]
            [] v[1] = "Operation" /\ v[2][1] = "TransferTokens" -> [v EXCEPT ![2][2] = SetBigMaps(@, ms)]
            [] v[1] = "Operation" /\ v[2][1] = "CreateContract" -> [v EXCEPT ![2][4] = SetBigMaps(@, ms)]

Written(map, overlay) ==
  LET keys == { k \in DOMAIN overlay : overlay[k] # None }
      kept == { k \in DOMAIN map : k \notin DOMAIN overlay }
  IN [k \in keys \union kept |-> IF k \in keys THEN overlay[k][2] ELSE map[k]]
big_map_bulk_update(s, id, overlay) == [s EXCEPT !.bm[id].map = Written(@, overlay)]
EmptyLazyStorage == [bm |-> <<>>, next |-> 0]
get_next_id(s) == [s EXCEPT !.next = @ + 1]
big_map_new(s, kt, vt) ==
  [get_next_id(s) EXCEPT !.bm = (s.next :> [map |-> <<>>, kt |-> kt, vt |-> vt]) @@ @]
big_map_copy(s, id) == [get_next_id(s) EXCEPT !.bm = (s.next :> s.bm[id]) @@ @]
big_map_remove(s, id) == [s EXCEPT !.bm = [k \in DOMAIN @ \ {id} |-> @[k]]]
\* Mutant of Stored: the overlay is copied to the storage, not taken.
Mut_Stored(m, id) == [m EXCEPT ![2] = id]
Stored(m, id) == [m EXCEPT ![2] = id, ![3] = <<>>]

\* Big maps that live in memory get an id; then those gone are removed; then,
\* id by id, every other map with the same id becomes a copy, and the first
\* one is updated in place.  s = [bm, next] is the storage, ms the big maps.
NewMap(acc, k) ==
  LET m == acc.ms[k] IN
  IF m[2] # NoId THEN acc
  ELSE [s |-> big_map_bulk_update(big_map_new(acc.s, m[4], m[5]), acc.s.next, m[3]),
        ms |-> [acc.ms EXCEPT ![k] = Stored(m, acc.s.next)]]
CopyMap(acc, k) ==
  LET m == acc.ms[k] IN
  [s |-> big_map_bulk_update(big_map_copy(acc.s, m[2]), acc.s.next, m[3]),
   ms |-> [acc.ms EXCEPT ![k] = Stored(m, acc.s.next)]]
UpdateMap(acc, k) ==
  LET m == acc.ms[k] IN
  [s |-> big_map_bulk_update(acc.s, m[2], m[3]), ms |-> [acc.ms EXCEPT ![k] = Stored(m, m[2])]]

\* Mutant of dump_big_map_updates: a map is updated before its copies are made.
Mut_dump_big_map_updates(s, started, ms) ==
  LET indices == [k \in DOMAIN ms |-> k]
      group(id) == SelectSeq(indices, LAMBDA k : ms[k][2] = id)
      ids == { ms[k][2] : k \in DOMAIN ms } \ {NoId}
      created == FoldLeft(NewMap, [s |-> s, ms |-> ms], indices)
      pruned == [created EXCEPT !.s = FoldSet(LAMBDA id, t : big_map_remove(t, id), @, started \ ids)]
  IN FoldLeft(LAMBDA acc, id : FoldLeft(CopyMap, UpdateMap(acc, Head(group(id))), Tail(group(id))),
              pruned, SetToSortSeq(ids, LAMBDA x, y : x < y))

dump_big_map_updates(s, started, ms) ==
  LET indices == [k \in DOMAIN ms |-> k]
      group(id) == SelectSeq(indices, LAMBDA k : ms[k][2] = id)
      ids == { ms[k][2] : k \in DOMAIN ms } \ {NoId}
      created == FoldLeft(NewMap, [s |-> s, ms |-> ms], indices)
      pruned == [created EXCEPT !.s = FoldSet(LAMBDA id, t : big_map_remove(t, id), @, started \ ids)]
  IN FoldLeft(LAMBDA acc, id : UpdateMap(FoldLeft(CopyMap, acc, Tail(group(id))), Head(group(id))),
              pruned, SetToSortSeq(ids, LAMBDA x, y : x < y))
=============================================================================
