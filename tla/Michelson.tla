------------------------------ MODULE Michelson ------------------------------
(***************************************************************************)
(* The data of MIR, the Rust implementation of Michelson (contrib/mir):    *)
(* Micheline expressions, types and their properties, typed values, the    *)
(* order on values, the conversion of values back to Micheline and the     *)
(* binary encoding of Micheline that PACK and UNPACK use.                  *)
(*                                                                         *)
(* A Micheline expression is <<"int", n>>, <<"string", s>>, <<"bytes", b>>,*)
(* <<"seq", es>> or <<"app", prim, args, anns>>; strings and bytes are     *)
(* sequences of numbers below 256.  A type is a tuple <<name, arg, ...>>   *)
(* and a typed value a tuple <<variant, field, ...>>.  Hashes are two      *)
(* bytes long, where the code's have twenty.                               *)
(***************************************************************************)
EXTENDS Integers, Sequences, FiniteSets, FiniteSetsExt, SequencesExt, TLC

CONSTANTS
    MaxMutez,    \* i64::MAX
    Order        \* the order of the BLS12-381 scalar field

ASSUME MichelsonAssumption == MaxMutez \in Nat /\ Order \in Nat \ {0, 1}

Prim(p, args) == <<"app", p, args, <<>> >>
Ty(n) == <<n>>
NoId == -1
None == <<"None">>
Some(v) == <<"Some", v>>
Option(c, v) == IF c THEN Some(v) ELSE None
Bind(o, Then(_)) == IF o = None THEN None ELSE Then(o[2])
\* Some of all the values, or None when one of them is.
Sequence(os) ==
  IF \E k \in DOMAIN os : os[k] = None THEN None ELSE Some([k \in DOMAIN os |-> os[k][2]])
PairOf(l, r) == <<"Pair", l, r>>
IsTag(v, tags) == v[1] \in tags
Closures == {"Lambda", "Apply"}

(***************************************************************************)
(* Types                                                                   *)
(***************************************************************************)
SimpleTypes == {"nat", "int", "bool", "mutez", "string", "unit", "never", "operation",
                "address", "chain_id", "bytes", "key", "signature", "key_hash",
                "timestamp", "bls12_381_fr", "bls12_381_g1", "bls12_381_g2"}
UnaryTypes == {"option", "list", "set", "contract", "ticket"}
BinaryTypes == {"pair", "or", "map", "big_map", "lambda"}

\* The properties that a type constructor has whatever its arguments are,
\* those it never has, and the arguments that must have the others.
Properties == {"Comparable", "Passable", "Storable", "Pushable", "Packable",
               "BigMapValue", "Duplicable"}
Refused(c) ==
  CASE c = "ticket" -> {"Comparable", "Pushable", "Duplicable", "Packable"}
    [] c \in {"bls12_381_fr", "bls12_381_g1", "bls12_381_g2", "list", "set", "map",
              "lambda"} -> {"Comparable"}
    [] c = "operation" -> Properties \ {"Duplicable"}
    [] c = "big_map" -> {"Comparable", "BigMapValue", "Packable", "Pushable"}
    [] c = "contract" -> {"Comparable", "Storable", "Pushable", "BigMapValue"}
    [] OTHER -> {}
Inspected(t) ==
  CASE t[1] \in {"pair", "or"} -> {t[2], t[3]}
    [] t[1] \in {"option", "list", "set"} -> {t[2]}
    [] t[1] \in {"map", "big_map"} -> {t[3]}
    [] OTHER -> {}

RECURSIVE ensure_prop(_, _)
ensure_prop(t, prop) ==
  /\ prop \notin Refused(t[1])
  /\ \A u \in Inspected(t) : ensure_prop(u, prop)

\* A type back in Micheline; a right-nested pair becomes one comb.
RECURSIVE LinearizePair(_)
LinearizePair(t) == IF t[1] = "pair" THEN <<t[2]>> \o LinearizePair(t[3]) ELSE <<t>>

RECURSIVE TypeToMicheline(_)
TypeToMicheline(t) ==
  LET args == IF t[1] = "pair" THEN LinearizePair(t) ELSE Tail(t) IN
  Prim(t[1], [k \in DOMAIN args |-> TypeToMicheline(args[k])])

(***************************************************************************)
(* The order on values: -1, 0 or 1, and Incomparable                       *)
(***************************************************************************)
Incomparable == 2
CompareInt(a, b) == IF a < b THEN -1 ELSE IF a = b THEN 0 ELSE 1

RECURSIVE CompareSeq(_, _)
CompareSeq(a, b) ==
  IF a = <<>> \/ b = <<>> THEN CompareInt(Len(a), Len(b))
  ELSE IF a[1] # b[1] THEN CompareInt(a[1], b[1]) ELSE CompareSeq(Tail(a), Tail(b))

Rank(b) == IF b THEN 1 ELSE 0

RECURSIVE partial_cmp(_, _)
partial_cmp(a, b) ==
  LET t == a[1] u == b[1]
      Then(c, d) == IF c = 0 THEN d ELSE c
  IN CASE t \in {"Int", "Nat", "Mutez", "Timestamp"} /\ u = t -> CompareInt(a[2], b[2])
       [] t = "Bool" /\ u = t -> CompareInt(Rank(a[2]), Rank(b[2]))
       [] t \in {"String", "Bytes", "ChainId", "Key", "Signature", "KeyHash"} /\ u = t ->
            CompareSeq(a[2], b[2])
       [] t = "Address" /\ u = t -> Then(CompareSeq(a[2], b[2]), CompareSeq(a[3], b[3]))
       [] t = "Unit" /\ u = t -> 0
       [] t = "Pair" /\ u = t -> Then(partial_cmp(a[2], b[2]), partial_cmp(a[3], b[3]))
       [] t \in {"None", "Some"} /\ u \in {"None", "Some"} ->
            IF t = "Some" /\ u = "Some" THEN partial_cmp(a[2], b[2])
            ELSE CompareInt(Rank(t = "Some"), Rank(u = "Some"))
       [] t \in {"Left", "Right"} /\ u \in {"Left", "Right"} ->
            IF t = u THEN partial_cmp(a[2], b[2])
            ELSE CompareInt(Rank(t = "Right"), Rank(u = "Right"))
       [] OTHER -> Incomparable

\* A BTreeSet, or the keys of a BTreeMap, in the order of their iterators.
Ascending(S) == SetToSortSeq(S, LAMBDA a, b : partial_cmp(a, b) = -1)

(***************************************************************************)
(* Addresses, keys and hashes as bytes                                     *)
(***************************************************************************)
DefaultEp == <<100>>                     \* the entrypoint "default"
IsDefault(ep) == ep = DefaultEp
HashSize == 3                            \* AddressHash::BYTE_SIZE
IsKeyHash(b) == Len(b) = 2 /\ b[1] \in 0..3
AddressHash(b) == \/ b[1] = 0 /\ IsKeyHash(Tail(b))
                  \/ b[1] \in {1, 3} /\ b[3] = 0
Implicit(keyhash) == <<0>> \o keyhash
Kt1(n) == <<1, n, 0>>
IsImplicit(hash) == hash[1] = 0
AddressOf(hash) == <<"Address", hash, DefaultEp>>
AddressBytes(a) == a[2] \o (IF IsDefault(a[3]) THEN <<>> ELSE a[3])

ValidName(ep) == \A k \in DOMAIN ep : ep[k] \in 97..122
AddressFromBytes(b) ==
  LET hash == SubSeq(b, 1, HashSize) ep == SubSeq(b, HashSize + 1, Len(b)) IN
  IF Len(b) < HashSize \/ ~AddressHash(hash) \/ ~ValidName(ep) \/ ep = DefaultEp THEN None
  ELSE Some(<<"Address", hash, IF ep = <<>> THEN DefaultEp ELSE ep>>)

\* The readable form of bytes is a string that starts with this mark, where
\* the code has a base58 encoding with a checksum.
Base58 == 35
FromBase58(s) == IF s # <<>> /\ s[1] = Base58 THEN Tail(s) ELSE <<>>

\* Elements of the scalar field and of the two groups are their discrete
\* logarithms: numbers below Order, one byte each.
IsScalar(b) == Len(b) = 1 /\ b[1] < Order

(***************************************************************************)
(* Values back to Micheline                                                *)
(***************************************************************************)
unwrap_ticket(t) == PairOf(AddressOf(t[2]), PairOf(t[3], <<"Nat", t[4]>>))
Elt(k, v) == Prim("Elt", <<k, v>>)

RECURSIVE into_micheline(_)

ClosureToMicheline(c) ==
  LET push(a) == Prim("PUSH", <<TypeToMicheline(a[2]), into_micheline(a[3])>>) IN
  CASE c[1] = "Lambda" /\ ~c[2] -> c[3]
    [] c[1] = "Lambda" /\ c[2] -> Prim("Lambda_rec", <<c[3]>>)
    [] c[1] = "Apply" /\ c[4][1] = "Lambda" /\ c[4][2] ->
         <<"seq", <<push(c), Prim("PAIR", <<>>),
                    Prim("LAMBDA_REC", <<TypeToMicheline(c[4][5]), TypeToMicheline(c[4][6]),
                                         c[4][3]>>),
                    Prim("SWAP", <<>>), Prim("EXEC", <<>>)>> >>
    [] OTHER -> <<"seq", <<push(c), Prim("PAIR", <<>>), into_micheline(c[4])>> >>

OperationToMicheline(op) ==
  CASE op[1] = "TransferTokens" ->
         Prim("Transfer_tokens", <<into_micheline(op[2]), into_micheline(op[4]),
                                   into_micheline(<<"Mutez", op[3]>>)>>)
    [] op[1] = "SetDelegate" -> Prim("Set_delegate", <<into_micheline(op[2])>>)
    [] op[1] = "Emit" -> <<"app", "Emit", <<into_micheline(op[3]), op[4]>>, op[2]>>
    [] op[1] = "CreateContract" ->
         Prim("Create_contract",
              <<op[6],
                into_micheline(IF op[2] = None THEN None
                               ELSE Some(AddressOf(Implicit(op[2][2][2])))),
                into_micheline(<<"Mutez", op[3]>>), into_micheline(op[4])>>)

BigMapToMicheline(m) ==
  LET keys == Ascending(DOMAIN m[3])
      elts == <<"seq", [k \in DOMAIN keys |->
                          Elt(into_micheline(keys[k]), into_micheline(m[3][keys[k]]))]>>
  IN IF m[2] = NoId THEN elts
     ELSE IF keys = <<>> THEN <<"int", m[2]>> ELSE Prim("Pair", << <<"int", m[2]>>, elts >>)

into_micheline(v) ==
  LET t == v[1]
      each(s) == <<"seq", [k \in DOMAIN s |-> into_micheline(s[k])]>>
  IN CASE t \in {"Int", "Nat", "Mutez", "Timestamp"} -> <<"int", v[2]>>
       [] t = "Bool" -> Prim(IF v[2] THEN "True" ELSE "False", <<>>)
       [] t = "String" -> <<"string", v[2]>>
       [] t \in {"Unit", "None"} -> Prim(t, <<>>)
       [] t \in {"Some", "Left", "Right"} -> Prim(t, <<into_micheline(v[2])>>)
       [] t = "Pair" -> Prim("Pair", <<into_micheline(v[2]), into_micheline(v[3])>>)
       [] t = "List" -> each(v[2])
       [] t = "Set" -> each(Ascending(v[2]))
       [] t = "Map" -> LET keys == Ascending(DOMAIN v[2]) IN
            <<"seq", [k \in DOMAIN keys |->
                        Elt(into_micheline(keys[k]), into_micheline(v[2][keys[k]]))]>>
       [] t = "BigMap" -> BigMapToMicheline(v)
       [] t \in {"Address", "Contract"} -> <<"bytes", AddressBytes(v)>>
       [] t \in {"ChainId", "Bytes", "Key", "Signature", "KeyHash"} -> <<"bytes", v[2]>>
       [] t \in {"Fr", "G1", "G2"} -> <<"bytes", <<v[2]>> >>
       [] t \in Closures -> ClosureToMicheline(v)
       [] t = "Operation" -> OperationToMicheline(v[2])
       [] t = "Ticket" -> into_micheline(unwrap_ticket(v))

(***************************************************************************)
(* The binary encoding of Micheline                                        *)
(***************************************************************************)
CONSTANT Prims       \* the primitives, in the order of their codes

NumberTag == 0
StringTag == 1
SeqTag == 2
GenericTag == 9
BytesTag == 10
PackTag == 5
\* Mutant of AppTag: the tags do not leave room for annotations.
Mut_AppTag(args, anns) == 3 + args + Rank(anns)
AppTag(args, anns) == 3 + 2 * args + Rank(anns)
PrimCode(p) == CHOOSE k \in DOMAIN Prims : Prims[k] = p
WithLen(b) == <<0, 0, Len(b) \div 256, Len(b) % 256>> \o b

RECURSIVE ZarithRest(_)
ZarithRest(n) == IF n < 128 THEN <<n>> ELSE <<128 + (n % 128)>> \o ZarithRest(n \div 128)
Zarith(n) ==
  LET a == IF n < 0 THEN -n ELSE n
      s == IF n < 0 THEN 64 ELSE 0
  IN IF a < 64 THEN <<s + a>> ELSE <<128 + s + (a % 64)>> \o ZarithRest(a \div 64)

\* The only annotation in this model is one field annotation.
EncodeAnnotations(anns) == WithLen(IF anns = <<>> THEN <<>> ELSE <<37>> \o anns)

RECURSIVE encode_micheline(_)
encode_micheline(m) ==
  LET args == FlattenSeq([k \in DOMAIN m[3] |-> encode_micheline(m[3][k])]) IN
  CASE m[1] = "int" -> <<NumberTag>> \o Zarith(m[2])
    [] m[1] = "string" -> <<StringTag>> \o WithLen(m[2])
    [] m[1] = "bytes" -> <<BytesTag>> \o WithLen(m[2])
    [] m[1] = "seq" ->
         <<SeqTag>> \o WithLen(FlattenSeq([k \in DOMAIN m[2] |-> encode_micheline(m[2][k])]))
    [] m[1] = "app" /\ Len(m[3]) <= 2 ->
         <<AppTag(Len(m[3]), m[4] # <<>>), PrimCode(m[2])>> \o args
           \o (IF m[4] = <<>> THEN <<>> ELSE EncodeAnnotations(m[4]))
    [] m[1] = "app" /\ Len(m[3]) > 2 ->
         <<GenericTag, PrimCode(m[2])>> \o WithLen(args) \o EncodeAnnotations(m[4])
encode_for_pack(m) == <<PackTag>> \o encode_micheline(m)

\* A decoder returns what it read and the bytes that are left, or nothing.
Read(m, rest) == Some(<<m, rest>>)
From(b, k) == SubSeq(b, k, Len(b))

get_bytes(b) ==
  LET n == b[3] * 256 + b[4] IN
  IF Len(b) < 4 \/ Len(b) < 4 + n THEN None ELSE Read(SubSeq(b, 5, 4 + n), From(b, 5 + n))

RECURSIVE DecodeRest(_, _)
DecodeRest(b, weight) ==
  IF b = <<>> THEN None
  ELSE IF b[1] < 128 THEN Read(b[1] * weight, Tail(b))
  ELSE LET r == DecodeRest(Tail(b), weight * 128) IN
       IF r = None THEN None ELSE Read((b[1] - 128) * weight + r[2][1], r[2][2])
decode_int(b) ==
  IF b = <<>> THEN None
  ELSE LET low == b[1] % 64
           sign == IF (b[1] \div 64) % 2 = 1 THEN -1 ELSE 1
           r == IF b[1] < 128 THEN Read(0, Tail(b)) ELSE DecodeRest(Tail(b), 64)
       IN IF r = None THEN None ELSE Read(<<"int", sign * (low + r[2][1])>>, r[2][2])

decode_string(b) ==
  LET r == get_bytes(b) IN
  IF r = None \/ \E k \in DOMAIN r[2][1] : r[2][1][k] \notin (32..126) \union {10, 13} THEN None
  ELSE Read(<<"string", r[2][1]>>, r[2][2])
decode_bytes(b) ==
  LET r == get_bytes(b) IN IF r = None THEN None ELSE Read(<<"bytes", r[2][1]>>, r[2][2])

RECURSIVE decode_micheline(_)

\* n expressions one after the other; n = -1: until the bytes end.
RECURSIVE DecodeMany(_, _, _)
DecodeMany(b, n, read) ==
  IF n = 0 \/ (n = -1 /\ b = <<>>) THEN Read(read, b)
  ELSE LET r == decode_micheline(b) IN
       IF r = None THEN None
       ELSE DecodeMany(r[2][2], IF n = -1 THEN -1 ELSE n - 1, Append(read, r[2][1]))
decode_seq_raw(b) ==
  LET r == get_bytes(b)
      many == DecodeMany(r[2][1], -1, <<>>)
  IN IF r = None THEN None
     ELSE IF many = None THEN None ELSE Read(many[2][1], r[2][2])
decode_seq(b) ==
  LET r == decode_seq_raw(b) IN IF r = None THEN None ELSE Read(<<"seq", r[2][1]>>, r[2][2])

ValidAnnotation(a) == Len(a) > 1 /\ a[1] = 37 /\ ValidName(Tail(a))
decode_app(tag, b) ==
  LET n == (tag - 3) \div 2
      generic == tag = GenericTag
      args == IF generic THEN decode_seq_raw(Tail(b)) ELSE DecodeMany(Tail(b), n, <<>>)
      anns == get_bytes(args[2][2])
      name == anns[2][1]
  IN IF b = <<>> THEN None
     ELSE IF b[1] \notin DOMAIN Prims THEN None
     ELSE IF args = None THEN None
     ELSE IF ~generic /\ tag % 2 = 1
       THEN Read(Prim(Prims[b[1]], args[2][1]), args[2][2])
     ELSE IF anns = None THEN None
     ELSE IF name # <<>> /\ ~ValidAnnotation(name) THEN None
     ELSE Read(<<"app", Prims[b[1]], args[2][1], IF name = <<>> THEN <<>> ELSE Tail(name)>>,
               anns[2][2])

decode_micheline(b) ==
  IF b = <<>> THEN None
  ELSE CASE b[1] = NumberTag -> decode_int(Tail(b))
         [] b[1] = StringTag -> decode_string(Tail(b))
         [] b[1] = SeqTag -> decode_seq(Tail(b))
         [] b[1] = BytesTag -> decode_bytes(Tail(b))
         [] b[1] \in 3..9 -> decode_app(b[1], Tail(b))
         [] OTHER -> None

decode_packed(b) ==
  IF b = <<>> \/ b[1] # PackTag THEN None
  ELSE LET r == decode_micheline(Tail(b)) IN
       IF r = None THEN None ELSE IF r[2][2] # <<>> THEN None ELSE Some(r[2][1])
=============================================================================
