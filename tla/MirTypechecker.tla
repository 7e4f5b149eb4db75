--------------------------- MODULE MirTypechecker ---------------------------
(***************************************************************************)
(* The typechecker of MIR (contrib/mir/src/typechecker.rs): types,         *)
(* values, instructions and whole scripts.  A stack is a sequence whose    *)
(* last element is the top.  Typechecking an instruction returns the stack *)
(* after it (or a failed stack, ok = FALSE) and the typed instruction,     *)
(* which carries the overload that was chosen.                             *)
(***************************************************************************)
EXTENDS Michelson

CONSTANT Contracts   \* Ctx::lookup_contract: hash -> entrypoints

Ok(st, i) == [tag |-> "ok", ok |-> TRUE, st |-> st, i |-> i]
FailedStack(i) == [tag |-> "ok", ok |-> FALSE, st |-> <<>>, i |-> i]
Err == [tag |-> "err"]
Panic == [tag |-> "panic"]
Require(c, r) == IF c THEN r ELSE Err
AndThen(r, Then(_)) == IF r.tag # "ok" THEN r ELSE Then(r)
Expect(o, Then(_)) == IF o = None THEN Err ELSE Then(o[2])
Instr(p) == <<p, "">>
NoSelf == <<>>                            \* SELF is forbidden: no entrypoints

\* The stack: the k-th element from the top (0 is the top), the stack under
\* the n top ones, and those n, the top last.
At(st, k) == st[Len(st) - k]
Under(st, n) == SubSeq(st, 1, Len(st) - n)
TopOf(st, n) == SubSeq(st, Len(st) - n + 1, Len(st))
Has(st, n) == Len(st) >= n
TopIs(st, k, names) == Has(st, k + 1) /\ At(st, k)[1] \in names

(***************************************************************************)
(* Types                                                                   *)
(***************************************************************************)
\* The constraints on the arguments of a type constructor.
ArgumentProps(c, args) ==
  CASE c \in {"ticket", "set", "map"} -> ensure_prop(args[1], "Comparable")
    [] c = "contract" -> ensure_prop(args[1], "Passable")
    [] c = "big_map" -> ensure_prop(args[1], "Comparable") /\ ensure_prop(args[2], "BigMapValue")
    [] OTHER -> TRUE

RECURSIVE Comb(_)
Comb(ts) == IF Len(ts) = 1 THEN ts[1] ELSE <<"pair", ts[1], Comb(Tail(ts))>>

RECURSIVE parse_ty(_)
parse_ty(m) ==
  LET c == m[2]
      args == [k \in DOMAIN m[3] |-> parse_ty(m[3][k])]
      types == [k \in DOMAIN args |-> args[k][2]]
      n == Len(args)
      arity == \/ c \in SimpleTypes /\ n = 0
               \/ c \in UnaryTypes /\ n = 1
               \/ c \in BinaryTypes /\ n = 2
               \/ c = "pair" /\ n > 2
  IN IF m[1] # "app" THEN None
     ELSE IF ~arity \/ \E k \in DOMAIN args : args[k] = None THEN None
     ELSE IF ~ArgumentProps(c, types) THEN None
     ELSE Some(IF c = "pair" THEN Comb(types) ELSE <<c>> \o types)

\* The entrypoints of a parameter type: its annotated parts, reached through
\* `or` only; no name twice; the whole is the default unless one is named so.
RECURSIVE Annotated(_)
Annotated(m) ==
  (IF m[1] = "app" /\ m[2] = "or" THEN Annotated(m[3][1]) \o Annotated(m[3][2]) ELSE <<>>)
    \o (IF m[4] = <<>> THEN <<>> ELSE << <<m[4], parse_ty(m)[2]>> >>)

parse_parameter_ty_with_entrypoints(m) ==
  LET anns == Annotated(m)
      named == [ep \in {anns[k][1] : k \in DOMAIN anns} |->
                  anns[CHOOSE k \in DOMAIN anns : anns[k][1] = ep][2]]
      ty == parse_ty(m)
  IN IF ty = None THEN None
     ELSE IF Cardinality(DOMAIN named) # Len(anns) THEN None
     ELSE Some(<<named @@ (DefaultEp :> ty[2]), ty[2]>>)

(***************************************************************************)
(* Values                                                                  *)
(***************************************************************************)
\* The type of the contract is compared, which costs gas, once the entrypoint
\* of an originated contract was found.
ComparesTypes(address, ep) ==
  LET own == address[3]
      entrypoint == IF IsDefault(ep) THEN own ELSE ep
  IN /\ IsDefault(own) \/ IsDefault(ep)
     /\ ~IsImplicit(address[2]) /\ address[2] \in DOMAIN Contracts
     /\ entrypoint \in DOMAIN Contracts[address[2]]

typecheck_contract_address(address, ep, typ) ==
  LET own == address[3]
      entrypoint == IF IsDefault(ep) THEN own ELSE ep
      hash == address[2]
  IN IF ~IsDefault(own) /\ ~IsDefault(ep) THEN None
     ELSE IF IsImplicit(hash)
       THEN Option(IsDefault(entrypoint) /\ typ[1] \in {"unit", "ticket"},
                   <<"Address", hash, entrypoint>>)
     ELSE IF hash \notin DOMAIN Contracts THEN None
     ELSE IF entrypoint \notin DOMAIN Contracts[hash] THEN None
     ELSE Option(Contracts[hash][entrypoint] = typ, <<"Address", hash, entrypoint>>)

\* Literals that are a number, and literals that are bytes or their readable
\* form.
IntLiteral(t, n) ==
  CASE t = "nat" -> Option(n >= 0, <<"Nat", n>>)
    [] t = "int" -> Some(<<"Int", n>>)
    [] t = "mutez" -> Option(n \in 0..MaxMutez, <<"Mutez", n>>)
    [] t = "timestamp" -> Some(<<"Timestamp", n>>)
    [] t = "bls12_381_fr" -> Some(<<"Fr", n % Order>>)
    [] OTHER -> None
BytesLiteral(t, b) ==
  CASE t = "address" -> AddressFromBytes(b)
    [] t = "chain_id" -> Option(Len(b) = 1, <<"ChainId", b>>)
    [] t = "key" -> Option(IsKeyHash(b), <<"Key", b>>)
    [] t = "key_hash" -> Option(IsKeyHash(b), <<"KeyHash", b>>)
    [] t = "signature" -> Option(b # <<>>, <<"Signature", b>>)
    [] OTHER -> None
GroupLiteral(t, b) ==
  Option(IsScalar(b), <<IF t = "bls12_381_fr" THEN "Fr" ELSE
                        IF t = "bls12_381_g1" THEN "G1" ELSE "G2", b[1]>>)
Bases == {"address", "chain_id", "key", "key_hash", "signature"}
Groups == {"bls12_381_fr", "bls12_381_g1", "bls12_381_g2"}

\* The elements of a set or the keys of a map, in strictly ascending order.
StrictlyAscending(vs) ==
  \A k \in 1..(Len(vs) - 1) : partial_cmp(vs[k], vs[k + 1]) = -1

RECURSIVE typecheck_value(_, _, _)
RECURSIVE typecheck_lambda(_, _, _, _, _)

\* All the elements, or None.
All(ms, t, bm) == Sequence([k \in DOMAIN ms |-> typecheck_value(ms[k], t, bm)])

typecheck_set(ms, t, bm) ==
  Bind(All(ms, t, bm), LAMBDA vs : Option(StrictlyAscending(vs), <<"Set", ToSet(vs)>>))

\* A map as a function.
IsElt(m) == m[1] = "app" /\ m[2] = "Elt" /\ Len(m[3]) = 2
typecheck_map(ms, kt, vt, bm) ==
  LET column(n) == [k \in DOMAIN ms |-> ms[k][3][n]]
      map(ks, vs) == [key \in ToSet(ks) |-> vs[CHOOSE k \in DOMAIN ks : ks[k] = key]]
  IN IF \E k \in DOMAIN ms : ~IsElt(ms[k]) THEN None
     ELSE Bind(All(column(1), kt, bm),
               LAMBDA ks : Bind(All(column(2), vt, bm),
                                LAMBDA vs : Option(StrictlyAscending(ks), map(ks, vs))))

TypecheckPair(m, t, bm) ==
  LET parts == IF m[1] = "seq" THEN m[2] ELSE m[3]
      rest == IF Len(parts) = 2 THEN parts[2] ELSE Prim("Pair", Tail(parts))
  IN IF Len(parts) < 2 THEN None
     ELSE Bind(typecheck_value(parts[1], t[2], bm),
               LAMBDA l : Bind(typecheck_value(rest, t[3], bm), LAMBDA r : Some(PairOf(l, r))))

TypecheckBigMap(m, t, bm) ==
  LET pair == /\ m[1] = "app" /\ m[2] = "Pair" /\ Len(m[3]) = 2
              /\ m[3][1][1] = "int" /\ m[3][2][1] = "seq"
      id == IF m[1] = "int" THEN m[2] ELSE IF m[1] = "app" THEN m[3][1][2] ELSE NoId
      elts == IF m[1] = "seq" THEN m[2] ELSE IF m[1] = "app" THEN m[3][2][2] ELSE <<>>
  IN IF m[1] \notin {"int", "seq"} /\ ~pair THEN None
     ELSE IF m[1] # "seq" /\ id \notin DOMAIN bm THEN None
     ELSE IF m[1] # "seq" /\ (bm[id].kt # t[2] \/ bm[id].vt # t[3]) THEN None
     ELSE Bind(typecheck_map(elts, t[2], t[3], bm),
               LAMBDA overlay : Some(<<"BigMap", id, [k \in DOMAIN overlay |-> Some(overlay[k])],
                                       t[2], t[3]>>))

\* A ticket literal is a pair of its ticketer, its content and its amount.
TypecheckTicket(m, t, bm) ==
  Bind(typecheck_value(m, <<"pair", Ty("address"), <<"pair", t[2], Ty("nat")>> >>, bm),
       LAMBDA v : Some(<<"Ticket", v[2][2], v[3][2], v[3][3][2]>>))

typecheck_value(m, t, bm) ==
  LET c == t[1]
      app(p, n) == m[1] = "app" /\ m[2] = p /\ Len(m[3]) = n
      wrap(tag, r) == Bind(r, LAMBDA v : Some(<<tag, v>>))
  IN CASE c \in {"nat", "int", "mutez", "timestamp"} /\ m[1] = "int" -> IntLiteral(c, m[2])
       [] c \in Bases /\ m[1] = "bytes" -> BytesLiteral(c, m[2])
       [] c \in Bases /\ m[1] = "string" -> BytesLiteral(c, FromBase58(m[2]))
       [] c = "bls12_381_fr" /\ m[1] = "int" -> IntLiteral(c, m[2])
       [] c \in Groups /\ m[1] = "bytes" -> GroupLiteral(c, m[2])
       [] c = "bool" /\ (app("True", 0) \/ app("False", 0)) -> Some(<<"Bool", m[2] = "True">>)
       [] c = "string" /\ m[1] = "string" -> Some(<<"String", m[2]>>)
       [] c = "bytes" /\ m[1] = "bytes" -> Some(<<"Bytes", m[2]>>)
       [] c = "unit" /\ app("Unit", 0) -> Some(<<"Unit">>)
       [] c = "pair" /\ (m[1] = "seq" \/ (m[1] = "app" /\ m[2] = "Pair")) -> TypecheckPair(m, t, bm)
       [] c = "or" /\ app("Left", 1) -> wrap("Left", typecheck_value(m[3][1], t[2], bm))
       [] c = "or" /\ app("Right", 1) -> wrap("Right", typecheck_value(m[3][1], t[3], bm))
       [] c = "option" /\ app("Some", 1) ->
            Bind(typecheck_value(m[3][1], t[2], bm), LAMBDA v : Some(Some(v)))
       [] c = "option" /\ app("None", 0) -> Some(None)
       [] c = "list" /\ m[1] = "seq" -> wrap("List", All(m[2], t[2], bm))
       [] c = "set" /\ m[1] = "seq" -> typecheck_set(m[2], t[2], bm)
       [] c = "map" /\ m[1] = "seq" ->
            wrap("Map", typecheck_map(m[2], t[2], t[3], bm))
       [] c = "big_map" -> TypecheckBigMap(m, t, bm)
       [] c = "contract" ->
            Bind(typecheck_value(m, Ty("address"), bm),
                 LAMBDA a : Bind(typecheck_contract_address(a, DefaultEp, t[2]),
                                 LAMBDA r : Some(<<"Contract", r[2], r[3]>>)))
       [] c = "lambda" /\ (m[1] = "seq" \/ app("Lambda_rec", 1)) ->
            LET code == IF m[1] = "seq" THEN m ELSE m[3][1] IN
            IF code[1] # "seq" THEN None ELSE typecheck_lambda(code, t[2], t[3], m[1] # "seq", bm)
       [] c = "ticket" -> TypecheckTicket(m, t, bm)
       [] OTHER -> None

(***************************************************************************)
(* Instructions with one stack effect per overload: the types they take    *)
(* (the top last), the types they leave and the overload                   *)
(***************************************************************************)
Types(names) == [k \in DOMAIN names |-> Ty(names[k])]
Row(in, out, overload) == [in |-> Types(in), out |-> Types(out), name |-> overload]
Fr == "bls12_381_fr"
G1 == "bls12_381_g1"
G2 == "bls12_381_g2"

AddOverloads ==
  { Row(<<"nat", "nat">>, <<"nat">>, "NatNat"), Row(<<"int", "int">>, <<"int">>, "IntInt"),
    Row(<<"nat", "int">>, <<"int">>, "IntNat"), Row(<<"int", "nat">>, <<"int">>, "NatInt"),
    Row(<<"mutez", "mutez">>, <<"mutez">>, "MutezMutez"), Row(<<Fr, Fr>>, <<Fr>>, "Fr"),
    Row(<<G1, G1>>, <<G1>>, "G1"), Row(<<G2, G2>>, <<G2>>, "G2") }

\* Mutant of MulOverloads: an amount times a number is left with the number's type.
Mut_MulOverloads ==
  { Row(<<"nat", "nat">>, <<"nat">>, "NatNat"), Row(<<"int", "nat">>, <<"int">>, "NatInt"),
    Row(<<"nat", "mutez">>, <<"nat">>, "MutezNat"), Row(<<Fr, "int">>, <<Fr>>, "IntFr"),
    Row(<<"int", "int">>, <<"int">>, "IntInt") }
MulOverloads ==
  { Row(<<"nat", "nat">>, <<"nat">>, "NatNat"), Row(<<"int", "nat">>, <<"int">>, "NatInt"),
    Row(<<"int", "int">>, <<"int">>, "IntInt"), Row(<<"mutez", "nat">>, <<"mutez">>, "NatMutez"),
    Row(<<"nat", "int">>, <<"int">>, "IntNat"), Row(<<"nat", "mutez">>, <<"mutez">>, "MutezNat"),
    Row(<<Fr, G1>>, <<G1>>, "G1Fr"), Row(<<Fr, G2>>, <<G2>>, "G2Fr"),
    Row(<<Fr, Fr>>, <<Fr>>, "FrFr"), Row(<<Fr, "nat">>, <<Fr>>, "NatFr"),
    Row(<<Fr, "int">>, <<Fr>>, "IntFr"), Row(<<"nat", Fr>>, <<Fr>>, "FrNat"),
    Row(<<"int", Fr>>, <<Fr>>, "FrInt") }

LogicOverloads(p) ==
  CASE p = "NEG" -> { Row(<<"nat">>, <<"int">>, "Nat"), Row(<<"int">>, <<"int">>, "Int"),
                      Row(<<G1>>, <<G1>>, "G1"), Row(<<G2>>, <<G2>>, "G2"), Row(<<Fr>>, <<Fr>>, "Fr") }
    [] p = "SUB_MUTEZ" -> { [in |-> Types(<<"mutez", "mutez">>),
                             out |-> << <<"option", Ty("mutez")>> >>, name |-> ""] }
    [] p = "NOT" -> { Row(<<"bool">>, <<"bool">>, "Bool"), Row(<<"int">>, <<"int">>, "Int"),
                      Row(<<"nat">>, <<"int">>, "Nat"), Row(<<"bytes">>, <<"bytes">>, "Bytes") }
    [] OTHER -> { Row(<<t, t>>, <<t>>, t) : t \in {"nat", "bool", "bytes"} }
                  \union (IF p = "AND" THEN {Row(<<"nat", "int">>, <<"nat">>, "IntNat")} ELSE {})

ConversionOverloads(p) ==
  CASE p = "INT" -> { Row(<<t>>, <<"int">>, t) : t \in {"nat", Fr, "bytes"} }
    [] p = "NAT" -> { Row(<<"bytes">>, <<"nat">>, "") }
    [] p = "BYTES" -> { Row(<<t>>, <<"bytes">>, t) : t \in {"int", "nat"} }
    [] p = "ABS" -> { Row(<<"int">>, <<"nat">>, "") }
    [] p = "ISNAT" -> { [in |-> Types(<<"int">>), out |-> << <<"option", Ty("nat")>> >>, name |-> ""] }
    [] OTHER -> { Row(<<"int">>, <<"bool">>, "") }          \* GT GE EQ NEQ LE LT

StringOverloads(p) ==
  CASE p = "CONCAT" ->
         { Row(<<t, t>>, <<t>>, t) : t \in {"string", "bytes"} }
           \union { [in |-> << <<"list", Ty("string")>> >>, out |-> Types(<<"string">>), name |-> "strings"],
                    [in |-> << <<"list", Ty("bytes")>> >>, out |-> Types(<<"bytes">>), name |-> "byte_list"] }
    [] p = "SIZE" -> { Row(<<t>>, <<"nat">>, t) : t \in {"string", "bytes"} }
    [] p = "SLICE" -> { [in |-> Types(<<t, "nat", "nat">>), out |-> << <<"option", Ty(t)>> >>,
                         name |-> t] : t \in {"string", "bytes"} }

\* Instructions that read the context.
ChainOverloads(p) ==
  CASE p \in {"AMOUNT", "BALANCE"} -> { Row(<<>>, <<"mutez">>, "") }
    [] p \in {"LEVEL", "MIN_BLOCK_TIME", "TOTAL_VOTING_POWER"} -> { Row(<<>>, <<"nat">>, "") }
    [] p \in {"SELF_ADDRESS", "SENDER", "SOURCE"} -> { Row(<<>>, <<"address">>, "") }
    [] p = "NOW" -> { Row(<<>>, <<"timestamp">>, "") }
    [] p = "CHAIN_ID" -> { Row(<<>>, <<"chain_id">>, "") }
    [] p = "UNIT" -> { Row(<<>>, <<"unit">>, "") }
    [] p = "VOTING_POWER" -> { Row(<<"key_hash">>, <<"nat">>, "") }
    [] p = "HASH_KEY" -> { Row(<<"key">>, <<"key_hash">>, "") }
    [] p = "IMPLICIT_ACCOUNT" -> { [in |-> Types(<<"key_hash">>),
                                    out |-> << <<"contract", Ty("unit")>> >>, name |-> ""] }
    [] p = "SET_DELEGATE" -> { [in |-> << <<"option", Ty("key_hash")>> >>,
                                out |-> Types(<<"operation">>), name |-> ""] }

\* Instructions that hash bytes or check a signature or a pairing.
CryptoOverloads(p) ==
  CASE p = "CHECK_SIGNATURE" -> { Row(<<"bytes", "signature", "key">>, <<"bool">>, "") }
    [] p = "PAIRING_CHECK" -> { [in |-> << <<"list", <<"pair", Ty(G1), Ty(G2)>> >> >>,
                                 out |-> Types(<<"bool">>), name |-> ""] }
    [] OTHER -> { Row(<<"bytes">>, <<"bytes">>, "") }   \* BLAKE2B KECCAK SHA256 SHA3 SHA512

Logic == {"NEG", "SUB_MUTEZ", "NOT", "AND", "OR", "XOR"}
Conversions == {"INT", "NAT", "BYTES", "ABS", "ISNAT", "GT", "GE", "EQ", "NEQ", "LE", "LT"}
ChainReads == {"AMOUNT", "BALANCE", "LEVEL", "MIN_BLOCK_TIME", "TOTAL_VOTING_POWER",
               "SELF_ADDRESS", "SENDER", "SOURCE", "NOW", "CHAIN_ID", "UNIT", "VOTING_POWER",
               "HASH_KEY", "IMPLICIT_ACCOUNT", "SET_DELEGATE"}
CryptoPrims == {"CHECK_SIGNATURE", "PAIRING_CHECK", "BLAKE2B", "KECCAK", "SHA256", "SHA3", "SHA512"}
Simple == {"ADD", "MUL", "CONCAT", "SLICE"} \union Logic \union Conversions \union ChainReads \union CryptoPrims

Overloads(p) ==
  CASE p = "ADD" -> AddOverloads
    [] p = "MUL" -> MulOverloads
    [] p \in Logic -> LogicOverloads(p)
    [] p \in Conversions -> ConversionOverloads(p)
    [] p \in {"CONCAT", "SIZE", "SLICE"} -> StringOverloads(p)
    [] p \in CryptoPrims -> CryptoOverloads(p)
    [] OTHER -> ChainOverloads(p)

SimpleInstruction(p, st) ==
  LET rows == { r \in Overloads(p) : Has(st, Len(r.in)) /\ TopOf(st, Len(r.in)) = r.in }
      r == CHOOSE r \in rows : TRUE
  IN Require(rows # {}, Ok(Under(st, Len(r.in)) \o r.out, <<p, r.name>>))

(***************************************************************************)
(* The stack, pairs, options, lists and the other polymorphic instructions *)
(***************************************************************************)
\* The numbers that instructions take: 10 bits.
U10 == 0 .. 1023
validate_u10(args) == args # <<>> /\ args[1][1] = "int" => args[1][2] \in U10

\* The number argument of DIP, DROP, DUP ... or 1.
Height(args) == IF args # <<>> /\ args[1][1] = "int" THEN args[1][2] ELSE 1

\* remove(n) and insert(n) index the n-th element from the top: a stack of n
\* elements passes ensure_stack_len and then panics.
StackInstruction(p, args, st, bm) ==
  LET n == Height(args)
      len == Len(st)
  IN CASE p = "DROP" -> Require(Has(st, n), Ok(Under(st, n), <<p, n>>))
       [] p = "DUP" ->
            IF n = 0 \/ ~Has(st, n) THEN Err
            ELSE Require(ensure_prop(At(st, n - 1), "Duplicable"),
                         Ok(Append(st, At(st, n - 1)), <<p, n>>))
       [] p = "DIG" ->
            IF ~Has(st, n) THEN Err
            ELSE IF n > 0 /\ len = n THEN Panic
            ELSE Ok(Append(RemoveAt(st, len - n), At(st, n)), <<p, n>>)
       [] p = "DUG" ->
            IF n > 0 /\ ~Has(st, n) THEN Err
            ELSE IF n > 0 /\ len = n THEN Panic
            ELSE IF n = 0 THEN Ok(st, <<p, n>>)
            ELSE Ok(InsertAt(Under(st, 1), len - n, At(st, 0)), <<p, n>>)
       [] p = "SWAP" -> Require(Has(st, 2), Ok(Under(st, 2) \o <<At(st, 0), At(st, 1)>>, Instr(p)))
       [] p = "PUSH" ->
            LET pushed(t) == IF ~ensure_prop(t, "Pushable") THEN Err
                             ELSE Expect(typecheck_value(args[2], t, bm),
                                         LAMBDA v : Ok(Append(st, t), <<p, v>>))
            IN Expect(parse_ty(args[1]), pushed)

\* Field n of a comb: 0 is the whole, 1 its left part, n + 2 field n of its
\* right part.
RECURSIVE get_nth_field_ref(_, _)
get_nth_field_ref(n, t) ==
  IF n = 0 THEN Some(t)
  ELSE IF t[1] # "pair" THEN None
  ELSE IF n = 1 THEN Some(t[2]) ELSE get_nth_field_ref(n - 2, t[3])
RECURSIVE SetNthField(_, _, _)
SetNthField(n, t, new) ==
  IF n = 0 THEN new
  ELSE IF n = 1 THEN <<t[1], new, t[3]>> ELSE <<t[1], t[2], SetNthField(n - 2, t[3], new)>>

\* The n components of a comb, the last one first; None if it is too short.
RECURSIVE Components(_, _)
Components(n, t) ==
  IF n = 0 THEN Some(<<t>>)
  ELSE IF t[1] # "pair" THEN None
  ELSE LET r == Components(n - 1, t[3]) IN IF r = None THEN None ELSE Some(Append(r[2], t[2]))

\* The elements of TopOf(st, n) as one comb, the top leftmost.
RECURSIVE CombOfStack(_, _)
CombOfStack(ts, pair) ==
  IF Len(ts) = 1 THEN ts[1]
  ELSE <<pair, ts[Len(ts)], CombOfStack(SubSeq(ts, 1, Len(ts) - 1), pair)>>

PairInstruction(p, args, st) ==
  LET n == args[1][2]
      top == At(st, 0)
      below == Under(st, 1)
      field == get_nth_field_ref(n, top)
      old == get_nth_field_ref(n, At(st, 1))
  IN CASE p = "PAIR" /\ args = <<>> ->
            Require(Has(st, 2), Ok(Append(Under(st, 2), <<"pair", At(st, 0), At(st, 1)>>), <<p, 2>>))
       [] p = "PAIR" /\ args # <<>> ->
            Require(n >= 2 /\ Has(st, n),
                    Ok(Append(Under(st, n), CombOfStack(TopOf(st, n), "pair")), <<p, n>>))
       [] p \in {"CAR", "CDR"} ->
            Require(TopIs(st, 0, {"pair"}),
                    Ok(Append(below, top[IF p = "CAR" THEN 2 ELSE 3]), Instr(p)))
       [] p = "UNPAIR" /\ args = <<>> ->
            Require(TopIs(st, 0, {"pair"}), Ok(below \o <<top[3], top[2]>>, <<p, 2>>))
       [] p = "UNPAIR" /\ args # <<>> ->
            IF n < 2 \/ st = <<>> THEN Err
            ELSE LET r == Components(n - 1, top) IN
                 Require(r # None, Ok(below \o r[2], <<p, n>>))
       [] p = "GET" ->
            IF st = <<>> THEN Err
            ELSE Require(field # None, Ok(Append(below, field[2]), <<"GETN", n>>))
       [] p = "UPDATE" ->
            IF ~Has(st, 2) THEN Err
            ELSE Require(old # None, Ok(Append(Under(st, 2), SetNthField(n, At(st, 1), top)),
                                        <<"UPDATEN", n>>))

\* Options, ors, lists, sets and the empty containers.
ConstructorInstruction(p, args, st) ==
  LET ty == parse_ty(args[1])
      top == At(st, 0)
      below == Under(st, 1)
  IN CASE p = "SOME" -> Require(st # <<>>, Ok(Append(below, <<"option", top>>), Instr(p)))
       [] p = "NONE" -> Require(ty # None, Ok(Append(st, <<"option", ty[2]>>), Instr(p)))
       [] p = "NIL" -> Require(ty # None, Ok(Append(st, <<"list", ty[2]>>), Instr(p)))
       [] p = "LEFT" -> Require(st # <<>> /\ ty # None, Ok(Append(below, <<"or", top, ty[2]>>), Instr(p)))
       [] p = "RIGHT" -> Require(st # <<>> /\ ty # None, Ok(Append(below, <<"or", ty[2], top>>), Instr(p)))
       [] p = "CONS" ->
            Require(TopIs(st, 1, {"list"}) /\ At(st, 1)[2] = top, Ok(below, Instr(p)))
       [] p = "EMPTY_SET" ->
            IF ty = None THEN Err
            ELSE Require(ensure_prop(ty[2], "Comparable"), Ok(Append(st, <<"set", ty[2]>>), Instr(p)))
       [] p = "EMPTY_BIG_MAP" ->
            LET m == parse_ty(Prim("big_map", args)) IN
            Require(m # None, Ok(Append(st, m[2]), <<p, m[2][2], m[2][3]>>))
       [] p = "COMPARE" ->
            Require(Has(st, 2) /\ At(st, 0) = At(st, 1) /\ ensure_prop(top, "Comparable"),
                    Ok(Append(Under(st, 2), Ty("int")), Instr(p)))

\* Membership, lookup, update and size of sets, maps and big maps.
ContainerInstruction(p, st) ==
  LET key == At(st, 0)
      c1 == At(st, 1)
      c2 == At(st, 2)
      written == At(st, 1)
      updates == /\ TopIs(st, 2, {"map", "big_map"}) /\ TopIs(st, 1, {"option"})
                 /\ c2[2] = key /\ c2[3] = written[2]
  IN CASE p = "MEM" ->
            Require(TopIs(st, 1, {"set", "map", "big_map"}) /\ c1[2] = key,
                    Ok(Append(Under(st, 2), Ty("bool")), <<p, c1[1]>>))
       [] p = "GET" ->
            Require(TopIs(st, 1, {"map", "big_map"}) /\ c1[2] = key,
                    Ok(Append(Under(st, 2), <<"option", c1[3]>>), <<p, c1[1]>>))
       [] p = "UPDATE" ->
            IF TopIs(st, 2, {"set"}) /\ TopIs(st, 1, {"bool"})
            THEN Require(c2[2] = key, Ok(Under(st, 2), <<p, "set">>))
            ELSE Require(updates, Ok(Under(st, 2), <<p, c2[1]>>))
       [] p = "GET_AND_UPDATE" -> Require(updates, Ok(Under(st, 1), <<p, c2[1]>>))
       [] p = "SIZE" ->
            IF TopIs(st, 0, {"list", "set", "map"})
            THEN Ok(Append(Under(st, 1), Ty("nat")), <<p, key[1]>>) ELSE SimpleInstruction(p, st)

TicketInstruction(p, st) ==
  LET top == At(st, 0) IN
  CASE p = "TICKET" ->
         Require(TopIs(st, 1, {"nat"}), Ok(Append(Under(st, 2), <<"option", <<"ticket", top>> >>), Instr(p)))
    [] p = "READ_TICKET" ->
         Require(TopIs(st, 0, {"ticket"}),
                 Ok(Append(st, <<"pair", Ty("address"), <<"pair", top[2], Ty("nat")>> >>), Instr(p)))
    [] p = "SPLIT_TICKET" ->
         Require(Has(st, 2) /\ TopIs(st, 0, {"ticket"}) /\ At(st, 1) = <<"pair", Ty("nat"), Ty("nat")>>,
                 Ok(Append(Under(st, 2), <<"option", <<"pair", top, top>> >>), Instr(p)))
    [] p = "JOIN_TICKETS" ->
         Require(/\ TopIs(st, 0, {"pair"}) /\ top[2][1] = "ticket" /\ top[3][1] = "ticket"
                 /\ top[2][2] = top[3][2],
                 Ok(Append(Under(st, 1), <<"option", top[2]>>), Instr(p)))

\* Lambdas that are called and applied.
LambdaInstruction(p, args, st, bm) ==
  LET arg == At(st, 0)
      lam == At(st, 1)
  IN CASE p \in {"LAMBDA", "LAMBDA_REC"} ->
            LET lambda(in, out) ==
                  Expect(typecheck_lambda(args[3], in, out, p = "LAMBDA_REC", bm),
                         LAMBDA l : Ok(Append(st, <<"lambda", in, out>>), <<"LAMBDA", l>>))
            IN Expect(parse_ty(args[1]), LAMBDA in : Expect(parse_ty(args[2]), LAMBDA out : lambda(in, out)))
       [] p = "EXEC" ->
            Require(TopIs(st, 1, {"lambda"}) /\ lam[2] = arg, Ok(Append(Under(st, 2), lam[3]), Instr(p)))
       [] p = "APPLY" ->
            Require(TopIs(st, 1, {"lambda"}) /\ lam[2][1] = "pair" /\ lam[2][2] = arg,
                    Ok(Append(Under(st, 2), <<"lambda", lam[2][3], lam[3]>>), <<p, arg>>))

(***************************************************************************)
(* Blocks, scripts and the instructions that hold them                     *)
(***************************************************************************)
\* Two branches end in the same stack, or one of them fails.
unify_stacks(a, b, i) ==
  IF ~a.ok THEN [b EXCEPT !.i = i]
  ELSE Require(b.ok => a.st = b.st, [a EXCEPT !.i = i])

RECURSIVE typecheck_instruction(_, _, _, _)
RECURSIVE TypecheckFrom(_, _, _, _, _)
TypecheckFrom(ms, k, self, r, bm) ==
  IF k > Len(ms) THEN r
  ELSE IF ~r.ok THEN Err                             \* FailNotInTail
  ELSE AndThen(typecheck_instruction(ms[k], self, r.st, bm),
               LAMBDA next : TypecheckFrom(ms, k + 1, self,
                                           [next EXCEPT !.i = Append(r.i, next.i)], bm))
typecheck(ms, self, st, bm) == TypecheckFrom(ms, 1, self, Ok(st, <<>>), bm)

\* The branches of IF, IF_NONE, IF_CONS and IF_LEFT.
Branches(p, args, self, st1, st2, bm) ==
  AndThen(typecheck(args[1][2], self, st1, bm),
          LAMBDA a : AndThen(typecheck(args[2][2], self, st2, bm),
                             LAMBDA b : unify_stacks(a, b, <<p, a.i, b.i>>)))

IfInstruction(p, args, self, st, bm) ==
  LET top == At(st, 0)
      below == Under(st, 1)
  IN CASE p = "IF" ->
            IF TopIs(st, 0, {"bool"}) THEN Branches(p, args, self, below, below, bm) ELSE Err
       [] p = "IF_NONE" ->
            IF TopIs(st, 0, {"option"})
            THEN Branches(p, args, self, below, Append(below, top[2]), bm) ELSE Err
       [] p = "IF_CONS" ->
            IF TopIs(st, 0, {"list"})
            THEN Branches(p, args, self, Append(st, top[2]), below, bm) ELSE Err
       [] p = "IF_LEFT" ->
            IF TopIs(st, 0, {"or"})
            THEN Branches(p, args, self, Append(below, top[2]), Append(below, top[3]), bm) ELSE Err

\* The type of the elements that ITER and MAP give to their block.
ElementType(c) == IF c[1] = "map" THEN <<"pair", c[2], c[3]>> ELSE c[2]

typecheck_map_block(args, self, top, below, bm) ==
  LET mapped(t) == IF top[1] = "map" THEN <<"map", top[2], t>> ELSE <<top[1], t>> IN
  AndThen(typecheck(args[1][2], self, Append(below, ElementType(top)), bm),
          LAMBDA r : IF ~r.ok \/ r.st = <<>> THEN Err
                     ELSE Require(Under(r.st, 1) = below,
                                  Ok(Append(below, mapped(At(r.st, 0))), <<"MAP", top[1], r.i>>)))

LoopInstruction(p, args, self, st, bm) ==
  LET top == At(st, 0)
      below == Under(st, 1)
      body(inner, start, end, i) ==
        AndThen(typecheck(args[1][2], self, inner, bm),
                LAMBDA r : Require(r.ok => r.st = start, Ok(end, Append(i, r.i))))
  IN CASE p = "LOOP" ->
            IF ~TopIs(st, 0, {"bool"}) THEN Err
            ELSE body(below, st, below, <<p>>)
       [] p = "LOOP_LEFT" ->
            IF ~TopIs(st, 0, {"or"}) THEN Err
            ELSE body(Append(below, top[2]), st, Append(below, top[3]), <<p>>)
       [] p = "ITER" ->
            IF ~TopIs(st, 0, {"list", "set", "map"}) THEN Err
            ELSE body(Append(below, ElementType(top)), below, below, <<p, top[1]>>)
       [] p = "MAP" ->
            IF ~TopIs(st, 0, {"list", "option", "map"}) THEN Err
            ELSE typecheck_map_block(args, self, top, below, bm)

\* DIP protects the n top elements; its block may not fail.
Dip(args, self, st, bm) ==
  LET n == Height(args) IN
  IF ~Has(st, n) THEN Err
  ELSE AndThen(typecheck(Last(args)[2], self, Under(st, n), bm),
               LAMBDA r : Require(r.ok, Ok(r.st \o TopOf(st, n), <<"DIP", n, r.i>>)))

FailInstruction(p, st) ==
  IF p = "FAILWITH"
  THEN IF st = <<>> THEN Err
       ELSE Require(ensure_prop(At(st, 0), "Pushable"), FailedStack(<<p, At(st, 0)>>))
  ELSE Require(TopIs(st, 0, {"never"}), FailedStack(Instr(p)))

\* The typed lambda: <<"Lambda", recursive, code, typed code, in, out>>; only
\* a recursive one carries its types.
typecheck_lambda(m, in, out, rec, bm) ==
  LET st == IF rec THEN << <<"lambda", in, out>>, in >> ELSE <<in>>
      lambda(r) == Option(r.tag = "ok" /\ (r.ok => r.st = <<out>>),
                          IF rec THEN <<"Lambda", TRUE, m, r.i, in, out>>
                          ELSE <<"Lambda", FALSE, m, r.i>>)
  IN lambda(typecheck(m[2], NoSelf, st, bm))

typecheck_script(m, bm) ==
  LET fields == IF Len(m[2]) = 1 /\ m[2][1][1] = "seq" THEN m[2][1][2] ELSE m[2]
      of(p) == { k \in DOMAIN fields : fields[k][1] = "app" /\ fields[k][2] = p
                                        /\ Len(fields[k][3]) = 1 /\ fields[k][4] = <<>> }
      content(p) == fields[CHOOSE k \in of(p) : TRUE][3][1]
      names == {"parameter", "storage", "code"}
      code(r, par, sto) ==
        Option(r.tag = "ok" /\ (r.ok => r.st = << <<"pair", <<"list", Ty("operation")>>, sto>> >>),
               [code |-> r.i, parameter |-> par[2], storage |-> sto])
      script(par, sto) ==
        IF ~ensure_prop(par[2], "Passable") \/ ~ensure_prop(sto, "Storable") THEN None
        ELSE code(typecheck_instruction(content("code"), par[1], << <<"pair", par[2], sto>> >>, bm),
                  par, sto)
  IN IF m[1] # "seq" THEN None
     ELSE IF (\E p \in names : Cardinality(of(p)) # 1) \/ Len(fields) # 3 THEN None
     ELSE Bind(parse_parameter_ty_with_entrypoints(content("parameter")),
               LAMBDA par : Bind(parse_ty(content("storage")), LAMBDA sto : script(par, sto)))

\* Packing, contracts and operations.
ContractInstruction(p, args, anns, self, st, bm) ==
  LET top == At(st, 0)
      below == Under(st, 1)
      ty == parse_ty(args[1])
      ep == IF anns = <<>> THEN DefaultEp ELSE anns
  IN CASE p = "PACK" ->
            IF st = <<>> THEN Err
            ELSE Require(ensure_prop(top, "Packable"), Ok(Append(below, Ty("bytes")), Instr(p)))
       [] p = "UNPACK" ->
            IF ~TopIs(st, 0, {"bytes"}) \/ ty = None THEN Err
            ELSE Require(ensure_prop(ty[2], "Pushable"), Ok(Append(below, <<"option", ty[2]>>), <<p, ty[2]>>))
       [] p = "SELF" ->
            Require(ep \in DOMAIN self, Ok(Append(st, <<"contract", self[ep]>>), <<p, ep>>))
       [] p = "ADDRESS" ->
            Require(TopIs(st, 0, {"contract"}), Ok(Append(below, Ty("address")), Instr(p)))
       [] p = "CONTRACT" ->
            Require(TopIs(st, 0, {"address"}) /\ anns # DefaultEp /\ ty # None,
                    Ok(Append(below, <<"option", <<"contract", ty[2]>> >>), <<p, ty[2], ep>>))
       [] p = "TRANSFER_TOKENS" ->
            Require(TopIs(st, 2, {"contract"}) /\ TopIs(st, 1, {"mutez"}) /\ At(st, 2)[2] = top,
                    Ok(Append(Under(st, 3), Ty("operation")), Instr(p)))

\* Events and originations.
OperationInstruction(p, args, anns, st, bm) ==
  LET top == At(st, 0) IN
  CASE p = "EMIT" ->
       IF st = <<>> THEN Err
       ELSE Require(/\ args # <<>> => parse_ty(args[1]) = Some(top)
                    /\ ensure_prop(top, "Pushable"),
                    Ok(Append(Under(st, 1), Ty("operation")), <<p, anns, IF args # <<>> THEN args[1] ELSE TypeToMicheline(top)>>))
    [] p = "CREATE_CONTRACT" ->
       IF ~(Has(st, 3) /\ At(st, 0) = <<"option", Ty("key_hash")>> /\ TopIs(st, 1, {"mutez"})) THEN Err
       ELSE Expect(typecheck_script(args[1], bm),
                   LAMBDA script :
                     Require(script.storage = At(st, 2),
                             Ok(Under(st, 3) \o Types(<<"address", "operation">>),
                                <<p, script, args[1]>>)))

StackPrims == {"DROP", "DUP", "DIG", "DUG", "SWAP", "PUSH"}
PairPrims == {"PAIR", "CAR", "CDR", "UNPAIR"}
ConstructorPrims == {"SOME", "NONE", "NIL", "LEFT", "RIGHT", "CONS", "EMPTY_SET", "EMPTY_BIG_MAP", "COMPARE"}
ContainerPrims == {"MEM", "GET", "UPDATE", "GET_AND_UPDATE", "SIZE"}
TicketPrims == {"TICKET", "READ_TICKET", "SPLIT_TICKET", "JOIN_TICKETS"}
LambdaPrims == {"LAMBDA", "LAMBDA_REC", "EXEC", "APPLY"}
ContractPrims == {"PACK", "UNPACK", "SELF", "ADDRESS", "CONTRACT", "TRANSFER_TOKENS"}
OperationPrims == {"EMIT", "CREATE_CONTRACT"}

typecheck_instruction(m, self, st, bm) ==
  IF m[1] = "seq"
  THEN AndThen(typecheck(m[2], self, st, bm), LAMBDA r : [r EXCEPT !.i = <<"SEQ", r.i>>])
  ELSE LET p == m[2] args == m[3] IN
       CASE ~validate_u10(args) -> Err
         [] p \in Simple -> SimpleInstruction(p, st)
         [] p \in StackPrims -> StackInstruction(p, args, st, bm)
         [] p \in PairPrims -> PairInstruction(p, args, st)
         [] p \in {"GET", "UPDATE"} /\ args # <<>> -> PairInstruction(p, args, st)
         [] p \in ContainerPrims /\ args = <<>> -> ContainerInstruction(p, st)
         [] p \in ConstructorPrims -> ConstructorInstruction(p, args, st)
         [] p \in TicketPrims -> TicketInstruction(p, st)
         [] p \in LambdaPrims -> LambdaInstruction(p, args, st, bm)
         [] p \in ContractPrims -> ContractInstruction(p, args, m[4], self, st, bm)
         [] p \in OperationPrims -> OperationInstruction(p, args, m[4], st, bm)
         [] p \in {"IF", "IF_NONE", "IF_CONS", "IF_LEFT"} -> IfInstruction(p, args, self, st, bm)
         [] p \in {"LOOP", "LOOP_LEFT", "ITER", "MAP"} -> LoopInstruction(p, args, self, st, bm)
         [] p = "DIP" -> Dip(args, self, st, bm)
         [] p \in {"FAILWITH", "NEVER"} -> FailInstruction(p, st)
         [] OTHER -> Err
=============================================================================
