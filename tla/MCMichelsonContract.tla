------------------------ MODULE MCMichelsonContract ------------------------
(* Contracts to check MichelsonContract with: one theme per part of the    *)
(* language, each with the instructions of that part.                      *)
EXTENDS MichelsonContract

I(p) == Prim(p, <<>>)
I1(p, a) == Prim(p, <<a>>)
I2(p, a, b) == Prim(p, <<a, b>>)
N(n) == <<"int", n>>
B(b) == <<"bytes", b>>
Block(es) == <<"seq", es>>
Is(ps) == { I(p) : p \in ps }
Push(t, v) == I2("PUSH", t, v)

MCPrims == <<"PUSH", "PAIR", "LAMBDA_REC", "SWAP", "EXEC", "Pair", "Elt", "Some", "None", "Left",
             "Right", "Unit", "True", "False", "nat", "int", "pair", "ADD", "DROP", "DUP", "UNPAIR",
             "Lambda_rec", "lambda", "or", "IF_LEFT", "LEFT", "RIGHT", "DIP", "unit", "MUL", "COMPARE",
             "GT", "IF", "bytes", "string", "mutez", "map", "set", "list", "option", "EMIT", "operation", "NIL",
             "CAR", "CDR", "INT", "EQ">>

Self == Kt1(7)
Other == Kt1(8)
OtherEp == <<101>>
MapEp == <<109>>
MCContracts ==
  (Self :> (DefaultEp :> Ty("unit"))) @@
  (Other :> ((DefaultEp :> Ty("nat")) @@ (OtherEp :> Ty("unit")) @@
             (MapEp :> <<"big_map", Ty("nat"), Ty("nat")>>)))
MCSource == Implicit(<<0, 1>>)
MCVotingPowers == (<<0, 1>> :> 2) @@ (<<0, 2>> :> 3)

\* The result: no operations and the storage that is on the stack.
NoOps == Block(<<I1("NIL", I("operation")), I("PAIR")>>)
Drops == Block(<<I("DROP"), Push(I("unit"), I("Unit")), I1("NIL", I("operation")), I("PAIR")>>)
PlainTheme == [initial |-> I("Unit"), storage |-> Ty("unit"), gas |-> {50}, length |-> 4, calls |-> 1,
               epilogue |-> Drops]
Theme(r) == r @@ PlainTheme

\* Naturals, integers, amounts and branches; the parameter is a list of two
\* numbers or an amount.
Arith == Theme(
  [parameter |-> <<"pair", Ty("nat"), <<"pair", Ty("int"), Ty("mutez")>> >>,
   parameters |-> { Prim("Pair", <<N(a), N(b), N(c)>>) : a \in {0, 3}, b \in {-2, 5}, c \in {4} }
                    \union {Prim("Pair", <<N(1), N(1), N(8)>>)},
   prelude |-> Block(<<I("CAR"), I1("UNPAIR", N(3))>>),
   body |-> Is({"ADD", "MUL", "SWAP", "NEG", "ABS", "ISNAT", "INT", "GT", "NOT", "AND", "SUB_MUTEZ",
                "AMOUNT", "COMPARE"})
              \union { I2("IF", Block(<<I("DROP")>>), Block(<<Push(I("string"), <<"string", <<97>> >>), I("FAILWITH")>>)),
                       I1("DIP", Block(<<I("DUP"), I("ADD")>>)),
                       I2("IF_NONE", Block(<<Push(I("mutez"), N(0))>>), Block(<<>>)) }])

\* Bytes and strings.
Bytes == Theme(
  [parameter |-> <<"pair", Ty("bytes"), Ty("bytes")>>,
   parameters |-> { I2("Pair", B(a), B(b)) : a \in {<<>>, <<200, 3>>}, b \in {<<129>>, <<5, 1, 3>>} },
   prelude |-> Block(<<I("CAR"), I("UNPAIR")>>),
   body |-> Is({"AND", "OR", "XOR", "NOT", "INT", "NAT", "BYTES", "BLAKE2B", "SIZE", "NEG"})])
Strings == Theme(
  [parameter |-> <<"pair", Ty("bytes"), Ty("bytes")>>,
   parameters |-> { I2("Pair", B(a), B(b)) : a \in {<<>>, <<200, 3>>}, b \in {<<5, 0, 3>>} },
   prelude |-> Block(<<I("CAR"), I("UNPAIR")>>),
   body |-> Is({"CONCAT", "PACK", "SIZE", "SWAP"})
              \union { Block(<<Push(I("nat"), N(1)), Push(I("nat"), N(1)), I("SLICE")>>),
                       I1("UNPACK", I("int")),
                       I2("IF_NONE", Block(<<Push(I("bytes"), B(<<7>>))>>), Block(<<>>)) }])

\* Combs and the places of the stack; two numbers are not a u10.
Combs == Theme(
  [parameter |-> <<"pair", Ty("nat"), <<"pair", Ty("bool"), Ty("string")>> >>,
   parameters |-> { Prim("Pair", <<N(1), I("True"), <<"string", <<97>> >> >>), I2("Pair", N(2), I("True")) },
   prelude |-> Block(<<I("CAR"), I("DUP")>>),
   body |-> { I1(p, N(n)) : p \in {"PAIR", "UNPAIR"}, n \in {2, 3} }
              \union { I1("GET", N(n)) : n \in {0, 1, 3, 4} }
              \union { I1("UPDATE", N(n)) : n \in {1, 4} }
              \union { I1(p, N(2)) : p \in {"DIG", "DUG", "DUP", "DROP"} }
              \union { I1("DROP", N(-1)), I1("GET", N(1024)) }
              \union { I("CDR"), I("SWAP"), I2("DIP", N(2), Block(<<I("DUP")>>)) }])

\* Lists, sets, maps, options and loops.
Collections == Theme(
  [parameter |-> <<"pair", <<"list", Ty("nat")>>, <<"pair", <<"set", Ty("nat")>>, <<"map", Ty("nat"), Ty("nat")>> >> >>,
   parameters |-> { Prim("Pair", <<Block(l), Block(s), Block(m)>>) :
                      l \in {<<>>, <<N(2), N(1)>>}, s \in {<<N(1), N(3)>>},
                      m \in {<<>>, <<I2("Elt", N(1), N(5)), I2("Elt", N(2), N(0))>>} }
                    \union {Prim("Pair", <<Block(<<>>), Block(<<N(1), N(1)>>), Block(<<>>)>>)},
   prelude |-> Block(<<I("CAR"), I1("UNPAIR", N(3))>>),
   body |-> Is({"SWAP", "SIZE", "SOME", "CONS", "MEM", "GET", "GET_AND_UPDATE", "UPDATE", "DROP"})
              \union { I1("MAP", Block(<<Push(I("nat"), N(1)), I("ADD")>>)),
                       I1("MAP", Block(<<I("CAR")>>)),
                       I1("ITER", Block(<<I("DROP")>>)),
                       I1("ITER", Block(<<I("CONS")>>)),
                       Push(I("nat"), N(1)), Push(I("bool"), I("True")),
                       I2("IF_CONS", Block(<<I("SWAP"), I("DROP")>>), Block(<<Push(I("nat"), N(9))>>)) }])

\* Closures: called, recursive, applied, packed.
Count == Block(<<I("UNPAIR"), I("ADD")>>)
Down == Block(<<I("DUP"), I("INT"), I("EQ"),
                I2("IF", Block(<<I1("DIP", Block(<<I("DROP")>>))>>),
                         Block(<<I("DROP"), Push(I("nat"), N(0)), I("EXEC")>>))>>)
NatPair == I2("pair", I("nat"), I("nat"))
Lambdas == Theme(
  [parameter |-> <<"lambda", <<"pair", Ty("nat"), Ty("nat")>>, Ty("nat")>>,
   parameters |-> { Count, Block(<<I("CAR")>>), Block(<<>>) },
   prelude |-> Block(<<I("CAR"), Push(I("nat"), N(2))>>),
   gas |-> {60}, length |-> 5,
   body |-> Is({"APPLY", "DUP", "PAIR", "EXEC", "SWAP", "PACK"})
              \union { Prim("LAMBDA_REC", <<I("nat"), I("nat"), Down>>), Push(I("nat"), N(2)),
                       Prim("LAMBDA", <<NatPair, I("nat"), Count>>),
                       I1("UNPACK", I2("lambda", I("nat"), I("nat"))),
                       I2("IF_NONE", Block(<<I("UNIT"), I("FAILWITH")>>), Block(<<>>)) }])

\* Tickets, kept in the storage between two calls.
Tickets == Theme(
  [parameter |-> Ty("nat"), parameters |-> {N(0), N(2)},
   storage |-> <<"list", <<"ticket", Ty("nat")>> >>, initial |-> Block(<<>>),
   prelude |-> Block(<<I("UNPAIR"), Push(I("nat"), N(1)), I("TICKET"),
                       I2("IF_NONE", Block(<<>>), Block(<<I("CONS")>>))>>),
   length |-> 4, calls |-> 2, gas |-> {60},
   epilogue |-> NoOps,
   body |-> Is({"READ_TICKET", "JOIN_TICKETS", "CONS", "PAIR", "UNPAIR", "DROP", "SWAP"})
              \union { I2("IF_CONS", Block(<<>>), Block(<<I("UNIT"), I("FAILWITH")>>)),
                       Block(<<Push(NatPair, I2("Pair", N(1), N(1))), I("SWAP"), I("SPLIT_TICKET")>>),
                       Block(<<Push(NatPair, I2("Pair", N(2), N(1))), I("SWAP"), I("SPLIT_TICKET")>>),
                       Block(<<Push(I("nat"), N(2)), Push(I("nat"), N(1)), I("TICKET")>>),
                       I2("IF_NONE", Block(<<I("UNIT"), I("FAILWITH")>>), Block(<<>>)) }])

\* Addresses, contracts and operations.
NewScript == Block(<<I1("parameter", I("unit")), I1("storage", I("unit")),
                     I1("code", Block(<<I("CDR"), I1("NIL", I("operation")), I("PAIR")>>))>>)
Contract == Theme(
  [parameter |-> Ty("address"),
   parameters |-> { B(AddressBytes(AddressOf(Self))), B(AddressBytes(<<"Address", Other, OtherEp>>)),
                    B(AddressBytes(AddressOf(Implicit(<<0, 2>>)))), B(<<2, 0, 0>>) },
   prelude |-> Block(<<I("CAR"), I1("NIL", I("operation")), I("SWAP")>>),
   length |-> 5,
   epilogue |-> Block(<<I("UNIT"), I("SWAP"), I("PAIR")>>),
   body |-> Is({"ADDRESS", "CONS", "SELF", "SWAP"})
              \union { Block(<<Push(I("mutez"), N(1)), I("UNIT"), I("TRANSFER_TOKENS")>>),
                       I1("CONTRACT", I("unit")), I1("CONTRACT", I("nat")),
                       <<"app", "CONTRACT", <<I("unit")>>, OtherEp>>,
                       I2("IF_NONE", Block(<<I("SELF")>>), Block(<<>>)),
                       Block(<<I1("NONE", I("key_hash")), I("SET_DELEGATE"), I("CONS")>>),
                       Block(<<I("DROP"), I("LEVEL"), <<"app", "EMIT", <<>>, <<97>> >> >>),
                       Block(<<I("DROP"), I("UNIT"), Push(I("mutez"), N(0)), I1("NONE", I("key_hash")),
                               I1("CREATE_CONTRACT", NewScript), I("SWAP"), I1("DIP", Block(<<I("CONS")>>))>>),
                       Block(<<I("DROP"), Push(I("key_hash"), B(<<0, 2>>)), I("IMPLICIT_ACCOUNT")>>) }])

\* Two big maps and two calls: the maps are updated, duplicated, dropped,
\* swapped and created.
BigMapOf == I2("big_map", I("nat"), I("nat"))
Remove1 == Block(<<I1("NONE", I("nat")), Push(I("nat"), N(1)), I("UPDATE")>>)
Fork == I1("DIP", Block(<<I2("IF_CONS", Block(<<I("DUP"), I1("DIP", Block(<<I("CONS")>>)), Remove1, I("CONS")>>),
                                        Block(<<I("UNIT"), I("FAILWITH")>>))>>))
BigMaps == Theme(
  [parameter |-> <<"big_map", Ty("nat"), Ty("nat")>>,
   parameters |-> { Block(<<>>), Block(<<I2("Elt", N(1), N(5)), I2("Elt", N(2), N(6))>>) },
   storage |-> <<"list", <<"big_map", Ty("nat"), Ty("nat")>> >>, initial |-> Block(<<>>),
   prelude |-> Block(<<I("UNPAIR")>>),
   epilogue |-> NoOps, length |-> 3, calls |-> 2,
   body |-> { I2("IF_CONS", Block(<<>>), Block(<<I("UNIT"), I("FAILWITH")>>)),
              I("DUP"), I("CONS"), I("DROP"), I("SWAP"),
              Remove1, Fork,
              Block(<<Push(I1("option", I("nat")), I1("Some", N(7))), Push(I("nat"), N(2)), I("UPDATE")>>),
              Block(<<I("DUP"), Push(I("nat"), N(2)), I("GET"), Push(I("nat"), N(1)), I("UPDATE")>>) }])

\* Copies of a big map in the storage and in the parameters of operations.
Send == Block(<<Push(I("address"), B(AddressBytes(AddressOf(Other)))),
                <<"app", "CONTRACT", <<BigMapOf>>, MapEp>>,
                I2("IF_NONE", Block(<<I("UNIT"), I("FAILWITH")>>), Block(<<>>)),
                Push(I("mutez"), N(0)), I1("DIG", N(2)), I("TRANSFER_TOKENS"),
                I1("DIG", N(2)), I("SWAP"), I("CONS"), I("SWAP")>>)
SentBigMaps == Theme(
  [parameter |-> Ty("unit"), parameters |-> {I("Unit")},
   storage |-> <<"list", <<"big_map", Ty("nat"), Ty("nat")>> >>,
   initial |-> Block(<<Block(<<I2("Elt", N(1), N(5)), I2("Elt", N(2), N(6))>>)>>),
   prelude |-> Block(<<I("CDR"), I1("NIL", I("operation")), I("SWAP")>>),
   epilogue |-> Block(<<I("SWAP"), I("PAIR")>>), length |-> 5, calls |-> 2,
   body |-> { I2("IF_CONS", Block(<<>>), Block(<<I("UNIT"), I("FAILWITH")>>)),
              Block(<<I("DUP"), I1("DIP", Block(<<I("CONS")>>))>>),
              I("CONS"), Remove1, Send }])

\* Keys, signatures, hashes and the groups of BLS12-381.
Crypto == Theme(
  [parameter |-> <<"pair", Ty(G1), <<"pair", Ty(G2), Ty(Fr)>> >>,
   parameters |-> { Prim("Pair", <<B(<<a>>), B(<<2>>), f>>) : a \in {0, 3}, f \in {B(<<4>>), N(-3)} },
   prelude |-> Block(<<I("CAR"), I1("UNPAIR", N(3))>>),
   body |-> Is({"ADD", "MUL", "NEG", "DUP", "INT", "SWAP"})
              \union { I1("DIG", N(2)), Push(I("int"), N(-2)),
                       Block(<<I("PAIR"), I1("NIL", I2("pair", I(G1), I(G2))), I("SWAP"), I("CONS"), I("PAIRING_CHECK")>>),
                       Block(<<Push(I("key"), B(<<0, 1>>)), I("HASH_KEY"), I("VOTING_POWER"), I("TOTAL_VOTING_POWER")>>),
                       Block(<<Push(I("bytes"), B(<<1>>)), Push(I("signature"), B(<<1>>)), Push(I("key"), B(<<0, 1>>)),
                               I("CHECK_SIGNATURE")>>) }])

\* Little gas: loops, and an UNPACK or a CONTRACT that spends the last of it.
Gas == Theme(
  [parameter |-> <<"or", Ty("nat"), Ty("bytes")>>,
   parameters |-> { I1("Left", N(2)), I1("Right", B(<<5, 0, 3>>)) },
   prelude |-> Block(<<I("CAR")>>), gas |-> {5, 6, 9, 12, 20},
   body |-> { I1("LOOP_LEFT", Block(<<I("DUP"), I("PACK"), I("SWAP"), I("DROP"), I1("RIGHT", I("nat"))>>)),
              I1("LOOP_LEFT", Block(<<I("PACK"), I1("RIGHT", I("nat"))>>)),
              I1("UNPACK", I("nat")), I1("LEFT", I("bytes")),
              Block(<<I("SELF"), I("ADDRESS"), I1("CONTRACT", I("unit")), I("DROP")>>),
              I2("IF_NONE", Block(<<Push(I("nat"), N(1))>>), Block(<<>>)),
              Block(<<Push(I("bool"), I("True")), I1("LOOP", Block(<<Push(I("bool"), I("False"))>>))>>) }])

AllThemes == [arith |-> Arith, bytes |-> Bytes, strings |-> Strings, combs |-> Combs, collections |-> Collections,
              lambdas |-> Lambdas, tickets |-> Tickets, contract |-> Contract,
              big_maps |-> BigMaps, sent_big_maps |-> SentBigMaps, crypto |-> Crypto, gas |-> Gas]

============================================================================
