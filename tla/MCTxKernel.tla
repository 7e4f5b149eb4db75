----------------------------- MODULE MCTxKernel -----------------------------
(* Settings of the transactions kernel, one theme a setting: what the      *)
(* accounts do under any order of a few messages; payloads of every        *)
(* alignment with the buffer; the DAL; and expressions of every form.      *)
EXTENDS TxKernel

Ticket(n) == Ticket_new(Originated(5), StringNode(<<82>>), n)
Hash == TicketHash(Ticket(1))
DepositTo(address, n) ==
    Transfer(Pair(StringNode(b58check(address)), Ticket(n)), 5, [curve |-> 0, hash |-> 3], RollupAddress)
Frame(bytes) == External(Targetted(RollupAddress, bytes))
Cells(sizes, operations) == FlattenSeq([ i \in DOMAIN operations |-> OpBytes(operations[i], sizes[operations[i]]) ])
OpList(sizes, operations) == Frame(<<BatchTag>> \o dynamic(Cells(sizes, operations)))
--------------------------------------------------------------------------------
ByKey(address) == [kind |-> "PublicKey", address |-> address]
ByAddress(address) == [kind |-> "Tz1", address |-> address]
Op(signer, key, counter, contents) ==
    [signer |-> signer, key |-> key, counter |-> counter, contents |-> contents]
TransferOp(destination, n) ==
    [kind |-> "Transfer", destination |-> destination, ticket |-> Hash, amount |-> n]
CTransferOp(destination, ticket, n) ==
    [kind |-> "CTransfer", destination |-> destination, ticket |-> ticket, amount |-> n]
WithdrawOp(n) ==
    [kind |-> "Withdraw", destination |-> 6, ticket |-> Ticket(n), entrypoint |-> <<97, 98>>]

Ops == << Op(ByKey(1), 1, 0, TransferOp(2, 2)),
          Op(ByAddress(1), 1, 1, CTransferOp(2, 0, 1)),
          Op(ByKey(2), 2, 0, WithdrawOp(1)),
          Op(ByKey(1), 2, 0, TransferOp(2, 1)),
          Op(ByAddress(2), 2, 1, TransferOp(1, 3)),
          Op(ByKey(1), 1, 0, CTransferOp(2, 7, 0)),
          Op(ByAddress(1), 1, 1, TransferOp(1, 1)) >>
Sizes == <<1, 3, 5, 7, 2, 2, 2>>
Nothing == [ops |-> Ops, sizes |-> Sizes, preimages |-> <<>>, contents |-> <<>>,
            feature_dal |-> FALSE, slots |-> <<>>, inboxes |-> {<<>>},
            max_reboots |-> 3]

\* Deposits and batches in any order, one or two of them in a level.
Deposits == {DepositTo(1, 2), DepositTo(2, 3)}
Batches == { OpList(Sizes, ops) : ops \in {<<1>>, <<2, 3>>, <<3, 5>>, <<4>>, <<6, 7>>} }
LedgerTheme ==
    [Nothing EXCEPT !.inboxes = { <<m>> : m \in Deposits \union Batches }
                                \union { <<m, b>> : m \in Deposits \union Batches, b \in Batches }]
--------------------------------------------------------------------------------
(* Payloads.                                                               *)
Certificate(root, signed, members, witnesses) ==
    Frame(<<DacTag>> \o V0Certificate_bin_write(
        [root |-> root, signature |-> [root |-> signed, members |-> members], witnesses |-> witnesses]))
Payload(operations) == dynamic(Cells(Sizes, operations))
Other == Payload(<<5, 1, 5>>)

DacTheme(content, reboots) ==
    LET first == prepare_preimages(<<>>, content)
        second == prepare_preimages(first.preimages, Other)
        Signed(root) == Certificate(root, root, 3, 3)
    IN  [Nothing EXCEPT !.preimages = second.preimages, !.contents = <<content, Other>>,
                        !.max_reboots = reboots,
                        !.inboxes = {<<Signed(first.root)>>, <<Signed(second.root), Signed(first.root)>>}]

Contents ==
    { Payload(ops) : ops \in UNION { [1 .. n -> 1 .. 3] : n \in 1 .. 4 } }
    \union { Payload(ops) \o <<300>> : ops \in [1 .. 3 -> {1, 2}] }
    \union { Payload(ops) : ops \in {<<1, 4>>, <<2, 4>>, <<1, 2, 4, 1>>} }
    \union {<<0, 0>>, Payload(<<3, 3, 3, 3, 3, 3, 3, 3>>)}

\* Certificates that are not accepted, and a root that nobody knows.
RefusedTheme ==
    LET first == prepare_preimages(<<>>, Other)
    IN  [Nothing EXCEPT !.preimages = first.preimages, !.contents = <<Other>>,
                        !.inboxes = { <<c>> \o more : more \in {<<>>, <<OpList(Sizes, <<1>>)>>}, c \in
                            { Certificate(first.root, first.root, 3, 1),
                              Certificate(first.root, first.root, 1, 3),
                              Certificate(first.root, first.root + 1, 3, 3),
                              Certificate(first.root + 9, first.root + 9, 3, 3),
                              Frame(<<DacTag, 4097>>), Frame(<<>>), Frame(<<BatchTag, 9>>) } }]
--------------------------------------------------------------------------------
\* The slot of a level is fetched, and executed before or after its messages.
DalTheme(pages) ==
    [Nothing EXCEPT !.feature_dal = TRUE, !.slots = (0 :> pages),
                    !.inboxes = {<<DepositTo(1, 2)>>, <<DepositTo(2, 1), OpList(Sizes, <<3>>)>>}]
DalThemes == { DalTheme(pages) : pages \in
                 { <<>>, chunks(Payload(<<1, 2>>), PageSize), chunks(Payload(<<5>>), PageSize),
                   << <<0, 0, 9>>, <<9>> >> } }
--------------------------------------------------------------------------------
(* Expressions.                                                            *)
Leaves == {IntNode(0), IntNode(-200), IntNode(63), IntNode(64), IntNode(9000), StringNode(b58check(1)),
           StringNode(<<>>), BytesNode(<<>>), BytesNode(<<0, 2, 9>>), BytesNode(<<0, 3, 9>>),
           BytesNode(<<1, 5, 0>>), BytesNode(<<1, 5, 1>>), SeqNode(<<>>)}
Annotated == {<<>>, << <<58, 97>>, <<37, 98, 46>> >>}
Trees ==
    { Prim(UnitTag, <<>>, annots) : annots \in Annotated }
    \union { Prim(SomeTag, <<a>>, annots) : a \in {IntNode(64), StringNode(<<97>>)}, annots \in Annotated }
    \union { Prim(PairTag, <<a, b>>, annots) : a, b \in {IntNode(-1), BytesNode(<<7>>)}, annots \in Annotated }
    \union { Prim(PairTag, <<a, b, IntNode(1)>>, annots) : a, b \in Leaves, annots \in Annotated }
    \union { SeqNode(<<a, b>>) : a, b \in Leaves }
    \union { Pair(StringNode(b58check(1)), Pair(a, Pair(b, c))) : a, b \in Leaves,
                 c \in {IntNode(1), BytesNode(<<1, 5, 0>>)} }
    \union { Prim(LeftTag, <<Prim(LeftTag, <<Pair(BytesNode(<<7>>), Pair(BytesNode(<<1, 5, 0>>),
                 Pair(Pair(IntNode(0), content), IntNode(1))))>>, <<>>)>>, <<>>) :
                 content \in {Prim(NoneTag, <<>>, <<>>), Prim(SomeTag, <<BytesNode(<<8>>)>>, <<>>), IntNode(0)} }
    \union { Prim(side, <<a>>, <<>>) : side \in {LeftTag, RightTag},
                 a \in {BytesNode(<<7>>), Prim(RightTag, <<BytesNode(<<7>>)>>, <<>>), IntNode(1)} }
    \union {Prim(NoneTag, <<>>, <<>>), Prim(NoneTag, <<IntNode(1)>>, <<>>)}
    \union { Prim(PairTag, <<StringNode(b58check(1)), Ticket(1)>>, annots) : annots \in Annotated }
Expression(node) == Transfer(node, 5, [curve |-> 2, hash |-> 3], RollupAddress)
Malformed == { Raw(bytes) : bytes \in {<<>>, <<0>>, <<0, 0>>, <<0, 9>>, <<0, 3, 0>>, <<2>>, <<1>>,
                                       <<0, 0, 7, 7, 1>>} }
Elsewhere == {[DepositTo(1, 2) EXCEPT !.destination = 8], External(Targetted(8, <<1>>)),
              External(<<3, 4>>), DepositTo(77, 1), DepositTo(1, -1), DepositTo(1, 4)}
WireTheme(m) == [Nothing EXCEPT !.inboxes = {<<m>>}]
WireThemes ==
    { WireTheme(Expression(node)) : node \in Leaves \union Trees }
    \union { WireTheme(m) : m \in Malformed \union Elsewhere }
--------------------------------------------------------------------------------
const_Themes == {LedgerTheme, RefusedTheme} \union { DacTheme(c, reboots) : c \in Contents, reboots \in {3, 9} }
                \union DalThemes \union WireThemes
const_DefaultEntrypoint == <<100>>
================================================================================
