--------------------------- MODULE KernelMessages ---------------------------
(* The messages between the first layer and a kernel.  The first layer     *)
(* writes any Micheline expression into the inbox, which all rollups       *)
(* share; a kernel reads it as the Michelson type it expects, or refuses   *)
(* the message.                                                            *)
EXTENDS MichelineEncoding

CONSTANTS MaxEntrypoint,     \* Entrypoint::MAX_LEN
          DefaultEntrypoint  \* Entrypoint::DEFAULT

LeftTag == 5
NoneTag == 6
PairTag == 7
RightTag == 8
SomeTag == 9
UnitTag == 11
--------------------------------------------------------------------------------
(* Contracts, entrypoints and public key hashes.                           *)

\* PublicKeyHash: the curve and the hash.
PublicKeyHash_bin_write(pkh) == <<pkh.curve, pkh.hash>>
PublicKeyHash_nom_read(input) ==
    IF Len(input) < 2 \/ input[1] \notin 0 .. 2 THEN Failed
    ELSE Parsed(After(input, 2), [curve |-> input[1], hash |-> input[2]])

Implicit(pkh) == [kind |-> "implicit", pkh |-> pkh]
Originated(kt1) == [kind |-> "originated", kt1 |-> kt1]

Contract_bin_write(contract) ==
    IF contract.kind = "implicit" THEN <<0>> \o PublicKeyHash_bin_write(contract.pkh)
    ELSE <<1, contract.kt1, 0>>
ReadImplicit(input) ==
    LET pkh == PublicKeyHash_nom_read(Tail(input))
    IN  IF pkh.ok THEN Parsed(pkh.rest, Implicit(pkh.value)) ELSE Failed
Contract_nom_read(input) ==
    CASE input = <<>> -> Failed
      [] input # <<>> /\ input[1] = 0 -> ReadImplicit(input)
      [] input # <<>> /\ input[1] # 0 ->
             IF input[1] = 1 /\ Len(input) > 2 /\ input[3] = 0
             THEN Parsed(After(input, 3), Originated(input[2])) ELSE Failed

\* Entrypoint::try_from: the name of an entrypoint, NoEntrypoint if it is none.
EntrypointChars(name) ==
    /\ name[1] \in Letters \union {95}
    /\ \A i \in DOMAIN name : name[i] \in Letters \union {37, 46, 64, 95}
NoEntrypoint == <<>>
Entrypoint_try_from(name) ==
    CASE name = <<>> -> DefaultEntrypoint
      [] name # <<>> -> IF Len(name) <= MaxEntrypoint /\ EntrypointChars(name) THEN name
                        ELSE NoEntrypoint
Entrypoint_bin_write(name) == dynamic(name)
Entrypoint_nom_read(input) ==
    LET read == ReadDynamic(input)
    IN  IF read.ok /\ Entrypoint_try_from(read.value) # NoEntrypoint
        THEN Parsed(read.rest, Entrypoint_try_from(read.value)) ELSE Failed
--------------------------------------------------------------------------------
(* Michelson types.                                                        *)
PrimShape(prim, args) == [kind |-> "prim", prim |-> prim, args |-> args]
MichelsonUnit == PrimShape(UnitTag, <<>>)
MichelsonContract == [kind |-> "contract"]
MichelsonInt == [kind |-> "int"]
MichelsonString == [kind |-> "string"]
MichelsonBytes == [kind |-> "bytes"]
MichelsonPair(s, t) == PrimShape(PairTag, <<s, t>>)
MichelsonOr(s, t) == [kind |-> "alt", of |-> <<PrimShape(LeftTag, <<s>>), PrimShape(RightTag, <<t>>)>>]
MichelsonOption(s) == [kind |-> "alt", of |-> <<PrimShape(NoneTag, <<>>), PrimShape(SomeTag, <<s>>)>>]
TicketRepr(s) == MichelsonPair(MichelsonContract, MichelsonPair(s, MichelsonInt))
StringTicket == TicketRepr(MichelsonString)
FA2_1Ticket == TicketRepr(MichelsonPair(MichelsonInt, MichelsonOption(MichelsonBytes)))

\* MichelsonContract::nom_read: bytes that are a contract and nothing more.
ReadContract(bytes) == IF bytes.ok /\ Contract_nom_read(bytes.value.value).ok
                       THEN Whole(bytes, Parsed(Contract_nom_read(bytes.value.value).rest, bytes.value))
                       ELSE Failed

RECURSIVE Michelson_nom_read(_, _)
RECURSIVE ReadShapes(_, _)
\* The arguments of a primitive: one value of each shape.
ReadShapes(shapes, input) ==
    IF shapes = <<>> THEN Begin(input)
    ELSE LET arg == Michelson_nom_read(shapes[1], input)
             more == ReadShapes(Tail(shapes), arg.rest)
         IN  IF arg.ok /\ more.ok THEN Parsed(more.rest, <<arg.value>> \o more.value) ELSE Failed

\* MichelinePrim{NoArgs,1Arg,2Args}NoAnnots::nom_read.
MichelinePrim_nom_read(shape, input) ==
    IF Tagged(<<PrimTag(Len(shape.args), FALSE), shape.prim>>, input).ok
    THEN LET args == ReadShapes(shape.args, After(input, 2))
         IN  IF args.ok THEN Parsed(args.rest, Prim(shape.prim, args.value, <<>>)) ELSE Failed
    ELSE Failed

Michelson_nom_read(shape, input) ==
    CASE shape.kind = "int" -> nom_read_micheline_int(input)
      [] shape.kind = "string" -> nom_read_micheline_string(input)
      [] shape.kind = "bytes" -> nom_read_micheline_bytes(input)
      [] shape.kind = "contract" -> ReadContract(nom_read_micheline_bytes(input))
      [] shape.kind = "prim" -> MichelinePrim_nom_read(shape, input)
      [] shape.kind = "alt" ->
             LET first == Michelson_nom_read(shape.of[1], input)
             IN  IF first.ok THEN first ELSE Michelson_nom_read(shape.of[2], input)
      [] shape.kind = "node" -> Node_nom_read(input)

\* A value of any of these types is written as the node it converts to.
Michelson_bin_write(node) == Node_bin_write(node)

\* Any expression at all.
AnyNode == [kind |-> "node"]

\* The nodes that a type has, said without the bytes.
RECURSIVE HasShape(_, _)
HasShape(shape, node) ==
    CASE shape.kind = "node" -> TRUE
      [] shape.kind \in {"int", "string", "bytes"} -> node.kind = shape.kind
      [] shape.kind = "contract" ->
             /\ node.kind = "bytes" /\ Len(node.value) = 3
             /\ \/ node.value[1] = 0 /\ node.value[2] <= 2
                \/ node.value[1] = 1 /\ node.value[3] = 0
      [] shape.kind = "alt" -> HasShape(shape.of[1], node) \/ HasShape(shape.of[2], node)
      [] shape.kind = "prim" ->
             /\ node.kind = "prim" /\ node.value.prim = shape.prim /\ node.value.annots = <<>>
             /\ Len(node.value.args) = Len(shape.args)
             /\ \A i \in DOMAIN shape.args : HasShape(shape.args[i], node.value.args[i])
--------------------------------------------------------------------------------
(* Tickets.                                                                *)
Pair(a, b) == Prim(PairTag, <<a, b>>, <<>>)

\* Ticket::new, for a positive amount.
Ticket_new(creator, contents, amount) ==
    Pair(BytesNode(Contract_bin_write(creator)), Pair(contents, IntNode(amount)))
ticket_creator(ticket) == ticket.value.args[1]
ticket_contents(ticket) == ticket.value.args[2].value.args[1]
amount_as(ticket) == ticket.value.args[2].value.args[2].value

\* Ticket::hash: equal hashes are equal bytes.
TicketHash(ticket) ==
    Michelson_bin_write(ticket_creator(ticket)) \o Michelson_bin_write(ticket_contents(ticket))
--------------------------------------------------------------------------------
(* The inbox.                                                              *)
Transfer(payload, sender, source, destination) ==
    [kind |-> "Transfer", payload |-> payload, sender |-> sender, source |-> source,
     destination |-> destination]
StartOfLevel == [kind |-> "StartOfLevel"]
EndOfLevel == [kind |-> "EndOfLevel"]
InfoPerLevel(timestamp, predecessor) ==
    [kind |-> "InfoPerLevel", predecessor_timestamp |-> timestamp, predecessor |-> predecessor]
External(bytes) == [kind |-> "External", bytes |-> bytes]

\* InboxMessage::serialize: 0 and the case of an internal message, or 1.
serialize(m) ==
    CASE m.kind = "Transfer" ->
             <<0, 0>> \o Michelson_bin_write(m.payload) \o <<m.sender>>
                      \o PublicKeyHash_bin_write(m.source) \o <<m.destination>>
      [] m.kind = "StartOfLevel" -> <<0, 1>>
      [] m.kind = "EndOfLevel" -> <<0, 2>>
      [] m.kind = "InfoPerLevel" -> <<0, 3>> \o put_i64(m.predecessor_timestamp) \o <<m.predecessor>>
      [] m.kind = "External" -> <<1>> \o m.bytes

\* The payload, the contract that sends it, the source and the destination.
TransferTo(payload, source) ==
    IF source.ok /\ source.rest # <<>>
    THEN Parsed(Tail(source.rest), Transfer(payload.value, payload.rest[1], source.value, source.rest[1]))
    ELSE Failed
TransferOf(payload) ==
    IF payload.ok /\ payload.rest # <<>>
    THEN TransferTo(payload, PublicKeyHash_nom_read(Tail(payload.rest))) ELSE Failed
Transfer_nom_read(expr, input) == TransferOf(Michelson_nom_read(expr, input))
InfoPerLevel_nom_read(input) ==
    LET timestamp == ReadI64(input)
        predecessor == IF timestamp.ok THEN ReadHash(timestamp.rest) ELSE Failed
    IN  IF predecessor.ok
        THEN Parsed(predecessor.rest, InfoPerLevel(timestamp.value, predecessor.value)) ELSE Failed

InternalInboxMessage_nom_read(expr, case, input) ==
    CASE case = 0 -> Transfer_nom_read(expr, input)
      [] case = 1 -> Parsed(input, StartOfLevel)
      [] case = 2 -> Parsed(input, EndOfLevel)
      [] case = 3 -> InfoPerLevel_nom_read(input)
      [] case > 3 -> Failed

\* InboxMessage::parse, for a kernel whose transfers have the type expr.
parse(expr, input) ==
    CASE input = <<>> -> Failed
      [] input # <<>> /\ input[1] = 0 ->
             IF Len(input) = 1 THEN Failed
             ELSE InternalInboxMessage_nom_read(expr, input[2], After(input, 2))
      [] input # <<>> /\ input[1] = 1 -> Parsed(<<>>, External(Tail(input)))
      [] input # <<>> /\ input[1] > 1 -> Failed

\* ExternalMessageFrame::bin_write and parse.
Targetted(address, bytes) == <<0, address>> \o bytes
ExternalMessageFrame_parse(input) ==
    IF Len(input) < 2 \/ input[1] # 0 THEN Failed
    ELSE Parsed(<<>>, [address |-> input[2], contents |-> After(input, 2)])
--------------------------------------------------------------------------------
(* The outbox: a transaction is the parameters, the contract and the       *)
(* entrypoint.                                                             *)
OutboxMessageTransaction_bin_write(t) ==
    Michelson_bin_write(t.parameters) \o Contract_bin_write(t.destination)
        \o Entrypoint_bin_write(t.entrypoint)
TransactionAt(parameters, destination, entrypoint) ==
    IF entrypoint.ok
    THEN Parsed(entrypoint.rest, [parameters |-> parameters.value, destination |-> destination.value,
                                  entrypoint |-> entrypoint.value])
    ELSE Failed
TransactionTo(parameters, destination) ==
    IF destination.ok THEN TransactionAt(parameters, destination, Entrypoint_nom_read(destination.rest))
    ELSE Failed
TransactionOf(parameters) ==
    IF parameters.ok THEN TransactionTo(parameters, Contract_nom_read(parameters.rest)) ELSE Failed
OutboxMessageTransaction_nom_read(expr, input) == TransactionOf(Michelson_nom_read(expr, input))

\* One transaction after the other, until the input is read.
RECURSIVE ReadBatch(_, _, _)
ReadBatch(expr, batch, read) ==
    IF ~read.ok THEN Failed
    ELSE IF read.rest = <<>> THEN Parsed(<<>>, Append(batch, read.value))
    ELSE ReadBatch(expr, Append(batch, read.value), OutboxMessageTransaction_nom_read(expr, read.rest))

\* OutboxMessage::AtomicTransactionBatch.
OutboxMessage_bin_write(batch) ==
    <<0>> \o dynamic(FlattenSeq([ i \in DOMAIN batch |-> OutboxMessageTransaction_bin_write(batch[i]) ]))
BatchOf(expr, outer) ==
    CASE ~outer.ok -> Failed
      [] outer.ok /\ outer.value = <<>> -> Parsed(outer.rest, <<>>)
      [] outer.ok /\ outer.value # <<>> ->
             Whole(outer, ReadBatch(expr, <<>>, OutboxMessageTransaction_nom_read(expr, outer.value)))
OutboxMessage_nom_read(expr, input) ==
    IF input = <<>> \/ input[1] # 0 THEN Failed ELSE BatchOf(expr, ReadDynamic(Tail(input)))
================================================================================
