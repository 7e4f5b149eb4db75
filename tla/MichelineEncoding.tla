------------------------- MODULE MichelineEncoding -------------------------
(* The encodings a kernel reads its inbox with and writes its outbox with: *)
(* Micheline nodes, the Michelson types a kernel expects, contracts,       *)
(* entrypoints and tickets, inbox and outbox messages.                     *)
(*                                                                         *)
(* A byte string is a sequence of numbers.  A hash is one number, a string *)
(* is the sequence of its characters.  A value of a Michelson type is the  *)
(* node it converts to, so that a type is a shape: the nodes it has.  A    *)
(* parser returns Parsed(rest, value), or Failed.                          *)
EXTENDS Integers, Sequences, SequencesExt

Failed == [ok |-> FALSE]
Parsed(rest, value) == [ok |-> TRUE, rest |-> rest, value |-> value]
After(input, n) == SubSeq(input, n + 1, Len(input))

\* Nothing read yet.
Begin(input) == Parsed(input, <<>>)
--------------------------------------------------------------------------------
(* tezos_data_encoding, as the SDK uses it.                                *)

\* tag([b1, b2...]): the input begins with these bytes.
Tagged(tag, input) == IF IsPrefix(tag, input) THEN Begin(After(input, Len(tag))) ELSE Failed

\* dynamic(p): four bytes for the size, then the bytes.
dynamic(bytes) == <<0, 0, Len(bytes) \div 256, Len(bytes) % 256>> \o bytes
ReadDynamic(input) ==
    IF Len(input) < 4 \/ Len(input) < 4 + 256 * input[3] + input[4] THEN Failed
    ELSE LET end == 4 + 256 * input[3] + input[4]
         IN  Parsed(After(input, end), SubSeq(input, 5, end))

\* dynamic applied to a parser that has to consume all of it.
Whole(outer, inner) == IF outer.ok /\ inner.ok /\ inner.rest = <<>>
                       THEN Parsed(outer.rest, inner.value) ELSE Failed

\* A hash, and an i64: eight bytes.
ReadHash(input) == IF input = <<>> THEN Failed ELSE Parsed(Tail(input), input[1])
put_i64(n) == <<0, 0, 0, 0, 0, 0, n \div 256, n % 256>>
ReadI64(input) == IF Len(input) < 8 THEN Failed
                  ELSE Parsed(After(input, 8), 256 * input[7] + input[8])

\* A Zarith: six bits and the sign, then seven bits a byte; the highest bit of
\* a byte says that another follows.
RECURSIVE Groups(_)
Groups(n) == IF n < 128 THEN <<n>> ELSE <<128 + (n % 128)>> \o Groups(n \div 128)
Zarith_bin_write(z) ==
    LET abs == IF z < 0 THEN -z ELSE z
        sign == IF z < 0 THEN 64 ELSE 0
    IN  IF abs < 64 THEN <<sign + abs>>
        ELSE <<128 + sign + (abs % 64)>> \o Groups(abs \div 64)
RECURSIVE ReadGroups(_)
ReadGroups(input) ==
    IF input = <<>> \/ input[1] > 255 THEN Failed
    ELSE IF input[1] < 128 THEN Parsed(Tail(input), input[1])
    ELSE LET more == ReadGroups(Tail(input))
         IN  IF more.ok THEN Parsed(more.rest, (input[1] - 128) + 128 * more.value) ELSE Failed
Zarith_nom_read(input) ==
    IF input = <<>> \/ input[1] > 255 THEN Failed
    ELSE LET more == IF input[1] < 128 THEN Parsed(Tail(input), 0) ELSE ReadGroups(Tail(input))
             sign == IF (input[1] \div 64) % 2 = 1 THEN -1 ELSE 1
         IN  IF more.ok THEN Parsed(more.rest, sign * ((input[1] % 64) + 64 * more.value)) ELSE Failed

Letters == (48 .. 57) \union (65 .. 90) \union (97 .. 122)
ReadString(input) ==
    LET read == ReadDynamic(input)
    IN  IF read.ok /\ \A i \in DOMAIN read.value : read.value[i] < 128 THEN read ELSE Failed
--------------------------------------------------------------------------------
(* Annotations: words that begin with a mark, written with blanks between. *)
Blank == 32
Marks == {33, 36, 37, 38, 58, 63, 64}
IsAnnotation(word) ==
    /\ word # <<>> /\ word[1] \in Marks
    /\ \A i \in 2 .. Len(word) : word[i] \in Letters \union {37, 46, 64, 95}

\* Mutant: nothing between two annotations.
Mut_Annotations_fmt(annots) == FlattenSeq(annots)
Annotations_fmt(annots) ==
    FlattenSeq([ i \in DOMAIN annots |-> IF i = 1 THEN annots[i] ELSE <<Blank>> \o annots[i] ])
Annotations_bin_write(annots) == dynamic(Annotations_fmt(annots))

\* split(' ') without the empty words.
RECURSIVE Words(_, _)
Words(word, chars) ==
    LET done == IF word = <<>> THEN <<>> ELSE <<word>>
    IN  IF chars = <<>> THEN done
        ELSE IF chars[1] = Blank THEN done \o Words(<<>>, Tail(chars))
        ELSE Words(Append(word, chars[1]), Tail(chars))
Annotations_nom_read(input) ==
    LET read == ReadString(input)
    IN  IF read.ok /\ \A w \in Range(Words(<<>>, read.value)) : IsAnnotation(w)
        THEN Parsed(read.rest, Words(<<>>, read.value)) ELSE Failed
--------------------------------------------------------------------------------
(* Nodes.                                                                  *)
IntNode(z) == [kind |-> "int", value |-> z]
StringNode(s) == [kind |-> "string", value |-> s]
BytesNode(b) == [kind |-> "bytes", value |-> b]
SeqNode(nodes) == [kind |-> "seq", value |-> nodes]
Prim(prim, args, annots) ==
    [kind |-> "prim", value |-> [prim |-> prim, args |-> args, annots |-> annots]]

IntTag == 0
StringTag == 1
SeqTag == 2
PrimGenericTag == 9
BytesTag == 10
\* MICHELINE_PRIM_NO_ARGS_NO_ANNOTS_TAG to MICHELINE_PRIM_2_ARGS_SOME_ANNOTS_TAG.
PrimTag(args, annots) == 3 + 2 * args + (IF annots THEN 1 ELSE 0)

bin_write_micheline_int(z) == <<IntTag>> \o Zarith_bin_write(z)
bin_write_micheline_string(s) == <<StringTag>> \o dynamic(s)
bin_write_micheline_bytes(bytes) == <<BytesTag>> \o dynamic(bytes)

\* The arguments of these are what the arguments of the primitive are written as.
bin_write_prim_no_args_no_annots(prim) == <<PrimTag(0, FALSE), prim>>
bin_write_prim_no_args_some_annots(prim, annots) ==
    <<PrimTag(0, TRUE), prim>> \o Annotations_bin_write(annots)
bin_write_prim_1_arg_no_annots(prim, arg) == <<PrimTag(1, FALSE), prim>> \o arg
bin_write_prim_1_arg_some_annots(prim, arg, annots) ==
    <<PrimTag(1, TRUE), prim>> \o arg \o Annotations_bin_write(annots)
bin_write_prim_2_args_no_annots(prim, arg1, arg2) == <<PrimTag(2, FALSE), prim>> \o arg1 \o arg2
bin_write_prim_2_args_some_annots(prim, arg1, arg2, annots) ==
    <<PrimTag(2, TRUE), prim>> \o arg1 \o arg2 \o Annotations_bin_write(annots)
bin_write_prim_generic(prim, args, annots) ==
    <<PrimGenericTag, prim>> \o dynamic(FlattenSeq(args)) \o Annotations_bin_write(annots)

WritePrim(prim, args, annots) ==
    CASE Len(args) = 0 /\ annots = <<>> -> bin_write_prim_no_args_no_annots(prim)
      [] Len(args) = 0 /\ annots # <<>> -> bin_write_prim_no_args_some_annots(prim, annots)
      [] Len(args) = 1 /\ annots = <<>> -> bin_write_prim_1_arg_no_annots(prim, args[1])
      [] Len(args) = 1 /\ annots # <<>> -> bin_write_prim_1_arg_some_annots(prim, args[1], annots)
      [] Len(args) = 2 /\ annots = <<>> -> bin_write_prim_2_args_no_annots(prim, args[1], args[2])
      [] Len(args) = 2 /\ annots # <<>> ->
             bin_write_prim_2_args_some_annots(prim, args[1], args[2], annots)
      [] Len(args) > 2 -> bin_write_prim_generic(prim, args, annots)

bin_write_micheline_seq(nodes) == <<SeqTag>> \o dynamic(FlattenSeq(nodes))

RECURSIVE Node_bin_write(_)
Node_bin_write(node) ==
    LET WriteAll(nodes) == [ i \in DOMAIN nodes |-> Node_bin_write(nodes[i]) ]
        v == node.value
    IN  CASE node.kind = "int" -> bin_write_micheline_int(v)
          [] node.kind = "string" -> bin_write_micheline_string(v)
          [] node.kind = "bytes" -> bin_write_micheline_bytes(v)
          [] node.kind = "seq" -> bin_write_micheline_seq(WriteAll(v))
          [] node.kind = "prim" -> WritePrim(v.prim, WriteAll(v.args), v.annots)
--------------------------------------------------------------------------------
(* Reading nodes.  The readers of int, string and bytes are those of every *)
(* type.                                                                   *)
Untagged(tag, input) == IF input # <<>> /\ input[1] = tag THEN Tail(input) ELSE <<>>

nom_read_micheline_int(input) ==
    LET read == Zarith_nom_read(Untagged(IntTag, input))
    IN  IF read.ok THEN Parsed(read.rest, IntNode(read.value)) ELSE Failed
nom_read_micheline_string(input) ==
    LET read == ReadString(Untagged(StringTag, input))
    IN  IF read.ok THEN Parsed(read.rest, StringNode(read.value)) ELSE Failed
nom_read_micheline_bytes(input) ==
    LET read == ReadDynamic(Untagged(BytesTag, input))
    IN  IF read.ok THEN Parsed(read.rest, BytesNode(read.value)) ELSE Failed

\* The annotations that end the primitive, when its tag says there are some.
ReadAnnots(some, input) == IF some THEN Annotations_nom_read(input) ELSE Parsed(input, <<>>)

RECURSIVE Node_nom_read(_)
RECURSIVE ReadNodes(_, _)
\* list(Node::nom_read): nodes as long as there is input.
RECURSIVE ReadList(_)
ReadList(input) ==
    IF input = <<>> THEN Begin(input)
    ELSE LET node == Node_nom_read(input)
             more == ReadList(node.rest)
         IN  IF node.ok /\ more.ok THEN Parsed(<<>>, <<node.value>> \o more.value) ELSE Failed

\* n nodes, one after the other.
ReadNodes(n, input) ==
    IF n = 0 THEN Begin(input)
    ELSE LET node == Node_nom_read(input)
             more == ReadNodes(n - 1, node.rest)
         IN  IF node.ok /\ more.ok THEN Parsed(more.rest, <<node.value>> \o more.value) ELSE Failed

\* A size, and that many bytes of nodes.
ReadDynamicList(input) ==
    LET outer == ReadDynamic(input)
    IN  IF outer.ok THEN Whole(outer, ReadList(outer.value)) ELSE Failed
nom_read_seq(input) ==
    LET read == ReadDynamicList(Tail(input))
    IN  IF read.ok THEN Parsed(read.rest, SeqNode(read.value)) ELSE Failed

nom_read_app(input) ==
    IF Len(input) < 2 THEN Failed
    ELSE LET generic == input[1] = PrimGenericTag
             args == IF generic THEN ReadDynamicList(After(input, 2))
                     ELSE ReadNodes((input[1] - 3) \div 2, After(input, 2))
             annots == IF args.ok THEN ReadAnnots(generic \/ input[1] % 2 = 0, args.rest) ELSE Failed
         IN  IF annots.ok THEN Parsed(annots.rest, Prim(input[2], args.value, annots.value))
             ELSE Failed

Node_nom_read(input) ==
    CASE input = <<>> -> Failed
      [] input # <<>> /\ input[1] = IntTag -> nom_read_micheline_int(input)
      [] input # <<>> /\ input[1] = StringTag -> nom_read_micheline_string(input)
      [] input # <<>> /\ input[1] = BytesTag -> nom_read_micheline_bytes(input)
      [] input # <<>> /\ input[1] = SeqTag -> nom_read_seq(input)
      [] input # <<>> /\ input[1] \in 3 .. 9 -> nom_read_app(input)
      [] input # <<>> /\ input[1] > 10 -> Failed
================================================================================
