------------------------------ MODULE DacPages ------------------------------
(* Payloads that are too large for the inbox.  A data availability         *)
(* committee splits the payload into content pages, hashes them, puts the  *)
(* hashes into hash pages and so on up to one root, and signs the root; a  *)
(* kernel reads the certificate in its inbox and reveals the pages.        *)
(*                                                                         *)
(* A hash is a number: PageHash of the place of the page in the list of    *)
(* preimages, where no page is twice.                                      *)
EXTENDS MichelineEncoding

CONSTANTS MaxContentSize,    \* V0ContentPage::MAX_CONTENT_SIZE
          MaxHashesPerPage,  \* V0HashPage::MAX_HASHES_PER_PAGE
          MaxTopLevelHashes  \* MAX_TOP_LEVEL_HASHES

ASSUME PageAssumption ==
    /\ MaxContentSize \in Nat \ {0} /\ MaxTopLevelHashes \in Nat
    /\ MaxHashesPerPage \in Nat \ {0, 1}

FirstHash == 4096
PageHash(i) == FirstHash + i

\* slice::chunks
chunks(s, size) ==
    [ i \in 1 .. (Len(s) + size - 1) \div size |->
        SubSeq(s, (i - 1) * size + 1, IF i * size < Len(s) THEN i * size ELSE Len(s)) ]
--------------------------------------------------------------------------------
(* Writing: the pages of a payload.                                        *)
ContentPage(bytes) == <<0>> \o dynamic(bytes)
HashPage(hashes) == <<1>> \o dynamic(hashes)

\* handle(hash, page): page is a preimage, and this is its hash.
WithPage(preimages, page) == IF page \in Range(preimages) THEN preimages ELSE Append(preimages, page)
HashOf(preimages, page) == PageHash(CHOOSE i \in DOMAIN preimages : preimages[i] = page)
RECURSIVE WithPages(_, _)
WithPages(preimages, pages) ==
    IF pages = <<>> THEN preimages ELSE WithPages(WithPage(preimages, pages[1]), Tail(pages))

\* The levels of hash pages, until one hash is left.
RECURSIVE HashLevels(_, _)
HashLevels(preimages, hashes) ==
    IF Len(hashes) <= 1 THEN [preimages |-> preimages, root |-> hashes[1]]
    ELSE LET parts == chunks(hashes, MaxHashesPerPage)
             pages == [ i \in DOMAIN parts |-> HashPage(parts[i]) ]
             all == WithPages(preimages, pages)
         IN  HashLevels(all, [ i \in DOMAIN pages |-> HashOf(all, pages[i]) ])

\* prepare_preimages, next to the preimages there are; content is not empty.
prepare_preimages(preimages, content) ==
    LET parts == chunks(content, MaxContentSize)
        pages == [ i \in DOMAIN parts |-> ContentPage(parts[i]) ]
        all == WithPages(preimages, pages)
    IN  HashLevels(all, [ i \in DOMAIN pages |-> HashOf(all, pages[i]) ])
--------------------------------------------------------------------------------
(* Reading a page.                                                         *)
V0SliceContentPage_parse(slice) == ReadDynamic(slice)

\* A hash is one number, so that any number of them fills whole hashes.
V0SliceHashPage_parse(slice) == ReadDynamic(slice)

SlicePage_try_from(value) ==
    IF value = <<>> \/ value[1] \notin {0, 1} THEN Failed
    ELSE LET page == IF value[1] = 0 THEN V0SliceContentPage_parse(Tail(value))
                     ELSE V0SliceHashPage_parse(Tail(value))
         IN  IF page.ok THEN Parsed(<<>>, [hashes |-> value[1] = 1, inner |-> page.value]) ELSE Failed

\* fetch_page: what the host reveals for a hash, if it knows the preimage.
fetch_page(preimages, hash) ==
    IF hash - FirstHash \in DOMAIN preimages THEN SlicePage_try_from(preimages[hash - FirstHash])
    ELSE Failed

\* reveal_to_store: the root, then the pages in the order their hashes were
\* met.  What was revealed before an error stays in the store.
MaxReveals == 1 + MaxTopLevelHashes + MaxHashesPerPage * MaxTopLevelHashes
RECURSIVE RevealPages(_, _, _, _)
RevealPages(preimages, hashes, revealed, content) ==
    IF revealed = Len(hashes) THEN [ok |-> TRUE, content |-> content]
    ELSE LET page == fetch_page(preimages, hashes[revealed + 1])
         IN  IF ~page.ok THEN [ok |-> FALSE, content |-> content]
             ELSE IF ~page.value.hashes
             THEN RevealPages(preimages, hashes, revealed + 1, content \o page.value.inner)
             ELSE IF Len(page.value.inner) > MaxReveals - Len(hashes)
             THEN [ok |-> FALSE, content |-> content]
             ELSE RevealPages(preimages, hashes \o page.value.inner, revealed + 1, content)
reveal_to_store(preimages, root) == RevealPages(preimages, <<root>>, 0, <<>>)

\* reveal_loop: the same tree depth first, for at most a number of levels.
RECURSIVE reveal_loop(_, _, _)
reveal_loop(preimages, levels, hash) ==
    IF levels = 0 THEN Failed
    ELSE LET page == fetch_page(preimages, hash)
             parts == [ i \in DOMAIN page.value.inner |->
                          reveal_loop(preimages, levels - 1, page.value.inner[i]) ]
         IN  IF ~page.ok THEN Failed
             ELSE IF ~page.value.hashes THEN Parsed(<<>>, page.value.inner)
             ELSE IF \A i \in DOMAIN parts : parts[i].ok
             THEN Parsed(<<>>, FlattenSeq([ i \in DOMAIN parts |-> parts[i].value ]))
             ELSE Failed
--------------------------------------------------------------------------------
(* Certificates: the root, an aggregated signature and who took part.  A   *)
(* signature is the root it is for and the members that made it, as bits.  *)
Bit(n, i) == (n \div 2^i) % 2 = 1

V0Certificate_bin_write(c) == <<c.root, c.signature.root, c.signature.members>> \o Zarith_bin_write(c.witnesses)
V0Certificate_nom_read(input) ==
    IF Len(input) < 3 THEN Failed
    ELSE LET witnesses == Zarith_nom_read(After(input, 3))
         IN  IF witnesses.ok
             THEN Parsed(witnesses.rest,
                         [root |-> input[1], signature |-> [root |-> input[2], members |-> input[3]],
                          witnesses |-> witnesses.value])
             ELSE Failed

\* Certificate::verify for a committee of that many members.
verify(c, members, threshold) ==
    LET signers == { i \in 0 .. members - 1 : Bit(c.witnesses, i) }
    IN  /\ Cardinality(signers) >= threshold
        /\ c.signature.root = c.root
        /\ signers = { i \in 0 .. members - 1 : Bit(c.signature.members, i) }
        /\ signers # {}

-----------------------------------------------------------------------------
(* The operations of a revealed payload, one at a time over many runs of   *)
(* the kernel: two halves of a buffer, the second of which is read from    *)
(* the store when the first one is consumed.                               *)
(*                                                                         *)
(* An operation is a run of cells: OpCell(i, k) is the k-th byte of the    *)
(* i-th operation.                                                         *)

CONSTANT ChunkSize  \* MAX_FILE_CHUNK_SIZE, the size of one half of the buffer

ASSUME ChunkAssumption == ChunkSize \in Nat \ {0}

NoOffset == -1
OpCell(i, k) == 256 + 16 * i + k
OpBytes(i, size) == [ k \in 1 .. size |-> OpCell(i, k - 1) ]

\* VerifiableOperation::parse: the operation at the head of the input, all of
\* whose cells have to be there.
VerifiableOperation_parse(sizes, input) ==
    IF input = <<>> \/ input[1] < 256 \/ (input[1] - 256) \div 16 \notin DOMAIN sizes THEN Failed
    ELSE LET i == (input[1] - 256) \div 16
         IN  IF IsPrefix(OpBytes(i, sizes[i]), input) THEN Parsed(After(input, sizes[i]), i) ELSE Failed

\* many0(VerifiableOperation::parse)
RECURSIVE Operations(_, _)
Operations(sizes, input) ==
    LET op == VerifiableOperation_parse(sizes, input)
        more == Operations(sizes, op.rest)
    IN  IF op.ok THEN Parsed(more.rest, <<op.value>> \o more.value) ELSE Begin(input)

\* ParsedBatch::parse: a size, and that many bytes of operations.
ParsedBatch_parse(sizes, input) ==
    LET outer == ReadDynamic(input)
    IN  IF outer.ok THEN Whole(outer, Operations(sizes, outer.value)) ELSE Failed
--------------------------------------------------------------------------------
\* What the host reads of a value into a slice of that many bytes.
store_read_slice(value, offset, size) ==
    SubSeq(value, offset + 1, IF offset + size < Len(value) THEN offset + size ELSE Len(value))

\* IteratorState::new on a payload.  The fields source and delivered are not in
\* the code: the payload it was made for, and the operations it returned.
IteratorState_new(payload) ==
    LET left == store_read_slice(payload, 0, ChunkSize)
        right == IF Len(payload) > ChunkSize THEN store_read_slice(payload, ChunkSize, ChunkSize) ELSE <<>>
    IN  [buffer |-> left \o right, buffer_offset |-> 4,
         next_offset |-> IF Len(left \o right) < Len(payload) THEN Len(left \o right) ELSE NoOffset,
         total_length |-> Len(payload), source |-> payload, delivered |-> <<>>]

\* update_buffer: the second half moves to the first, the next bytes follow it.
\* The code asserts what IsFull says.
IsFull(iter) == Len(iter.buffer) = 2 * ChunkSize
\* Mutant: the second half is not moved.
Mut_update_buffer(iter, payload) ==
    LET read == store_read_slice(payload, iter.next_offset, ChunkSize)
        next == iter.next_offset + Len(read)
    IN  [iter EXCEPT !.buffer = SubSeq(iter.buffer, 1, ChunkSize) \o read,
                     !.buffer_offset = @ - ChunkSize,
                     !.next_offset = IF next < iter.total_length THEN next ELSE NoOffset]
update_buffer(iter, payload) ==
    LET read == store_read_slice(payload, iter.next_offset, ChunkSize)
        next == iter.next_offset + Len(read)
    IN  [iter EXCEPT !.buffer = After(iter.buffer, ChunkSize) \o read,
                     !.buffer_offset = @ - ChunkSize,
                     !.next_offset = IF next < iter.total_length THEN next ELSE NoOffset]

buffer_pointer_is_in_right_hand_side(iter) == iter.buffer_offset >= ChunkSize
can_keep_reading_from_store(iter) == iter.next_offset # NoOffset
has_finished_reading(iter) == iter.buffer_offset = Len(iter.buffer) /\ iter.next_offset = NoOffset

RECURSIVE Refill(_, _)
Refill(iter, payload) ==
    IF buffer_pointer_is_in_right_hand_side(iter) /\ can_keep_reading_from_store(iter) /\ IsFull(iter)
    THEN Refill(update_buffer(iter, payload), payload) ELSE iter

\* IteratorState::next: an operation, the end, an error, or the panic of a
\* failed assertion or of a slice that begins behind its end.
NextFrom(iter, op) ==
    IF op.ok THEN [kind |-> "operation", op |-> op.value,
                   iter |-> [iter EXCEPT !.buffer_offset = Len(iter.buffer) - Len(op.rest),
                                         !.delivered = Append(@, op.value)]]
    ELSE [kind |-> "error", iter |-> iter]
NextOf(sizes, iter) ==
    CASE buffer_pointer_is_in_right_hand_side(iter) /\ can_keep_reading_from_store(iter) ->
             [kind |-> "panic", iter |-> iter]
      [] has_finished_reading(iter) -> [kind |-> "end", iter |-> iter]
      [] iter.buffer_offset > Len(iter.buffer) /\ ~can_keep_reading_from_store(iter) ->
             [kind |-> "panic", iter |-> iter]
      [] iter.buffer_offset <= Len(iter.buffer) /\ ~has_finished_reading(iter)
         /\ ~(buffer_pointer_is_in_right_hand_side(iter) /\ can_keep_reading_from_store(iter)) ->
             NextFrom(iter, VerifiableOperation_parse(sizes, After(iter.buffer, iter.buffer_offset)))
IteratorState_next(sizes, iter, payload) == NextOf(sizes, Refill(iter, payload))
================================================================================
