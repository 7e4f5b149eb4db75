----------------------------- MODULE KernelInbox ----------------------------
(***************************************************************************)
(* The inputs of the Etherlink kernel: how a message of the inbox of the   *)
(* rollup is parsed (kernel/src/parsing.rs), how transactions cut into     *)
(* chunks are put together (kernel/src/storage.rs, inbox.rs), and what is  *)
(* collected from the inbox of a level (inbox.rs).                         *)
(*                                                                         *)
(* Bytes are abstract: the hash of an object is the object itself, so an   *)
(* Ethereum transaction is named by its hash, and its encoding is a        *)
(* sequence of pieces.  st is the durable storage of the kernel.           *)
(***************************************************************************)
EXTENDS Integers, Sequences, SequencesExt, FiniteSets, Functions

CONSTANTS None,
          SmartRollup,           \* the address of this rollup
          Ticketer, Admin, SequencerAdmin, DelayedBridge,
                                 \* the contracts the installer declared
          Pieces,                \* hash of a chunked transaction -> its pieces
          ShortPieces,           \* pieces shorter than MAX_SIZE_PER_CHUNK
          WeiPerMutez            \* eth_from_mutez: 10^12

ASSUME WeiAssumption == WeiPerMutez \in Nat \ {0}

Unparsable == [type |-> "Unparsable"]

EthereumTransaction(h) == [tx_hash |-> h, content |-> "Ethereum"]

\* The pieces in order are the encoding of the transaction h names.
Encodes(pieces, h) == h \in DOMAIN Pieces /\ Pieces[h] = pieces

-----------------------------------------------------------------------------
(* Parsing: config holds the sequencer and the delayed bridge, or None.    *)

parse_simple_transaction(m) ==
    IF m.tx_hash # m.data THEN Unparsable
    ELSE [type |-> "SimpleTransaction", tx |-> EthereumTransaction(m.tx_hash)]

\* The number of hashes that follow must be the number announced.
parse_new_chunked_transaction(m) ==
    IF Len(m.chunk_hashes) # m.num_chunks THEN Unparsable
    ELSE [type |-> "NewChunkedTransaction", tx_hash |-> m.tx_hash,
          num_chunks |-> m.num_chunks, chunk_hashes |-> Range(m.chunk_hashes)]

parse_transaction_chunk(m) ==
    IF m.chunk_hash # m.data THEN Unparsable
    ELSE [type |-> "TransactionChunk", tx_hash |-> m.tx_hash, i |-> m.i,
          chunk_hash |-> m.chunk_hash, data |-> m.data]

parse_kernel_upgrade(m) == [type |-> "Upgrade", upgrade |-> m.upgrade]

parse_sequencer_update(m) == [type |-> "NewSequencer", sequencer |-> m.sequencer]

\* The signature is the key that signed.
parse_sequencer_blueprint_input(m, sequencer) ==
    IF m.signature # sequencer THEN Unparsable
    ELSE [type |-> "SequencerBlueprint", blueprint |-> m.blueprint]

parse_transaction_from_delayed_inbox(m, bridge) ==
    IF bridge = None \/ m.sender # bridge THEN Unparsable
    ELSE [type |-> "SimpleTransaction", tx |-> EthereumTransaction(m.data)]

\* External transactions are only read in proxy mode, blueprints only in
\* sequencer mode.
parse_external(m, config) ==
    LET proxy == config.sequencer = None
    IN  IF m.address # SmartRollup THEN Unparsable
        ELSE CASE m.tag = "simple" /\ proxy -> parse_simple_transaction(m)
               [] m.tag = "new_chunked" /\ proxy -> parse_new_chunked_transaction(m)
               [] m.tag = "chunk" /\ proxy -> parse_transaction_chunk(m)
               [] m.tag = "blueprint" /\ ~proxy ->
                    parse_sequencer_blueprint_input(m, config.sequencer)
               [] OTHER -> Unparsable

parse_deposit(m) ==
    IF m.creator # Ticketer \/ m.receiver = None THEN Unparsable
    ELSE [type |-> "Deposit", amount |-> m.amount * WeiPerMutez,
          receiver |-> m.receiver]

parse_internal_transfer(m, config) ==
    IF m.destination # SmartRollup THEN Unparsable
    ELSE CASE m.payload = "deposit" -> parse_deposit(m)
           [] m.payload = "delayed" ->
                parse_transaction_from_delayed_inbox(m, config.bridge)
           [] m.payload = "bytes" /\ m.sender = Admin -> parse_kernel_upgrade(m)
           [] m.payload = "bytes" /\ m.sender # Admin /\ m.sender = SequencerAdmin ->
                parse_sequencer_update(m)
           [] OTHER -> Unparsable

parse_internal(m, config) ==
    CASE m.msg = "InfoPerLevel" -> [type |-> "Info", timestamp |-> m.timestamp]
      [] m.msg = "Transfer" -> parse_internal_transfer(m, config)
      [] OTHER -> Unparsable

parse(m, config) ==
    IF m.kind = "external" THEN parse_external(m, config)
                           ELSE parse_internal(m, config)

-----------------------------------------------------------------------------
(* Chunked transactions: st.chunked maps the hash of an announced          *)
(* transaction to the number of chunks, the announced hashes and the       *)
(* chunks that arrived.                                                    *)

\* An announced transaction is not announced again.
create_chunked_transaction(st, m) ==
    IF m.tx_hash \in DOMAIN st.chunked THEN st
    ELSE [st EXCEPT !.chunked =
             [h \in DOMAIN st.chunked \cup {m.tx_hash} |->
                 IF h # m.tx_hash THEN st.chunked[h]
                 ELSE [num_chunks |-> m.num_chunks, hashes |-> m.chunk_hashes,
                       chunks |-> <<>>]]]

remove_chunked_transaction(st, h) ==
    [st EXCEPT !.chunked = Restrict(@, DOMAIN @ \ {h})]

\* A chunk that was already stored keeps its first data.
store_transaction_chunk_data(chunks, i, data) ==
    [j \in DOMAIN chunks \cup {i} |->
        IF j \in DOMAIN chunks THEN chunks[j] ELSE data]

is_transaction_complete(c) == Cardinality(DOMAIN c.chunks) >= c.num_chunks

get_full_transaction(c) == [j \in 1 .. c.num_chunks |-> c.chunks[j - 1]]

\* The chunk is stored; the last missing one removes the transaction from the
\* storage and yields its data.
store_transaction_chunk(st, h, i, data) ==
    LET c    == [st.chunked[h] EXCEPT
                    !.chunks = store_transaction_chunk_data(@, i, data)]
    IN  IF is_transaction_complete(c)
          THEN [st |-> remove_chunked_transaction(st, h),
                data |-> get_full_transaction(c)]
          ELSE [st |-> [st EXCEPT !.chunked[h] = c], data |-> None]

\* The storage after a chunk arrived, and the transaction it completes: <<>>
\* or one transaction.
handle_transaction_chunk(st, m) ==
    IF \/ m.tx_hash \notin DOMAIN st.chunked
       \/ m.i >= st.chunked[m.tx_hash].num_chunks
       \/ m.chunk_hash \notin st.chunked[m.tx_hash].hashes
      THEN [st |-> st, txs |-> <<>>]
    ELSE IF /\ m.i # st.chunked[m.tx_hash].num_chunks - 1
            /\ m.data \in ShortPieces
      THEN [st |-> remove_chunked_transaction(st, m.tx_hash), txs |-> <<>>]
    ELSE LET r == store_transaction_chunk(st, m.tx_hash, m.i, m.data)
         IN  [st |-> r.st,
              txs |-> IF r.data # None /\ Encodes(r.data, m.tx_hash)
                        THEN <<EthereumTransaction(m.tx_hash)>> ELSE <<>>]

-----------------------------------------------------------------------------
(* What read_inbox collects, and the storage it updates on the way.        *)

\* The hash of a deposit is made unique by its nonce, which names it here.
get_and_increment_deposit_nonce(st) == [st EXCEPT !.deposit_nonce = @ + 1]

handle_deposit(st, d) ==
    [tx_hash |-> st.deposit_nonce, content |-> "Deposit",
     amount |-> d.amount, receiver |-> d.receiver]

\* The timestamp is replaced before the difference to it is taken.
store_info_per_level_stats(st, new_timestamp) ==
    LET old   == IF st.timestamp = None THEN 0 ELSE st.timestamp
        stats == IF st.stats = None THEN <<0, 0>> ELSE st.stats
    IN  [st EXCEPT !.stats = <<stats[1] + 1, stats[2] + (new_timestamp - old)>>]

store_last_info_per_level_timestamp(st, timestamp) ==
    store_info_per_level_stats([st EXCEPT !.timestamp = timestamp], timestamp)

\* current_timestamp of lib.rs
current_timestamp(st) ==
    LET stats == IF st.stats = None THEN <<1, 0>> ELSE st.stats
    IN  (IF st.timestamp = None THEN 0 ELSE st.timestamp) + (stats[2] \div stats[1])

NoContent == [upgrade |-> None, transactions |-> <<>>, blueprints |-> <<>>]

\* One iteration of the loop of read_inbox: the storage and the content
\* collected so far, after the message m.
read_input(st, content, m, config) ==
    LET in == parse(m, config)
        Collect(s, txs) == [st |-> s, content |-> [content EXCEPT !.transactions = @ \o txs]]
        chunk == handle_transaction_chunk(st, in)
    IN  CASE in.type = "Unparsable" -> Collect(st, <<>>)
          [] in.type = "SimpleTransaction" -> Collect(st, <<in.tx>>)
          [] in.type = "NewChunkedTransaction" ->
               Collect(create_chunked_transaction(st, in), <<>>)
          [] in.type = "TransactionChunk" -> Collect(chunk.st, chunk.txs)
          [] in.type = "Upgrade" ->
               [st |-> st, content |-> [content EXCEPT !.upgrade = in.upgrade]]
          [] in.type = "NewSequencer" ->
               Collect([st EXCEPT !.sequencer = in.sequencer], <<>>)
          [] in.type = "Info" ->
               Collect(store_last_info_per_level_timestamp(st, in.timestamp), <<>>)
          [] in.type = "Deposit" ->
               Collect(get_and_increment_deposit_nonce(st), <<handle_deposit(st, in)>>)
          [] in.type = "SequencerBlueprint" ->
               [st |-> st,
                content |-> [content EXCEPT !.blueprints = Append(@, in.blueprint)]]
=============================================================================
