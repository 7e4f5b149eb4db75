----------------------------- MODULE Simulation -----------------------------
(***************************************************************************)
(* An Etherlink transaction from the node to the chain.  The node asks the  *)
(* kernel to simulate (kernel/src/simulation.rs): a call it evaluates, or a *)
(* transaction it validates before it takes it in its pool.  The sequencer  *)
(* puts pooled and delayed transactions in a blueprint, cut in chunks; the  *)
(* kernel reads the blueprint back, applies its transactions (apply.rs)     *)
(* over several runs and stores receipts, objects and blocks, all in RLP.   *)
(* The node (OCaml) and the EVM (module EvmHandler) are external here.      *)
(***************************************************************************)
EXTENDS EthereumObjects, TLC

CONSTANTS
    ChainId,        \* /evm/chain_id
    BaseFee,        \* /evm/base_fee_per_gas
    Submissions,    \* the raw transactions users send, with hash and signer
    Calls,          \* the calls users ask to evaluate
    Deposits,       \* the deposits the delayed inbox may receive
    Genesis,        \* the accounts at the start
    MaxChunkSize,       \* max_chunk_size of the node for requests, scaled
    BlueprintChunkSize, \* and for blueprints
    Bridged,        \* the raw transactions sent through the delayed bridge
    MaxAccepted, MaxFaults, MaxBlocks, MaxBlueprintTxs, MaxReboots    \* bounds of the model

ASSUME GenesisAssumption ==
    \A a \in DOMAIN Genesis : Genesis[a] \in [nonce : Nat, balance : Nat, code : BOOLEAN]

VARIABLES
    users,      \* what users hold: Submissions, Bridged and Calls, never changed
    accounts,   \* address -> nonce, balance, code
    request,    \* what the node waits an answer for, with its messages
    answer,     \* what the simulation stored, and what it had read
    pool,       \* the raw transactions the node accepted
    delayed,    \* the delayed inbox: hash and bytes of a transaction
    wire,       \* the chunks of the next blueprint that the kernel has not read
    held,       \* the chunks of it that the kernel has stored
    bip,        \* the block in progress, if any
    receipts, objects, blocks,      \* the bytes stored, in order
    accepted,   \* history: the hashes of the transactions ever pooled
    refused,    \* history: the transactions application refused, and why
    faults, reboots     \* of the request, of the chain

vars == <<users, accounts, request, answer, pool, delayed, wire, held, bip, receipts, objects, blocks,
          accepted, refused, faults, reboots>>

\* -------------------------------------------------- the node (external)
\* Z.to_bits: little endian on whole words of LongBytes bytes, none for zero.
Words(n) == Cardinality({i \in 0..(WordBytes - 1) : i % LongBytes = 0 /\ n >= Pow256[i]})
ToBits(n) == LeFixed(n, IF n = 0 THEN 0 ELSE Words(n) * LongBytes)
OfQty(q) == IF Is(q) THEN RlpValue(ToBits(q[1])) ELSE EmptyData
OfBytes(b) == IF Is(b) THEN RlpValue(b[1]) ELSE EmptyData
CallBytes(call) ==
    RlpList(<<OfBytes(call.from), OfBytes(call.to), OfQty(call.gas), OfQty(call.gas_price),
              OfQty(call.value), OfBytes(call.data)>>)

Chunks(b, size) ==
    [i \in 1..((Len(b) + size - 1) \div size) |->
        SubSeq(b, (i - 1) * size + 1, IF i * size < Len(b) THEN i * size ELSE Len(b))]
ChunkMessages(chunks) ==
    << <<255, 2>> \o LeFixed(Len(chunks), 2) >>
    \o [i \in DOMAIN chunks |-> <<255, 3>> \o LeFixed(i - 1, 2) \o chunks[i]]
\* The messages after the one that starts the simulation mode.
SplitInMessages(chunks) ==
    IF Len(chunks) = 1 THEN << <<255, 1>> \o chunks[1] >> ELSE ChunkMessages(chunks)
MessagesOf(payload) == SplitInMessages(Chunks(payload, MaxChunkSize))

\* Chunks are numbered on two bytes.
ASSUME RequestsAssumption ==
    /\ MaxChunkSize \in Nat \ {0}
    /\ \A b \in {sub.raw : sub \in Submissions} \cup {CallBytes(call) : call \in Calls} :
          b \in Seq(0..255) /\ Len(b) < 65535 * MaxChunkSize
\* The fields of a call are of their types.
Option(o, S) == o \in Seq(S) /\ Len(o) <= 1
ASSUME CallsAssumption ==
    \A call \in Calls :
        /\ Option(call.from, [1..AddressBytes -> 0..255])
        /\ Option(call.to, [1..AddressBytes -> 0..255])
        /\ Option(call.gas, Nat) /\ Option(call.gas_price, Nat) /\ Option(call.value, 0..WordMax)
        /\ Option(call.data, Seq(0..255))

\* ------------------------------------------------------ simulation.rs
EVALUATION_TAG == 0
VALIDATION_TAG == 1
SIMULATION_TAG == 255

\* u64_from_le: a quantity on the wrong number of bytes becomes Some(0).
LeLong(b) == IF Len(b) = LongBytes THEN FromLe(b) ELSE 0
OptionalLong(raw) ==
    LET b == decode_option_bytes(raw)
    IN IF Is(b) THEN IF Is(b[1]) THEN Ok(Ok(LeLong(b[1][1]))) ELSE Ok(Err) ELSE Err
OptionalWord(raw) ==
    LET b == decode_option_bytes(raw)
    IN IF Is(b) THEN IF Is(b[1]) THEN Ok(Ok(FromLe(b[1][1]))) ELSE Ok(Err) ELSE Err
EvaluationFields(l) ==
    [from |-> decode_option_h160(l[1]), to |-> decode_option_h160(l[2]),
     gas |-> OptionalLong(l[3]), gas_price |-> OptionalLong(l[4]), value |-> OptionalWord(l[5]),
     data |-> AsBytes(l[6])]
Evaluation_decode(raw) ==
    LET items == ListOf(raw, {6}) IN IF Is(items) THEN Struct(EvaluationFields(items[1])) ELSE Err

\* Message: an evaluation or a transaction to validate
Message(evaluation, transaction) == [evaluation |-> evaluation, transaction |-> transaction]
EvaluationMessage(e) == IF Is(e) THEN Ok(Message(e, Err)) ELSE Err
ValidationMessage(tx) == IF Is(tx) THEN Ok(Message(Err, tx)) ELSE Err
Message_decode(b) ==
    CASE b # <<>> /\ b[1] = EVALUATION_TAG -> EvaluationMessage(Evaluation_decode(Tail(b)))
      [] b # <<>> /\ b[1] = VALIDATION_TAG -> ValidationMessage(from_bytes(Tail(b)))
      [] OTHER -> Err

Input(tag, n, data) == [tag |-> tag, n |-> n, data |-> data]
Unparsable == Input("Unparsable", 0, <<>>)
Body(b) == SubSeq(b, 3, Len(b))
\* The message of a simple simulation is decoded by parse_inbox below.
Input_parse(b) ==
    CASE Len(b) <= 3 \/ b[1] # SIMULATION_TAG -> Unparsable
      [] Len(b) > 3 /\ b[1] = SIMULATION_TAG /\ b[2] = 1 -> Input("Simple", 0, Body(b))
      [] Len(b) = 4 /\ b[1] = SIMULATION_TAG /\ b[2] = 2 -> Input("NewChunked", FromLe(Body(b)), <<>>)
      [] Len(b) > 3 /\ b[1] = SIMULATION_TAG /\ b[2] = 3 ->
            Input("Chunk", FromLe(SubSeq(b, 3, 4)), SubSeq(b, 5, Len(b)))
      [] OTHER -> Unparsable
\* read_input: an exhausted inbox reads as an unparsable message
read_input(inbox, i) == IF i <= Len(inbox) THEN Input_parse(inbox[i]) ELSE Unparsable

\* Mutant of read_chunks: the chunks are taken in the order they come.
Mut_read_chunks(inputs) ==
    IF \A n \in DOMAIN inputs : inputs[n].tag = "Chunk"
      THEN Message_decode(FlattenSeq([n \in DOMAIN inputs |-> inputs[n].data]))
      ELSE Err
\* Every chunk must be the next one.
read_chunks(inputs) ==
    IF \A n \in DOMAIN inputs : inputs[n].tag = "Chunk" /\ inputs[n].n = n - 1
      THEN Message_decode(FlattenSeq([n \in DOMAIN inputs |-> inputs[n].data]))
      ELSE Err
parse_first(first, inbox) ==
    CASE first.tag = "Simple" -> Message_decode(first.data)
      [] first.tag = "NewChunked" -> read_chunks([n \in 1..first.n |-> read_input(inbox, n + 1)])
      [] OTHER -> Err
parse_inbox(inbox) == parse_first(read_input(inbox, 1), inbox)

\* ------------------------------------- the EVM, as its callers see it
\* run_transaction (external, see EvmHandler): data starting with 255 burns
\* more ticks than a run has; otherwise the gas depends on the data, each of
\* whose bytes logs something, and the value is transferred.
NoAccount == [nonce |-> 0, balance |-> 0, code |-> FALSE]
AccountAt(accs, a) == IF a \in DOMAIN accs THEN accs[a] ELSE NoAccount
RunsOutOfTicks(data) == data # <<>> /\ data[1] = 255
GasOf(data) == 2 + Len(data)
NewAddress(nonce) == AddressOf(100 + nonce)
LogsOf(to, data) ==
    [i \in DOMAIN data |-> [address |-> to, topics |-> <<HashOf(<<data[i]>>)>>, data |-> <<data[i]>>]]
Runs(accs, from, gas, value, data) ==
    gas >= GasOf(data) /\ AccountAt(accs, from).balance >= value
Outcome(success, to, is_creation, gas, data) ==
    [is_success |-> success, gas_used |-> IF success THEN GasOf(data) ELSE gas,
     new_address |-> IF success /\ is_creation THEN Ok(to) ELSE Err,
     logs |-> IF success THEN LogsOf(to, data) ELSE <<>>,
     result |-> IF success THEN Ok(data) ELSE Err]
With(accs, a, r) == [x \in DOMAIN accs \cup {a} |-> IF x = a THEN r ELSE accs[x]]
Credit(accs, a, n) == With(accs, a, [AccountAt(accs, a) EXCEPT !.balance = @ + n])
Debit(accs, a, n) == With(accs, a, [AccountAt(accs, a) EXCEPT !.balance = @ - n])
Bump(accs, a) == With(accs, a, [AccountAt(accs, a) EXCEPT !.nonce = @ + 1])
Deploy(accs, a) == With(accs, a, [AccountAt(accs, a) EXCEPT !.code = TRUE, !.nonce = 1])
Transferred(accs, outcome, from, to, value) ==
    IF ~outcome.is_success THEN accs
    ELSE IF Is(outcome.new_address) THEN Deploy(Credit(Debit(accs, from, value), to, value), to)
    ELSE Credit(Debit(accs, from, value), to, value)

\* ------------------------------------------------- simulation: outcomes
\* What a simulation leaves at /simulation_status, _result and _gas.
Stored(status, result, gas) == [status |-> status, result |-> result, gas |-> gas]
Nothing == Stored(Err, Err, Err)
Text(s) == [caller |-> <<>>, text |-> s]
store_tx_validation_outcome(outcome) ==
    IF Is(outcome.caller) THEN Stored(Ok(TRUE), Ok([caller |-> outcome.caller[1], text |-> ""]), Err)
    ELSE Stored(Ok(FALSE), Ok(Text(outcome.reason)), Err)
store_simulation_outcome(outcome) ==
    Stored(Ok(outcome.is_success),
           IF Is(outcome.result) THEN Ok([caller |-> outcome.result[1], text |-> ""]) ELSE Err,
           Ok(outcome.gas_used))

Accepts(who) == [caller |-> Ok(who), reason |-> "Valid"]
Rejects(reason) == [caller |-> Err, reason |-> reason]
\* Mutant of TxValidation_judge: the chain id is not compared.
Mut_TxValidation_judge(accs, tx, who) ==
    IF tx.nonce < AccountAt(accs, who).nonce THEN Rejects("NonceTooLow")
    ELSE IF RunsOutOfTicks(tx.data) THEN Rejects("OutOfTicks")
    ELSE IF tx.max_fee_per_gas < BaseFee THEN Rejects("MaxGasFeeTooLow") ELSE Accepts(who)
\* A nonce to come, a balance too low and a caller with code are not checked.
TxValidation_judge(accs, tx, who) ==
    IF tx.nonce < AccountAt(accs, who).nonce THEN Rejects("NonceTooLow")
    ELSE IF Is(tx.chain_id) /\ tx.chain_id # <<ChainId>> THEN Rejects("InvalidChainId")
    ELSE IF RunsOutOfTicks(tx.data) THEN Rejects("OutOfTicks")
    ELSE IF tx.max_fee_per_gas < BaseFee THEN Rejects("MaxGasFeeTooLow") ELSE Accepts(who)
judge(accs, tx, who) ==
    IF Is(who) THEN TxValidation_judge(accs, tx, who[1]) ELSE Rejects("NotCorrectSignature")
TxValidation_run(accs, tx) == judge(accs, tx, caller(tx))

\* Without a gas, all a u64 holds; without a sender, the zero address.
Zero == AddressOf(0)
OrElse(option, default) == IF Is(option) THEN option[1] ELSE default
Evaluation_run(accs, e) ==
    Outcome(Runs(accs, OrElse(e.from, Zero), OrElse(e.gas, LongMax), OrElse(e.value, 0), e.data),
            OrElse(e.to, NewAddress(0)), ~Is(e.to), OrElse(e.gas, LongMax), e.data)
\* An error leaves the storage of the simulation as it was: empty.
simulated(accs, m) ==
    IF Is(m.transaction)
      THEN store_tx_validation_outcome(TxValidation_run(accs, m.transaction[1]))
      ELSE IF RunsOutOfTicks(m.evaluation[1].data) THEN Nothing
      ELSE store_simulation_outcome(Evaluation_run(accs, m.evaluation[1]))

\* ------------------------------------------------------------- apply.rs
SaturatingMul(a, b) == IF a * b > WordMax THEN WordMax ELSE a * b
valid_account(tx, account, who) ==
    IF account.nonce # tx.nonce THEN Rejects("InvalidNonce")
    ELSE IF \/ account.balance < SaturatingMul(tx.gas_limit, BaseFee)
            \/ account.balance < SaturatingMul(tx.gas_limit, tx.max_fee_per_gas)
      THEN Rejects("InvalidPrePay")
    ELSE IF account.code THEN Rejects("InvalidCode")
    ELSE IF tx.max_fee_per_gas < BaseFee THEN Rejects("InvalidMaxBaseFee") ELSE Accepts(who)
valid_caller(accs, tx, who) ==
    IF Is(who) THEN valid_account(tx, AccountAt(accs, who[1]), who[1]) ELSE Rejects("InvalidSignature")
is_valid_ethereum_transaction_common(accs, tx) ==
    IF Is(tx.chain_id) /\ tx.chain_id # <<ChainId>> THEN Rejects("InvalidChainId")
    ELSE valid_caller(accs, tx, caller(tx))

\* How the receipt and the object see a transaction or a deposit.
ContentTo(c) == IF Is(c.deposit) THEN Ok(c.deposit[1].receiver) ELSE c.ethereum[1].to
ContentData(c) == IF Is(c.deposit) THEN <<>> ELSE c.ethereum[1].data
ContentPrice(c) == IF Is(c.deposit) THEN Ok(0) ELSE overall_gas_price(c.ethereum[1], BaseFee)
ContentValue(c) == IF Is(c.deposit) THEN c.deposit[1].amount ELSE c.ethereum[1].value
ContentNonce(c) == IF Is(c.deposit) THEN 0 ELSE c.ethereum[1].nonce
ContentSignature(c) == IF Is(c.deposit) THEN Err ELSE c.ethereum[1].signature

make_object_info(t, from, index, gas_used, gas_price) ==
    [from |-> from, gas_used |-> gas_used, gas_price |-> gas_price, hash |-> t.tx_hash,
     input |-> ContentData(t.content), nonce |-> ContentNonce(t.content),
     to |-> ContentTo(t.content), index |-> index, value |-> ContentValue(t.content),
     signature |-> ContentSignature(t.content)]
make_receipt_info(t, index, outcome, from, gas_price) ==
    [hash |-> t.tx_hash, index |-> index, outcome |-> outcome, from |-> from,
     to |-> ContentTo(t.content), effective_gas_price |-> gas_price]

\* ------------------------------------------------- block_in_progress.rs
indexed_logs(logs, offset) ==
    [i \in DOMAIN logs |-> [log |-> logs[i], index |-> offset + i - 1]]
make_receipt(b, info, logs) ==
    [hash |-> info.hash, index |-> info.index, block_number |-> b.number, from |-> info.from,
     to |-> info.to, cumulative_gas_used |-> b.cumulative_gas,
     effective_gas_price |-> info.effective_gas_price, gas_used |-> info.outcome.gas_used,
     contract_address |-> info.outcome.new_address, logs |-> logs,
     logs_bloom |-> logs_to_bloom(logs), type_ |-> "Legacy",
     status |-> IF info.outcome.is_success THEN "Success" ELSE "Failure"]
make_object(b, info) == [block_number |-> b.number] @@ info

\* Mutant of register_valid_transaction: the logs of a block do not number on.
Mut_register_valid_transaction(b, t, info) ==
    [b EXCEPT !.tx_queue = Tail(@), !.valid_txs = Append(@, t.tx_hash), !.index = @ + 1,
              !.cumulative_gas = @ + info.outcome.gas_used,
              !.logs_bloom = @ \cup logs_to_bloom(indexed_logs(info.outcome.logs, 0))]
\* Gas, index, logs and ticks of a transaction that was executed.
register_valid_transaction(b, t, info) ==
    [b EXCEPT !.tx_queue = Tail(@), !.valid_txs = Append(@, t.tx_hash), !.index = @ + 1,
              !.cumulative_gas = @ + info.outcome.gas_used,
              !.logs_bloom = @ \cup logs_to_bloom(indexed_logs(info.outcome.logs, 0)),
              !.logs_offset = @ + Len(info.outcome.logs)]
from_blueprint(blueprint, number, parent_hash) ==
    [number |-> number, tx_queue |-> blueprint.transactions, valid_txs |-> <<>>,
     cumulative_gas |-> 0, index |-> 0, gas_price |-> BaseFee, parent_hash |-> parent_hash,
     estimated_ticks |-> 0, logs_bloom |-> {}, logs_offset |-> 0,
     timestamp |-> blueprint.timestamp]

\* ------------------------------------------------------------ properties' terms
NoRequest == [payload |-> <<>>, inbox |-> <<>>]
NoAnswer == [pending |-> TRUE, stored |-> Nothing, read |-> Err, applied |-> Rejects("none")]

\* ------------------------------------------------------------------ actions
Init ==
    /\ users = [submissions |-> Submissions, bridged |-> Bridged, calls |-> Calls]
    /\ accounts = Genesis
    /\ request = NoRequest /\ answer = NoAnswer
    /\ pool = {} /\ delayed = <<>>
    /\ wire = {} /\ held = {} /\ bip = <<>>
    /\ receipts = <<>> /\ objects = <<>> /\ blocks = <<>>
    /\ accepted = {} /\ refused = {} /\ faults = 0 /\ reboots = 0

chain == <<users, accounts, delayed, wire, held, bip, receipts, objects, blocks, refused, reboots>>
node == <<users, request, answer, pool, accepted, faults>>

\* The rollup node simulates on the storage of the end of a level: between
\* blocks.
Ask(payload) ==
    /\ request = NoRequest /\ bip = <<>> /\ wire = {} /\ held = {}
    /\ Cardinality(accepted) < MaxAccepted
    /\ request' = [payload |-> payload, inbox |-> MessagesOf(payload)]
    /\ UNCHANGED <<answer, pool, accepted, faults>> /\ UNCHANGED chain
\* The node asks to validate a transaction, or to evaluate a call.
AskValidation == \E sub \in users.submissions : Ask(<<VALIDATION_TAG>> \o sub.raw)
AskEvaluation == \E call \in users.calls : Ask(<<EVALUATION_TAG>> \o CallBytes(call))

\* A message of the request is lost, or two change places.
LoseMessage ==
    /\ request # NoRequest /\ answer = NoAnswer /\ faults < MaxFaults
    /\ faults' = faults + 1
    /\ \E i \in DOMAIN request.inbox : request' = [request EXCEPT !.inbox = RemoveAt(@, i)]
    /\ UNCHANGED <<answer, pool, accepted>> /\ UNCHANGED chain
SwapMessages ==
    /\ request # NoRequest /\ answer = NoAnswer /\ faults < MaxFaults
    /\ faults' = faults + 1
    /\ \E i \in 1..(Len(request.inbox) - 1) :
          request' = [request EXCEPT !.inbox[i] = request.inbox[i + 1],
                                     !.inbox[i + 1] = request.inbox[i]]
    /\ UNCHANGED <<answer, pool, accepted>> /\ UNCHANGED chain

\* start_simulation_mode, on a copy of the kernel's storage; history: what was
\* read and what application would have said of it in the same state.
Answered(read) ==
    answer' = [pending |-> FALSE,
               stored |-> IF Is(read) THEN simulated(accounts, read[1]) ELSE Nothing,
               read |-> read,
               applied |-> IF Is(read) /\ Is(read[1].transaction)
                             THEN is_valid_ethereum_transaction_common(accounts, read[1].transaction[1])
                             ELSE Rejects("none")]
start_simulation_mode ==
    /\ request # NoRequest /\ answer = NoAnswer
    /\ Answered(parse_inbox(request.inbox))
    /\ UNCHANGED <<request, pool, accepted, faults>> /\ UNCHANGED chain

\* The node takes a validated transaction in its pool (external).
TakeAnswer ==
    /\ ~answer.pending
    /\ IF answer.stored.status = <<TRUE>> /\ request.payload[1] = VALIDATION_TAG
         THEN /\ pool' = pool \cup {Tail(request.payload)}
              /\ accepted' = accepted \cup {HashOf(Tail(request.payload))}
         ELSE UNCHANGED <<pool, accepted>>
    /\ request' = NoRequest /\ answer' = NoAnswer
    /\ faults' = 0
    /\ UNCHANGED chain

\* save_transaction: a transaction or a deposit enters the delayed inbox.
Delay(hash, content) ==
    /\ Len(delayed) < 1 /\ Len(blocks) < MaxBlocks
    /\ ~\E i \in DOMAIN receipts : TransactionReceipt_decode(receipts[i])[1].hash = hash
    /\ delayed' = Append(delayed, [hash |-> hash, bytes |-> DelayedTransaction_encode(content)])
    /\ UNCHANGED node
    /\ UNCHANGED <<accounts, wire, held, bip, receipts, objects, blocks, refused, reboots>>
DelayDeposit ==
    \E d \in Deposits : Delay(HashOf(<<d.amount>>), Deposit(d.amount, d.receiver))
DelayTransaction ==
    \E sub \in users.bridged :
        \E tx \in Range(from_bytes(sub.raw)) :
            /\ ~RunsOutOfTicks(tx.data)
            /\ Delay(HashOf(sub.raw), Ethereum(tx))

\* The sequencer publishes the blueprint of the next block: pooled
\* transactions and, maybe, the hash of a delayed one (external).
RawTransaction(raw) ==
    RlpList(<<RlpValue(HashOf(raw)), RlpList(<<RlpNumber(ETHEREUM_TX_TAG), RlpValue(raw)>>)>>)
Publishable(hashes, raws) ==
    RlpList(<<RlpHashes(hashes), RlpList([i \in DOMAIN raws |-> RawTransaction(raws[i])]),
              append_timestamp(Len(blocks) + 1)>>)
ChunkOf(chunks, i) ==
    [chunk |-> chunks[i], number |-> Len(blocks), nb_chunks |-> Len(chunks), chunk_index |-> i - 1]
Sign(b) == [signature |-> HashOf(UnsignedSequencerBlueprint_encode(b))] @@ b
Publish(chunks) ==
    wire' = {SequencerBlueprint_encode(Sign(ChunkOf(chunks, i))) : i \in DOMAIN chunks}
DelayedHashes(n) == [i \in 1..n |-> delayed[i].hash]
ProduceBlueprint ==
    /\ bip = <<>> /\ wire = {} /\ held = {} /\ Len(blocks) < MaxBlocks
    /\ \E picked \in SUBSET pool, n \in 0..Len(delayed) :
          /\ Cardinality(picked) <= MaxBlueprintTxs /\ Cardinality(picked) + n > 0
          /\ \E raws \in SetToSeqs(picked) :
                Publish(Chunks(Publishable(DelayedHashes(n), raws), BlueprintChunkSize))
          /\ pool' = pool \ picked
    /\ UNCHANGED <<users, request, answer, accepted, faults>>
    /\ UNCHANGED <<accounts, delayed, held, bip, receipts, objects, blocks, refused, reboots>>

\* A chunk comes from the inbox, in any order, and is stored if the sequencer
\* signed it.
Unsigned(b) == [name \in DOMAIN b \ {"signature"} |-> b[name]]
store_sequencer_blueprint(b) ==
    [nb_chunks |-> b.nb_chunks, chunk_index |-> b.chunk_index,
     bytes |-> StoreBlueprint_encode(SequencerChunk(b.chunk))]
ReceiveChunk ==
    /\ \E raw \in wire :
          /\ wire' = wire \ {raw}
          /\ held' = held \cup {store_sequencer_blueprint(b) : b \in
                {c \in Range(SequencerBlueprint_decode(raw)) :
                    c.signature = HashOf(UnsignedSequencerBlueprint_encode(Unsigned(c)))}}
    /\ UNCHANGED node
    /\ UNCHANGED <<accounts, delayed, bip, receipts, objects, blocks, refused, reboots>>

LastBlock == L2Block_decode(blocks[Len(blocks)])[1]
\* find_and_remove_transaction for each hash, then the transactions published.
Fetched(hashes) ==
    Collect([i \in DOMAIN hashes |->
        IF \E d \in Range(delayed) : d.hash = hashes[i]
          THEN Struct([tx_hash |-> Ok(hashes[i]),
                       content |-> DelayedTransaction_decode(
                           (CHOOSE d \in Range(delayed) : d.hash = hashes[i]).bytes)])
          ELSE Err])
Start(blueprint, fetched) ==
    IF Is(blueprint) /\ Is(fetched)
      THEN <<from_blueprint([blueprint[1] EXCEPT !.transactions = fetched[1] \o @], Len(blocks),
                            IF blocks = <<>> THEN ZeroHash ELSE LastBlock.hash)>>
      ELSE <<>>
Read(blueprint) ==
    /\ bip' = Start(blueprint, Fetched(blueprint[1].delayed_hashes))
    /\ delayed' = SelectSeq(delayed, LAMBDA d : d.hash \notin Range(blueprint[1].delayed_hashes))
\* read_all_chunks, once every chunk is there; the chunks are concatenated.
StoredAt(i) == StoreBlueprint_decode((CHOOSE b \in held : b.chunk_index = i - 1).bytes)[1]
\* A blueprint of the inbox is taken as it is.
read_all_chunks(stored) ==
    IF \E i \in DOMAIN stored : Is(stored[i].blueprint)
      THEN Ok([delayed_hashes |-> <<>>]
              @@ stored[CHOOSE i \in DOMAIN stored :
                    /\ Is(stored[i].blueprint)
                    /\ \A j \in 1..(i - 1) : ~Is(stored[j].blueprint)].blueprint[1])
      ELSE BlueprintWithDelayedHashes_decode(
               FlattenSeq([i \in DOMAIN stored |-> stored[i].chunk[1]]))
ReadBlueprint ==
    /\ bip = <<>> /\ held # {}
    /\ \A b \in held : Cardinality(held) = b.nb_chunks
    /\ Read(read_all_chunks([i \in 1..Cardinality(held) |-> StoredAt(i)]))
    /\ held' = {}
    /\ UNCHANGED node
    /\ UNCHANGED <<accounts, wire, receipts, objects, blocks, refused, reboots>>

\* apply_transaction and register_valid_transaction
store_transaction_receipt(receipt) == receipts' = Append(receipts, TransactionReceipt_encode(receipt))
store_transaction_object(object) == objects' = Append(objects, TransactionObject_encode(object))
Register(t, info, outcome, from, accs) ==
    /\ bip' = <<register_valid_transaction(bip[1], t, info)>>
    /\ store_transaction_receipt(
            make_receipt([bip[1] EXCEPT !.cumulative_gas = @ + outcome.gas_used], info,
                         indexed_logs(outcome.logs, bip[1].logs_offset)))
    /\ store_transaction_object(
            make_object(bip[1], make_object_info(t, from, bip[1].index, outcome.gas_used,
                                                 ContentPrice(t.content)[1])))
    /\ accounts' = accs
    /\ UNCHANGED refused
Execute(t, outcome, from, accs) ==
    Register(t, make_receipt_info(t, bip[1].index, outcome, from, ContentPrice(t.content)[1]),
             outcome, from, accs)
DepositOutcome == [is_success |-> TRUE, gas_used |-> 2, new_address |-> Err, logs |-> <<>>, result |-> Err]
ApplyDeposit ==
    /\ bip # <<>> /\ bip[1].tx_queue # <<>>
    /\ \E t \in {Head(bip[1].tx_queue)} :
          /\ Is(t.content.deposit)
          /\ Execute(t, DepositOutcome, Zero,
                     Credit(accounts, t.content.deposit[1].receiver, t.content.deposit[1].amount))
    /\ UNCHANGED node /\ UNCHANGED <<delayed, wire, held, blocks, reboots>>

Ran(t, tx, from, to, outcome) ==
    Execute(t, outcome, from,
            Transferred(Debit(Bump(accounts, from), from, outcome.gas_used * BaseFee), outcome,
                        from, to, tx.value))
RunEthereum(t, tx, from, to) ==
    Ran(t, tx, from, to,
        Outcome(Runs(Debit(accounts, from, tx.gas_limit * BaseFee), from, execution_gas_limit(tx),
                     tx.value, tx.data),
                to, ~Is(tx.to), execution_gas_limit(tx), tx.data))
\* A transaction that is not valid leaves no trace but the ticks it took.
Refuse(t, tx, validity) ==
    /\ bip' = <<[bip[1] EXCEPT !.tx_queue = Tail(@)]>>
    /\ refused' = refused \cup {[hash |-> t.tx_hash, reason |-> validity.reason]}
    /\ UNCHANGED <<accounts, receipts, objects>>
Judged(t, tx, validity) ==
    IF Is(validity.caller)
      THEN RunEthereum(t, tx, validity.caller[1], OrElse(tx.to, NewAddress(tx.nonce)))
      ELSE Refuse(t, tx, validity)
ApplyEthereum ==
    /\ bip # <<>> /\ bip[1].tx_queue # <<>>
    /\ \E t \in {Head(bip[1].tx_queue)} : \E tx \in Range(t.content.ethereum) :
          Judged(t, tx, is_valid_ethereum_transaction_common(accounts, tx))
    /\ UNCHANGED node /\ UNCHANGED <<delayed, wire, held, blocks, reboots>>

\* The run is short of ticks: the block in progress is stored, the next run
\* reads it.
Reboot ==
    /\ bip # <<>> /\ bip[1].tx_queue # <<>> /\ reboots < MaxReboots
    /\ bip' = BlockInProgress_decode(BlockInProgress_encode(bip[1]))
    /\ reboots' = reboots + 1
    /\ UNCHANGED node
    /\ UNCHANGED <<accounts, delayed, wire, held, receipts, objects, blocks, refused>>

\* finalize_and_store; the roots are those of a storage without hashes.
finalize_and_store ==
    /\ bip # <<>> /\ bip[1].tx_queue = <<>>
    /\ blocks' = Append(blocks, L2Block_encode(
            L2Block_new(bip[1].number, bip[1].valid_txs, bip[1].timestamp, bip[1].parent_hash,
                        bip[1].logs_bloom, <<DummyHash, DummyHash, DummyHash>>,
                        bip[1].cumulative_gas)))
    /\ bip' = <<>>
    /\ UNCHANGED node
    /\ UNCHANGED <<accounts, delayed, wire, held, receipts, objects, refused, reboots>>

\* A simulation runs on a snapshot of the storage: nothing is lost by letting
\* the chain rest while the node waits for an answer.
KernelStep ==
    \/ DelayDeposit \/ DelayTransaction \/ ProduceBlueprint \/ ReceiveChunk \/ ReadBlueprint
    \/ ApplyDeposit \/ ApplyEthereum \/ Reboot \/ finalize_and_store

Next ==
    \/ AskValidation \/ AskEvaluation \/ LoseMessage \/ SwapMessages
    \/ start_simulation_mode \/ TakeAnswer
    \/ request = NoRequest /\ KernelStep

Spec == Init /\ [][Next]_vars

\* --------------------------------------------------------------- properties
\* What the kernel simulates is what the node asked, however the messages were
\* cut, lost or reordered: a transaction of the bytes sent, a call with its
\* fields (read_chunks and Input::parse of simulation.rs against
\* split_in_messages and rlp_encode of the node).  A quantity the node cannot
\* tell from an absent one (zero) or that does not fit a u64 is left out.
InRange(q) == ~Is(q) \/ q[1] \in 1..LongMax
SameCall(e, call) ==
    /\ e.from = call.from /\ e.to = call.to
    /\ InRange(call.gas) => e.gas = call.gas
    /\ InRange(call.gas_price) => e.gas_price = call.gas_price
    /\ OrElse(e.value, 0) = OrElse(call.value, 0)
    /\ e.data = OrElse(call.data, <<>>)
ReadsTheRequest == \A m \in Range(answer.read) : Message_decode(request.payload) = Ok(m)
ValidatesTheRequest ==
    \A m \in Range(answer.read) : \A tx \in Range(m.transaction) :
        /\ request.payload[1] = VALIDATION_TAG
        /\ \E sub \in users.submissions : Tail(request.payload) = sub.raw /\ from_bytes(sub.raw) = <<tx>>
EvaluatesTheRequest ==
    \A m \in Range(answer.read) : \A e \in Range(m.evaluation) :
        /\ request.payload[1] = EVALUATION_TAG
        /\ \E call \in users.calls : Tail(request.payload) = CallBytes(call) /\ SameCall(e, call)
SimulatesTheRequest == ReadsTheRequest /\ ValidatesTheRequest /\ EvaluatesTheRequest

\* Validation and application agree.  What application would accept in the
\* same state, validation accepts unless it runs out of ticks, for the same
\* caller; what validation accepted, application refuses later for the nonce,
\* the balance or the code of the caller only (TxValidation::run against
\* is_valid_ethereum_transaction_common).
LeftToApplication == {"InvalidNonce", "InvalidPrePay", "InvalidCode"}
AnswerAgrees ==
    \A m \in Range(answer.read) : \A tx \in Range(m.transaction) :
        IF answer.stored.status = <<TRUE>>
          THEN /\ answer.applied.reason \in LeftToApplication \cup {"Valid"}
               /\ Is(answer.applied.caller) => answer.stored.result[1].caller = answer.applied.caller[1]
          ELSE Is(answer.applied.caller) => RunsOutOfTicks(tx.data)
ValidationAgrees ==
    /\ AnswerAgrees
    /\ \A r \in refused : r.hash \in accepted => r.reason \in LeftToApplication

\* What the chain stores can be read again and is consistent: each block
\* follows its parent and lists the transactions of its receipts in order, with
\* their gas and their bloom; receipts and objects tell the same transaction,
\* sent by who signed it; the logs of a block are numbered from zero
\* (register_valid_transaction, finalize_and_store and the encodings).
BlocksOf(raws) == [i \in DOMAIN raws |-> L2Block_decode(raws[i])[1]]
ReceiptsOf(raws) == [i \in DOMAIN raws |-> TransactionReceipt_decode(raws[i])[1]]
ObjectsOf(raws) == [i \in DOMAIN raws |-> TransactionObject_decode(raws[i])[1]]
SumOf(seq) == FoldLeft(LAMBDA acc, n : acc + n, 0, seq)
BlockTellsReceipts(b, rs) ==
    /\ b.transactions = [i \in DOMAIN rs |-> rs[i].hash]
    /\ b.gas_used = SumOf([i \in DOMAIN rs |-> rs[i].gas_used])
    /\ b.logs_bloom = UNION {rs[i].logs_bloom : i \in DOMAIN rs}
    /\ \A i \in DOMAIN rs : rs[i].index = i - 1
    /\ LET logs == FlattenSeq([i \in DOMAIN rs |-> rs[i].logs])
       IN \A i \in DOMAIN logs : logs[i].index = i - 1
Follows(bs, i) ==
    /\ bs[i].number = i - 1
    /\ bs[i].parent_hash = IF i = 1 THEN ZeroHash ELSE bs[i - 1].hash
    /\ \A j \in 1..(i - 1) : bs[i].hash # bs[j].hash
ObjectTellsReceipt(o, r) ==
    /\ o.hash = r.hash /\ o.from = r.from /\ o.to = r.to /\ o.index = r.index
    /\ o.block_number = r.block_number /\ o.gas_used = r.gas_used
    /\ o.gas_price = r.effective_gas_price
    /\ \/ ~Is(o.signature) /\ o.from = Zero
       \/ \E sub \in users.submissions :
             /\ sub.hash = o.hash /\ sub.signer = o.from
             /\ \E tx \in Range(from_bytes(sub.raw)) :
                   /\ o.input = tx.data /\ o.nonce = tx.nonce /\ o.value = tx.value
                   /\ o.signature = tx.signature
ConsistentChain(bs, rs, os) ==
    /\ \A i \in DOMAIN bs :
          /\ Follows(bs, i)
          /\ BlockTellsReceipts(bs[i], SelectSeq(rs, LAMBDA r : r.block_number = i - 1))
    /\ Len(os) = Len(rs) /\ \A i \in DOMAIN rs : ObjectTellsReceipt(os[i], rs[i])
ChainReadsBack == ConsistentChain(BlocksOf(blocks), ReceiptsOf(receipts), ObjectsOf(objects))

=============================================================================
