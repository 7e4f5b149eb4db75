--------------------------- MODULE EtherlinkKernel --------------------------
(***************************************************************************)
(* The Etherlink kernel (kernel_evm/kernel): what one run of the kernel    *)
(* does with the inbox of a Tezos level, and how runs follow one another.  *)
(*                                                                         *)
(* A run works on a copy (tmp) of the durable storage (evm), which is      *)
(* promoted when the run succeeds and dropped when it fails.  It migrates  *)
(* the storage if the kernel is new, reads the whole inbox, stores what it *)
(* found as blueprints or in the delayed inbox, and executes blueprints    *)
(* into blocks, within the ticks of a run: what does not fit is left in a  *)
(* block in progress, and the kernel asks to be rebooted.                  *)
(*                                                                         *)
(* The execution of one Ethereum transaction (module EvmHandler) is given  *)
(* by its ticks, its gas and its outcome, in the constant Tx.  The rollup  *)
(* that runs the kernel is the mock of kernel_sdk/mock: a level runs the   *)
(* kernel, reboots it while it asks for it, and drops what is left unread. *)
(***************************************************************************)
EXTENDS KernelInbox, LinkedList, FiniteSetsExt, TLC

CONSTANTS Tx,                 \* hash -> the Ethereum transaction
          SequencerBlueprints,\* the blueprints sequencers send, by name
          Addresses,          \* addresses of accounts
          ZeroAddress,        \* H160::zero(), the caller of deposits
          InitialBalance,     \* address -> balance before the first run
          ChainId, BaseFee, TicksForDeposit, InvalidTicks, RegisterTicks,
          FinalizeTicks, TicksForCrypto, DepositGas,
          MaxAllowedTicks,    \* ticks of a run
          FirstKernel,        \* the kernel the rollup was originated with
          StorageVersion,     \* kernel -> its STORAGE_VERSION
          BrokenMigration,    \* kernels whose migration code fails
          FirstParent,        \* the parent hash of block 0
          InitialSequencers,  \* the sequencer the installer declared, or None
          Inboxes(_),         \* messages a level may hold, given the ones sent
          MaxReboots,         \* MAXIMUM_REBOOTS_PER_INPUT
          MaxLevels           \* bound: levels that hold messages

ASSUME TxAssumption ==
    /\ DOMAIN Pieces \subseteq DOMAIN Tx
    /\ \A h \in DOMAIN Tx :
         /\ h \notin Nat
         /\ Tx[h].caller \in Addresses \cup {None} /\ Tx[h].to \in Addresses
         /\ {Tx[h].nonce, Tx[h].gas_used, Tx[h].value, Tx[h].ticks, Tx[h].data_size} \subseteq Nat

ASSUME BlueprintAssumption ==
    \A b \in Range(SequencerBlueprints) :
        /\ b.transactions \in Seq({EthereumTransaction(h) : h \in DOMAIN Tx})
        /\ b.delayed_hashes \in Seq(Nat \cup DOMAIN Tx)
        /\ b.timestamp \in Int

ASSUME AccountAssumption ==
    /\ IsFiniteSet(Addresses) /\ ZeroAddress \in Addresses
    /\ InitialBalance \in [Addresses -> Nat]

ASSUME CostAssumption ==
    {BaseFee, TicksForDeposit, InvalidTicks, RegisterTicks, FinalizeTicks,
     TicksForCrypto, DepositGas} \subseteq Nat

ASSUME KernelAssumption ==
    /\ None \notin DOMAIN StorageVersion /\ FirstKernel \in DOMAIN StorageVersion
    /\ \A k \in DOMAIN StorageVersion : StorageVersion[k] \in Nat

VARIABLES evm,       \* the durable storage under /evm
          tmp,       \* its copy under /tmp during a run
          boot,      \* the kernel under /kernel/boot.wasm
          backup,    \* the kernel kept for a fallback, or None
          outbox,    \* messages written to layer 1
          rollup,    \* level, inbox, reboots left, and whether to run the kernel
          run,       \* the local state of the run
          failed,    \* history: a run ended in an error
          lost       \* history: delayed transactions that were removed in vain,
                     \* and how many deposits of inboxes were consumed in vain

vars == <<evm, tmp, boot, backup, outbox, rollup, run, failed, lost>>

-----------------------------------------------------------------------------
(* Blueprints: number -> nb_chunks and the stored chunks.                  *)

WithBlueprint(st, number, b) ==
    [st EXCEPT !.blueprints = [n \in DOMAIN @ \cup {number} |->
                                  IF n = number THEN b ELSE @[n]]]

DropBlueprint(st, number) ==
    [st EXCEPT !.blueprints = Restrict(@, DOMAIN @ \ {number})]

\* Chunks may come in any order, and more than once: the last one counts, and
\* so does the last number of chunks that was announced.
store_sequencer_blueprint(st, b) ==
    LET old == IF b.number \in DOMAIN st.blueprints
                 THEN st.blueprints[b.number].chunks ELSE <<>>
    IN  WithBlueprint(st, b.number,
            [nb_chunks |-> b.nb_chunks,
             chunks |-> [i \in DOMAIN old \cup {b.chunk_index} |->
                            IF i = b.chunk_index
                              THEN [inbox |-> FALSE, chunk |-> b.chunk]
                              ELSE old[i]]])

\* Mutant of store_inbox_blueprint: numbered after the current block.
Mut_store_inbox_blueprint(st, blueprint) ==
    WithBlueprint(st, (IF st.current = None THEN -1 ELSE st.current.number) + 1,
        [nb_chunks |-> 1, chunks |-> [i \in {0} |-> [inbox |-> TRUE, chunk |-> blueprint]]])

\* Inbox blueprints are numbered after the last one.
store_inbox_blueprint(st, blueprint) ==
    LET number == st.last_blueprint + 1
        old    == IF number \in DOMAIN st.blueprints
                    THEN st.blueprints[number].chunks ELSE <<>>
    IN  WithBlueprint([st EXCEPT !.last_blueprint = number], number,
            [nb_chunks |-> 1,
             chunks |-> [i \in DOMAIN old \cup {0} |->
                            IF i = 0 THEN [inbox |-> TRUE, chunk |-> blueprint]
                                     ELSE old[i]]])

read_current_block_number(st) == IF st.current = None THEN -1 ELSE st.current.number

read_next_blueprint_number(st) == read_current_block_number(st) + 1

drop_head_blueprint(st) == DropBlueprint(st, read_current_block_number(st))

\* DelayedInbox::save_transaction
save_transaction(st, tx) == [st EXCEPT !.delayed = push(@, tx.tx_hash, tx)]

\* DelayedInbox::find_and_remove_transaction, as long as none was missing.
find_and_remove_transaction(acc, h) ==
    IF ~acc.found \/ ~Removable(acc.list, h) THEN [acc EXCEPT !.found = FALSE]
    ELSE [found |-> TRUE, list |-> remove(acc.list, h),
          txs |-> Append(acc.txs, find(acc.list, h))]

\* It is called for the hashes of a blueprint in turn, until one is missing:
\* what was removed, and the list left.
FetchDelayed(list, hashes) ==
    FoldLeft(find_and_remove_transaction, [found |-> TRUE, list |-> list, txs |-> <<>>], hashes)

\* The result of reading a blueprint: the storage, the blueprint or None, the
\* transactions removed in vain, and whether the read failed.
NoBlueprint(st) == [st |-> st, blueprint |-> None, vain |-> {}, error |-> FALSE]

fetch_delayed_txs(st, b) ==
    LET r == FetchDelayed(st.delayed, b.delayed_hashes)
    IN  [st |-> [st EXCEPT !.delayed = r.list],
         blueprint |-> IF r.found
                         THEN [transactions |-> r.txs \o b.transactions,
                               timestamp |-> b.timestamp]
                         ELSE None,
         vain |-> IF r.found THEN {} ELSE {t.tx_hash : t \in Range(r.txs)},
         error |-> FALSE]

\* The blueprint whose chunks these are, when they can be decoded.
Decoded(chunks) == {b \in Range(SequencerBlueprints) : b.pieces = chunks}

\* A chunk that is not stored is an error of the run; a blueprint that cannot
\* be decoded, or names a transaction the delayed inbox does not hold, is
\* deleted.
read_all_chunks(st, number, config) ==
    LET b == st.blueprints[number]
        firstInbox == \E i \in 0 .. b.nb_chunks - 1 :
                        /\ i \in DOMAIN b.chunks /\ b.chunks[i].inbox
                        /\ \A j \in 0 .. i : j \in DOMAIN b.chunks
        inbox == CHOOSE i \in DOMAIN b.chunks : b.chunks[i].inbox
        chunks == [i \in 1 .. b.nb_chunks |-> b.chunks[i - 1].chunk]
        read == IF Decoded(chunks) = {} THEN NoBlueprint(st)
                ELSE fetch_delayed_txs(st, CHOOSE d \in Decoded(chunks) : TRUE)
    IN  IF firstInbox THEN [NoBlueprint(st) EXCEPT !.blueprint = b.chunks[inbox].chunk]
        ELSE IF \E i \in 0 .. b.nb_chunks - 1 : i \notin DOMAIN b.chunks
          THEN [NoBlueprint(st) EXCEPT !.error = TRUE]
        ELSE IF config.sequencer = None THEN NoBlueprint(st)
        ELSE IF read.blueprint # None THEN read
        ELSE [read EXCEPT !.st = DropBlueprint(@, number)]

read_next_blueprint(st, config) ==
    LET number == read_next_blueprint_number(st)
    IN  IF number \notin DOMAIN st.blueprints THEN NoBlueprint(st)
        ELSE IF Cardinality(DOMAIN st.blueprints[number].chunks)
                  # st.blueprints[number].nb_chunks
        THEN NoBlueprint(st)
        ELSE read_all_chunks(st, number, config)

-----------------------------------------------------------------------------
(* Ticks: a run may spend MaxAllowedTicks.                                 *)

\* u64::saturating_sub
Saturating(a, b) == IF a > b THEN a - b ELSE 0

\* The overhead of a transaction grows with the size of its data.
ticks_of_transaction_overhead(tx) ==
    IF tx.content = "Deposit" THEN 1 ELSE 1 + Tx[tx.tx_hash].data_size

estimate_remaining_ticks(ticks, tx) ==
    Saturating(Saturating(MaxAllowedTicks, ticks_of_transaction_overhead(tx)), ticks)

ticks_of_invalid_transaction(tx) == InvalidTicks + ticks_of_transaction_overhead(tx)

ticks_of_valid_transaction(tx, ticks) ==
    IF tx.content = "Deposit" THEN ticks
    ELSE ticks + TicksForCrypto + ticks_of_transaction_overhead(tx)

-----------------------------------------------------------------------------
(* Applying one transaction.                                               *)

\* The checks in their order; a transaction that fails one is ignored.
is_valid_ethereum_transaction_common(st, tx) ==
    /\ tx.chain_id \in {None, st.chain_id}
    /\ tx.caller # None
    /\ st.accounts[tx.caller].nonce = tx.nonce
    /\ st.accounts[tx.caller].balance >= tx.gas_limit * st.base_fee
    /\ st.accounts[tx.caller].balance >= tx.gas_limit * tx.max_fee
    /\ ~st.accounts[tx.caller].code
    /\ tx.max_fee >= st.base_fee

Credit(st, address, amount) == [st EXCEPT !.accounts[address].balance = @ + amount]

\* run_transaction on a valid transaction that ends within its ticks: the
\* nonce grows, the gas is paid, and a success moves the value, out of the
\* rollup if it calls the withdrawal precompile.
RunTransaction(st, tx) ==
    LET fee   == tx.gas_used * st.base_fee
        value == IF tx.outcome \in {"success", "withdraw"} THEN tx.value ELSE 0
        paid  == [st EXCEPT !.accounts[tx.caller].nonce = @ + 1,
                            !.accounts[tx.caller].balance = @ - fee - value]
    IN  IF tx.outcome = "success" THEN Credit(paid, tx.to, value) ELSE paid

\* The indexes: accounts once, blocks and transactions as they come.
push_value(index, value) == Append(index, value)
index_account(st, address) ==
    IF address \in Range(st.accounts_index) THEN st
    ELSE [st EXCEPT !.accounts_index = push_value(@, address)]
index_new_accounts(st, caller, to) == index_account(index_account(st, caller), to)

\* post_withdrawals: the messages written, in mutez; a withdrawal that is
\* worth no mutez cannot be made a ticket, and is an error.
Withdrawn(tx) == tx.value \div WeiPerMutez

post_withdrawals_fails(tx) ==
    tx.outcome = "withdraw" /\ (Ticketer = None \/ Withdrawn(tx) = 0)

\* What apply_transaction returns: Valid, Invalid, OutOfTicks or Error, the
\* storage, the messages posted, and the execution info.
Applied(status, st) ==
    [status |-> status, st |-> st, posted |-> <<>>, caller |-> None, to |-> None,
     gas |-> 0, ticks |-> 0, success |-> FALSE, value |-> 0]

\* Deposits do not look at the ticks allocated.
apply_deposit(st, d) ==
    [Applied("Valid", index_new_accounts(Credit(st, d.receiver, d.amount), ZeroAddress, d.receiver))
        EXCEPT !.caller = ZeroAddress, !.to = d.receiver, !.gas = DepositGas,
               !.ticks = TicksForDeposit, !.success = TRUE, !.value = d.amount]

WithdrawalsOf(h) ==
    IF Tx[h].outcome = "withdraw" THEN <<[tx |-> h, mutez |-> Withdrawn(Tx[h])]>> ELSE <<>>

\* The result of a transaction that ends within its ticks.
ExecutionResult(st, h) ==
    LET tx == Tx[h]
    IN  [Applied("Valid", index_new_accounts(RunTransaction(st, tx), tx.caller, tx.to)) EXCEPT
            !.posted = WithdrawalsOf(h), !.caller = tx.caller, !.to = tx.to,
            !.gas = tx.gas_used, !.ticks = tx.ticks, !.success = tx.outcome # "revert",
            !.value = tx.value]

\* Mutant of apply_ethereum_transaction: running out of ticks keeps the changes.
Mut_apply_keeps(st, h, allocated) ==
    IF ~is_valid_ethereum_transaction_common(st, Tx[h]) THEN Applied("Invalid", st)
    ELSE IF allocated < Tx[h].ticks THEN Applied("OutOfTicks", RunTransaction(st, Tx[h]))
    ELSE IF post_withdrawals_fails(Tx[h]) THEN Applied("Error", st)
    ELSE ExecutionResult(st, h)

\* Mutant of apply_ethereum_transaction: withdrawals are posted before the
\* transaction is known to end within its ticks.
Mut_apply_posts(st, h, allocated) ==
    IF ~is_valid_ethereum_transaction_common(st, Tx[h]) THEN Applied("Invalid", st)
    ELSE IF allocated < Tx[h].ticks
      THEN [Applied("OutOfTicks", st) EXCEPT !.posted = WithdrawalsOf(h)]
    ELSE IF post_withdrawals_fails(Tx[h]) THEN Applied("Error", st)
    ELSE ExecutionResult(st, h)

apply_ethereum_transaction(st, h, allocated) ==
    IF ~is_valid_ethereum_transaction_common(st, Tx[h]) THEN Applied("Invalid", st)
    ELSE IF allocated < Tx[h].ticks THEN Applied("OutOfTicks", st)
    ELSE IF post_withdrawals_fails(Tx[h]) THEN Applied("Error", st)
    ELSE ExecutionResult(st, h)

apply_transaction(st, tx, allocated) ==
    IF tx.content = "Deposit" THEN apply_deposit(st, tx)
    ELSE apply_ethereum_transaction(st, tx.tx_hash, allocated)

-----------------------------------------------------------------------------
(* The block in progress.                                                  *)

\* BlockInProgress::from_blueprint
from_blueprint(blueprint, number, parent, ticks) ==
    [number |-> number, tx_queue |-> blueprint.transactions, valid_txs |-> <<>>,
     cumulative_gas |-> 0, index |-> 0, parent_hash |-> parent,
     estimated_ticks |-> ticks, timestamp |-> blueprint.timestamp]

\* Mutant of Decoded_bip: the index is not stored either.
Mut_Decoded_bip(bip) == [bip EXCEPT !.estimated_ticks = 0, !.index = 0]

\* store_block_in_progress and read_block_in_progress: the encoding does not
\* hold the ticks, a decoded block starts from 0.
Decoded_bip(bip) == [bip EXCEPT !.estimated_ticks = 0]

\* register_valid_transaction, on the block; the index in the receipt and in
\* the object is the one before.
register_valid_transaction(bip, tx, r) ==
    [bip EXCEPT !.cumulative_gas = @ + r.gas,
                !.estimated_ticks = @ + ticks_of_valid_transaction(tx, r.ticks)
                                      + RegisterTicks,
                !.valid_txs = Append(@, tx.tx_hash),
                !.index = @ + 1]

\* make_receipt and store_transaction_receipt; the gas accumulated includes
\* the gas of this transaction.
store_transaction_receipt(st, bip, tx, r) ==
    [st EXCEPT
      !.tx_index = push_value(@, tx.tx_hash),
      !.receipts = [h \in DOMAIN @ \cup {tx.tx_hash} |->
        IF h # tx.tx_hash THEN @[h]
        ELSE [index |-> bip.index, block_number |-> bip.number,
              cumulative_gas |-> bip.cumulative_gas + r.gas, gas_used |-> r.gas,
              success |-> r.success]]]

\* make_object and store_transaction_object
store_transaction_object(st, bip, tx, r) ==
    [st EXCEPT !.objects = [h \in DOMAIN @ \cup {tx.tx_hash} |->
        IF h # tx.tx_hash THEN @[h]
        ELSE [index |-> bip.index, block_number |-> bip.number, from |-> r.caller,
              to |-> r.to, gas_used |-> r.gas, value |-> r.value]]]

BlockHash(b) == <<b.number, b.timestamp, b.txs>>

\* The block, under its hash and in the index, and the current block.
store_current_block(st, block) ==
    [st EXCEPT !.blocks = push_value(@, block),
               !.current = [number |-> block.number, hash |-> BlockHash(block)]]
finalize_and_store(st, bip) ==
    store_current_block(st,
        [number |-> bip.number, parent |-> bip.parent_hash, txs |-> bip.valid_txs,
         timestamp |-> bip.timestamp, gas |-> bip.cumulative_gas])

-----------------------------------------------------------------------------
(* The run.  run.pc is where it stands: idle, then reading the inbox,      *)
(* looking for the next block, and computing a block.                      *)

NoRun == [pc |-> "idle"]

\* The storage before the first run, with what the installer wrote.
InitialStorage(sequencer) ==
    [chain_id |-> None, base_fee |-> None, storage_version |-> None,
     kernel_version |-> None, boot |-> None, sequencer |-> sequencer,
     upgrade |-> None, timestamp |-> None, stats |-> None,
     last_blueprint |-> -1, blueprints |-> <<>>, delayed |-> EmptyList,
     chunked |-> <<>>, deposit_nonce |-> 0, current |-> None, blocks |-> <<>>,
     bip |-> None, receipts |-> <<>>, objects |-> <<>>, accounts_index |-> <<>>, tx_index |-> <<>>,
     accounts |-> [a \in Addresses |->
                      [balance |-> InitialBalance[a], nonce |-> 0, code |-> FALSE]]]

Init ==
    /\ \E sequencer \in InitialSequencers : evm = InitialStorage(sequencer)
    /\ tmp = None
    /\ boot = FirstKernel /\ backup = None
    /\ outbox = <<>>
    /\ rollup = [level |-> 0, inbox |-> <<>>, sent |-> {}, reboots |-> 0, ready |-> FALSE]
    /\ run = NoRun
    /\ failed = FALSE /\ lost = [delayed |-> {}, deposits |-> 0]

\* What run_level does after kernel_run returned: another run of this level if
\* a reboot was asked for and one is left.  The last level does not run out of
\* them: it stands for the levels that follow.
AfterRun(reboot) ==
    LET left == IF rollup.level = MaxLevels THEN rollup.reboots ELSE rollup.reboots - 1
    IN  rollup' = [rollup EXCEPT !.reboots = left, !.ready = reboot /\ left > 0]

\* A run that ends in an error: the copy is dropped, and the nonces of the
\* deposits it read with it.  What was read from the inbox and what was
\* written to the outbox stays so.
Fail ==
    /\ failed' = TRUE
    /\ lost' = [lost EXCEPT !.deposits = @ + (tmp.deposit_nonce - evm.deposit_nonce)]
    /\ tmp' = None
    /\ run' = NoRun
    /\ UNCHANGED <<evm, boot, backup>>

\* promote_upgrade and promote: a kernel in the copy replaces the kernel,
\* which is kept; a run without one drops the kernel that was kept.
Promote(st) ==
    /\ evm' = [st EXCEPT !.boot = None]
    /\ tmp' = None
    /\ run' = NoRun
    /\ IF st.boot # None
         THEN boot' = st.boot /\ backup' = boot
         ELSE boot' = boot /\ backup' = None
    /\ UNCHANGED failed

retrieve_chain_id(st) == IF st.chain_id # None THEN st ELSE [st EXCEPT !.chain_id = ChainId]

retrieve_block_fees(st) == IF st.base_fee # None THEN st ELSE [st EXCEPT !.base_fee = BaseFee]

init_storage_versioning(st) ==
    IF st.storage_version # None THEN st
    ELSE [st EXCEPT !.storage_version = StorageVersion[boot]]

set_kernel_version(st) == [st EXCEPT !.kernel_version = boot]

Started == init_storage_versioning(retrieve_chain_id(evm))

MustMigrate == StorageVersion[boot] = Started.storage_version + 1

\* Stage zero when the migration succeeds: the run ends there.
Migrate ==
    /\ run.pc = "idle" /\ rollup.ready
    /\ MustMigrate /\ boot \notin BrokenMigration
    /\ Promote(set_kernel_version([Started EXCEPT !.storage_version = StorageVersion[boot]]))
    /\ AfterRun(TRUE)
    /\ UNCHANGED <<outbox, lost>>

\* Mutant of fallback_backup_kernel: the storage is reverted, the kernel stays.
Mut_fallback ==
    /\ run.pc = "idle" /\ rollup.ready
    /\ MustMigrate /\ boot \in BrokenMigration
    /\ backup' = None
    /\ AfterRun(FALSE)
    /\ UNCHANGED <<evm, tmp, boot, outbox, run, failed, lost>>

\* Stage zero when the migration fails: the storage is reverted, and the
\* kernel that was kept is put back.
fallback_backup_kernel ==
    /\ run.pc = "idle" /\ rollup.ready
    /\ MustMigrate /\ boot \in BrokenMigration
    /\ boot' = backup /\ backup' = None
    /\ AfterRun(FALSE)
    /\ UNCHANGED <<evm, tmp, outbox, run, failed, lost>>

fetch_configuration(st) ==
    [sequencer |-> st.sequencer,
     bridge |-> IF st.sequencer = None THEN None ELSE DelayedBridge]

\* kernel_loop and main, up to stage one.
kernel_loop ==
    /\ run.pc = "idle" /\ rollup.ready
    /\ ~MustMigrate
    /\ LET st == retrieve_block_fees(set_kernel_version(Started))
       IN  /\ tmp' = st
           /\ run' = [pc |-> "inbox", config |-> fetch_configuration(st),
                      content |-> NoContent, empty |-> TRUE]
    /\ UNCHANGED <<evm, boot, backup, outbox, rollup, failed, lost>>

\* read_inbox: one message.  The configuration is the one the run began with,
\* also after a message that changed the sequencer.
ReadInput ==
    /\ run.pc = "inbox" /\ rollup.inbox # <<>>
    /\ LET r == read_input(tmp, run.content, Head(rollup.inbox), run.config)
       IN  /\ tmp' = r.st
           /\ run' = [run EXCEPT !.content = r.content, !.empty = FALSE]
    /\ rollup' = [rollup EXCEPT !.inbox = Tail(@)]
    /\ UNCHANGED <<evm, boot, backup, outbox, failed, lost>>

store_kernel_upgrade(st, upgrade) ==
    IF upgrade = None THEN st ELSE [st EXCEPT !.upgrade = upgrade]

fetch_inbox_blueprints(st, content) ==
    store_kernel_upgrade(
        store_inbox_blueprint(st, [transactions |-> content.transactions,
                                   timestamp |-> current_timestamp(st)]),
        content.upgrade)

fetch_sequencer_blueprints(st, content) ==
    LET saved == FoldLeft(save_transaction, st, content.transactions)
    IN  store_kernel_upgrade(
            FoldLeft(store_sequencer_blueprint, saved, content.blueprints),
            content.upgrade)

\* The end of read_inbox, and fetch: an inbox that was already consumed leaves
\* the storage alone.
fetch ==
    /\ run.pc = "inbox" /\ rollup.inbox = <<>>
    /\ tmp' = IF run.empty THEN tmp
              ELSE IF run.config.sequencer = None
              THEN fetch_inbox_blueprints(tmp, run.content)
              ELSE fetch_sequencer_blueprints(tmp, run.content)
    /\ run' = [pc |-> "produce", config |-> run.config]
    /\ UNCHANGED <<evm, boot, backup, outbox, rollup, failed, lost>>

\* produce: the block in progress of an earlier run comes first.
produce ==
    /\ run.pc = "produce"
    /\ run' = [pc |-> IF tmp.bip = None THEN "blueprints" ELSE "compute",
               bip |-> IF tmp.bip = None THEN None ELSE Decoded_bip(tmp.bip),
               resumed |-> tmp.bip # None,
               config |-> run.config, upgrade |-> tmp.upgrade,
               number |-> read_current_block_number(tmp) + 1,
               parent |-> IF tmp.current = None THEN FirstParent ELSE tmp.current.hash,
               ticks |-> 0, firstBlock |-> TRUE, firstTx |-> TRUE]
    /\ UNCHANGED <<evm, tmp, boot, backup, outbox, rollup, failed, lost>>

\* upgrade: the new kernel is revealed into the copy of the storage.
upgrade(st, u) == [st EXCEPT !.boot = u.kernel, !.upgrade = None]

\* The transactions of the delayed inbox among those of a blueprint that was
\* read: they were removed when it was read.
DelayedOf(st, blueprint) ==
    {t.tx_hash : t \in Range(blueprint.transactions)} \cap DOMAIN st.delayed.store

\* next_bip_from_blueprints
next_bip_from_blueprints ==
    /\ run.pc = "blueprints"
    /\ LET r == read_next_blueprint(tmp, run.config)
           activated == /\ r.blueprint # None /\ run.upgrade # None
                        /\ r.blueprint.timestamp >= run.upgrade.activation_timestamp
       IN  \/ /\ r.error
              /\ Fail /\ AfterRun(FALSE)
           \/ /\ ~r.error /\ r.blueprint = None
              /\ Promote(r.st) /\ AfterRun(FALSE)
              /\ lost' = [lost EXCEPT !.delayed = @ \cup r.vain]
           \/ /\ activated
              /\ Promote(upgrade(r.st, run.upgrade)) /\ AfterRun(TRUE)
              /\ lost' = [lost EXCEPT !.delayed = @ \cup DelayedOf(tmp, r.blueprint)]
           \/ /\ r.blueprint # None /\ ~activated
              /\ tmp' = r.st
              /\ run' = [run EXCEPT !.pc = "compute", !.firstTx = TRUE,
                           !.bip = from_blueprint(r.blueprint, run.number, run.parent, run.ticks)]
              /\ UNCHANGED <<evm, boot, backup, rollup, failed, lost>>
    /\ UNCHANGED outbox

\* A transaction that runs out of ticks although the whole run was left to it
\* would never end.
\* Mutant of Discards: the transaction is always tried again.
Mut_Discards == FALSE

Discards == run.firstTx /\ run.firstBlock

\* One iteration of the loop of compute.
compute ==
    /\ run.pc = "compute" /\ run.bip.tx_queue # <<>>
    /\ LET tx  == Head(run.bip.tx_queue)
           bip == [run.bip EXCEPT !.tx_queue = Tail(@)]
           r   == apply_transaction(tmp, tx, estimate_remaining_ticks(bip.estimated_ticks, tx))
       IN  /\ outbox' = outbox \o r.posted
           /\ \/ /\ r.status = "Valid"
                 /\ tmp' = store_transaction_object(
                             store_transaction_receipt(r.st, bip, tx, r), bip, tx, r)
                 /\ run' = [run EXCEPT !.bip = register_valid_transaction(bip, tx, r),
                                       !.firstTx = FALSE]
                 /\ UNCHANGED <<evm, boot, backup, rollup, failed, lost>>
              \/ /\ r.status = "Invalid"
                 /\ run' = [run EXCEPT
                      !.bip = [bip EXCEPT !.estimated_ticks =
                                 @ + ticks_of_invalid_transaction(tx)],
                      !.firstTx = FALSE]
                 /\ UNCHANGED <<evm, tmp, boot, backup, rollup, failed, lost>>
              \/ /\ r.status = "OutOfTicks" /\ Discards
                 /\ tmp' = r.st
                 /\ run' = [run EXCEPT !.bip = bip, !.firstTx = FALSE]
                 /\ UNCHANGED <<evm, boot, backup, rollup, failed, lost>>
              \/ /\ r.status = "OutOfTicks" /\ ~Discards
                 /\ Promote([r.st EXCEPT !.bip = run.bip])
                 /\ AfterRun(TRUE)
                 /\ UNCHANGED lost
              \/ /\ r.status = "Error"
                 /\ Fail /\ AfterRun(FALSE)

\* compute_bip when the queue is empty: the block is stored, its blueprint is
\* dropped, and the ticks of the block are carried over to the next one.
compute_bip ==
    /\ run.pc = "compute" /\ run.bip.tx_queue = <<>>
    /\ LET st == drop_head_blueprint(finalize_and_store(tmp, run.bip))
       IN  /\ tmp' = IF run.resumed THEN [st EXCEPT !.bip = None] ELSE st
           /\ run' = [run EXCEPT !.pc = "blueprints", !.bip = None, !.resumed = FALSE,
                        !.firstBlock = FALSE, !.ticks = run.bip.estimated_ticks + FinalizeTicks,
                        !.number = st.current.number + 1, !.parent = st.current.hash]
    /\ UNCHANGED <<evm, boot, backup, outbox, rollup, failed, lost>>

\* The inbox of a level: what the rollup node puts around the messages.
Inbox(level, msgs) ==
    <<[kind |-> "internal", msg |-> "StartOfLevel"],
      [kind |-> "internal", msg |-> "InfoPerLevel", timestamp |-> level]>>
    \o msgs \o <<[kind |-> "internal", msg |-> "EndOfLevel"]>>

\* The deposits among messages: whatever the configuration, parse reads them
\* as such.
IsDepositMessage(m) == parse(m, [sequencer |-> None, bridge |-> None]).type = "Deposit"
UnreadDeposits == Cardinality({i \in DOMAIN rollup.inbox : IsDepositMessage(rollup.inbox[i])})

\* The next level: what the kernel did not read of the inbox is dropped.
run_level ==
    /\ run.pc = "idle" /\ ~rollup.ready
    /\ rollup.level < MaxLevels
    /\ lost' = [lost EXCEPT !.deposits = @ + UnreadDeposits]
    /\ \E msgs \in Inboxes(rollup.sent) :
         rollup' = [level |-> rollup.level + 1,
                    inbox |-> Inbox(rollup.level + 1, msgs),
                    sent |-> rollup.sent \cup Range(msgs),
                    reboots |-> MaxReboots, ready |-> TRUE]
    /\ UNCHANGED <<evm, tmp, boot, backup, outbox, run, failed>>

\* The bound on levels is reached.
Finished ==
    /\ run.pc = "idle" /\ ~rollup.ready /\ rollup.level = MaxLevels
    /\ UNCHANGED vars

Step == \/ run_level \/ Migrate \/ fallback_backup_kernel \/ kernel_loop
        \/ ReadInput \/ fetch \/ produce \/ next_bip_from_blueprints
        \/ compute \/ compute_bip

Next == Step \/ Finished

Spec == Init /\ [][Next]_vars

\* The rollup node runs every level and the kernel in it, so steps happen.
FairSpec == Spec /\ WF_vars(Step)

-----------------------------------------------------------------------------
(* Properties.                                                             *)

\* Deposits are named by their nonces.
Hashes == Nat \cup DOMAIN Tx
Transactions == {EthereumTransaction(h) : h \in DOMAIN Tx} \cup
    [tx_hash : Nat, content : {"Deposit"}, amount : Int, receiver : Addresses]
BlockHashes == Int \X Int \X Seq(Hashes)
Heads == [number : Int, hash : BlockHashes]
Bips == [number : Int, tx_queue : Seq(Transactions), valid_txs : Seq(Hashes),
         cumulative_gas : Int, index : Int, parent_hash : {FirstParent} \cup BlockHashes,
         estimated_ticks : Int, timestamp : Int]

ASSUME NoneAssumption == None \notin Heads \cup Bips

\* What the senders of messages write: known transactions and addresses.
WellTyped(m) ==
    /\ m.kind = "external" =>
         /\ m.tag = "simple" => m.tx_hash \in DOMAIN Tx
         /\ m.tag = "blueprint" => m.blueprint.number \in Nat
    /\ m.kind # "external" =>
         /\ m.msg = "InfoPerLevel" => m.timestamp \in Int
         /\ m.msg = "Transfer" =>
              /\ m.payload = "deposit" =>
                   m.amount \in Nat /\ m.receiver \in Addresses \cup {None}
              /\ m.payload = "delayed" => m.data \in DOMAIN Tx

Idle == run.pc = "idle"

Storages == {evm} \cup (IF tmp = None THEN {} ELSE {tmp})

\* Types of the state, and of what a storage holds.
TypeOK ==
    /\ run.pc \in {"idle", "inbox", "produce", "blueprints", "compute"}
    /\ (tmp = None) <=> Idle
    /\ rollup.level \in 0 .. MaxLevels /\ rollup.reboots \in 0 .. MaxReboots
    /\ rollup.ready \in BOOLEAN /\ failed \in BOOLEAN
    /\ boot \in DOMAIN StorageVersion /\ backup \in DOMAIN StorageVersion \cup {None}
    /\ \A st \in Storages :
         /\ \A a \in Addresses : st.accounts[a].balance >= 0
         /\ \A n \in DOMAIN st.blueprints : n \in Nat
         /\ DOMAIN st.receipts = DOMAIN st.objects

HashesOf(txs) == {t.tx_hash : t \in Range(txs)}

\* The blueprints still to be executed: the block in progress has taken the
\* transactions of its own.
Awaited(st) ==
    {n \in DOMAIN st.blueprints :
        n > (IF st.bip = None THEN read_current_block_number(st) ELSE st.bip.number)}

InBlueprint(st, h) ==
    \E n \in Awaited(st) : \E i \in DOMAIN st.blueprints[n].chunks :
        LET c == st.blueprints[n].chunks[i]
        IN  c.inbox /\ h \in HashesOf(c.chunk.transactions)

InProgress(st, h) == st.bip # None /\ h \in HashesOf(st.bip.tx_queue)

\* Every deposit sent to the rollup is accounted for.  Between runs it has a
\* nonce, or it waits in the inbox, or it is counted as lost: a run that failed
\* had read it (the input is consumed, the storage is not kept), or no run
\* read it before the next level.  And a deposit with a nonce is in exactly one
\* place: executed, in the queue of the block in progress, in a blueprint that
\* waits, or in the delayed inbox.  Exempt are those that a blueprint removed
\* from the delayed inbox without being executed (fetch_delayed_txs gives up,
\* or an upgrade comes first).
DepositsAccounted ==
    /\ Idle => Cardinality({m \in rollup.sent : IsDepositMessage(m)})
                  = evm.deposit_nonce + UnreadDeposits + lost.deposits
    /\ \A n \in 0 .. evm.deposit_nonce - 1 :
        Cardinality({p \in {"executed", "progress", "blueprint", "delayed", "lost"} :
            CASE p = "executed" -> n \in DOMAIN evm.receipts
              [] p = "progress" -> InProgress(evm, n)
              [] p = "blueprint" -> InBlueprint(evm, n)
              [] p = "delayed" -> n \in DOMAIN evm.delayed.store
              [] p = "lost" -> n \in lost.delayed}) = 1

IsDeposit(h) == h \notin DOMAIN Tx

\* The balances are what the receipts and the objects of transactions say:
\* every transaction with a receipt changed the accounts, once, over however
\* many runs and reboots the block took.
BalancesMatchReceipts ==
    SumFunction([a \in Addresses |-> evm.accounts[a].balance])
      = SumFunction(InitialBalance)
        + SumFunction([h \in DOMAIN evm.receipts |->
             IF IsDeposit(h) THEN evm.objects[h].value
             ELSE - evm.receipts[h].gas_used * evm.base_fee
                  - (IF Tx[h].outcome = "withdraw" THEN evm.objects[h].value ELSE 0)])

\* The receipts are those of the transactions of the blocks and of the block
\* in progress, at their place and with the gas used up to them; the index
\* lists each once, in order, and the accounts they touch.
ReceiptsMatchBlocks ==
    LET Matches(number, txs, gas) ==
          /\ \A i \in DOMAIN txs :
               /\ txs[i] \in DOMAIN evm.receipts
               /\ evm.receipts[txs[i]].block_number = number
               /\ evm.receipts[txs[i]].index = i - 1
               /\ evm.objects[txs[i]].index = i - 1
          /\ gas = IF txs = <<>> THEN 0 ELSE evm.receipts[Last(txs)].cumulative_gas
        valid == IF evm.bip = None THEN <<>> ELSE evm.bip.valid_txs
    IN  /\ evm.tx_index = FlattenSeq([i \in DOMAIN evm.blocks |-> evm.blocks[i].txs]) \o valid
        /\ DOMAIN evm.receipts = Range(evm.tx_index) /\ IsInjective(evm.tx_index)
        /\ IsInjective(evm.accounts_index)
        /\ \A h \in DOMAIN evm.objects :
             {evm.objects[h].from, evm.objects[h].to} \subseteq Range(evm.accounts_index)
        /\ \A i \in DOMAIN evm.blocks :
             Matches(evm.blocks[i].number, evm.blocks[i].txs, evm.blocks[i].gas)
        /\ evm.bip # None =>
             Matches(evm.bip.number, evm.bip.valid_txs, evm.bip.cumulative_gas)

\* Blocks are numbered without gaps and each one names the hash of the one
\* before; a block in progress always extends the current block.
ChainLinks ==
    LET ParentOf(n) == IF n = 0 THEN FirstParent ELSE BlockHash(evm.blocks[n])
    IN  /\ \A i \in DOMAIN evm.blocks :
             evm.blocks[i].number = i - 1 /\ evm.blocks[i].parent = ParentOf(i - 1)
        /\ read_current_block_number(evm) = Len(evm.blocks) - 1
        /\ evm.bip # None =>
             /\ evm.bip.number = Len(evm.blocks)
             /\ evm.bip.parent_hash = ParentOf(Len(evm.blocks))

\* The chain and its receipts stay consistent, although a block may have been
\* left and taken up again in a later run between any two of its transactions.
ChainConsistent == ChainLinks /\ ReceiptsMatchBlocks

\* Between runs the storage is in the format of the kernel that will read it,
\* or one version behind it; then the kernel of that version is kept, to fall
\* back on.
KernelMatchesStorage ==
    evm.storage_version # None =>
        \/ StorageVersion[boot] = evm.storage_version
        \/ /\ StorageVersion[boot] = evm.storage_version + 1
           /\ backup # None /\ StorageVersion[backup] = evm.storage_version

\* As long as no run failed, the outbox holds one message for every executed
\* withdrawal, over however many runs and reboots.
WithdrawalsPosted ==
    (Idle /\ ~failed) =>
        /\ \A i, j \in DOMAIN outbox : outbox[i].tx = outbox[j].tx => i = j
        /\ {outbox[i].tx : i \in DOMAIN outbox}
             = {h \in DOMAIN evm.receipts : ~IsDeposit(h) /\ Tx[h].outcome = "withdraw"}

\* A block in progress is finished: every run that resumes it executes or
\* drops a transaction at least.  A run that fails never finishes it.
BlockInProgressFinishes == evm.bip # None ~> (evm.bip = None \/ failed)

=============================================================================
