# TLA+ models of the Octez baker and of the kernels and interpreters in Rust

The repository is Octez, the OCaml and Rust implementation of Tezos. This
project models two groups of its programs, the ones whose mistakes cost most
and are hardest to test:

- the **Tenderbake baker** of `src/proto_alpha/lib_delegate` (OCaml), one process
  that decides what its delegates sign from messages that come in any order, and
  that has to keep its promises across crashes;
- the **code in Rust that holds other people's money**: the kernels of smart
  rollups (`etherlink/kernel_evm`, `src/kernel_tx_demo`) with the SDK they stand
  on (`src/kernel_sdk`), the Michelson implementation (`contrib/mir`), and the
  state of the RISC-V machine (`src/risc_v/machine_state`).

## Inventory

`PROJECT.json` lists every part with its sources, and the hazards with their
lines. The parts that are modelled:

| Part | State | Operations | Talks to |
|---|---|---|---|
| baker: automaton, actions, event loop, recorder, high watermarks (`lib_delegate`) | the state record, the state file, the high-watermark file | one transition per event: head, validated block, prequorum, quorum, end of round, time to forge and to bake; signing, forging, injecting | node, signer, disk, worker |
| baker: operation worker | operation pool, watched proposal with its counters, event stream | watches, batches, heads, its thread | node mempool, automaton |
| kernel storage (`kernel_sdk/storage`) | a stack of copies of a subtree of the durable storage | begin, commit, rollback, create, write, delete | durable storage of the PVM |
| SDK encodings (`kernel_sdk/encoding`) | - | Micheline, inbox, outbox, DAC certificates and pages: read, write | layer 1, kernels |
| Etherlink: EVM execution (`evm_execution`) | the layers of accounts, transaction data and gasometers | calls, creations, transfers, self-destruction, precompiles, end of a transaction | kernel storage, EVM library |
| Etherlink: kernel (`kernel`) | the storage under `/evm`, its copy of a run, the kernel and its backup, the outbox | stage one and two, blocks over reboots, deposits, withdrawals, delayed inbox, upgrade, fallback, migration | rollup node, layer 1, sequencer |
| Etherlink: list of the delayed inbox | pointers on disk and in memory | push, remove, find, first | durable storage |
| Etherlink: transactions, objects, simulation (`ethereum`, `simulation.rs`) | what a request brought, chain, stored blocks and receipts | encode, decode, recover, simulate, validate, apply, store | the node's requests and blueprints |
| transaction kernel (`kernel_tx_demo`) | accounts and tickets, cached messages with their stage, DAC iterators, DAL slot | deposit, transfer, withdraw, verify, reveal, execute over reboots | rollup node, layer 1, DAC |
| MIR (`contrib/mir`) | the stacks of types and of values, gas, the lazy storage | type checker, interpreter, packing, calls of a contract, dumping of big maps | - |
| RISC-V machine state | backing storage, placed layouts | CSR and add instructions, loads and stores, region operations | - |

### What makes them correct

- baker: no delegate signs two items of one kind at one level and round, whatever
  crashes or fails between the high watermark, the signature and the injection;
  after an attestation another payload is preattested only if a later prequorum
  justifies it, restarts included if the state is recorded; a baker that waits will
  be told as long as its worker runs, and the worker reports true quorums only;
- storage: the layers are a stack of storages, and a transaction that is over
  leaves nothing behind;
- EVM: value is neither made nor lost, a failure leaves no trace but its fee, a
  static call changes no contract;
- Etherlink kernel: every deposit that was sent is in one place or was lost with a
  failed run, balances and receipts agree, the
  chain is linked although a block may be left and taken up again in later runs,
  withdrawals are posted once, the storage matches the kernel that reads it;
- transactions and simulation: what is simulated is what was asked, validation and
  application agree, and what is stored tells one story when it is read back;
- transaction kernel: no ticket is made out of nothing (some can be lost), payloads are executed in
  order and once, what is written is what is read;
- MIR: a typed script never meets a value of another type, tickets are conserved,
  packing and storing give back the same value, big maps do not mix;
- RISC-V: no write makes a register illegal, escapes the mode's privilege or
  touches a byte it does not name.

### What is hard

In the baker, the order of heads, validated blocks and late quorum events, crashes
inside an action, equality of rounds in four comparisons, two branches of one
level. In the kernels, the *reboot*: the PVM stops a run between any two
steps the kernel marked, everything that must survive is in the durable storage,
and the inbox of a level is read once; the *revert* of a failed run, which takes
back the storage and not the outbox; and the *abort*, which takes back nothing. In
the interpreters, sequences of legal instructions that nobody wrote in a test. Each
of these is a hazard of `PROJECT.json`, with the properties that watch it; the
section *Further hazards* lists the narrower ones.

### Not modelled

The node (`lib_shell`, `lib_store`, `lib_p2p`, `lib_workers`, the requester and
gossipsub) is the environment of the baker; the economic protocol, the rollup nodes
and the DAL and DAC nodes are separate systems in OCaml. They are listed with their
reasons in `PROJECT.json`; nothing of them is needed to state the
properties above. Block forging, operation selection, nonces, the accuser and
the one-shot commands influence the automaton only by failing. The WASM PVM is an
interpreter with a Merkle state, out of TLC's reach. Of the modelled parts, left
out are: in MIR the lexer, the parser, the macros and the formulas of the gas
costs; in the RISC-V crate the devices (their layout is empty and can never be
placed) and the sandbox; in the kernels the paths of the durable storage (the
models use records, `DurableStore` has the paths), logs and benchmarks; in
`kernel_tx_demo` the feature without signature checks and `dac_message.rs`, which
is not compiled.

## Modules

```
Highwatermarks <- BakingState <- StateTransitions <- Baker <- MCBaker
                                                       ^----- BakerProofs
ConsensusOperations <- OperationWorker <- MCOperationWorker
        |                   ^------------ OperationWorkerProofs -> SumLemmas
        ^---------------- QuorumMonitor            (refined by OperationWorker)

DurableStore <- KernelStorage <- MCKernelStorage
                    ^----------- KernelStorageProofs -> SumLemmas
                    |----------- TransactionalStore (refined by KernelStorage)
EvmHandler <- MCEvmHandler
        ^---- EvmHandlerProofs -> SumLemmas
KernelInbox, LinkedList <- EtherlinkKernel <- MCEtherlinkKernel
                                 ^---------- EtherlinkKernelProofs -> SumLemmas
             LinkedList <- MCLinkedList
EthereumObjects <- Simulation <- MCSimulation
                      ^---- SimulationProofs -> SumLemmas

MichelineEncoding <- KernelMessages <- TxLedger \
        ^---------- DacPages --------------------- TxKernel <- MCTxKernel

Michelson <- MirTypechecker <- MirInterpreter <- MichelsonContract <- MCMichelsonContract
MachineBackend, ControlRegisters <- MachineState <- MCMachineState
                                         ^---- MachineStateProofs
```

### Baker

- **Highwatermarks**: the three maps of the file, `may_sign` and the recording.
- **BakingState**: blocks, the state record, what is written to disk, the
  recorder's check, what a restart takes back. A block is the record of what
  the automaton reads in it: level, round, payload hash, round of the prequorum
  it carries. The predecessor hash is an input of the payload hash, so a
  payload determines the predecessor (`PredOf`).
- **StateTransitions**: the transition function, operator by operator under the
  names of the source. A transition returns the new state and the action; `fresh`
  tells whether the recorder, which compares with physical equality, will write.
- **Baker**: the process. Each action of `Next` is one turn of `automaton_loop`:
  transition, `perform_action` with every place where it may fail or crash,
  recording, and the state the loop goes on with. `Faults` selects the faults,
  `StateRecorder` the recorder: `Filesystem` writes the state file, `Memory`, the
  default of the configuration, writes nothing and checks nothing.
- **ConsensusOperations**, **OperationWorker**: the worker. Its thread is split at
  the promises it waits for (`pc`): opening a session, reading the head, reading a
  batch, taking the lock of the counters.
- **QuorumMonitor**: what the automaton needs from the worker, in five actions. In
  `Baker` the same promise appears as `watch`, `qcs` and `WorkerQuorumReached`, and
  the end of the worker's thread, with or without its request, as `WorkerStops`
  (the fault `rpc`).

| Baker | Code |
|---|---|
| `st` | `Baking_state.state` (`None`: the process is down) |
| `disk`, `hwm` | the state file, the high-watermark file |
| `watch`, `qcs` | the worker's `proposal_watched`, its event stream |
| `worker` | whether the worker's thread (`worker_loop`) runs or has ended |
| `head` | the node's head |
| `signed`, `injected`, `certs`, `clock` | history: signatures, own blocks, prequorums of the network, rounds shown by the clock |

In the worker, `operation_pool`, `proposal_watched` and `qc_event_stream` are the
fields of its state; the rest of its variables is the batch in hand, the stream,
the callback of the canceler, and the node's mempool and head.

### Storage and kernels

- **DurableStore**: the tree of the durable storage as the mock runtime implements
  it, with its chunk limits and errors; `store_read_all` and `store_write_all` loop
  over chunks. **KernelStorage**: the transaction stack over it, and an abort
  between any two host calls, in the middle of a chunked write and between its
  deletion of the old value and its first chunk too.
  **TransactionalStore**: what the crate's documentation promises, a stack of
  functions.
- **EvmHandler**: `run_transaction`, its frames and layers. The opcode interpreter is
  external: a step of a frame is any opcode that reaches the handler. Gas and ticks
  are small numbers; precompiles are their cost, their kind of failure and, for the
  withdrawal, their effect. A transaction that does not pay for gas is one without
  a limit (`NoLimit`).
- **KernelInbox**: parsing and dispatch of inbox messages, chunked transactions, the
  transfers of the bridges. **LinkedList**: the list of the delayed inbox with its
  cached pointers. **EtherlinkKernel**: the runs. `evm` is the storage, `tmp` the
  copy a run works on (`SafeStorage`), `run` the local variables and where the run
  is. Executing a transaction is its validity, ticks, gas and outcome; a
  transaction that runs out of ticks leaves the storage as it was.
- **EthereumObjects**: RLP with its short and long forms on real bytes; the three transaction types, with signatures
  that carry key and digest; blocks, receipts, objects, blueprints. Words have 2
  bytes, longs 1, addresses 1, and the hash is a small polynomial digest.
  **Simulation**: the requests of the node (its OCaml side at the lines the map
  names), `simulation.rs`, validation, and a chain that stores, splits and reads
  back blueprints, with a reboot in a block.
- **MichelineEncoding**, **KernelMessages**, **DacPages**,
  **TxLedger**, **TxKernel**: the transaction kernel and the encodings it uses. Bytes
  are numbers of a small alphabet; a hash is one number, an operation of a payload a
  run of cells as long as the operation. `store` is the durable storage of the
  cache, `ledger` that of accounts and tickets, `rollup` the level, the inbox and the
  reboots.

### Interpreters

- **Michelson**: types, values, Micheline, comparison, packing. **MirTypechecker**,
  **MirInterpreter**: one operator per family of instructions, the overloads
  as sets of rows. **MichelsonContract**: calls of a contract; an instruction is
  type-checked and executed in one step, so that every prefix of a script is
  visited once, and a failing script ends its call. A charge of gas is one unit. The
  caller of `dump_big_map_updates` is external; keys, signatures, base58 and
  the BLS curves are abstracted to discrete logarithms modulo `Order`.
- **MachineBackend**: the choreographer and the regions, over a storage that is
  a set of bits. **ControlRegisters**: names, privileges, masks and legal values.
  **MachineState**: the instructions on a placed state. `write_mode`, which only
  tests call, sets the mode.

### Assumptions on the environment

- Baker: at most one payload of a level and round gathers a prequorum
  (`MayCertify`): two quorums share a correct delegate, which preattests once. The
  baker's own part of this is `NoDoubleSigning`. A validated block's prequorum is
  genuine, and a block at one of our slots was made by us (`Received`). Heads come by
  increasing fitness; validated blocks in any order, any number of times. The
  files are written atomically. Where crashes and locks meet (`rounds`,
  `LockCoversVotes`, `PreattestsByTheRule`) the baker was started with
  `--record-state`: the default is to keep the state in memory only
  (`baking_configuration.ml:131`). Every delegate has an attesting slot at every level.
- Kernels: the inbox of a level is closed before the kernel runs, and a run is
  repeated while it asks for a reboot and reboots are left. The last level of
  `kernel_runs` has as many as it asks for, so that liveness is not about them.
  An abort of the PVM is modelled in `KernelStorage` only. `write_output`
  succeeds in `TxKernel`.
- Simulation: it runs on a copy of the storage, so the chain rests while a request is
  pending; the node asks between blocks. At most one chunk of a request is
  lost or displaced.

## Runs

| Run | Properties | Bounds and what happens within them |
|---|---|---|
| `rounds` | `TypeOK`, `QuorumMatchesBlock`, `NeverDeaf`, `LockCoversAttestations`, `PrequorumsAreGenuine`, `PreattestRule` | three rounds, two payloads, two unread quorum events, our slot at round 2, crashes inside every action, a worker that ends; the state is recorded |
| `branches` | `WaitsInCurrentRound`, `LocksNeverRegress` | two predecessors for one level, three payloads, the default recorder (`Memory`), no crash |
| `two_levels` | `ForgedExtendsElected`, `FirstBlockIsFinal`, `LockedImpliesAttestable`, `NoDoubleSigning` | the first block of the protocol, then a level of votes; own slots at both; every fault but a lagging node and an ended worker; the state is recorded |
| `worker` | `ReportedQuorumInPool`, `ImplementsMonitor`, `QuorumIsReported` | heads at rounds 0 and 5, two delegates, failing RPCs |
| `storage_layers` | `NoLeftovers`, `ImplementsTransactions` | two objects, values of one and two chunks, three layers, one abort, which leaves a value whole, cut short or gone |
| `evm_calls` | `SupplyConserved`, `StaticIsPure`, `FailureLeavesNoTrace` | one transaction of three steps, each a call, creation, write, self-destruction or precompile, with two gas limits and few ticks; CALLCODE with value in static frames too |
| `kernel_runs` | `DepositsAccounted`, `BalancesMatchReceipts`, `ChainConsistent`, `KernelMatchesStorage`, `WithdrawalsPosted`, `BlockInProgressFinishes` | three levels, the messages of one theme sent at most once each and at most three to a level, proxy and sequencer, upgrades that migrate and that fall back, failed runs with deposits in the inbox they read or leave |
| `transactions` | `SimulatesTheRequest`, `ValidationAgrees`, `ChainReadsBack` | two accepted transactions, two blocks, a reboot, one fault of a request |
| `tx_kernel` | `TicketsBacked`, `PayloadInOrder`, `WireFaithful` | three levels, payloads of every alignment with the two half buffers, 3 or 9 reboots |
| `michelson` | `TypeSoundness`, `PackRoundTrip`, `TicketsConserved`, `StorageReloads`, `DumpPreserves` | every script of up to five chosen instructions of twelve themes, two calls for tickets and for big maps, copies of a big map in storage and operations |
| `hart` | `FieldsLegal`, `PrivilegeRespected`, `WritesAreLocal` | any sequence of instructions on the registers of a theme; 16 bytes of memory; three regions |
| `linked_list` | `ListIsSequence` | four elements; ends in a violation, see below |

What they show is in the comments of the properties and in `PROJECT.json`. Two of
the properties are refinements: the worker implements `QuorumMonitor`, the layers
implement `TransactionalStore`.

### Findings

`linked_list` ends in a violation: `push` writes the cached back pointer to the
storage with the links it had when it was cached (`linked_list.rs:283`). After
a removal in the middle these are stale. TLC's trace: push a, b and c, remove b,
push d, which writes c back with the previous b that is gone, remove c, which is
taken for the first element and makes d the front. `first` answers d although a was
pushed and never removed; when d is removed as well, `is_empty` is true. Both
against their comments.

Other disagreements that were met, in the models as the code has them; their lines
are in the hazards of `PROJECT.json` or under *Further hazards*:

- baker: the order of rounds in a comment of `time_to_bake_at_next_level` (the lock
  may pass the elected block); the recorder orders attestable payloads by proposal
  round, the automaton by prequorum round; the saved lock is dropped when the node is
  behind at the start; the flag set by the application of the awaited block
  is overwritten; two DAL variants of an attestation in one batch count twice;
- Etherlink: the input of a run that fails is lost, the outbox messages it wrote are
  not; delayed transactions are lost when a blueprint names one that is missing,
  or when an upgrade comes first; a migration that fails at the start of a level falls
  back without a reboot, and the inbox of that level is never read; a nested
  precompile that runs out of ticks is not refunded; in a static call a CALLCODE with
  value is not refused and `execute_call` moves the value (`handler.rs:850`), against
  the comment of the flag, "if the transaction is allowed to update durable storage"
  (`handler.rs:111`);
- transaction kernel: `execute` assumes a transaction that is never opened, so an
  overflow at the destination destroys the tickets taken from the source; cached
  messages are dropped when the reboots are used up, or keep the inbox of the
  next level from being read;
- MIR: `DIG n` and `DUG n` on a stack of n elements panic in the type checker; a
  closure captures a big map, which is then in no lazy storage; `UNPACK` and
  `CONTRACT` turn the end of the gas into `None`;
- RISC-V: `replace` returns the new value of most registers, its comment the
  previous one.

### Limits of what holds

For the reader who changes the bounds. `LockCoversAttestations` and `PreattestRule`
need a recorded state when there are crashes: with `StateRecorder` `Memory`, the
default of the code, no lock survives one, a restarted baker preattests any payload
at a later round, and only the high watermarks are left (`NoDoubleSigning`, which
asks for nothing). `LockCoversAttestations` also needs one branch
and a node that is not behind the saved level. `NeverDeaf` is about a worker
whose thread runs: a failed RPC ends it for ever (`operation_worker.ml:577`), its
request may be dropped, and the baker is left with its timeouts until it is
restarted. It needs one branch when there are crashes: after a restart on the other branch a prequorum of round 0 moves
the lock back, the high watermark refuses the attestation, and no quorum is watched
until the next round; it also needs the absence of the fault `hwm`. So does
`WaitsInCurrentRound` (with `disk`). `QuorumMatchesBlock` needs the absence of
`inject`. `WaitsInCurrentRound` has an exception: once the block of the
next level is forged ahead, our own reproposal at a later round of the
current level is refused by the high watermark. `DepositsAccounted` says
where every deposit is, and `lost` is one of the places: the deposits whose messages
a failed run consumed or no run of their level read (`lost.deposits`), and the delayed
ones that left the delayed inbox without being executed (`lost.delayed`). `StaticIsPure`
leaves out balances. `TypeSoundness` exempts the panics of the type checker and of the
gas. `TicketsConserved` and `TicketsBacked` are upper bounds. `WithdrawalsPosted`
exempts the time after a failed run, `PayloadInOrder` an
iterator that another payload left behind, `NoLeftovers` the time after an abort
(`ImplementsTransactions` says what is seen then).

### Further hazards

Beside the hazards of `PROJECT.json`; the last column names the properties that
watch them, or says why none does.

| Where | What | Watched by |
|---|---|---|
| `lib_delegate/baking_state.ml:650` | An unreadable state file is ignored silently and the baker starts without its lock; only the high watermarks are left to prevent double signing | `NoDoubleSigning` |
| `lib_delegate/state_transitions.ml:861` | Two copies of the level state in one transition: the application flag set on one is lost with the other | none: Known divergence: the comment at src/src/proto_alpha/lib_delegate/state_transitions.ml:103 says the proposal stays marked as applied |
| `lib_delegate/state_transitions.ml:785` | An attestation quorum may be reached before the block is applied; the election waits in Awaiting_application | `QuorumMatchesBlock` |
| `lib_delegate/baking_state.ml:590` | A legal sequence of proposals after which the recorder refuses to write, so that the saved state falls behind | `LockCoversAttestations` |
| `lib_delegate/state_transitions.ml:700` | Voting goes on after a block is elected: the lock passes the elected block | `ForgedExtendsElected` |
| `lib_delegate/baking_scheduling.ml:647` | A restart on another branch than the one of the saved lock: proposal and lock belong to different branches, and a prequorum at a lower round replaces the lock in memory | `NoDoubleSigning` |
| `lib_delegate/baking_actions.ml:555` | The signer refuses for one delegate of several after the high watermarks of all were saved | `NoDoubleSigning` |
| `lib_delegate/baking_actions.ml:404` | A block is signed but its nonce cannot be saved: the block is dropped, its high watermark stays | `NoDoubleSigning` |
| `lib_delegate/baking_actions.ml:520` | When the high watermarks cannot be read or written the baker stays in Awaiting_preattestations with no watch, until the next round | `LockedImpliesAttestable` |
| `lib_delegate/baking_state.ml:796` | Once a block of the next level was proposed, no timeout of the current level is left to repropose | none: A liveness property of the whole network |
| `lib_delegate/baking_highwatermarks.ml:187` | Level and round order of the high watermarks at equality: one level up with a lower round, same level and round | `NoDoubleSigning` |
| `lib_delegate/state_transitions.ml:174` | Equality of prequorum rounds: >= for the attestable payload, < for the lock and the branch | `LockedImpliesAttestable`, `PreattestRule`, `LocksNeverRegress` |
| `lib_delegate/operation_worker.ml:334` | Two variants of a delegate's attestation delivered in one batch are both counted | none: Known divergence from the comment at src/src/proto_alpha/lib_delegate/operation_worker.ml:204 (such attestations are "considered equal"): new operations are compared with the ones received before the batch only |
| `lib_delegate/operation_worker.ml:577` | A failed RPC ends the worker's thread for ever while the automaton goes on asking it | none: `WorkerStops` and the worker's model have it, and `NeverDeaf` and `QuorumIsReported` exempt it |
| `lib_delegate/baking_scheduling.ml:199` | Blocks from the future wait for their timestamp in independent promises and may be processed out of the node's order | none: The model takes heads in the node's order |
| `lib_requester/requester.ml:587` | A fetch waits for the disk while another promise fills or clears the memory table | none: The requester is not modelled |
| `lib_requester/requester.ml:619` | notify waits for an event to be logged between the probe and the replacement of the pending entry, which may have been cancelled meanwhile: the value enters the table and the wakener is used again | none: The requester is not modelled |
| `lib_requester/requester.ml:384` | A pending request without peers while no peer is active: a random element of an empty set | none: The requester is not modelled |
| `src/lib.rs:193` | Running out of ticks in a nested precompile is a fatal error of its caller, not OutOfTicks: the refund the comment at this line promises does not happen | `SupplyConserved` |
| `src/blueprint_storage.rs:205` | A blueprint names a delayed hash that is not there after others were removed: the blueprint is dropped, the removed ones are gone | `DepositsAccounted` |
| `src/inbox.rs:358` | A message of the inbox changes the sequencer in the middle of a run that goes on with the configuration it read at its start | `ChainConsistent` |
| `src/storage.rs:641` | An account destroyed and created again loses the flag that says it is in the index, and is indexed twice | none: EtherlinkKernel has no self-destruction and EvmHandler no index |
| `src/apply.rs:202` | Nonce, balance and base fee checked when the transaction is applied, several transactions of one account in one block and over reboots | `BalancesMatchReceipts` |
| `src/simulation.rs:141` | parsable! inside a closure makes the closure return an error value: gas beyond 64 bits becomes Some(0), and a quantity of 0, which the node encodes as no bytes, becomes absent and is taken as unlimited | `SimulatesTheRequest` |
| `src/tx_common.rs:348` | A legacy transaction before EIP-155 without a signature is written with six fields, which the decoder does not take | none: Only unsigned transactions, which no code path of the kernel decodes |
| `src/block_in_progress.rs:371` | The receipt and the object of every transaction carry the type Legacy | none: What is read back is what was stored (ChainReadsBack) |
| `src/block_in_progress.rs:358` | Logs are numbered over the whole block, the offset is stored with a block in progress over reboots | `ChainReadsBack` |
| `src/typechecker.rs:1771` | APPLY does not ask for a pushable argument: a closure captures a big map that collect_big_maps (big_map.rs:483, "thus no big maps") does not find, so the map never reaches the lazy storage | none: no theme lets a closure capture a big map; for one `StorageReloads` does not hold |
| `src/typechecker.rs:935` | DIG n and DUG n on a stack of exactly n elements pass the length check and index past it | none: the panic is an outcome of the model that `TypeSoundness` exempts |
| `src/typechecker.rs:2276` | The gas runs out while the content of a ticket is checked: reported as an invalid value | none: An error either way |
| `serializer/encode.rs:58` | The annotations and the number of arguments choose the tag of a primitive; lengths and sign bits at their edges | `PackRoundTrip` |
| `src/csregisters.rs:772` | replace says "returning the previous value": for the registers other than mstatus and its view it reads the register after the write and returns the new value | `PrivilegeRespected` |
| `bus/main_memory.rs:150` | A misaligned address is rounded down and answers with the value at another address (the TODO) | `WritesAreLocal` |
| `bus/devices.rs:18` | The layout of the devices has no bytes and empty layouts are refused when they are placed | none: The model has the outcome (placing the devices fails) |
| `v1/verifiable.rs:119` | The public key is linked to the account before the signature is checked | none: The key has the hash of the account, so the link is right even when the signature is not |
| `transactions/process.rs:101` | No reboots are left in the middle of the cached messages: those that remain are dropped | none: that every message is processed does not hold; `TicketsBacked` is an upper bound |
| `transactions/process.rs:89` | message_next_stage marks a reboot without a look at the reboots left: the cached messages survive to the next level, whose inbox is then not read | `PayloadInOrder` |
| `src/lib.rs:96` | The DAL payload is processed instead of the inbox of its level, without a reboot | none: that inbox is not read, in the model as in the code |
| `external/dac_iterator.rs:253` | The saved position of a payload that could not be decoded stays, and the next message with that index is read from there | none: `PayloadInOrder` exempts it |
| `src/storage.rs:504` | The account counter has 16 bits and no check: after the last number two accounts share one | `TicketsBacked` |
| `transactions/process.rs:192` | An error of get_dac_committee leaves the cache as it is: every later run comes back to the same message | none: Only a kernel without its configured committee meets it |

### Bounds

In the baker, `MaxLevel` and `MaxRound` bound levels and rounds, `MaxStream` the
quorum events not consumed, `MaxEvents` those of the worker. Two payloads give a lock
and a conflicting proposal, the third in `branches` a conflict inside a branch. Three
rounds are the least in which a payload is locked, another one is proposed,
and the first comes back with a prequorum. Two levels show what is reset and what is
kept. One delegate signs: that more of them, of which some fail to sign, change nothing
is part of what is proved. The second head of the worker is the last one under which
`update_operations_pool` keeps the attestations of round 0. Payloads are symmetric where slots and branches do not
tell them apart; the runs with liveness use no symmetry.

`MaxDepth` 3 and `MaxCrashes` 1 let a transaction be opened over the remains of an
aborted one, on an empty and on a filled storage. `MaxSteps` 3 and `StackLimit` 3 give
a call in a call in a call; the gas limits are one that runs out and one that does
not. `kernel_runs` has transactions that fit in a run, in the next one, and in none,
and enough levels for an upgrade to be sent, applied and to fall back. In
`transactions` chunks are small enough that a request and a blueprint need
several, and `MaxBlocks` 2 gives a parent. In `tx_kernel` the numbers have few values
(`MaxU64`, `MaxI64`, `U16`), so that overflows and the wrap of the account counter
happen; `ChunkSize` 5 puts operations on and across the border of the halves. In
`michelson` mutez go to 9. The properties that are about a range therefore see its
edges.

`CHECK_DEADLOCK FALSE` where the bounds end the behaviours: the last round of the last
level, the last call, the last message. The runs `worker`, `evm_calls` and
`kernel_runs` check for deadlock.

### Fairness

Two runs assume any. `worker`: weak fairness of the worker's thread, an Lwt loop whose
promises are resolved by the node; neither the automaton's calls nor heads and
operations are assumed to happen, and `QuorumIsReported` allows for a thread that a
failed RPC ended. `kernel_runs`: weak fairness of the steps of a run and of the next
run (the rollup node executes the kernel at every level); what comes in the inbox is
not assumed.

## Proofs

Everything below holds for all constants that satisfy the named assumptions: any
delegates, payloads, slots, accounts, costs, values, depths and bounds. A
hypothesis beyond them is part of the theorem, is satisfied by the constants of a
passing run, and is listed with what goes wrong without it.

### Baker: types, locks, signatures (`BakerProofs`)

- `TypeCorrect`: `Spec => []TypeOK`;
- `LockedIsAttestable`: `Spec => []LockedImpliesAttestable`, the assertion of
  `propose_block_action` (line 551: without an attestable payload there is no lock);
- `NeverSignsTwice`: `Spec => []NoDoubleSigning`.

They follow from `Invariance`, `Spec => []IInv`. `IInv` adds to the three
`MarksCoverSigned`: every signature is covered by the high watermark of its
delegate. Without it `NoDoubleSigning` is not inductive: that two items differ
says nothing about what may be signed next. `LockedImpliesAttestable` is
stated of the file as well as of the memory, because a restart reads it.

The argument follows the code. Every operator of `StateTransitions` maps a good
state (typed, lock not ahead of the attestable payload) to a good state; recording
writes what is good; signing happens strictly above a mark, which is raised first;
and an action of the interpreter leaves the process dead, in the state of the
transition, or in the one of before the action that failed. `NextKeeps`
then has one step per action of `Next`.

### Baker: agreement (`BakerProofs`, second part)

`SafetyInvariance` is `Spec => [](IInv /\ SInv)`. `SInv` says of the memory (`Safe`,
`Owned`), of the state file (`SafeData`), of the events of the monitor still in the
stream, of the head, of the votes (`SignedOK`) and of the blocks (`InjectedOK`) what
each knows of the prequorums that happened (`certs`) and of the time that has
passed (`clock`). None of the theorems is inductive without the others: a lock comes
from an event, the event from a candidate, the candidate from a head that may be a
block of ours, proposed from the attestable payload, which a restart read in the file.
Both `certs` and `clock` only grow, so what was true of a lock stays true; this is
the first group of lemmas. Then each operator of the automaton, each action of the
interpreter and each event of the loop maps a safe state to a safe one.

| theorem | property | hypothesis |
|---|---|---|
| `PayloadsCertified` | `CertifiedPayloads` | none: every fault, any branches |
| `ForgedOnElected` | `ForgedExtendsElected` | none |
| `FirstBlockFinal` | `FirstBlockIsFinal` | `FirstLevel` |
| `PrequorumsGenuine` | `PrequorumsAreGenuine` | `Calm` |
| `WaitsInItsRound` | `WaitsInCurrentRound` | `OneBranch` |
| `LockCoversVotes` | `LockCoversAttestations` | `Recorded` |
| `NoRegress` | `LocksNeverRegress` | `SameStart` |
| `PreattestsByTheRule` | `PreattestRule` | `Calm`, `Recorded` |

- `FirstLevel`: the protocol starts at the first level of the model or before it. A
  baker that lived through earlier levels meets the first block as any other.
- `SameStart`: the predecessors a level is built on are all of one round, or the
  process does not restart. A round begins later on a branch whose predecessor is of
  a later round; a restart on such a branch may compute a round before the one of the
  lock it reads from the file, and lock again at that round.
- `Calm`: one branch, or `SameStart` and no failing synchronisation, state file or
  high-watermark file. A branch that was entered half-way leaves `current_round`
  behind the latest proposal; the block proposed next may then claim a prequorum of
  its own round.
- `OneBranch`: as `Calm`, but a change of branch alone already separates
  the round from the proposal.
- `Recorded`: `SameStart`, and the process does not crash or its state is recorded
  (`StateRecorder` is `Filesystem`, which is not the default), the state file is read,
  and the node is not behind it. Otherwise the lock is lost with the memory; only the
  high watermarks, which know no payload, are left.

### Operation worker (`OperationWorkerProofs`)

- `WorkerInvariance`: types, and that everything the worker holds was sent by the node.
- `MonitorImplemented`: `Spec => ImplementsMonitor`, the refinement of `QuorumMonitor`.
  Each step maps to a step or a stutter because the counter of the watch is the sum of
  the powers of the votes received (`Count`), through resets and repeated batches.
  Hypothesis `DistinctContents`: no two operations of a kind differ in their DAL
  content alone. Without it two variants in one batch are both counted (see the hazards).
- `QuorumInPool`: `Spec => []ReportedQuorumInPool`. The invariant `Pool` says it of the
  watch, of the events in the stream and of the batch in flight. Hypotheses: a
  payload determines its level (it is a hash that covers the predecessor), and
  `EarlierHeads`, since the flush compares the rounds of the head and of the
  operations across levels and a head of an earlier level at a late round
  would throw attestations away that came early.

### Kernel storage (`KernelStorageProofs`)

- `LeavesNothing`: `Spec => []NoLeftovers`;
- `TransactionsImplemented`: `Spec => ImplementsTransactions`, the refinement of
  `TransactionalStore`, with no hypothesis.

The inductive invariant: the store is well formed (paths closed under prefixes,
values only at nodes), the open layers are numbered `1 .. d`, and nothing is outside
of them before the first abort. The work is in the lemmas on paths: what `copy`, `move`
and `delete` of a subtree do to every path above, below and beside it, and
`WriteIsWhole`, that a write in chunks of the host's limit ends with the value, whole,
and stops at a prefix, or before there is any value, when aborted.

### EVM execution (`EvmHandlerProofs`)

`SupplyIsConserved`, `StaticCallsArePure` and `FailuresLeaveNoTrace` follow from one
`IInv`: in every layer the balances and what was burnt add up to the initial supply;
withdrawals in all layers are held by the withdrawal contract; above a static frame
the layers hold the same contracts, without logs and deletions (`Quiet`; balances may
differ, because CALLCODE moves value); there is one frame per layer, the
withdrawal contract runs no bytecode and no static frame creates; the bottom layer
is the world before the transaction less the fee. The last two parts are why a revert
at any depth ends in the state a caller expects, and why a refund is never more than
what was paid. Hypothesis `HashedAddresses`: an address computed by CREATE is an
account and not a precompiled contract (addresses are hashes; a contract at the
address of the withdrawal contract would break `WithdrawalsBacked`).

### Etherlink kernel (`EtherlinkKernelProofs`)

| theorem | property |
|---|---|
| `ChainStaysConsistent` | `ChainConsistent` |
| `BalancesStayAccounted` | `BalancesMatchReceipts` |
| `WithdrawalsStayPosted` | `WithdrawalsPosted` |
| `DepositsWaitOnce` | `Deposited(evm, evm.bip, <<>>)` |
| `KernelReadsStorage` | `KernelMatchesStorage` |

The hypothesis of all five is `MessagesOK`: the messages of a level are sequences of
well-typed ones (`WellTyped`; TLC evaluates `MessagesTyped` on those of `kernel_runs`).
`KernelReadsStorage` has one more, `UpgradesStepwise`: an upgrade that may be activated
is to a kernel of the same format of the storage or of the next. The kernel does not
check it: after an upgrade over two versions `MustMigrate` is false and the new
kernel reads a storage it does not know.

`BaseInv` is what the steps need to be defined: the run, the inbox and the content are
records of the right shape, blueprints are well formed. `IInv` then says that the
storage is `Sound` between runs, and that the copy is `Sound` during a run with the
block the run works on (in memory or stored) and the transactions it has read. `Sound` is

- `Links`, `Indexed`, `Receipted`: the chain with the block in progress as its last,
  unfinished element. During a run this block is in memory only, and it must be the one
  the receipts in the copy belong to;
- `Balanced`: the sum of the balances, with the fees at `BaseFee`;
- `NoncesGrow`: the nonce of the caller of an executed transaction is past it;
- `Deposited`: every deposit has a nonce below `deposit_nonce` and waits at most
  once, and not after it has its receipt.

The last two are there because receipts are stored under hashes: a transaction executed
twice would replace its first receipt, and none of the properties would survive. An
Ethereum transaction is refused the second time by its nonce. Nothing refuses a
deposit, so the invariant follows it from the message over the content, the blueprint or
the delayed inbox and the queue to the receipt; an inbox blueprint is dropped with its block
and the block in progress comes first in the next run, which is why it is not read
again. `Posted` relates the outbox, which is not part of the copy, to the receipts of the
copy during a run and of the storage between runs; a failed run separates the two.

The lemmas are about the loops of `fetch` (`FoldLeft` as a table of its intermediate
states), about the concatenation of the blocks (`FlattenSeq`), about the linked
list as a set of kept elements, and a frame for every operation on the storage (`Only`
names the keys it may change). TLC checked `IInv` on all states of `kernel_runs`.

### RISC-V machine state (`MachineStateProofs`)

| theorem | property |
|---|---|
| `MachineInvariantHolds` | the invariant below |
| `RegistersStayLegal` | `FieldsLegal` |
| `PrivilegeIsRespected` | `PrivilegeRespected` |
| `StoresAreLocal` | `WritesAreLocal` |

`MachineInvariant`: before a state is placed the storage is empty; afterwards the places
are the ones the layout determines, and on a hart every control register holds a
value that a write would let through again. `FieldsLegal` alone is not inductive: a
write keeps the read-only bits and the refused fields of the old value, so it says
something about the new value only if the old one was legal in the same sense.

The argument: where the choreographer puts every location and that no two overlap; what
the bit-level reads and writes of a region return and leave alone, through the views of
the memory at any address (a misaligned one is rounded down) too; that the write of a
register is seen by the reads of this register, and of its view in the case of `mstatus`
and `sstatus`, and by no other; that what masking and legalisation let through they
let through again (`WritableAgain`); then what each operation does. This holds for any
themes, any memory of whole double words and any sequence of instructions.

### Simulation (`SimulationProofs`)

- `AnswersAgree`: `Spec => []AnswerAgrees`, the first part of `ValidationAgrees`. What the
  node is told of a transaction is what its application in the same state would
  say, for the same caller. Validation refuses a nonce that is lower than the
  account's and application one that differs from it; that one includes the other needs
  accounts whose nonces are numbers, which is the invariant: no reboot, deposit,
  transfer or creation leaves anything else.
- `RequestsAreSimulated`: `Spec => []SimulatesTheRequest`, with no hypothesis. The invariant
  `RInv`: the request is nothing, or a payload that a user's transaction or call was
  encoded to, with an inbox of its own messages in any order and any number of times
  (which covers the lost and the displaced chunk); what was read of it is nothing or
  the decoding of the payload.

The second one goes through both encodings. Chunks concatenate to the payload and their
numbers fit in two bytes; every message parses as what it was sent as, and not as
another kind; so an inbox from which `parse_inbox` reads anything had the chunks whole
and in order (`ReadWhole`). The reader of RLP is a table over the positions of its
input (`Reads`, `Item`): a value of any length, in short or long form, is one item,
and the six fields of a call are read as six. Quantities round trip in little endian
for every width `WidthAssumption` allows. For a gas of 0 and for one beyond 64 bits the
theorem says what the code does (see *Further hazards*), not what a caller may expect.

### Sums (`SumLemmas`)

The library's induction theorems take an operator and cannot be used. The existence of
a minimal element in a set of finite subsets (`LeastSubset`, from the library's
well-foundedness theorem) can, and is enough for sums over finite sets and for the
numbers up to a bound: what a sum is after an element is added, removed or changed,
and that it grows with its terms. Powers of votes, balances and chunks of a write
are proved with it. A recursive function is handled in the same way: exhibit
its table of values, and show by the least index where it could differ that it is the
function (`UpTo`).

### Assumptions

`BoundsAssumption`, `ChainAssumption`, `SlotsAssumption`, `FaultsAssumption`,
`StateRecorderAssumption` (baker),
`VotesAssumption`, `WatchAssumption` (worker), `StorageAssumption` (storage),
`AddressAssumption`, `ValueAssumption` and `CostAssumption` (EVM), `TxAssumption`,
`BlueprintAssumption`, `AccountAssumption`, `CostAssumption`, `KernelAssumption` and
`WeiAssumption` (Etherlink kernel) give the constants their types; hashes of
transactions are no nonces of deposits. `LEN8Assumption` (a memory of whole double words)
and `ThemesAssumption` (register numbers, values and modes that exist) are those of
the RISC-V machine. `WidthAssumption` (words wider than longs, of at most three bytes:
the range in which the model computes them), `GenesisAssumption`,
`RequestsAssumption` (a request has no more chunks than two bytes can number) and
`CallsAssumption` are those of the simulation. `NoneAssumption` and `NoFileAssumption` say that `None` is
not a value of any type it is added to. TLC evaluates them in the runs of these modules.

### Only model-checked

- `QuorumMatchesBlock` and `NeverDeaf` of the baker: they hold in the runs but not for
  all constants (a block baked for the next level at a later round; several blocks of
  ours refused in a row), and no hypothesis that the code justifies was found.
- Liveness (`QuorumIsReported` and the temporal properties of `kernel_runs`):
  fairness is out of the prover's reach.
- `DepositsAccounted` of the Etherlink kernel: no deposit is in two places
  (`DepositsWaitOnce`), but that each is in one, or counted as lost, does not hold for all constants. A chunk
  of a sequencer's blueprint with the number of an inbox blueprint takes its place, when
  a sequencer is named while one waits; and a push to the delayed inbox may save
  the cached pointer of an element again that was removed (see the finding on the list),
  which the property counts.
- The delayed inbox list, whose run shows the finding.
- Of the simulation, the second part of `ValidationAgrees` (why an accepted transaction
  is refused later) and `ChainReadsBack`: they need the round trips of RLP lists of any
  length, nested, through blueprints, blocks and reboots, and a hash without
  collisions, which the digest of the model is on the inputs of the run only.
- The Michelson interpreter and the demonstration kernel (`TypeSoundness`,
  `PackRoundTrip`, `TicketsConserved`, `StorageReloads`, `DumpPreserves`, `TicketsBacked`,
  `PayloadInOrder`, `WireFaithful`): their modules use recursive operators, which
  the prover does not take, on values nested to any depth.

## Plan

Modelled: the parts of the inventory. Proved: the baker, its worker, the storage
of kernels, EVM execution, the Etherlink kernel, the RISC-V machine state, and the
requests and verdicts of the simulation. Next, the delayed inbox list (what it keeps in
spite of its stale pointer) and the chain that the simulation's module stores.
