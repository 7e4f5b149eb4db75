------------------------------ MODULE TxKernel ------------------------------
(* The transactions kernel: it caches the messages of a level and then     *)
(* executes them over as many runs as the machine grants it reboots.       *)
(*                                                                         *)
(* store is the durable storage without the accounts, ledger the accounts. *)
(* rollup is what the machine keeps: the level, the messages not read yet, *)
(* the reboots left, and where the kernel is.  run is the memory of one    *)
(* run of the kernel, lost at its end.  outbox is the outbox, as bytes.    *)
(* theme never changes: the operations there are and their sizes, the      *)
(* preimages the host knows, the DAL pages, the inboxes a level may have   *)
(* and how often the machine reboots in a level.                           *)
(* hist is history: what was deposited, and how an iteration ended.        *)
EXTENDS TxLedger, DacPages, FiniteSets

CONSTANTS Themes,                    \* the settings that are explored
          RollupAddress,             \* reveal_metadata
          MAX_ENVELOPE_CONTENT_SIZE,
          CommitteeSize,             \* keys below /kernel/dac.committee
          TRANSACTIONS_PER_KERNEL_RUN,
          PageSize, NumPages,        \* page_size and num_pages of the DAL
          MaxLevel                   \* bound: levels

VARIABLES store, ledger, rollup, run, outbox, theme, hist
vars == <<store, ledger, rollup, run, outbox, theme, hist>>

\* A message as the bytes of the inbox; some are bytes that are no message.
Raw(bytes) == [kind |-> "Raw", bytes |-> bytes]
Wire(m) == IF m.kind = "Raw" THEN m.bytes ELSE serialize(m)

\* The type of the transfers that this kernel takes: an address and a ticket.
DepositType == MichelsonPair(MichelsonString, StringTicket)

\* ContractTz1Hash::from_b58check
TZ1 == 116
b58check(address) == <<TZ1, address>>
IsAddress(string) == Len(string) = 2 /\ string[1] = TZ1 /\ string[2] \in Addresses
--------------------------------------------------------------------------------
(* The machine.                                                            *)
NoRun == [counter |-> 0, seen |-> FALSE, idx |-> 0, budget |-> 0, iter |-> <<>>]
EmptyStore == [cache |-> <<>>, stages |-> <<>>, progress |-> Absent, payloads |-> <<>>,
               iterators |-> <<>>, slot_index |-> Absent, dal |-> <<>>]

Init ==
    /\ store = EmptyStore /\ ledger = EmptyLedger /\ run = NoRun /\ outbox = <<>>
    /\ rollup = [level |-> 0, inbox |-> <<>>, reboots |-> 0, pc |-> "idle"]
    /\ theme \in Themes
    /\ hist = [deposited |-> <<>>, ended |-> <<>>]

\* The level is over; what the kernel did not read of its inbox is gone.
NextLevel ==
    /\ rollup.pc = "idle" /\ rollup.level < MaxLevel
    /\ \E messages \in theme.inboxes :
           rollup' = [level |-> rollup.level + 1, reboots |-> theme.max_reboots, pc |-> "entry",
                      inbox |-> <<StartOfLevel, InfoPerLevel(rollup.level, 9)>> \o messages
                                \o <<EndOfLevel>>]
    /\ hist' = [hist EXCEPT !.ended = <<>>]
    /\ UNCHANGED <<store, ledger, run, outbox, theme>>

\* The kernel returns; it runs again if it asked for a reboot and one is left.
Return(reboot) ==
    /\ rollup' = IF reboot /\ rollup.reboots > 0
                 THEN [rollup EXCEPT !.reboots = @ - 1, !.pc = "entry"]
                 ELSE [rollup EXCEPT !.pc = "idle"]
    /\ run' = NoRun
Goto(pc) == rollup' = [rollup EXCEPT !.pc = pc]
--------------------------------------------------------------------------------
(* Executing operations.                                                   *)

\* process_withdrawals
process_withdrawals(out, withdrawals) ==
    IF withdrawals = <<>> THEN out ELSE Append(out, OutboxMessage_bin_write(withdrawals))

\* One operation, and its withdrawals; a failure keeps what was written.
ExecuteOne(state, op) ==
    LET done == execute(state.ledger, op)
    IN  [ledger |-> done.ledger,
         outbox |-> IF done.ok THEN process_withdrawals(state.outbox, done.value) ELSE state.outbox]

process_batch_message(state, operations) ==
    LET One(s, i) == ExecuteOne(s, theme.ops[i]) IN FoldLeft(One, state, operations)

ExecuteAll(operations) ==
    LET after == process_batch_message([ledger |-> ledger, outbox |-> outbox], operations)
    IN  ledger' = after.ledger /\ outbox' = after.outbox
--------------------------------------------------------------------------------
(* transactions_run                                                        *)

\* MessageStage of a cached message.
Stage(idx) == IF idx \in DOMAIN store.stages THEN store.stages[idx] ELSE "start"

\* IteratorState::load: the state a former run stored, or a new one.
load(idx) == IF idx \in DOMAIN store.iterators THEN store.iterators[idx]
             ELSE IteratorState_new(store.payloads[idx])

\* There are cached messages: execute_one_operation.
ResumeCached ==
    /\ rollup.pc = "entry" /\ store.cache # <<>>
    /\ LET idx == IF store.progress = Absent THEN 0 ELSE store.progress
       IN  /\ Goto(Stage(idx))
           /\ run' = [NoRun EXCEPT !.idx = idx, !.budget = TRANSACTIONS_PER_KERNEL_RUN,
                                   !.iter = IF Stage(idx) = "revealed" THEN load(idx) ELSE <<>>]
    /\ UNCHANGED <<store, ledger, outbox, theme, hist>>

\* There is a DAL payload: execute it in this run, and do not ask for another.
RunDal ==
    /\ rollup.pc = "entry" /\ store.cache = <<>> /\ store.dal # <<>>
    /\ LET batch == ParsedBatch_parse(theme.sizes, store.dal)
       IN  IF batch.ok THEN ExecuteAll(batch.value) ELSE UNCHANGED <<ledger, outbox>>
    /\ store' = [store EXCEPT !.dal = <<>>]
    /\ Return(FALSE)
    /\ UNCHANGED <<theme, hist>>

StartFilter ==
    /\ rollup.pc = "entry" /\ store.cache = <<>> /\ store.dal = <<>>
    /\ Goto("filter") /\ run' = NoRun
    /\ UNCHANGED <<store, ledger, outbox, theme, hist>>

\* The inbox is read: reboot, unless there was none.
FinishFilter ==
    /\ rollup.pc = "filter" /\ rollup.inbox = <<>>
    /\ Return(run.seen)
    /\ UNCHANGED <<store, ledger, outbox, theme, hist>>
--------------------------------------------------------------------------------
(* filter_inbox_message                                                    *)

\* store_dal_slot: the buffer is written whole, whatever the size of the page.
RECURSIVE StorePages(_, _, _, _)
StorePages(pages, index, buffer, value) ==
    IF index = NumPages \/ pages = <<>> \/ pages[1] = <<>> THEN value
    ELSE LET filled == pages[1] \o After(buffer, Len(pages[1]))
             written == SubSeq(value, 1, index * PageSize) \o filled
                        \o After(value, (index + 1) * PageSize)
         IN  StorePages(Tail(pages), index + 1, filled, written)
store_dal_slot(pages, value) == StorePages(pages, 0, [ i \in 1 .. PageSize |-> 0 ], value)

get_or_set_slot_index(default) == IF store.slot_index = Absent THEN default ELSE store.slot_index

\* With the feature dal, the beginning of a level fetches the slot.
FilterStartOfLevel ==
    /\ store' = IF theme.feature_dal
                THEN [store EXCEPT !.slot_index = get_or_set_slot_index(0),
                                   !.dal = store_dal_slot(theme.slots[get_or_set_slot_index(0)], @)]
                ELSE store
    /\ UNCHANGED <<ledger, hist>>

\* A transfer to this rollup is a deposit, if its string is an address.
Deposit(destination, ticket) ==
    LET done == deposit_ticket_to_storage(ledger, destination, ticket)
        hash == TicketHash(ticket)
        before == IF hash \in DOMAIN hist.deposited THEN hist.deposited[hash] ELSE 0
    IN  /\ ledger' = done.ledger
        /\ hist' = IF done.ok
                   THEN [hist EXCEPT !.deposited = (hash :> before + done.value) @@ @] ELSE hist
FilterTransfer(m) ==
    /\ IF m.destination = RollupAddress /\ IsAddress(m.payload.value.args[1].value)
       THEN Deposit(m.payload.value.args[1].value[2], m.payload.value.args[2])
       ELSE UNCHANGED <<ledger, hist>>
    /\ UNCHANGED store

\* An external message for this rollup is cached, to be processed after a reboot.
FilterExternal(frame) ==
    /\ store' = IF frame.ok /\ frame.value.address = RollupAddress
                THEN [store EXCEPT !.cache = (run.counter :> frame.value.contents) @@ @] ELSE store
    /\ run' = [run EXCEPT !.seen = TRUE,
                          !.counter = IF frame.ok /\ frame.value.address = RollupAddress
                                      THEN @ + 1 ELSE @]
    /\ UNCHANGED <<ledger, hist>>

FilterOther == UNCHANGED <<store, ledger, hist>>

FilterParsed(read) ==
    CASE ~read.ok -> FilterOther /\ run' = [run EXCEPT !.seen = TRUE]
      [] read.ok /\ read.value.kind = "StartOfLevel" ->
             FilterStartOfLevel /\ run' = [run EXCEPT !.seen = TRUE]
      [] read.ok /\ read.value.kind = "Transfer" ->
             FilterTransfer(read.value) /\ run' = [run EXCEPT !.seen = TRUE]
      [] read.ok /\ read.value.kind \in {"EndOfLevel", "InfoPerLevel"} ->
             FilterOther /\ run' = [run EXCEPT !.seen = TRUE]
      [] read.ok /\ read.value.kind = "External" ->
             FilterExternal(ExternalMessageFrame_parse(read.value.bytes))

FilterMessage ==
    /\ rollup.pc = "filter" /\ rollup.inbox # <<>>
    /\ rollup' = [rollup EXCEPT !.inbox = Tail(@)]
    /\ FilterParsed(parse(DepositType, Wire(rollup.inbox[1])))
    /\ UNCHANGED <<outbox, theme>>
--------------------------------------------------------------------------------
(* make_decision: what becomes of the cached message idx.                  *)
Without(f, x) == [ y \in DOMAIN f \ {x} |-> f[y] ]

\* cleanup: /kernel/state is deleted, not the payloads and the iterators.
cleanup(s) == [s EXCEPT !.cache = <<>>, !.stages = <<>>, !.progress = Absent]

\* next_message_or_next_level: the messages that are left when no reboot is
\* left are dropped.
next_message_or_next_level(s) ==
    IF run.idx + 1 \in DOMAIN s.cache /\ rollup.reboots > 0
    THEN /\ store' = [s EXCEPT !.progress = run.idx + 1]
         /\ Return(TRUE)
    ELSE /\ store' = cleanup(s)
         /\ Return(FALSE)

\* message_next_stage asks for a reboot, whether one is left or not.
message_next_stage(s, stage) ==
    /\ store' = [s EXCEPT !.stages = (run.idx :> stage) @@ @]
    /\ Return(TRUE)

\* ParsedExternalInboxMessage::parse: ChangeDalSlot is never parsed.
BatchTag == 1
DacTag == 0
AsOpList(batch) ==
    IF batch.ok THEN Parsed(batch.rest, [kind |-> "OpList", operations |-> batch.value]) ELSE Failed
AsDac(certificate) ==
    IF certificate.ok THEN Parsed(certificate.rest, [kind |-> "DAC", certificate |-> certificate.value])
    ELSE Failed
ParsedExternal_parse(input) ==
    CASE input = <<>> -> Failed
      [] input # <<>> /\ input[1] = BatchTag -> AsOpList(ParsedBatch_parse(theme.sizes, Tail(input)))
      [] input # <<>> /\ input[1] = DacTag -> AsDac(V0Certificate_nom_read(Tail(input)))
      [] input # <<>> /\ input[1] \notin {BatchTag, DacTag} -> Failed

\* parse_external: bytes that remain are ignored.
parse_external(read) == IF read.ok THEN read.value ELSE [kind |-> "unparsable"]

\* What of a value fits into the buffer, however large the chunks it is read in.
read_large_store_chunk(value) == store_read_slice(value, 0, MAX_ENVELOPE_CONTENT_SIZE)

get_cached_message(idx) == parse_external(ParsedExternal_parse(read_large_store_chunk(store.cache[idx])))

\* The keys of the committee; the threshold is all of them.
get_dac_committee == CommitteeSize

StartBatch(message) ==
    /\ message.kind = "OpList"
    /\ ExecuteAll(message.operations) /\ next_message_or_next_level(store)
\* dac_committee.len() as u8
threshold == get_dac_committee % 256
StartCertificate(message) ==
    /\ message.kind = "DAC"
    /\ IF verify(message.certificate, get_dac_committee, threshold)
       THEN message_next_stage(store, "verified") ELSE next_message_or_next_level(store)
    /\ UNCHANGED <<ledger, outbox>>
StartUnparsable(message) ==
    /\ message.kind = "unparsable"
    /\ next_message_or_next_level(store) /\ UNCHANGED <<ledger, outbox>>
process_at_start(message) ==
    \/ StartBatch(message)
    \/ StartCertificate(message)
    \/ StartUnparsable(message)
ProcessAtStart ==
    /\ rollup.pc = "start"
    /\ process_at_start(get_cached_message(run.idx))
    /\ UNCHANGED <<theme, hist>>

\* process_verified: the pages of the payload are revealed into the store.
reveal_and_store_dac_message(revealed) ==
    [store EXCEPT !.payloads = (run.idx :> revealed.content) @@ @]
process_verified(revealed) ==
    IF revealed.ok THEN message_next_stage(reveal_and_store_dac_message(revealed), "revealed")
    ELSE next_message_or_next_level(reveal_and_store_dac_message(revealed))
ProcessVerified ==
    /\ rollup.pc = "verified"
    /\ process_verified(reveal_to_store(theme.preimages, get_cached_message(run.idx).certificate.root))
    /\ UNCHANGED <<ledger, outbox, theme, hist>>

\* process_revealed, one operation of the payload after the other.
Stale(iter) == iter.source # store.payloads[run.idx]
Ended(step) == [hist EXCEPT !.ended = <<[how |-> step.kind, iter |-> step.iter,
                                         stale |-> Stale(step.iter)]>>]
DeliverOperation(step) ==
    /\ step.kind = "operation"
    /\ run' = [run EXCEPT !.iter = step.iter, !.budget = @ - 1]
    /\ ExecuteAll(<<step.op>>)
    /\ UNCHANGED <<store, rollup, hist>>
FinishPayload(step) ==
    /\ step.kind = "end"
    /\ next_message_or_next_level([store EXCEPT !.iterators = Without(@, run.idx)])
    /\ hist' = Ended(step) /\ UNCHANGED <<ledger, outbox>>
\* An operation that does not parse: the iterator of a former run stays stored.
AbandonPayload(step) ==
    /\ step.kind = "error"
    /\ next_message_or_next_level(store)
    /\ hist' = Ended(step) /\ UNCHANGED <<ledger, outbox>>
PanicOnPayload(step) ==
    /\ step.kind = "panic"
    /\ Goto("panicked") /\ hist' = Ended(step)
    /\ UNCHANGED <<store, run, ledger, outbox>>
process_revealed(step) ==
    \/ DeliverOperation(step)
    \/ FinishPayload(step)
    \/ AbandonPayload(step)
    \/ PanicOnPayload(step)
ProcessRevealed ==
    /\ rollup.pc = "revealed" /\ run.budget > 0
    /\ process_revealed(IteratorState_next(theme.sizes, run.iter, store.payloads[run.idx]))
    /\ UNCHANGED theme

\* IteratorState::persist, and a reboot to go on.
PersistIterator ==
    /\ rollup.pc = "revealed" /\ run.budget = 0
    /\ message_next_stage([store EXCEPT !.iterators = (run.idx :> run.iter) @@ @], "revealed")
    /\ UNCHANGED <<ledger, outbox, theme, hist>>

Next ==
    \/ NextLevel
    \/ ResumeCached \/ RunDal \/ StartFilter \/ FilterMessage \/ FinishFilter
    \/ ProcessAtStart \/ ProcessVerified \/ ProcessRevealed \/ PersistIterator
Spec == Init /\ [][Next]_vars
--------------------------------------------------------------------------------
(* Properties.                                                             *)
SumOver(f, S) == FoldSet(LAMBDA x, acc : acc + f[x], 0, S)

\* The amount of a ticket in all accounts together, and what the outbox lets
\* the first layer pay out of it.
Held(hash) ==
    IF hash \notin DOMAIN ledger.ticketIds THEN 0
    ELSE SumOver([ a \in Addresses |-> ticket_amount(ledger.accounts[a], ledger.ticketIds[hash]) ],
                 Addresses)
Batch(bytes) == OutboxMessage_nom_read(StringTicket, bytes).value
PaidBy(batch, hash) ==
    SumOver([ i \in DOMAIN batch |->
                IF TicketHash(batch[i].parameters) = hash THEN amount_as(batch[i].parameters) ELSE 0 ],
            DOMAIN batch)
PaidOut(hash) == SumOver([ i \in DOMAIN outbox |-> PaidBy(Batch(outbox[i]), hash) ], DOMAIN outbox)

\* No ticket is made in the kernel: whatever operations come, replayed, cut off
\* by an error after some of their writes, or addressing tickets by number,
\* what the accounts hold and what the outbox pays out was deposited.
TicketsBacked ==
    \A hash \in DOMAIN ledger.ticketIds \union DOMAIN hist.deposited :
        Held(hash) + PaidOut(hash)
            <= (IF hash \in DOMAIN hist.deposited THEN hist.deposited[hash] ELSE 0)

\* The operations that a payload begins with, read at once.
Leading(payload) == Operations(theme.sizes, After(payload, 4))
Short(payload) == \A i \in Range(Leading(payload).value) : theme.sizes[i] <= ChunkSize
DeliversInOrder(iter) == IsPrefix(iter.delivered, Leading(iter.source).value)

MaxDepth == 4

\* What is revealed is the payload that was prepared, and the pages visited
\* level by level give the same bytes as the pages visited in depth.
\* A payload that is read in halves of a buffer, over several runs, gives the
\* operations it consists of, in order, each once: none is skipped, repeated or
\* read across the border of two others.  It ends with all of them delivered,
\* and when it is given up for an operation that does not parse, all before
\* that one were; no panic unless the payload is shorter than its header.
\* An iterator that was left behind by another payload is no part of this.
PayloadInOrder ==
    /\ run.iter # <<>> => Stale(run.iter) \/ DeliversInOrder(run.iter)
    /\ \A i \in DOMAIN hist.ended : hist.ended[i].stale \/
           LET iter == hist.ended[i].iter
               leading == Leading(iter.source)
           IN  CASE hist.ended[i].how = "end" -> iter.delivered = leading.value /\ leading.rest = <<>>
                 [] hist.ended[i].how = "error" -> Short(iter.source) => iter.delivered = leading.value
                 [] hist.ended[i].how = "panic" -> Len(iter.source) < 4
    /\ rollup.pc = "revealed" =>
           /\ store.payloads[run.idx] \in Range(theme.contents)
           /\ reveal_loop(theme.preimages, MaxDepth, get_cached_message(run.idx).certificate.root)
                  = Parsed(<<>>, store.payloads[run.idx])

\* The types of the transfers that the kernels of this repository take: this
\* one, the one of Etherlink, and the ones in the tests of the SDK.
KernelTypes ==
    {DepositType, MichelsonUnit, MichelsonOption(MichelsonInt),
     MichelsonOr(MichelsonOr(MichelsonPair(MichelsonBytes, FA2_1Ticket), MichelsonBytes), MichelsonBytes)}

ReadsBack(read, bytes) ==
    read.ok /\ read.rest = <<>> /\ OutboxMessage_bin_write(read.value) = bytes
ReadsAs(m, bytes) ==
    \A type \in KernelTypes \union {AnyNode} :
        parse(type, bytes) = IF m.kind = "Transfer" /\ ~HasShape(type, m.payload) THEN Failed
                             ELSE Parsed(<<>>, m)

\* What the first layer writes is what the kernel reads, with nothing left
\* over: every message parses, as any expression, to itself, and as the type of
\* a kernel exactly if its expression has that type.  And what the kernel
\* writes into the outbox is what the first layer reads.
WireFaithful ==
    /\ \A i \in DOMAIN rollup.inbox :
           rollup.inbox[i].kind # "Raw" => ReadsAs(rollup.inbox[i], serialize(rollup.inbox[i]))
    /\ \A i \in DOMAIN outbox :
           ReadsBack(OutboxMessage_nom_read(StringTicket, outbox[i]), outbox[i])

\* The variables have their types.
TypeOK ==
    /\ DOMAIN store.cache \subseteq Nat /\ DOMAIN store.stages \subseteq DOMAIN store.cache
    /\ rollup.reboots \in 0 .. theme.max_reboots /\ rollup.level \in 0 .. MaxLevel
    /\ rollup.pc \in {"idle", "entry", "filter", "start", "verified", "revealed", "panicked"}
================================================================================
