----------------------------- MODULE EvmHandler -----------------------------
(***************************************************************************)
(* The EVM of the Etherlink kernel (kernel_evm/evm_execution): how the     *)
(* handler runs one Ethereum transaction, the calls and contract creations *)
(* nested in it, their layers of account storage, gas, ticks, logs,        *)
(* withdrawals and self-destructed contracts, and how run_transaction      *)
(* charges the caller.                                                     *)
(*                                                                         *)
(* The bytecode is left open: an executing frame takes any of the opcodes  *)
(* the handler takes part in, in any order.  The EVM itself (SputnikVM) is *)
(* external: it checks and charges an opcode through pre_validate before   *)
(* it runs it, and ends the frame that called when the callee ended in a   *)
(* fatal error.  The account storage is the stack of storages that module  *)
(* KernelStorage shows the layers to be: worlds[1] is the original one.    *)
(***************************************************************************)
EXTENDS Integers, Sequences, SequencesExt, FiniteSets, FiniteSetsExt

CONSTANTS Accounts,          \* every address
          Senders,           \* addresses of externally owned accounts
          Withdraw,          \* the precompile that withdraws to layer 1
          precompile_set,    \* the kind of each precompiled contract
          Fresh(_, _),       \* CREATE: the address from the caller and its nonce
          Fixed,             \* CREATE2: the address
          InitialWorld,      \* the accounts before the first transaction
          GasLimits,         \* gas limits of transactions, NoLimit included or not
          NoLimit,           \* a transaction or a frame without gas accounting
          GasPrice,          \* effective gas price
          StackLimit,        \* config.stack_limit
          BaseCost,          \* intrinsic cost of a transaction
          OpcodeCost,        \* gas of an opcode
          TransferCost,      \* gas a call pays for a transfer of value
          CallStipend,       \* config.call_stipend
          DepositCost,       \* gas for storing the code of a new contract
          PrecompileGas,     \* gas of a precompile
          PrecompileTicks,   \* ticks of a precompile
          Divisor,           \* EIP-150: a call leaves 1/64 of the gas
          TicksAllocated,    \* handler.ticks_allocated
          MaxSteps,          \* bound: opcodes in one transaction
          MaxTransactions    \* bound: transactions

ASSUME CostAssumption ==
  /\ {GasPrice, StackLimit, BaseCost, OpcodeCost, TransferCost, CallStipend,
      DepositCost, PrecompileGas, PrecompileTicks, TicksAllocated} \subseteq Nat
  /\ Divisor \in Nat \ {0}
  /\ CallStipend <= TransferCost   \* 2300 and 9000 in every configuration
  /\ DOMAIN precompile_set \cup Senders \subseteq Accounts
  /\ {a \in DOMAIN precompile_set : precompile_set[a] = "withdrawal"} = {Withdraw}
  /\ \A a \in DOMAIN precompile_set :
       precompile_set[a] \in {"hash", "ecrecover", "modexp", "curve", "pairing", "withdrawal"}

VARIABLES worlds,    \* evm_account_storage: the layers, worlds[1] the original
          data,      \* transaction_data: one record for each layer above it
          frames,    \* the EVM frame of each layer
          result,    \* how the top frame ended, "running" while it executes
          ticks,     \* estimated_ticks_used
          tx,        \* the transaction that runs
          outcome,   \* what run_transaction returned last
          burnt,     \* history: fees and balances of deleted contracts
          paidOut,   \* history: withdrawals of successful transactions
          steps, count

vars == <<worlds, data, frames, result, ticks, tx, outcome, burnt, paidOut, steps, count>>
history == <<burnt, paidOut>>

Idle == frames = <<>>
Top == Len(frames)
World == worlds[Len(worlds)]
stack_depth == Len(worlds) - 1
NoTx == [caller |-> "none", limit |-> 0, before |-> InitialWorld]

TypeOK ==
  /\ \A k \in 1 .. Len(worlds) :
       worlds[k] \in [Accounts -> [balance : Nat, nonce : Nat, code : BOOLEAN, slot : Nat]]
  /\ \A k \in 1 .. Len(data) : data[k].static \in BOOLEAN /\ data[k].deleted \subseteq Accounts
  /\ result \in {"running", "succeed", "suicided", "revert", "error", "fatal",
                 "err_ticks", "err_precompile", "wrapped_ticks", "wrapped_precompile"}
  /\ steps \in 0 .. MaxSteps
  /\ count \in 0 .. MaxTransactions

-----------------------------------------------------------------------------
(* Accounts.                                                               *)

EmptyAccount == [balance |-> 0, nonce |-> 0, code |-> FALSE, slot |-> 0]

balance_add(w, a, amount) == [w EXCEPT ![a].balance = @ + amount]
can_remove(w, a, amount) == w[a].balance >= amount
balance_remove(w, a, amount) == [w EXCEPT ![a].balance = @ - amount]
increment_nonce(w, a) == [w EXCEPT ![a].nonce = @ + 1]
set_storage(w, a, v) == [w EXCEPT ![a].slot = v]
set_code(w, a) == [w EXCEPT ![a].code = TRUE]
delete_contracts(w, dead) == [a \in Accounts |-> IF a \in dead THEN EmptyAccount ELSE w[a]]

\* Mutant of execute_transfer: the credit is computed before the debit.
Mut_execute_transfer(w, from, to, value) ==
  [balance_remove(w, from, value) EXCEPT ![to].balance = w[to].balance + value]

\* Nothing to do for a value of zero; otherwise the sender needs the funds.
transfer_possible(w, from, value) == value = 0 \/ can_remove(w, from, value)
execute_transfer(w, from, to, value) ==
  IF value = 0 THEN w ELSE balance_add(balance_remove(w, from, value), to, value)

is_colliding(w, a) == w[a].code \/ w[a].nonce # 0

Total(w) == SumFunction([a \in Accounts |-> w[a].balance])

-----------------------------------------------------------------------------
(* Gas and ticks.  A gasometer that failed counts all its gas as used.     *)

Gasometer(limit) == [limit |-> limit, used |-> 0]
gas_used(g) == IF g.limit = NoLimit THEN 0 ELSE g.used
gas_remaining(g) == IF g.limit = NoLimit THEN 0 ELSE g.limit - g.used
affordable(g, cost) == g.limit = NoLimit \/ g.used + cost <= g.limit
record_cost(g, cost) ==
  IF g.limit = NoLimit THEN g
  ELSE [g EXCEPT !.used = IF affordable(g, cost) THEN @ + cost ELSE g.limit]
drain(g) == IF g.limit = NoLimit THEN g ELSE [g EXCEPT !.used = g.limit]
record_stipend(g, stipend) == IF g.limit = NoLimit THEN g ELSE [g EXCEPT !.used = @ - stipend]

Lower(m, n) == IF m < n THEN m ELSE n

nested_call_gas_limit(g, target_gas) ==
  IF target_gas = NoLimit THEN NoLimit
  ELSE Lower(target_gas, gas_remaining(g) - gas_remaining(g) \div Divisor)

-----------------------------------------------------------------------------
(* Transaction layers.                                                     *)

LayerData(static, limit) ==
  [gas |-> Gasometer(limit), static |-> static, logs |-> 0, deleted |-> {}, withdrawn |-> 0]

\* Mutant of is_static: only the frame that asked for it is static.
Mut_is_static(d, static) == static

\* A layer above a static one is static.
is_static(d, static) == static \/ (d # <<>> /\ Last(d).static)

begin_transaction_data(d, static, limit) == Append(d, LayerData(is_static(d, static), limit))

\* The contracts that self-destructed in any layer that is still open.
deleted(d, a) == \E k \in 1 .. Len(d) : a \in d[k].deleted

\* The layer below takes the logs, withdrawals, deletions and unused gas.
Merged(below, top) ==
  [below EXCEPT !.logs = @ + top.logs,
                !.withdrawn = @ + top.withdrawn,
                !.deleted = @ \cup top.deleted,
                !.gas = record_stipend(@, gas_remaining(top.gas))]

commit_inter_data(d) ==
  LET rest == Front(d)
  IN  [rest EXCEPT ![Len(rest)] = Merged(@, Last(d))]

rollback_inter_data(d, refund_gas) ==
  LET rest == Front(d)
  IN  IF refund_gas
      THEN [rest EXCEPT ![Len(rest)].gas = record_stipend(@, gas_remaining(Last(d).gas))]
      ELSE rest

commit_transaction(ws) == Append(SubSeq(ws, 1, Len(ws) - 2), Last(ws))
rollback_transaction(ws) == Front(ws)

-----------------------------------------------------------------------------
(* Entering a frame.  An entry is the state execute_call and execute_create*)
(* reach when they start the EVM, or the result they return at once; `ws'  *)
(* and `d' hold the new layer already.                                     *)

Entry(ws, d, res, t) == [worlds |-> ws, data |-> d, result |-> res, ticks |-> t]
WithTop(ws, w) == [ws EXCEPT ![Len(ws)] = w]
WithGas(d, g) == [d EXCEPT ![Len(d)].gas = g]

fail_if_too_much(t) == t + PrecompileTicks > TicksAllocated

\* Hash functions and the identity: ticks are checked, then gas is charged.
hash_precompile(ws, d, t) ==
  LET g == Last(d).gas
  IN  IF fail_if_too_much(t) THEN Entry(ws, d, "err_ticks", t)
      ELSE Entry(ws, WithGas(d, record_cost(g, PrecompileGas)),
                 IF affordable(g, PrecompileGas) THEN "succeed" ELSE "error",
                 t + PrecompileTicks)

\* A wrong signature is a success without output, and no ticks are counted.
ecrecover_precompile(ws, d, t, wellFormed) ==
  LET e == hash_precompile(ws, d, t)
  IN  IF e.result = "succeed" /\ ~wellFormed THEN [e EXCEPT !.ticks = t] ELSE e

\* Lengths that do not fit are an error of the handler; no gas is drained.
modexp_precompile(ws, d, t, wellFormed) ==
  LET g == Last(d).gas
  IN  IF ~wellFormed THEN Entry(ws, d, "err_precompile", t)
      ELSE Entry(ws, WithGas(d, record_cost(g, PrecompileGas)),
                 IF affordable(g, PrecompileGas) THEN "succeed" ELSE "error",
                 t + PrecompileTicks)

\* A malformed point drains the gas and is an error of the handler.
call_precompile_with_gas_draining(ws, d, t) ==
  Entry(ws, WithGas(d, drain(Last(d).gas)), "err_precompile", t)

ecadd_precompile(ws, d, t, wellFormed) ==
  LET g == Last(d).gas
  IN  IF affordable(g, PrecompileGas) /\ ~wellFormed
      THEN call_precompile_with_gas_draining(ws, d, t)
      ELSE Entry(ws, WithGas(d, record_cost(g, PrecompileGas)),
                 IF affordable(g, PrecompileGas) THEN "succeed" ELSE "error",
                 t + PrecompileTicks)

\* The length of the input is part of what makes it well formed.
ecpairing_precompile(ws, d, t, wellFormed) == ecadd_precompile(ws, d, t, wellFormed)

\* A withdrawal needs a transfer of value and a well formed target.
withdrawal_precompile(ws, d, t, value, wellFormed) ==
  IF fail_if_too_much(t) THEN Entry(ws, d, "err_ticks", t)
  ELSE IF value = NoLimit \/ value = 0 \/ ~wellFormed
  THEN Entry(ws, d, "revert", t + PrecompileTicks)
  ELSE Entry(ws, [d EXCEPT ![Len(d)].withdrawn = @ + value], "succeed", t + PrecompileTicks)

precompile(address, ws, d, t, value, wellFormed) ==
  LET kind == precompile_set[address]
  IN  CASE kind = "hash" -> hash_precompile(ws, d, t)
        [] kind = "ecrecover" -> ecrecover_precompile(ws, d, t, wellFormed)
        [] kind = "modexp" -> modexp_precompile(ws, d, t, wellFormed)
        [] kind = "curve" -> ecadd_precompile(ws, d, t, wellFormed)
        [] kind = "pairing" -> ecpairing_precompile(ws, d, t, wellFormed)
        [] kind = "withdrawal" -> withdrawal_precompile(ws, d, t, value, wellFormed)

(***************************************************************************)
(* `value' is NoLimit when there is no transfer.  A transfer goes to the   *)
(* address whose code is called.                                           *)
(***************************************************************************)
execute_call(ws, d, t, caller, address, value, wellFormed) ==
  LET v == IF value = NoLimit THEN 0 ELSE value
      paid == WithTop(ws, execute_transfer(Last(ws), caller, address, v))
  IN  IF Len(ws) - 1 > StackLimit THEN Entry(ws, d, "fatal", t)
      ELSE IF ~transfer_possible(Last(ws), caller, v) THEN Entry(ws, d, "error", t)
      ELSE IF address \in DOMAIN precompile_set
      THEN precompile(address, paid, d, t, value, wellFormed)
      ELSE IF deleted(d, address) \/ ~Last(paid)[address].code
      THEN Entry(paid, d, "succeed", t)
      ELSE Entry(paid, d, "running", t)

may_create(w, a) == ~is_colliding(w, a)

(***************************************************************************)
(* A contract deleted in this transaction is not created again by CREATE2: *)
(* the caller gets the address zero and its nonce moves.                   *)
(***************************************************************************)
execute_create(ws, d, t, caller, address, create2, value, create_opcode) ==
  LET w == Last(ws)
      paid == execute_transfer(w, caller, address, value)
  IN  IF deleted(d, address) /\ create_opcode /\ create2
      THEN Entry(WithTop(ws, increment_nonce(w, caller)), d, "succeed", t)
      ELSE IF Len(ws) - 1 >= StackLimit THEN Entry(ws, d, "fatal", t)
      ELSE IF ~may_create(w, address) THEN Entry(ws, d, "error", t)
      ELSE IF ~transfer_possible(w, caller, value) THEN Entry(ws, d, "error", t)
      ELSE Entry(WithTop(ws, IF create_opcode THEN increment_nonce(paid, caller) ELSE paid),
                 d, "running", t)

\* An entry becomes the new top frame; only one that runs the initial code of
\* a contract is finished by end_create.
Enter(e, fs, kind, self) ==
  /\ worlds' = e.worlds
  /\ data' = e.data
  /\ ticks' = e.ticks
  /\ result' = e.result
  /\ frames' = Append(fs, [kind |-> IF e.result = "running" THEN kind ELSE "call",
                           self |-> self, gasBefore |-> 0])

-----------------------------------------------------------------------------
(* run_transaction: the caller pays for the gas limit, then the initial    *)
(* layer is opened and the transaction called or created.                  *)

fee(gas) == IF gas = NoLimit THEN 0 ELSE gas * GasPrice

begin_initial_transaction(caller, limit) ==
  LET w == balance_remove(World, caller, fee(limit))
      d == begin_transaction_data(<<>>, FALSE, limit)
  IN  [worlds |-> <<w, w>>, gas |-> record_cost(d[1].gas, BaseCost),
       paid |-> affordable(d[1].gas, BaseCost), data |-> d]

Start(caller, limit) ==
  /\ Idle
  /\ count < MaxTransactions
  /\ count' = count + 1
  /\ steps' = 0

Unpaid(caller, limit) ==
  /\ Start(caller, limit)
  /\ ~can_remove(World, caller, fee(limit))
  /\ outcome' = [status |-> "unpaid", logs |-> 0, withdrawn |-> 0]
  /\ UNCHANGED <<worlds, data, frames, result, ticks, tx, history>>

Opened(caller, limit) ==
  /\ Start(caller, limit)
  /\ can_remove(World, caller, fee(limit))
  /\ tx' = [caller |-> caller, limit |-> limit, before |-> World]
  /\ burnt' = burnt + fee(limit)
  /\ UNCHANGED <<outcome, paidOut>>

call_contract(caller, limit, address, value, wellFormed) ==
  LET b == begin_initial_transaction(caller, limit)
      d == WithGas(b.data, b.gas)
  IN  /\ Opened(caller, limit)
      /\ Enter(IF b.paid
               THEN execute_call(b.worlds, d, 0, caller, address, value, wellFormed)
               ELSE Entry(b.worlds, d, "error", 0), <<>>, "call", address)

create_contract(caller, limit, value) ==
  LET b == begin_initial_transaction(caller, limit)
      d == WithGas(b.data, b.gas)
      address == Fresh(caller, World[caller].nonce)
  IN  /\ Opened(caller, limit)
      /\ Enter(IF b.paid
               THEN execute_create(b.worlds, d, 0, caller, address, FALSE, value, FALSE)
               ELSE Entry(b.worlds, d, "error", 0), <<>>, "create", address)

-----------------------------------------------------------------------------
(* Opcodes.  The EVM charges an opcode, or refuses it in a static frame,   *)
(* runs it, and the handler then accounts for the ticks of its gas.        *)

Executing(ends) ==
  /\ ~Idle
  /\ result = "running"
  /\ ends \/ steps < MaxSteps
  /\ steps' = IF ends THEN steps ELSE steps + 1
  /\ UNCHANGED <<tx, outcome, history, count>>

Self == frames[Top].self
Gas == Last(data).gas

\* pre_validate: refused opcodes use up the gas.
pre_validate(cost, allowed) == IF allowed THEN record_cost(Gas, cost) ELSE drain(Gas)
Charged(cost, allowed) == allowed /\ affordable(Gas, cost)

\* RETURN and REVERT take constant ticks; the other opcodes a number of ticks
\* for each unit of gas, here one.
opcode_ticks(returns, gas) == IF returns THEN 1 ELSE gas

account_for_ticks(t, n) == t + n

\* An opcode that stays in the frame: its effect when it was charged for.
Opcode(cost, allowed, res, w, d) ==
  LET g == pre_validate(cost, allowed)
      n == opcode_ticks(res \in {"succeed", "revert"}, gas_used(g) - gas_used(Gas))
      t == account_for_ticks(ticks, n)
      done == Charged(cost, allowed)
  IN  /\ Executing(res # "running")
      /\ worlds' = IF done THEN WithTop(worlds, w) ELSE worlds
      /\ data' = WithGas(IF done THEN d ELSE data, g)
      /\ ticks' = t
      /\ result' = IF t > TicksAllocated THEN "err_ticks"
                   ELSE IF done THEN res ELSE "error"
      /\ UNCHANGED frames

SStore(v) == Opcode(OpcodeCost, ~Last(data).static, "running", set_storage(World, Self, v), data)

Log == Opcode(OpcodeCost, ~Last(data).static, "running", World,
              [data EXCEPT ![Len(data)].logs = @ + 1])

\* mark_delete: the balance goes to the target, the contract to the deleted.
SelfDestruct(target) ==
  Opcode(OpcodeCost, ~Last(data).static, "suicided",
         execute_transfer(World, Self, target, World[Self].balance),
         [data EXCEPT ![Len(data)].deleted = @ \cup {Self}])

Stop == Opcode(0, TRUE, "succeed", World, data)
Revert == Opcode(0, TRUE, "revert", World, data)
Invalid == Opcode(0, FALSE, "error", World, data)

\* The frame that calls waits, with the gas it had used before the opcode.
Waiting == [frames EXCEPT ![Top].gasBefore = gas_used(Gas)]

(***************************************************************************)
(* CALL and CALLCODE pass a transfer, DELEGATECALL and STATICCALL none.    *)
(* The gas of the callee is charged to the frame that calls, the stipend   *)
(* of a transfer is not.  When the charge fails the call is fatal.  The    *)
(* EVM refuses value in a static frame to CALL alone: CALLCODE still moves *)
(* it, from the contract itself to the address whose code it runs.         *)
(***************************************************************************)
call(scheme, address, value, target_gas, wellFormed) ==
  LET cost == OpcodeCost + IF value > 0 THEN TransferCost ELSE 0
      allowed == scheme # "call" \/ ~Last(data).static \/ value = 0
      g == pre_validate(cost, allowed)
      limit == nested_call_gas_limit(g, target_gas)
      given == IF value > 0 THEN limit + CallStipend ELSE limit
      self == IF scheme \in {"call", "static"} THEN address ELSE Self
      d == begin_transaction_data(WithGas(data, record_cost(g, limit)), scheme = "static", given)
      passed == IF scheme \in {"call", "callcode"} THEN value ELSE NoLimit
  IN  /\ scheme \in {"delegate", "static"} => value = 0
      /\ \/ /\ Charged(cost, allowed)
            /\ Executing(FALSE)
            /\ Enter(execute_call(Append(worlds, World), d, ticks, Self, address,
                                  passed, wellFormed),
                     Waiting, "call", self)
         \/ /\ ~Charged(cost, allowed)
            /\ Opcode(cost, allowed, "error", World, data)

\* The EVM gives no gas to create: the new frame has no gasometer.
create(create2, value) ==
  LET allowed == ~Last(data).static
      address == IF create2 THEN Fixed ELSE Fresh(Self, World[Self].nonce)
      d == begin_transaction_data(WithGas(data, record_cost(Gas, OpcodeCost)), FALSE,
                                  nested_call_gas_limit(Gas, NoLimit))
  IN  \/ /\ Charged(OpcodeCost, allowed)
         /\ Executing(FALSE)
         /\ Enter(execute_create(Append(worlds, World), d, ticks, Self, address, create2,
                                 value, TRUE),
                  Waiting, "create", address)
      \/ /\ ~Charged(OpcodeCost, allowed)
         /\ Opcode(OpcodeCost, allowed, "error", World, data)

-----------------------------------------------------------------------------
(* Leaving a frame.                                                        *)

(***************************************************************************)
(* end_create: the initial code returned `code'.  The deposit is paid by   *)
(* the frame that created.                                                 *)
(***************************************************************************)
end_create(code) ==
  IF result # "succeed" THEN [world |-> World, gas |-> Gas, result |-> result]
  ELSE IF code # "valid" THEN [world |-> World, gas |-> Gas, result |-> "error"]
  ELSE IF ~affordable(Gas, DepositCost)
  THEN [world |-> World, gas |-> drain(Gas), result |-> "error"]
  ELSE [world |-> increment_nonce(set_code(World, Self), Self),
        gas |-> record_cost(Gas, DepositCost), result |-> "succeed"]

ended(code) ==
  IF frames[Top].kind = "create" THEN end_create(code)
  ELSE [world |-> World, gas |-> Gas, result |-> result]

Succeeded(res) == res \in {"succeed", "suicided"}

\* An error of the handler in the callee becomes a fatal error that wraps it.
after_call(res) ==
  CASE res \in {"fatal", "wrapped_ticks", "wrapped_precompile"} -> res
    [] res = "err_ticks" -> "wrapped_ticks"
    [] res = "err_precompile" -> "wrapped_precompile"
    [] OTHER -> "running"

(***************************************************************************)
(* end_inter_transaction, and what the frame that called makes of it: it   *)
(* accounts for the ticks of its opcode first, ends on a fatal error, and  *)
(* goes on otherwise.                                                      *)
(***************************************************************************)
end_inter_transaction(code) ==
  LET e == ended(code)
      d == WithGas(data, e.gas)
      rest == IF Succeeded(e.result) THEN commit_inter_data(d)
              ELSE rollback_inter_data(d, e.result = "revert")
      n == opcode_ticks(FALSE, gas_used(Last(rest).gas) - frames[Top - 1].gasBefore)
      t == account_for_ticks(ticks, n)
  IN  /\ Top > 1
      /\ result # "running"
      /\ worlds' = IF Succeeded(e.result)
                   THEN commit_transaction(WithTop(worlds, e.world))
                   ELSE rollback_transaction(worlds)
      /\ data' = rest
      /\ frames' = Front(frames)
      /\ ticks' = t
      /\ result' = IF t > TicksAllocated THEN "err_ticks"
                   ELSE after_call(e.result)
      /\ UNCHANGED <<tx, outcome, history, steps, count>>

(***************************************************************************)
(* end_initial_transaction: a success deletes the self-destructed          *)
(* contracts and commits; everything else is rolled back, and is an error  *)
(* of the handler when it was one or when a fatal error wraps one.  Then   *)
(* run_transaction moves the nonce and gives back unused gas, or all of it *)
(* when the handler ran out of ticks.                                      *)
(***************************************************************************)
do_refund(res) == Succeeded(res) \/ res = "revert"

repaid(res, limit, used) ==
  IF limit = NoLimit THEN 0
  ELSE IF res = "err_ticks" THEN limit
  ELSE IF do_refund(res) THEN limit - used
  ELSE 0

HandlerError(res) ==
  res \in {"err_ticks", "err_precompile", "wrapped_ticks", "wrapped_precompile"}

\* Mutant of settled: only a fatal error rolls back.
Mut_settled(res, w, dead) ==
  IF res # "fatal" THEN delete_contracts(w, dead) ELSE worlds[1]

\* The original storage after the transaction.
settled(res, w, dead) ==
  IF Succeeded(res) THEN delete_contracts(w, dead) ELSE worlds[1]

rolled_back(res, d) == [status |-> res, logs |-> 0, withdrawn |-> 0]

end_initial_transaction(code) ==
  LET e == ended(code)
      dead == Last(data).deleted
      used == gas_used(e.gas)
      refund == fee(repaid(e.result, tx.limit, used))
      kept == settled(e.result, e.world, dead)
      bumped == IF HandlerError(e.result) THEN kept ELSE increment_nonce(kept, tx.caller)
      lost == IF Succeeded(e.result) THEN Total(e.world) - Total(kept) ELSE 0
      out == IF Succeeded(e.result)
             THEN [status |-> "success", logs |-> Last(data).logs,
                   withdrawn |-> Last(data).withdrawn]
             ELSE rolled_back(e.result, data)
  IN  /\ Top = 1
      /\ result # "running"
      /\ worlds' = << balance_add(bumped, tx.caller, refund) >>
      /\ data' = <<>>
      /\ frames' = <<>>
      /\ result' = "running"
      /\ ticks' = 0
      /\ outcome' = out
      /\ tx' = NoTx
      /\ burnt' = burnt + lost - refund
      /\ paidOut' = paidOut + out.withdrawn
      /\ UNCHANGED <<steps, count>>

-----------------------------------------------------------------------------
CONSTANTS TxValues,     \* values of transactions and calls
          TargetGas,    \* gas a call asks for
          Slots,        \* values a contract stores
          Targets       \* addresses that bytecode calls or leaves its balance to

\* Addresses are hashes of 20 bytes: none is that of a precompiled contract.
ASSUME AddressAssumption ==
  /\ IsFiniteSet(Accounts)
  /\ InitialWorld \in [Accounts -> [balance : Nat, nonce : Nat, code : BOOLEAN, slot : Nat]]
  /\ (Senders \cup {Fixed}) \subseteq Accounts \ DOMAIN precompile_set
  /\ Targets \subseteq Accounts

ASSUME ValueAssumption ==
  /\ NoLimit \notin Nat
  /\ GasLimits \subseteq Nat \cup {NoLimit}
  /\ TargetGas \cup TxValues \cup Slots \subseteq Nat

Init ==
  /\ worlds = << InitialWorld >>
  /\ data = <<>>
  /\ frames = <<>>
  /\ result = "running"
  /\ ticks = 0
  /\ tx = NoTx
  /\ outcome = [status |-> "none", logs |-> 0, withdrawn |-> 0]
  /\ burnt = 0 /\ paidOut = 0 /\ steps = 0 /\ count = 0

\* All the transactions of the bound are done.
Finished == Idle /\ count = MaxTransactions /\ UNCHANGED vars

Next ==
  \/ \E caller \in Senders, limit \in GasLimits : Unpaid(caller, limit)
  \/ \E caller \in Senders, limit \in GasLimits, a \in Accounts, v \in TxValues, ok \in BOOLEAN :
       call_contract(caller, limit, a, v, ok)
  \/ \E caller \in Senders, limit \in GasLimits, v \in TxValues : create_contract(caller, limit, v)
  \/ \E v \in Slots : SStore(v)
  \/ Log
  \/ \E a \in Targets : SelfDestruct(a)
  \/ Stop
  \/ Revert
  \/ Invalid
  \/ \E s \in {"call", "callcode", "delegate", "static"}, a \in Targets, v \in TxValues,
        g \in TargetGas, ok \in BOOLEAN : ~Idle /\ call(s, a, v, g, ok)
  \/ \E c2 \in BOOLEAN, v \in TxValues : ~Idle /\ create(c2, v)
  \/ \E code \in {"valid", "invalid"} : end_inter_transaction(code)
  \/ \E code \in {"valid", "invalid"} : end_initial_transaction(code)
  \/ Finished

Spec == Init /\ [][Next]_vars

-----------------------------------------------------------------------------
(* Properties.                                                             *)

(***************************************************************************)
(* What is withdrawn to layer 1 is backed: the withdrawal contract holds   *)
(* at least the withdrawals of all finished transactions and of the layers *)
(* that are open, so a withdrawal never outlives its transfer.             *)
(***************************************************************************)
WithdrawalsBacked ==
  paidOut + SumFunction([k \in 1 .. Len(data) |-> data[k].withdrawn])
    <= World[Withdraw].balance

(***************************************************************************)
(* Nothing creates or loses value: in every layer the balances and what    *)
(* fees and deleted contracts took add up to the initial supply, through   *)
(* every nesting of transfers, reverts, refunds and deletions; and what    *)
(* went to layer 1 is held by the withdrawal contract.                     *)
(***************************************************************************)
SupplyConserved ==
  /\ \A k \in 1 .. Len(worlds) : Total(worlds[k]) + burnt = Total(InitialWorld)
  /\ WithdrawalsBacked

\* Both storages hold the same contracts: balances aside, nothing differs.
SameContracts(v, w) ==
  \A a \in Accounts :
    w[a].slot = v[a].slot /\ w[a].code = v[a].code /\ w[a].nonce = v[a].nonce

(***************************************************************************)
(* A static call changes no contract, however deep it calls: in every      *)
(* layer above the first static one the storage, the code and the nonce of *)
(* each account are those of the layer below it, and the layer has no logs *)
(* and no deletions.  Balances are left out: a CALLCODE with value is not  *)
(* refused in a static frame, and execute_call pays it out of the contract *)
(* to the address it names, the withdrawal precompile included.            *)
(***************************************************************************)
StaticIsPure ==
  \A k \in 1 .. Len(data) : data[k].static =>
    \A j \in k .. Len(data) :
      /\ SameContracts(worlds[k], worlds[j + 1])
      /\ data[j].logs = 0 /\ data[j].deleted = {}

(***************************************************************************)
(* A transaction that fails leaves no trace but the fee and the nonce of   *)
(* its caller, and what it returns has no logs and no withdrawals.         *)
(***************************************************************************)
FailureLeavesNoTrace ==
  [][(~Idle /\ Idle' /\ outcome'.status # "success") =>
       /\ outcome'.logs = 0 /\ outcome'.withdrawn = 0
       /\ \A a \in Accounts \ {tx.caller} : World'[a] = tx.before[a]
       /\ World'[tx.caller].balance >= tx.before[tx.caller].balance - fee(tx.limit)
       /\ World'[tx.caller].code = tx.before[tx.caller].code]_vars

=============================================================================
