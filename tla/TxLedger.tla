------------------------------ MODULE TxLedger ------------------------------
(* The accounts of the transactions kernel, and what one signed operation  *)
(* does to them.                                                           *)
(*                                                                         *)
(* A ledger is the part of the durable storage below /accounts, /tickets   *)
(* and the two counters.  An account is there when one of its paths is.    *)
(* Every function returns the ledger it leaves behind, the one of a        *)
(* failure too: nothing undoes the writes made before an error.            *)
EXTENDS KernelMessages

CONSTANTS Addresses,  \* tz1 addresses; the public key of one is the address itself
          MaxU64,     \* the largest amount of an account
          MaxI64,     \* the largest counter
          U16         \* how many account ids there are

ASSUME LedgerAssumption == MaxU64 \in Nat \ {0} /\ MaxI64 \in Nat \ {0} /\ U16 \in Nat \ {0}

Absent == -1
NoAccount == [counter |-> Absent, public_key |-> Absent, id |-> Absent, tickets |-> <<>>]
EmptyLedger == [accounts |-> [ a \in Addresses |-> NoAccount ], ticketIds |-> <<>>,
                nextAccountId |-> 0, nextTicketId |-> 0]

Done(ledger, value) == [ok |-> TRUE, ledger |-> ledger, value |-> value]
Refused(ledger) == [ok |-> FALSE, ledger |-> ledger]

\* Account::ticket_amount, with 0 for none.
ticket_amount(account, ticket) ==
    IF ticket \in DOMAIN account.tickets THEN account.tickets[ticket] ELSE 0

\* Mutant: taking more than there is empties the account.
Mut_remove_ticket(ledger, a, ticket, n) ==
    LET old == ledger.accounts[a].tickets
        left == ticket_amount(ledger.accounts[a], ticket) - n
    IN  IF left > 0 THEN Done([ledger EXCEPT !.accounts[a].tickets[ticket] = left], left)
        ELSE Done([ledger EXCEPT !.accounts[a].tickets = [ t \in DOMAIN old \ {ticket} |-> old[t] ]], 0)
remove_ticket(ledger, a, ticket, n) ==
    LET old == ledger.accounts[a].tickets
    IN  CASE ticket_amount(ledger.accounts[a], ticket) < n -> Refused(ledger)
          [] ticket \notin DOMAIN old /\ n = 0 -> Done(ledger, 0)
          [] ticket \in DOMAIN old /\ old[ticket] = n ->
                 Done([ledger EXCEPT !.accounts[a].tickets = [ t \in DOMAIN old \ {ticket} |-> old[t] ]], 0)
          [] ticket \in DOMAIN old /\ old[ticket] > n ->
                 Done([ledger EXCEPT !.accounts[a].tickets[ticket] = @ - n], old[ticket] - n)

add_ticket(ledger, a, ticket, n) ==
    LET new == ticket_amount(ledger.accounts[a], ticket) + n
    IN  IF new > MaxU64 THEN Refused(ledger)
        ELSE Done([ledger EXCEPT !.accounts[a].tickets = (ticket :> new) @@ @], new)

\* next_account_id wraps around: two accounts may have the same id then.
next_account_id(ledger) == (ledger.nextAccountId + 1) % U16
get_or_set_id(ledger, a) ==
    IF ledger.accounts[a].id # Absent THEN ledger
    ELSE [ledger EXCEPT !.accounts[a].id = ledger.nextAccountId,
                        !.nextAccountId = next_account_id(ledger)]

next_ticket_id(ledger) == ledger.nextTicketId + 1
get_or_set_ticket_id(ledger, hash) ==
    IF hash \in DOMAIN ledger.ticketIds THEN ledger
    ELSE [ledger EXCEPT !.ticketIds = (hash :> ledger.nextTicketId) @@ @, !.nextTicketId = next_ticket_id(ledger)]

check_and_inc_counter(ledger, a, counter) ==
    LET old == IF ledger.accounts[a].counter = Absent THEN 0 ELSE ledger.accounts[a].counter
    IN  IF old # counter \/ old = MaxI64 THEN Refused(ledger)
        ELSE Done([ledger EXCEPT !.accounts[a].counter = old + 1], old)

link_public_key(ledger, a, pk) == [ledger EXCEPT !.accounts[a].public_key = pk]
public_key(ledger, a) == ledger.accounts[a].public_key
--------------------------------------------------------------------------------
\* deposit_ticket_to_storage: the amount is read before the ticket gets an id,
\* and the id stays when the account cannot hold the amount.
deposit_ticket_to_storage(ledger, destination, ticket) ==
    IF amount_as(ticket) \notin 0 .. MaxU64 THEN Refused(ledger)
    ELSE LET known == get_or_set_ticket_id(ledger, TicketHash(ticket))
             added == add_ticket(known, destination, known.ticketIds[TicketHash(ticket)], amount_as(ticket))
         IN  IF added.ok THEN Done(get_or_set_id(added.ledger, destination), amount_as(ticket)) ELSE added

handle_transfer(ledger, signer, destination, ticket, n) ==
    LET removed == remove_ticket(ledger, signer, ticket, n)
        added == add_ticket(removed.ledger, destination, ticket, n)
        named == get_or_set_id(added.ledger, signer)
    IN  IF ~removed.ok THEN removed
        ELSE IF ~added.ok THEN added
        ELSE Done(IF named.accounts[signer].id = 0 THEN get_or_set_id(named, destination) ELSE named, <<>>)

Withdrawal(contents) == [parameters |-> contents.ticket, destination |-> Originated(contents.destination),
                         entrypoint |-> contents.entrypoint]
withdraw(ledger, signer, contents) ==
    IF amount_as(contents.ticket) \notin 1 .. MaxU64 THEN Refused(ledger)
    ELSE LET known == get_or_set_ticket_id(ledger, TicketHash(contents.ticket))
             removed == remove_ticket(known, signer, known.ticketIds[TicketHash(contents.ticket)],
                                      amount_as(contents.ticket))
         IN  IF removed.ok THEN Done(removed.ledger, <<Withdrawal(contents)>>) ELSE removed

transfer(ledger, signer, contents) ==
    IF contents.destination = signer THEN Refused(ledger)
    ELSE IF contents.kind = "CTransfer"
    THEN handle_transfer(ledger, signer, contents.destination, contents.ticket, contents.amount)
    ELSE LET known == get_or_set_ticket_id(ledger, contents.ticket)
         IN  handle_transfer(known, signer, contents.destination, known.ticketIds[contents.ticket],
                             contents.amount)

\* VerifiableOperation::verify_sig: the key of the account, or the key that the
\* operation brings, which is linked before the signature is looked at.
verify_sig(ledger, op) ==
    LET linked == IF op.signer.kind = "PublicKey"
                  THEN link_public_key(ledger, op.signer.address, op.signer.address) ELSE ledger
    IN  IF public_key(linked, op.signer.address) = op.key THEN Done(linked, <<>>)
        ELSE Refused(linked)

\* VerifiableOperation::execute; the value is its withdrawals.
execute(ledger, op) ==
    LET signer == op.signer.address
        verified == verify_sig(ledger, op)
        counted == check_and_inc_counter(verified.ledger, signer, op.counter)
    IN  IF ledger.accounts[signer] = NoAccount THEN Refused(ledger)
        ELSE IF ~verified.ok THEN verified
        ELSE IF ~counted.ok THEN counted
        ELSE IF op.contents.kind = "Withdraw" THEN withdraw(counted.ledger, signer, op.contents)
        ELSE transfer(counted.ledger, signer, op.contents)
================================================================================
