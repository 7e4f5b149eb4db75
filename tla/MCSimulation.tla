---------------------------- MODULE MCSimulation ----------------------------
(***************************************************************************)
(* A small instance: two users, of whom one is a contract, and transactions *)
(* of each version with the defects validation and application look for.    *)
(***************************************************************************)
EXTENDS Simulation

Alice == 7
Robot == 200

MCGenesis ==
    (AddressOf(Alice) :> [nonce |-> 0, balance |-> 90, code |-> FALSE])
    @@ (AddressOf(Robot) :> [nonce |-> 0, balance |-> 90, code |-> TRUE])

Tx(type, chain_id, nonce, fee, gas_limit, to, value, data) ==
    EthereumTransactionCommon(type, chain_id, nonce, fee, fee, gas_limit, to, value, data,
        IF type = "Legacy" THEN <<>>
        ELSE <<[address |-> AddressOf(5), storage_keys |-> <<BeFixed(258, WordBytes)>>]>>, <<>>)
Submission(raw, signer) == [raw |-> raw, signer |-> signer, hash |-> HashOf(raw)]
Signed(key, tx) == Submission(to_bytes(sign_transaction(tx, key)[1]), AddressOf(key))
\* The signature of another transaction, and one with the other root for s.
Tampered(tx, other) ==
    Submission(to_bytes([tx EXCEPT !.signature = sign_transaction(other, Alice)[1].signature]),
               Nobody)
Malleated(tx) ==
    Submission(to_bytes([tx EXCEPT
        !.signature[1].s = BeFixed(WordMax - FromBe(tx.signature[1].s), WordBytes)]), Nobody)

Legacy(nonce) == Tx("Legacy", <<ChainId>>, nonce, 2, 20, << AddressOf(5) >>, 3, <<1>>)
MCSubmissions ==
    {Signed(Alice, Legacy(0)), Signed(Alice, Legacy(1)),
     Signed(Alice, Tx("Legacy", <<>>, 0, 3, 10, <<>>, 0, <<200, 0>>)),
     Signed(Alice, Tx("Eip1559", <<ChainId>>, 1, 2, 1, << AddressOf(Robot) >>, 300, <<>>)),
     Signed(Alice, Tx("Eip2930", <<ChainId + 1>>, 0, 2, 20, <<>>, 0, <<>>)),
     Signed(Alice, Tx("Eip1559", <<ChainId>>, 0, 1, 20, <<>>, 0, <<>>)),
     Signed(Alice, Tx("Eip2930", <<ChainId>>, 0, 2, 200, <<>>, 0, <<255>>)),
     Signed(Robot, Tx("Eip2930", <<ChainId>>, 0, 2, 20, <<>>, 0, <<>>)),
     Tampered(Legacy(0), Legacy(1)),
     Malleated(sign_transaction(Legacy(0), Alice)[1])}

MCBridged ==
    {Signed(Alice, Legacy(0))}

MCDeposits == {[amount |-> 40, receiver |-> AddressOf(Alice)]}
Call(from, to, gas, gas_price, value, data) ==
    [from |-> from, to |-> to, gas |-> gas, gas_price |-> gas_price, value |-> value, data |-> data]
\* Data that fills a chunk of its own.
LongData == [i \in 1..45 |-> 3 * i]
MCCalls ==
    {Call(<<>>, << AddressOf(5) >>, <<>>, <<>>, <<>>, <<>>),
     Call(<< AddressOf(Alice) >>, <<>>, <<9>>, <<2>>, <<0>>, << LongData >>),
     Call(<< AddressOf(Alice) >>, << AddressOf(Robot) >>, <<300>>, <<0>>, <<299>>, << <<255>> >>)}
=============================================================================
