-------------------------- MODULE MCEtherlinkKernel -------------------------
(***************************************************************************)
(* Instances of EtherlinkKernel.  The messages come in themes; a behaviour *)
(* sends the messages of one theme at most once each, in any order, spread *)
(* over the levels in any way.                                             *)
(***************************************************************************)
EXTENDS EtherlinkKernel

CONSTANTS small, big, huge, wd, dust, poor, wrong, cut,   \* Ethereum transactions
          alice, bob, carol, zero,                         \* addresses
          sr1, kt1Ticketer, kt1Admin, kt1SeqAdmin, kt1Bridge, other,
          seq, K1, K2, K3, genesis, MaxMessages

MCTx ==
    LET T(caller, nonce, ticks, outcome, value) ==
          [caller |-> caller, nonce |-> nonce, ticks |-> ticks, outcome |-> outcome,
           value |-> value, to |-> bob, gas_limit |-> 2, gas_used |-> 1, max_fee |-> 1,
           chain_id |-> None, data_size |-> 0]
    IN  small :> T(alice, 0, 3, "success", 1)
        @@ big :> T(bob, 0, 7, "revert", 1)
        @@ huge :> T(bob, 0, 20, "success", 0)
        @@ wd :> T(alice, 0, 5, "withdraw", 3)
        @@ dust :> T(bob, 0, 3, "withdraw", 1)
        @@ poor :> T(carol, 0, 3, "success", 0)
        @@ wrong :> [T(alice, 0, 3, "success", 1) EXCEPT !.chain_id = 7]
        @@ cut :> [T(alice, 1, 4, "success", 1) EXCEPT !.data_size = 1]

MCPieces == cut :> <<"c1", "c2">>

MCSequencerBlueprints ==
    LET B(pieces, hashes, txs, ts) ==
          [pieces |-> pieces, delayed_hashes |-> hashes, timestamp |-> ts,
           transactions |-> [i \in DOMAIN txs |-> EthereumTransaction(txs[i])]]
    IN  [p |-> B(<<"p1", "p2">>, <<0>>, <<big>>, 1),
         q |-> B(<<"q1">>, <<small>>, <<big>>, 2),
         r |-> B(<<"r1">>, <<0, small>>, <<>>, 1),
         s |-> B(<<"s1">>, <<>>, <<small, big>>, 1),
         t |-> B(<<"t1">>, <<>>, <<>>, 2)]

MCInitialBalance == alice :> 8 @@ bob :> 6 @@ carol :> 0 @@ zero :> 0

MCStorageVersion == K1 :> 4 @@ K2 :> 5 @@ K3 :> 5

External(tag) == [kind |-> "external", address |-> sr1, tag |-> tag]
Simple(h) == [tx_hash |-> h, data |-> h] @@ External("simple")
NewChunked == [tx_hash |-> cut, num_chunks |-> 2, chunk_hashes |-> <<"c1", "c2">>]
                @@ External("new_chunked")
ChunkAt(i, d) == [tx_hash |-> cut, i |-> i, chunk_hash |-> d, data |-> d] @@ External("chunk")
Blueprint(number, nb, i, c) ==
    [signature |-> seq, blueprint |-> [number |-> number, nb_chunks |-> nb,
                                       chunk_index |-> i, chunk |-> c]]
    @@ External("blueprint")
Transfer(sender, payload) == [kind |-> "internal", msg |-> "Transfer", destination |-> sr1,
                              sender |-> sender, payload |-> payload]
Deposits(a) == [creator |-> kt1Ticketer, amount |-> 2, receiver |-> a]
                 @@ Transfer(kt1Ticketer, "deposit")
Delayed(h) == [data |-> h] @@ Transfer(kt1Bridge, "delayed")
UpgradeTo(k, ts) == [upgrade |-> [kernel |-> k, activation_timestamp |-> ts]]
                      @@ Transfer(kt1Admin, "bytes")
NewSequencer == [sequencer |-> seq] @@ Transfer(kt1SeqAdmin, "bytes")

\* Deposits and blueprints name the nonce of a deposit; 0 is the first one.
\* Messages the parser refuses.
Refused == {[Simple(small) EXCEPT !.address = other], [Deposits(alice) EXCEPT !.creator = other],
            [UpgradeTo(K2, 1) EXCEPT !.sender = other], [Delayed(wd) EXCEPT !.sender = other],
            [Simple(small) EXCEPT !.data = big]}

ProxyThemes ==
    { {Simple(small), Simple(big), Simple(huge), Deposits(bob), Deposits(alice)},
      {Simple(wd), Simple(big), Deposits(alice), Simple(dust)},
      {NewChunked, ChunkAt(0, "c1"), ChunkAt(1, "c2"), Simple(small)},
      {NewChunked, ChunkAt(0, "c2"), ChunkAt(1, "c1"), ChunkAt(2, "c1")},
      {UpgradeTo(K2, 2), Deposits(bob), Simple(big), Simple(small), Simple(wd)},
      {UpgradeTo(K3, 2), Deposits(bob), Simple(poor), Simple(wrong)},
      {NewSequencer, Deposits(bob), Blueprint(2, 1, 0, "q1"), Delayed(small)} }

SequencerThemes ==
    { {Deposits(bob), Blueprint(0, 2, 0, "p1"), Blueprint(0, 2, 1, "p2"), UpgradeTo(K2, 1), Deposits(alice)},
      {Delayed(small), Deposits(alice), Blueprint(0, 1, 0, "r1"), Blueprint(1, 1, 0, "q1")},
      {Delayed(small), Blueprint(0, 1, 0, "q1"), Blueprint(0, 1, 0, "p1"), UpgradeTo(K3, 1)},
      {Delayed(small), Deposits(bob), Blueprint(0, 1, 1, "q1"), Blueprint(0, 2, 0, "p1")},
      {Blueprint(0, 1, 0, "s1"), Blueprint(1, 1, 0, "t1"), UpgradeTo(K3, 2), Deposits(bob)},
      {Simple(small), [Blueprint(0, 1, 0, "q1") EXCEPT !.signature = other], Delayed(small),
       Blueprint(0, 1, 0, "q1")} }

Themes == ProxyThemes \cup SequencerThemes \cup {{m, Simple(big)} : m \in Refused}

ASSUME MessagesTyped == \A theme \in Themes : \A m \in theme : WellTyped(m)

\* The messages of a level: some of those of a theme that were not sent yet.
MCInboxes(sent) ==
    UNION { LET left == theme \ sent
            IN  UNION { {s \in [1 .. n -> left] : IsInjective(s)} :
                        n \in 0 .. (IF MaxMessages < Cardinality(left)
                                      THEN MaxMessages ELSE Cardinality(left)) } :
            theme \in {t \in Themes : sent \subseteq t} }
=============================================================================
