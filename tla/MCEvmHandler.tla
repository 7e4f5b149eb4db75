---------------------------- MODULE MCEvmHandler ----------------------------
(* Instances of EvmHandler for TLC.                                        *)
EXTENDS EvmHandler

MCAccounts == {"alice", "c", "w", "h", "p", "r", "x", "n", "m", "z"}

\* Addresses are hashes: distinct for distinct arguments, up to the bound.
MCFresh(a, nonce) ==
  CASE a = "alice" /\ nonce = 0 -> "n"
    [] a = "c" /\ nonce = 1 -> "m"
    [] OTHER -> "z"

MCWorld ==
  [a \in MCAccounts |->
    CASE a = "alice" -> [balance |-> 30, nonce |-> 0, code |-> FALSE, slot |-> 0]
      [] a = "c" -> [balance |-> 1, nonce |-> 1, code |-> TRUE, slot |-> 0]
      [] OTHER -> EmptyAccount]

MCPrecompiles ==
  [a \in {"w", "h", "p", "r", "x"} |->
    CASE a = "w" -> "withdrawal" [] a = "h" -> "hash" [] a = "p" -> "pairing"
      [] a = "r" -> "ecrecover" [] a = "x" -> "modexp"]

MCNoLimit == -1
=============================================================================
