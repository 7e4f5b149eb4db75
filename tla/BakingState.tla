---------------------------- MODULE BakingState ----------------------------
(***************************************************************************)
(* The data of the Tenderbake baker (baking_state.ml): block proposals,    *)
(* the automaton's state record, what of it is written to disk, and the    *)
(* check the recorder makes before it writes.                              *)
(*                                                                         *)
(* A block is the record of what the automaton reads in it, and that       *)
(* record stands for its hash.  The payload hash covers the predecessor    *)
(* hash, so the predecessor of a block is a function of its payload.       *)
(***************************************************************************)
EXTENDS Highwatermarks

CONSTANTS
    MaxLevel,         \* bound on the levels the node reaches
    MaxRound,         \* bound on the rounds of a level
    Payloads,         \* payload hashes
    Preds,            \* blocks of the previous level one may build on
    PredOf,           \* the predecessor a payload commits to
    PredRound,        \* the round of a predecessor
    ActivationLevel,  \* level of the protocol's first block; 0: none here
    Proposer          \* Proposer[l][r]: own delegate with slot r, or None

Levels == 1 .. MaxLevel
Rounds == 0 .. MaxRound

\* A block has no prequorum (pqc = NoPqc, as in the fitness encoding) or one
\* of a round below its own.
NoPqc == -1

Headers == [level : 1 .. MaxLevel + 1, round : Rounds, payload : Payloads,
            pqc : NoPqc .. MaxRound]

Blocks == {b \in Headers : b.pqc < b.round}

Proposals == {b \in Blocks : b.level \in Levels}

ASSUME BoundsAssumption ==
    /\ MaxLevel \in Nat \ {0}
    /\ MaxRound \in Nat
    /\ ActivationLevel \in Nat

ASSUME ChainAssumption ==
    /\ PredOf \in [Payloads -> Preds]
    /\ PredRound \in [Preds -> Nat]

ASSUME SlotsAssumption ==
    Proposer \in [1 .. MaxLevel + 1 -> [Rounds -> Delegates \cup {None}]]

predecessor(p) == PredOf[p.payload]

\* Mutant of is_first_block_in_protocol: the transition is not noticed.
Mut_is_first_block_in_protocol(p) == FALSE

\* The protocol of the predecessor differs from the block's own.
is_first_block_in_protocol(p) == p.level = ActivationLevel

\* The strict order in which the node switches heads.
LowerFitness(p, q) ==
    \/ p.level < q.level
    \/ p.level = q.level /\ p.pqc < q.pqc
    \/ /\ p.level = q.level /\ p.pqc = q.pqc
       /\ \/ PredRound[predecessor(p)] > PredRound[predecessor(q)]
          \/ /\ PredRound[predecessor(p)] = PredRound[predecessor(q)]
             /\ p.round < q.round

-----------------------------------------------------------------------------

Phases == {"Idle", "Awaiting_preattestations", "Awaiting_attestations",
           "Awaiting_application"}

LockedRound == [payload : Payloads, round : Rounds]

\* A payload seen with a prequorum: the proposal and the prequorum's round.
AttestablePayload == [proposal : Proposals, pqc : Rounds]

\* A block that may be baken upon; qc is the block whose round and payload
\* the attestations of its quorum carry (None: the empty list).
ElectedBlock == [proposal : Proposals, qc : Proposals \cup {None}]

\* A signed block kept for the next level, and the block it extends.
SignedBlock == [block : Blocks, on : Proposals]

State ==
    [ current_level              : Levels,
      latest_proposal            : Proposals,
      is_latest_proposal_applied : BOOLEAN,
      locked_round               : LockedRound \cup {None},
      attestable_payload         : AttestablePayload \cup {None},
      elected_block              : ElectedBlock \cup {None},
      next_level_proposed_round  : Rounds \cup {None},
      next_forged_block          : SignedBlock \cup {None},
      current_round              : Rounds,
      current_phase              : Phases,
      delayed_quorum             : Proposals \cup {None} ]

ASSUME NoneAssumption ==
    /\ None \notin Delegates /\ None \notin Rounds /\ None \notin Payloads
    /\ None \notin Highwatermark /\ None \notin Headers
    /\ None \notin LockedRound /\ None \notin AttestablePayload
    /\ None \notin ElectedBlock /\ None \notin SignedBlock
    /\ None \notin State

update_current_phase(s, phase) == [s EXCEPT !.current_phase = phase]

\* Our delegate that proposes at a round of the current or the next level.
round_proposer(s, level, round) ==
    Proposer[IF level = "Current" THEN s.current_level
             ELSE s.current_level + 1][round]

\* The level has a next round to wait for.
compute_next_round_time(s) ==
    LET proposal == IF s.attestable_payload = None
                    THEN s.latest_proposal
                    ELSE s.attestable_payload.proposal
    IN  /\ ~is_first_block_in_protocol(proposal)
        /\ s.next_level_proposed_round = None

-----------------------------------------------------------------------------

\* What the recorder writes to disk.
StateData ==
    [ level_data              : Levels,
      locked_round_data       : LockedRound \cup {None},
      attestable_payload_data : AttestablePayload \cup {None} ]

ASSUME NoFileAssumption == None \notin StateData

state_data(s) ==
    [ level_data              |-> s.current_level,
      locked_round_data       |-> s.locked_round,
      attestable_payload_data |-> s.attestable_payload ]

\* The recorder's check of a new state against the previous one.
is_new_locked_round_consistent(old, new) ==
    old.locked_round # None =>
        /\ new.locked_round # None
        /\ new.locked_round.round >= old.locked_round.round

is_new_attestable_payload_consistent(old, new) ==
    old.attestable_payload # None =>
        /\ new.attestable_payload # None
        /\ new.attestable_payload.proposal.round
             >= old.attestable_payload.proposal.round

is_new_state_consistent(old, new) ==
    \/ new.current_level > old.current_level
    \/ /\ new.current_level = old.current_level
       /\ is_new_locked_round_consistent(old, new)
       /\ is_new_attestable_payload_consistent(old, new)

\* Mutant of may_load_attestable_data: the lock is not read back.
Mut_may_load_attestable_data(s, disk) ==
    IF disk # None /\ disk.level_data = s.current_level
    THEN [s EXCEPT !.attestable_payload = disk.attestable_payload_data]
    ELSE s

\* A restarted baker takes the saved values back only at the saved level.
may_load_attestable_data(s, disk) ==
    IF disk # None /\ disk.level_data = s.current_level
    THEN [s EXCEPT !.locked_round = disk.locked_round_data,
                   !.attestable_payload = disk.attestable_payload_data]
    ELSE s

=============================================================================
