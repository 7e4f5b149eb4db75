------------------------ MODULE ConsensusOperations ------------------------
(***************************************************************************)
(* The votes that the baker's operation worker counts.  An operation is a  *)
(* record of what the worker reads in it; dal is what distinguishes two    *)
(* attestations of one consensus content.                                  *)
(***************************************************************************)
EXTENDS Integers, FiniteSets, Functions

CONSTANTS
    Operations,   \* the operations that bakers may ever send
    Candidates,   \* the blocks the automaton may watch
    Power,        \* voting power of a slot; None: not a delegate's first slot
    Threshold,    \* consensus_threshold
    None

WatchKinds == {"Pqc_watch", "Qc_watch"}

KindWatched(kind) ==
    IF kind = "Pqc_watch" THEN "preattestation" ELSE "attestation"

\* What compare_consensus_contents looks at: the DAL content is not in it.
consensus_content(op) ==
    [level |-> op.level, round |-> op.round, slot |-> op.slot,
     payload |-> op.payload]

ASSUME VotesAssumption ==
    /\ IsFiniteSet(Operations)
    /\ \A op \in Operations :
         /\ op.kind \in {"preattestation", "attestation"}
         /\ op.level \in Nat /\ op.round \in Nat
         /\ Power[op.slot] \in Nat \cup {None}
    /\ \A c \in Candidates : c.level \in Nat /\ c.round \in Nat
    /\ Threshold \in Nat \ {0}
    /\ None \notin Nat

is_valid_consensus_content(candidate, content) ==
    /\ content.round = candidate.round
    /\ content.payload = candidate.payload

PowerOf(contents) ==
    SumFunction([c \in contents |->
                    IF Power[c.slot] = None THEN 0 ELSE Power[c.slot]])

\* The distinct votes for a candidate, one per slot, among some operations.
VotesFor(kind, candidate, ops) ==
    {consensus_content(op) : op \in
        {o \in ops : /\ o.kind = KindWatched(kind)
                     /\ o.round = candidate.round
                     /\ o.payload = candidate.payload
                     /\ Power[o.slot] # None}}

HasQuorum(kind, candidate, ops) ==
    PowerOf(VotesFor(kind, candidate, ops)) >= Threshold

=============================================================================
