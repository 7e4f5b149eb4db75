------------------------- MODULE MCOperationWorker -------------------------
(* Small instances of OperationWorker. *)
EXTENDS OperationWorker, TLC

CONSTANTS a, s1, s2, s3, x

Vote(kind, round, slot, dal) ==
    [kind |-> kind, level |-> 1, round |-> round, slot |-> slot,
     payload |-> a, dal |-> dal]

\* The same payload at two rounds.
BothRounds == {[level |-> 1, round |-> 0, payload |-> a],
               [level |-> 1, round |-> 6, payload |-> a]}

\* Slots s1 and s2 make a quorum; s3 is not the first slot of a delegate.
TwoDelegates == (s1 :> 1) @@ (s2 :> 1) @@ (s3 :> None)

MixedVotes ==
    {Vote("attestation", 0, s1, x), Vote("attestation", 0, s2, x),
     Vote("preattestation", 0, s1, x), Vote("attestation", 6, s1, x)}

\* The attestations of round 0 outlive a head at round 5.
NextHeads == {[level |-> 1, round |-> 0], [level |-> 1, round |-> 5]}

=============================================================================
