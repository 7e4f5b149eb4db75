--------------------------- MODULE Highwatermarks ---------------------------
(***************************************************************************)
(* The baker's high-watermark file: for each kind of signed item (block,   *)
(* preattestation, attestation) and each delegate, the last level and      *)
(* round signed for (baking_highwatermarks.ml).  A map sends a delegate to *)
(* its mark, or to None when it never signed.                              *)
(***************************************************************************)
EXTENDS Integers

CONSTANTS
    Delegates,   \* the delegates whose keys this baker holds
    None         \* the absent value of every option type of the code

\* The three maps of the file.
Kinds == {"block", "preattestation", "attestation"}

Highwatermark == [level : Nat, round : Nat]

\* Lexicographic order on (level, round).
Covers(mark, level, round) ==
    \/ mark.level > level
    \/ mark.level = level /\ mark.round >= round

HighwatermarkMap == [Delegates -> Highwatermark \cup {None}]

\* The content of a file that does not exist yet.
empty == [k \in Kinds |-> [d \in Delegates |-> None]]

\* Mutant of may_sign: signing again at the recorded round is allowed.
Mut_may_sign(map, d, level, round) ==
    map[d] # None => Covers([level |-> level, round |-> round],
                            map[d].level, map[d].round)

\* A delegate may sign strictly above its mark.
may_sign(map, d, level, round) ==
    map[d] # None => ~Covers(map[d], level, round)

\* The mark of d never goes down.
record(map, d, level, round) ==
    IF may_sign(map, d, level, round)
    THEN [map EXCEPT ![d] = [level |-> level, round |-> round]]
    ELSE map

\* One batch for all the delegates that are about to sign.
record_all(map, ds, level, round) ==
    [d \in Delegates |->
        IF d \in ds THEN record(map, d, level, round)[d] ELSE map[d]]

=============================================================================
