---------------------------- MODULE QuorumMonitor ----------------------------
(***************************************************************************)
(* What the automaton relies on when it asks its operation worker for a    *)
(* quorum: at most one event answers a request, an event is about the      *)
(* latest request, and the votes it carries were really cast, by distinct  *)
(* delegates whose powers reach the threshold.                             *)
(***************************************************************************)
EXTENDS ConsensusOperations, Sequences

VARIABLES
    request,   \* the latest request not answered yet, or None
    cast,      \* the operations sent so far
    answers    \* the events the automaton has not consumed

Request == [kind : WatchKinds, candidate : Candidates]

Init == request = None /\ cast = {} /\ answers = <<>>

Cast(op) ==
    /\ cast' = cast \cup {op}
    /\ UNCHANGED <<request, answers>>

\* r is answered: by votes among those cast.
Answer(r, contents) ==
    /\ contents \subseteq VotesFor(r.kind, r.candidate, cast)
    /\ PowerOf(contents) >= Threshold
    /\ answers' = Append(answers, [kind |-> r.kind, candidate |-> r.candidate,
                                   votes |-> contents])
    /\ request' = None
    /\ UNCHANGED cast

Report ==
    /\ request # None
    /\ \E contents \in SUBSET VotesFor(request.kind, request.candidate, cast) :
         Answer(request, contents)

\* A new request replaces the previous one; it may be answered at once.
Ask(r) ==
    \/ request' = r /\ UNCHANGED <<cast, answers>>
    \/ \E contents \in SUBSET VotesFor(r.kind, r.candidate, cast) :
         Answer(r, contents)

\* A worker that stops drops the request.
Forget == request' = None /\ UNCHANGED <<cast, answers>>

Consume ==
    /\ answers # <<>>
    /\ answers' = Tail(answers)
    /\ UNCHANGED <<request, cast>>

Next ==
    \/ \E op \in Operations : Cast(op)
    \/ Report
    \/ \E r \in Request : Ask(r)
    \/ Forget
    \/ Consume

Spec == Init /\ [][Next]_<<request, cast, answers>>

=============================================================================
