--------------------------- MODULE OperationWorker ---------------------------
(***************************************************************************)
(* The baker's operation worker (operation_worker.ml): one thread follows  *)
(* the node's mempool through a stream that the node ends at every new     *)
(* head, keeps a pool of consensus operations, and counts the votes for    *)
(* the proposal the automaton watches.  The automaton's own calls          *)
(* interleave with that thread at every promise it waits for.              *)
(*                                                                         *)
(* The node's mempool and head are external: operations arrive in any      *)
(* order, a new head throws away any of them (what it keeps is classified  *)
(* again), and with "rpc" in Faults the calls that open a session fail.    *)
(***************************************************************************)
EXTENDS ConsensusOperations, Sequences

CONSTANTS
    Heads,       \* the heads (level, round) the node may take
    MaxEvents,   \* bound on the events the automaton has not consumed
    Faults       \* {} or {"rpc"}

ASSUME WorkerAssumption ==
    /\ \A h \in Heads : h.level \in Nat /\ h.round \in Nat
    /\ MaxEvents \in Nat
    /\ Faults \subseteq {"rpc"}

VARIABLES
    mempool,           \* node: validated and branch-delayed operations
    head,              \* node: level and round of the head
    cast,              \* every operation the node ever received (history)
    feed,              \* sent on the open stream, not read yet
    ended,             \* the node has closed the stream
    pc,                \* where the worker's thread waits
    batch,             \* the operations read last, while not counted
    operation_pool,    \* consensus part of the pool
    proposal_watched,  \* None or the watch with its counters
    canceler,          \* the canceler drops the watch
    qc_event_stream    \* events pushed to the automaton

node   == <<mempool, head, cast>>
stream == <<feed, ended>>
vars   == <<mempool, head, cast, feed, ended, pc, batch, operation_pool,
            proposal_watched, canceler, qc_event_stream>>

Contents == {consensus_content(op) : op \in Operations}

\* A watch lasts as long as its quorum is not reached.
Watch == [kind : WatchKinds, candidate : Candidates,
          power : 0 .. (Threshold - 1), received : SUBSET Contents]

ASSUME WatchAssumption ==
    /\ None \notin Watch
    /\ None \notin [kind : WatchKinds, candidate : Candidates]

\* Every variable has its type, and the counter of a watch (operation_worker's
\* current_voting_power) is below the threshold that would have answered it.
TypeOK ==
    /\ mempool \subseteq Operations
    /\ head \in Heads
    /\ cast \subseteq Operations
    /\ feed \subseteq Operations
    /\ ended \in BOOLEAN
    /\ pc \in {"monitor_operations", "shell_header", "get", "update_monitoring",
               "stopped"}
    /\ batch \subseteq Operations
    /\ operation_pool \subseteq Operations
    /\ proposal_watched \in Watch \cup {None}
    /\ canceler \in BOOLEAN
    /\ \A i \in 1 .. Len(qc_event_stream) :
         qc_event_stream[i] \in
            [kind : WatchKinds, candidate : Candidates, votes : SUBSET Contents]

-----------------------------------------------------------------------------
(* Counting.                                                               *)

\* Mutant of Counted: operations received before are counted again.
Mut_Counted(w, ops) ==
    {op \in ops :
        /\ op.kind = KindWatched(w.kind)
        /\ is_valid_consensus_content(w.candidate, consensus_content(op))
        /\ Power[op.slot] # None}

\* The operations of a batch that add to the counters.  They are compared
\* with those received before the batch, not with each other.
Counted(w, ops) ==
    {op \in ops :
        /\ op.kind = KindWatched(w.kind)
        /\ consensus_content(op) \notin w.received
        /\ is_valid_consensus_content(w.candidate, consensus_content(op))
        /\ Power[op.slot] # None}

\* The watch w after a batch.
Updated(w, ops) ==
    LET counted == Counted(w, ops)
    IN  [w EXCEPT !.power = @ + SumFunction([op \in counted |-> Power[op.slot]]),
                  !.received = @ \cup {consensus_content(op) : op \in counted}]

\* Once the event has been pushed, the monitoring is cancelled.
update_monitoring(w, ops) ==
    IF w = None
    THEN UNCHANGED <<proposal_watched, qc_event_stream>>
    ELSE LET u == Updated(w, ops)
         IN  IF u.power >= Threshold
             THEN /\ qc_event_stream' =
                        Append(qc_event_stream, [kind      |-> u.kind,
                                                 candidate |-> u.candidate,
                                                 votes     |-> u.received])
                  /\ proposal_watched' = None
             ELSE /\ proposal_watched' = u
                  /\ UNCHANGED qc_event_stream

\* Mutant of reset_monitoring: the votes received are kept.
Mut_reset_keeps_received(w) ==
    IF w = None THEN None ELSE [w EXCEPT !.power = 0]

reset_monitoring(w) ==
    IF w = None THEN None ELSE [w EXCEPT !.power = 0, !.received = {}]

\* Mutant of update_operations_pool: the pool is emptied.
Mut_update_operations_pool(h) == operation_pool' = {}

\* Attestations of the last 5 rounds and of the previous level are kept.
update_operations_pool(h) ==
    operation_pool' =
        {op \in operation_pool : /\ op.kind = "attestation"
                                 /\ h.round - op.round <= 5
                                 /\ h.level - op.level <= 1}

-----------------------------------------------------------------------------
(* The calls of the automaton, at any moment.                              *)

\* Replaces the watch and counts the votes already in the pool.
monitor_quorum(kind, candidate) ==
    /\ Len(qc_event_stream) < MaxEvents
    /\ update_monitoring([kind |-> kind, candidate |-> candidate, power |-> 0,
                          received |-> {}],
                         operation_pool)
    /\ UNCHANGED <<node, stream, pc, batch, operation_pool, canceler>>

\* The automaton reads the next event.
ConsumeEvent ==
    /\ qc_event_stream # <<>>
    /\ qc_event_stream' = Tail(qc_event_stream)
    /\ UNCHANGED <<node, stream, pc, batch, operation_pool, proposal_watched,
                   canceler>>

-----------------------------------------------------------------------------
(* The node.                                                               *)

NodeReceives(op) ==
    /\ op \notin mempool
    /\ mempool' = mempool \cup {op}
    /\ cast' = cast \cup {op}
    /\ feed' = IF pc \in {"shell_header", "get", "update_monitoring"} /\ ~ended
               THEN feed \cup {op} ELSE feed
    /\ UNCHANGED <<head, ended, pc, batch, operation_pool, proposal_watched,
                   canceler, qc_event_stream>>

\* A new head flushes the mempool and ends the stream.
NodeSetsHead(h, kept) ==
    /\ \/ h.level > head.level
       \/ h.level = head.level /\ h.round > head.round
    /\ head' = h
    /\ mempool' = kept
    /\ ended' = (pc # "monitor_operations")
    /\ UNCHANGED <<cast, feed, pc, batch, operation_pool, proposal_watched,
                   canceler, qc_event_stream>>

-----------------------------------------------------------------------------
(* The worker's thread.                                                    *)

\* monitor_operations, first call: a session starts with the whole mempool.
Subscribe ==
    /\ pc = "monitor_operations"
    /\ feed' = mempool
    /\ ended' = FALSE
    /\ pc' = "shell_header"
    /\ UNCHANGED <<node, batch, operation_pool, proposal_watched, canceler,
                   qc_event_stream>>

\* monitor_operations, second call: the head of now, not of the session.
ReadHead ==
    /\ pc = "shell_header"
    /\ canceler' = TRUE
    /\ update_operations_pool(head)
    /\ pc' = "get"
    /\ UNCHANGED <<node, stream, batch, proposal_watched, qc_event_stream>>

\* Either call fails: the thread ends, and its canceler, if it was ever set,
\* drops the watch.  The event stream stays open.
LoopFailed ==
    /\ "rpc" \in Faults
    /\ pc \in {"monitor_operations", "shell_header"}
    /\ pc' = "stopped"
    /\ proposal_watched' = IF canceler THEN None ELSE proposal_watched
    /\ UNCHANGED <<node, stream, batch, operation_pool, canceler,
                   qc_event_stream>>

\* A batch enters the pool before the counters' lock is taken.
ReadBatch(ops) ==
    /\ pc = "get" /\ ops # {}
    /\ batch' = ops
    /\ feed' = feed \ ops
    /\ operation_pool' = operation_pool \cup ops
    /\ pc' = "update_monitoring"
    /\ UNCHANGED <<node, ended, proposal_watched, canceler, qc_event_stream>>

CountBatch ==
    /\ pc = "update_monitoring"
    /\ update_monitoring(proposal_watched, batch)
    /\ batch' = {}
    /\ pc' = "get"
    /\ UNCHANGED <<node, stream, operation_pool, canceler>>

EndOfStream ==
    /\ pc = "get" /\ ended /\ feed = {}
    /\ proposal_watched' = reset_monitoring(proposal_watched)
    /\ pc' = "monitor_operations"
    /\ UNCHANGED <<node, stream, batch, operation_pool, canceler,
                   qc_event_stream>>

worker_loop ==
    \/ Subscribe \/ ReadHead \/ CountBatch \/ EndOfStream
    \/ \E ops \in SUBSET feed : ReadBatch(ops)

-----------------------------------------------------------------------------

Init ==
    /\ mempool = {} /\ cast = {}
    /\ head \in {h \in Heads : \A x \in Heads :
                    h.level < x.level \/ (h.level = x.level /\ h.round <= x.round)}
    /\ feed = {} /\ ended = FALSE
    /\ pc = "monitor_operations" /\ batch = {}
    /\ operation_pool = {}
    /\ proposal_watched = None
    /\ canceler = FALSE
    /\ qc_event_stream = <<>>

Next ==
    \/ \E k \in WatchKinds, c \in Candidates : monitor_quorum(k, c)
    \/ ConsumeEvent
    \/ \E op \in Operations : NodeReceives(op)
    \/ \E h \in Heads, kept \in SUBSET mempool : NodeSetsHead(h, kept)
    \/ worker_loop
    \/ LoopFailed

Spec == Init /\ [][Next]_vars

\* The thread is scheduled: a promise that is resolved is eventually resumed.
FairSpec == Spec /\ WF_vars(worker_loop)

-----------------------------------------------------------------------------
(* Properties.                                                             *)

\* The worker implements the promise the automaton relies on.
Monitor ==
    INSTANCE QuorumMonitor WITH
        request <- IF proposal_watched = None THEN None
                   ELSE [kind |-> proposal_watched.kind,
                         candidate |-> proposal_watched.candidate],
        answers <- qc_event_stream

ImplementsMonitor == Monitor!Spec

\* A watched proposal whose quorum stays in the node's mempool is reported,
\* although new heads reset the counters and reopen the stream, unless a
\* failed call ended the worker's thread.
QuorumIsReported ==
    \A k \in WatchKinds, c \in Candidates :
        LET Waiting == /\ proposal_watched # None
                       /\ proposal_watched.kind = k
                       /\ proposal_watched.candidate = c
                       /\ HasQuorum(k, c, mempool)
        IN  Waiting ~> ~Waiting \/ pc = "stopped"

\* The attestations of a reported quorum are there for our next block: they
\* outlive the heads of up to 5 later rounds, although each of them flushes
\* the pool and the node does not send them again.
ReportedQuorumInPool ==
    \A i \in 1 .. Len(qc_event_stream) :
        LET e == qc_event_stream[i]
        IN  (/\ e.kind = "Qc_watch"
             /\ head.level = e.candidate.level
             /\ head.round <= e.candidate.round + 5)
            => e.votes \subseteq {consensus_content(op) : op \in operation_pool}

=============================================================================
