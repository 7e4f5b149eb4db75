------------------------ MODULE OperationWorkerProofs ------------------------
(***************************************************************************)
(* Theorems about the operation worker: it implements QuorumMonitor, and   *)
(* the attestations of a quorum it has reported are in the pool.           *)
(***************************************************************************)
EXTENDS OperationWorker, SumLemmas

-----------------------------------------------------------------------------
(* Voting power.                                                           *)

Weight == [c \in Contents |-> IF Power[c.slot] = None THEN 0 ELSE Power[c.slot]]

\* There are finitely many contents, and each has a weight.
LEMMA WeightType ==
    /\ IsFiniteSet(Contents)
    /\ \A c \in Contents : Weight[c] \in Nat
<1>1. IsFiniteSet(Contents)
  <2> DEFINE m == [op \in Operations |-> consensus_content(op)]
  <2>1. Contents = {m[op] : op \in Operations}
    BY DEF Contents
  <2>2. IsFiniteSet(Operations)
    BY VotesAssumption
  <2> HIDE DEF m
  <2> QED BY <2>1, <2>2, ImageFinite
<1>2. ASSUME NEW c \in Contents PROVE Weight[c] \in Nat
  <2>1. PICK op \in Operations : c = consensus_content(op)
    BY DEF Contents
  <2>2. c.slot = op.slot
    BY <2>1 DEF consensus_content
  <2>3. Power[op.slot] \in Nat \cup {None}
    BY VotesAssumption
  <2> QED BY <2>2, <2>3 DEF Weight
<1> QED BY <1>1, <1>2

\* The power of a set of votes is the sum of their weights.
LEMMA PowerIsSum ==
    ASSUME NEW C \in SUBSET Contents
    PROVE  /\ PowerOf(C) = SumFunctionOnSet(Weight, C)
           /\ PowerOf(C) \in Nat
<1> DEFINE f == [c \in C |-> IF Power[c.slot] = None THEN 0 ELSE Power[c.slot]]
<1>1. PowerOf(C) = SumFunctionOnSet(f, C)
  BY DEF PowerOf, SumFunction
<1>2. IsFiniteSet(C)
  BY WeightType, FS_Subset
<1>3. \A c \in C : Weight[c] \in Nat /\ f[c] = Weight[c]
  BY WeightType DEF Weight
<1>4. \A c \in C : Weight[c] \in Int
  BY <1>3
<1> HIDE DEF f
<1>5. SumFunctionOnSet(f, C) = SumFunctionOnSet(Weight, C)
  BY <1>2, <1>3, <1>4, SumSame
<1>6. SumFunctionOnSet(Weight, C) \in Nat
  BY <1>2, <1>3, SumNat
<1> QED BY <1>1, <1>5, <1>6

\* No operation differs from another one in its DAL content alone.  Without
\* it two variants of one attestation in one batch are both counted.
DistinctContents ==
    \A o, p \in Operations :
        o.kind = p.kind /\ consensus_content(o) = consensus_content(p) => o = p

\* What a batch adds to the counter is the power of the votes it adds.
LEMMA CountedPower ==
    ASSUME DistinctContents, NEW w, NEW ops \in SUBSET Operations,
           w.received \subseteq Contents
    PROVE  LET counted == Counted(w, ops)
               added == {consensus_content(op) : op \in counted}
           IN  /\ added \subseteq Contents
               /\ SumFunction([op \in counted |-> Power[op.slot]]) = PowerOf(added)
               /\ PowerOf(w.received \cup added) = PowerOf(w.received) + PowerOf(added)
<1> DEFINE counted == Counted(w, ops)
           m == [op \in Operations |-> consensus_content(op)]
           added == {m[op] : op \in counted}
           h == [op \in counted |-> Power[op.slot]]
<1>1. counted \subseteq Operations /\ IsFiniteSet(counted)
  BY VotesAssumption, FS_Subset DEF Counted
<1>2. added = {consensus_content(op) : op \in counted}
  BY <1>1
<1>3. added \subseteq Contents
  BY <1>1 DEF Contents
<1>4. \A op \in counted : Weight[m[op]] \in Int /\ h[op] = Weight[m[op]]
  <2> SUFFICES ASSUME NEW op \in counted
               PROVE  Weight[m[op]] \in Int /\ h[op] = Weight[m[op]]
    OBVIOUS
  <2>1. m[op] = consensus_content(op) /\ m[op] \in Contents
    BY <1>1 DEF Contents
  <2>2. m[op].slot = op.slot
    BY <2>1 DEF consensus_content
  <2>3. Power[op.slot] # None
    BY DEF Counted
  <2>4. Weight[m[op]] = Power[op.slot]
    BY <2>1, <2>2, <2>3 DEF Weight
  <2>5. Weight[m[op]] \in Nat
    BY <2>1, WeightType
  <2> QED BY <2>4, <2>5
<1>5. \A o, p \in counted : m[o] = m[p] => o = p
  BY <1>1 DEF DistinctContents, Counted
<1>6. SumFunctionOnSet(h, counted) = SumFunctionOnSet(Weight, added)
  <2> HIDE DEF h, m, counted
  <2> QED BY <1>1, <1>4, <1>5, SumRenamed
<1>7. SumFunction(h) = SumFunctionOnSet(h, counted)
  BY DEF SumFunction
<1>8. PowerOf(added) = SumFunctionOnSet(Weight, added)
  <2> HIDE DEF added
  <2> QED BY <1>3, PowerIsSum
<1>9. w.received \cap added = {}
  BY <1>2 DEF Counted
<1>10. PowerOf(w.received \cup added) = PowerOf(w.received) + PowerOf(added)
  <2> DEFINE R == w.received
  <2>1. IsFiniteSet(R) /\ IsFiniteSet(added)
    BY <1>3, WeightType, FS_Subset
  <2>2. \A c \in R \cup added : Weight[c] \in Int
    BY <1>3, WeightType
  <2>3. R \cap added = {} /\ R \in SUBSET Contents /\ R \cup added \in SUBSET Contents
    BY <1>3, <1>9
  <2> HIDE DEF R, added
  <2>4. SumFunctionOnSet(Weight, R \cup added) = SumFunctionOnSet(Weight, R) + SumFunctionOnSet(Weight, added)
    BY <2>1, <2>2, <2>3, SumUnion
  <2>5. PowerOf(R) = SumFunctionOnSet(Weight, R)
    BY <2>3, PowerIsSum
  <2>6. PowerOf(R \cup added) = SumFunctionOnSet(Weight, R \cup added)
    BY <2>3, PowerIsSum
  <2>7. PowerOf(R \cup added) = PowerOf(R) + PowerOf(added)
    BY <2>4, <2>5, <2>6, <1>8
  <2> QED BY <2>7 DEF R
<1> HIDE DEF h, added, counted
<1> QED BY <1>2, <1>3, <1>6, <1>7, <1>8, <1>10 DEF h, counted

-----------------------------------------------------------------------------
(* The inductive invariant.                                                *)

Pcs == {"monitor_operations", "shell_header", "get", "update_monitoring", "stopped"}
Events == [kind : WatchKinds, candidate : Candidates, votes : SUBSET Contents]

\* Whatever the worker holds was sent by the node, a batch it has not counted
\* is in its pool, and the votes a watch has received were cast for it.
Sent ==
    /\ mempool \subseteq cast
    /\ feed \subseteq cast
    /\ operation_pool \subseteq cast
    /\ batch \subseteq operation_pool
    /\ pc # "update_monitoring" => batch = {}
    /\ proposal_watched # None =>
         proposal_watched.received \subseteq
            VotesFor(proposal_watched.kind, proposal_watched.candidate, cast)

IInv == TypeOK /\ qc_event_stream \in Seq(Events) /\ Sent

\* The counter of a watch is the power of the votes it has received.
Count ==
    proposal_watched # None =>
        proposal_watched.power = PowerOf(proposal_watched.received)

\* The votes for a candidate are contents, and more operations have more votes.
LEMMA VotesGrow ==
    ASSUME NEW k, NEW c, NEW A \in SUBSET Operations, NEW B \in SUBSET A
    PROVE  VotesFor(k, c, B) \subseteq VotesFor(k, c, A) /\ VotesFor(k, c, A) \subseteq Contents
BY DEF VotesFor, Contents

\* One round of counting: kind and candidate stay, the votes added are votes
\* of the batch for the candidate, and the counter stays a number.
LEMMA UpdatedWatch ==
    ASSUME NEW w \in Watch, NEW ops \in SUBSET Operations
    PROVE  LET u == Updated(w, ops)
               added == {consensus_content(op) : op \in Counted(w, ops)}
           IN  /\ u.kind = w.kind /\ u.candidate = w.candidate
               /\ u.received = w.received \cup added
               /\ u.power = w.power + SumFunction([op \in Counted(w, ops) |-> Power[op.slot]])
               /\ added \subseteq VotesFor(w.kind, w.candidate, ops)
               /\ u.power \in Nat
               /\ u.received \in SUBSET Contents
               /\ u.power < Threshold => u \in Watch
<1> DEFINE u == Updated(w, ops)
           counted == Counted(w, ops)
           added == {consensus_content(op) : op \in counted}
           h == [op \in counted |-> Power[op.slot]]
<1>1. u = [kind |-> w.kind, candidate |-> w.candidate,
           power |-> w.power + SumFunction(h), received |-> w.received \cup added]
  <2> DEFINE sum == SumFunction(h)
  <2>1. u = [w EXCEPT !.power = @ + sum, !.received = @ \cup added]
    BY DEF Updated
  <2> HIDE DEF u, sum, added
  <2>2. u = [kind |-> w.kind, candidate |-> w.candidate,
             power |-> w.power + sum, received |-> w.received \cup added]
    BY <2>1 DEF Watch
  <2> QED BY <2>2 DEF sum
<1>2. counted \subseteq Operations /\ IsFiniteSet(counted)
  BY VotesAssumption, FS_Subset DEF Counted
<1>3. \A op \in counted : h[op] \in Nat
  <2> SUFFICES ASSUME NEW op \in counted PROVE h[op] \in Nat
    OBVIOUS
  <2>1. Power[op.slot] \in Nat \cup {None}
    BY <1>2, VotesAssumption
  <2>2. Power[op.slot] # None
    BY DEF Counted
  <2> QED BY <2>1, <2>2
<1>4. SumFunction(h) \in Nat
  <2>1. SumFunction(h) = SumFunctionOnSet(h, counted)
    BY DEF SumFunction
  <2> HIDE DEF h, counted
  <2> QED BY <1>2, <1>3, <2>1, SumNat
<1>5. added \subseteq VotesFor(w.kind, w.candidate, ops)
  <2> SUFFICES ASSUME NEW op \in counted
               PROVE  consensus_content(op) \in VotesFor(w.kind, w.candidate, ops)
    OBVIOUS
  <2>1. /\ op \in ops /\ op.kind = KindWatched(w.kind)
        /\ op.round = w.candidate.round /\ op.payload = w.candidate.payload
        /\ Power[op.slot] # None
    BY DEF Counted, is_valid_consensus_content, consensus_content
  <2> QED BY <2>1 DEF VotesFor
<1>6. added \subseteq Contents
  BY <1>2 DEF Contents
<1>7. w.power \in Nat /\ w.received \subseteq Contents /\ w.kind \in WatchKinds /\ w.candidate \in Candidates
  BY VotesAssumption DEF Watch
<1>8. Threshold \in Nat
  BY VotesAssumption
<1> HIDE DEF u, h, added
<1>9. u.power \in Nat /\ u.received \in SUBSET Contents
  BY <1>1, <1>4, <1>6, <1>7
<1>10. u.power < Threshold => u \in Watch
  <2> SUFFICES ASSUME u.power < Threshold PROVE u \in Watch
    OBVIOUS
  <2>1. u.power \in 0 .. (Threshold - 1)
    BY <1>8, <1>9
  <2> QED BY <1>1, <1>6, <1>7, <1>9, <2>1 DEF Watch
<1> QED BY <1>1, <1>5, <1>9, <1>10 DEF u, added, h

\* The effect of update_monitoring on the watch and on the events.
LEMMA Monitoring ==
    ASSUME IInv, NEW w \in Watch, NEW ops \in SUBSET operation_pool,
           update_monitoring(w, ops),
           w.received \subseteq VotesFor(w.kind, w.candidate, cast)
    PROVE  LET u == Updated(w, ops)
           IN  /\ u.received \subseteq VotesFor(w.kind, w.candidate, cast)
               /\ \/ /\ u.power >= Threshold
                     /\ proposal_watched' = None
                     /\ qc_event_stream' =
                            Append(qc_event_stream, [kind |-> w.kind, candidate |-> w.candidate,
                                                     votes |-> u.received])
                     /\ [kind |-> w.kind, candidate |-> w.candidate, votes |-> u.received] \in Events
                     /\ qc_event_stream' \in Seq(Events)
                  \/ /\ u.power < Threshold
                     /\ proposal_watched' = u /\ u \in Watch /\ u # None
                     /\ qc_event_stream' = qc_event_stream
<1> DEFINE u == Updated(w, ops)
           added == {consensus_content(op) : op \in Counted(w, ops)}
           e == [kind |-> w.kind, candidate |-> w.candidate, votes |-> u.received]
<1>1. ops \in SUBSET Operations /\ operation_pool \subseteq cast /\ cast \subseteq Operations
  BY DEF IInv, TypeOK, Sent
<1>2. /\ u.kind = w.kind /\ u.candidate = w.candidate
      /\ u.received = w.received \cup added
      /\ added \subseteq VotesFor(w.kind, w.candidate, ops)
      /\ u.power \in Nat
      /\ u.received \in SUBSET Contents
      /\ u.power < Threshold => u \in Watch
  BY <1>1, UpdatedWatch
<1>3. u.received \subseteq VotesFor(w.kind, w.candidate, cast)
  <2>1. VotesFor(w.kind, w.candidate, ops) \subseteq VotesFor(w.kind, w.candidate, cast)
    BY <1>1, VotesGrow
  <2> QED BY <1>2, <2>1
<1>4. w # None
  BY WatchAssumption
<1>5. Threshold \in Nat
  BY VotesAssumption
<1>6. w.kind \in WatchKinds /\ w.candidate \in Candidates
  BY DEF Watch
<1>7. IF u.power >= Threshold
      THEN /\ qc_event_stream' = Append(qc_event_stream, [kind |-> u.kind, candidate |-> u.candidate, votes |-> u.received])
           /\ proposal_watched' = None
      ELSE proposal_watched' = u /\ UNCHANGED qc_event_stream
  BY <1>4 DEF update_monitoring
<1> HIDE DEF u
<1>8. CASE u.power >= Threshold
  <2>1. qc_event_stream' = Append(qc_event_stream, e) /\ proposal_watched' = None
    BY <1>2, <1>7, <1>8
  <2>2. e \in Events
    BY <1>2, <1>6 DEF Events
  <2>3. qc_event_stream \in Seq(Events)
    BY DEF IInv
  <2> HIDE DEF e
  <2>4. qc_event_stream' \in Seq(Events)
    BY <2>1, <2>2, <2>3
  <2> QED BY <1>3, <1>8, <2>1, <2>2, <2>4 DEF u, e
<1>9. CASE u.power < Threshold
  <2>1. proposal_watched' = u /\ qc_event_stream' = qc_event_stream
    BY <1>2, <1>5, <1>7, <1>9
  <2>2. u \in Watch
    BY <1>2, <1>9
  <2>3. u # None
    BY <2>2, WatchAssumption
  <2> QED BY <1>3, <1>9, <2>1, <2>2, <2>3 DEF u
<1> QED BY <1>2, <1>5, <1>8, <1>9

-----------------------------------------------------------------------------
(* Every action preserves IInv; update_monitoring keeps Count as well.     *)

\* A watch just created has received nothing.
LEMMA NewWatch ==
    ASSUME NEW k \in WatchKinds, NEW c \in Candidates
    PROVE  LET w == [kind |-> k, candidate |-> c, power |-> 0, received |-> {}]
           IN  w \in Watch /\ w.received = {} /\ w.power = 0 /\ w.kind = k /\ w.candidate = c
<1>1. 0 \in 0 .. (Threshold - 1)
  BY VotesAssumption
<1> QED BY <1>1 DEF Watch

\* The empty set of votes has no power.
LEMMA NoPower == PowerOf({}) = 0
<1>1. PowerOf({}) = SumFunctionOnSet(Weight, {})
  BY PowerIsSum
<1> QED BY <1>1, SumEmpty

\* A watch updated by operations of the pool is legal again, and counts right
\* when it did before and no operation differs in its DAL content alone.
LEMMA UpdateKeeps ==
    ASSUME IInv, NEW w \in Watch, NEW ops \in SUBSET operation_pool,
           update_monitoring(w, ops),
           w.received \subseteq VotesFor(w.kind, w.candidate, cast)
    PROVE  /\ proposal_watched' \in Watch \cup {None}
           /\ qc_event_stream' \in Seq(Events)
           /\ proposal_watched' # None =>
                proposal_watched'.received \subseteq
                    VotesFor(proposal_watched'.kind, proposal_watched'.candidate, cast)
           /\ DistinctContents /\ w.power = PowerOf(w.received) =>
                /\ Updated(w, ops).power = PowerOf(Updated(w, ops).received)
                /\ Count'
<1> DEFINE u == Updated(w, ops)
<1>1. ops \in SUBSET Operations
  BY DEF IInv, TypeOK
<1>2. u.kind = w.kind /\ u.candidate = w.candidate
  BY <1>1, UpdatedWatch
<1>3. /\ u.received \subseteq VotesFor(w.kind, w.candidate, cast)
      /\ \/ proposal_watched' = None /\ qc_event_stream' \in Seq(Events)
         \/ proposal_watched' = u /\ u \in Watch /\ qc_event_stream' = qc_event_stream
  BY Monitoring
<1>4. qc_event_stream \in Seq(Events)
  BY DEF IInv
<1>5. ASSUME DistinctContents, w.power = PowerOf(w.received)
      PROVE  u.power = PowerOf(u.received)
  <2> DEFINE added == {consensus_content(op) : op \in Counted(w, ops)}
             sum == SumFunction([op \in Counted(w, ops) |-> Power[op.slot]])
  <2>1. u.received = w.received \cup added /\ u.power = w.power + sum
    BY <1>1, UpdatedWatch
  <2>2. w.received \subseteq Contents
    BY DEF Watch
  <2>3. sum = PowerOf(added) /\ PowerOf(w.received \cup added) = PowerOf(w.received) + PowerOf(added)
    BY <1>1, <1>5, <2>2, CountedPower
  <2> HIDE DEF u, added, sum
  <2> QED BY <1>5, <2>1, <2>3
<1> HIDE DEF u
<1>6. DistinctContents /\ w.power = PowerOf(w.received) => Count'
  BY <1>3, <1>5 DEF Count
<1> QED BY <1>2, <1>3, <1>4, <1>5, <1>6 DEF u

\* The invariant holds at the start: nothing is sent, watched or reported.
LEMMA InitIInv == ASSUME Init PROVE IInv /\ Count
<1>1. TypeOK
  <2>1. \A i \in 1 .. Len(qc_event_stream) : FALSE
    BY DEF Init
  <2>2. head \in Heads
    BY DEF Init
  <2> QED BY <2>1, <2>2 DEF Init, TypeOK
<1>2. <<>> \in Seq(Events)
  OBVIOUS
<1> QED BY <1>1, <1>2 DEF Init, IInv, Sent, Count

\* A new watch counts the votes in the pool.
LEMMA monitor_quorum_IInv ==
    ASSUME IInv, NEW k \in WatchKinds, NEW c \in Candidates, monitor_quorum(k, c)
    PROVE  IInv' /\ (DistinctContents => Count')
<1> DEFINE w == [kind |-> k, candidate |-> c, power |-> 0, received |-> {}]
<1>1. w \in Watch /\ w.received = {} /\ w.power = 0 /\ w.kind = k /\ w.candidate = c
  BY NewWatch
<1>2. update_monitoring(w, operation_pool)
  BY DEF monitor_quorum
<1>3. UNCHANGED <<mempool, head, cast, feed, ended, pc, batch, operation_pool, canceler>>
  BY DEF monitor_quorum, node, stream
<1>4. w.power = PowerOf(w.received)
  BY <1>1, NoPower
<1> HIDE DEF w
<1>5. /\ proposal_watched' \in Watch \cup {None}
      /\ qc_event_stream' \in Seq(Events)
      /\ proposal_watched' # None =>
           proposal_watched'.received \subseteq
              VotesFor(proposal_watched'.kind, proposal_watched'.candidate, cast)
      /\ DistinctContents => Count'
  BY <1>1, <1>2, <1>4, UpdateKeeps
<1>6. Sent'
  BY <1>3, <1>5 DEF IInv, Sent
<1>7. TypeOK'
  <2>1. \A i \in 1 .. Len(qc_event_stream') : qc_event_stream'[i] \in Events
    BY <1>5
  <2> QED BY <1>3, <1>5, <2>1 DEF IInv, TypeOK, Events
<1> QED BY <1>5, <1>6, <1>7 DEF IInv

\* Counting a batch: it is in the pool.
LEMMA CountBatch_IInv ==
    ASSUME IInv, CountBatch
    PROVE  IInv' /\ (DistinctContents /\ Count => Count')
<1>1. UNCHANGED <<mempool, head, cast, feed, ended, operation_pool, canceler>>
      /\ batch' = {} /\ pc' = "get"
  BY DEF CountBatch, node, stream
<1>2. update_monitoring(proposal_watched, batch) /\ batch \in SUBSET operation_pool
  BY DEF CountBatch, IInv, Sent
<1>3. /\ proposal_watched' \in Watch \cup {None}
      /\ qc_event_stream' \in Seq(Events)
      /\ proposal_watched' # None =>
           proposal_watched'.received \subseteq
              VotesFor(proposal_watched'.kind, proposal_watched'.candidate, cast)
      /\ DistinctContents /\ Count => Count'
  <2>1. CASE proposal_watched = None
    <3>1. UNCHANGED <<proposal_watched, qc_event_stream>>
      BY <1>2, <2>1 DEF update_monitoring
    <3> QED BY <2>1, <3>1 DEF IInv, Count
  <2>2. CASE proposal_watched # None
    <3>1. proposal_watched \in Watch
      BY <2>2 DEF IInv, TypeOK
    <3>2. proposal_watched.received \subseteq
             VotesFor(proposal_watched.kind, proposal_watched.candidate, cast)
      BY <2>2 DEF IInv, Sent
    <3>3. Count => proposal_watched.power = PowerOf(proposal_watched.received)
      BY <2>2 DEF Count
    <3> QED BY <1>2, <3>1, <3>2, <3>3, UpdateKeeps
  <2> QED BY <2>1, <2>2
<1>4. Sent'
  BY <1>1, <1>3 DEF IInv, Sent
<1>5. TypeOK'
  <2>1. \A i \in 1 .. Len(qc_event_stream') : qc_event_stream'[i] \in Events
    BY <1>3
  <2> QED BY <1>1, <1>3, <2>1 DEF IInv, TypeOK, Events
<1> QED BY <1>3, <1>4, <1>5 DEF IInv

\* The other actions leave the votes of a watch alone or reset them.
LEMMA OtherActions ==
    ASSUME IInv,
           \/ ConsumeEvent
           \/ \E op \in Operations : NodeReceives(op)
           \/ \E h \in Heads, kept \in SUBSET mempool : NodeSetsHead(h, kept)
           \/ Subscribe \/ ReadHead \/ EndOfStream
           \/ \E ops \in SUBSET feed : ReadBatch(ops)
           \/ LoopFailed
    PROVE  IInv' /\ (Count => Count')
<1> USE DEF node, stream
<1>1. CASE ConsumeEvent
  <2>1. qc_event_stream' \in Seq(Events)
    BY <1>1 DEF IInv, ConsumeEvent
  <2>2. \A i \in 1 .. Len(qc_event_stream') : qc_event_stream'[i] \in Events
    BY <2>1
  <2>3. UNCHANGED <<mempool, head, cast, feed, ended, pc, batch, operation_pool, proposal_watched, canceler>>
    BY <1>1 DEF ConsumeEvent
  <2>4. TypeOK'
    BY <2>2, <2>3 DEF IInv, TypeOK, Events
  <2> QED BY <2>1, <2>3, <2>4 DEF IInv, Sent, Count
<1>2. CASE \E op \in Operations : NodeReceives(op)
  <2>1. PICK op \in Operations : NodeReceives(op)
    BY <1>2
  <2>2. UNCHANGED <<head, ended, pc, batch, operation_pool, proposal_watched, canceler, qc_event_stream>>
        /\ mempool' = mempool \cup {op} /\ cast' = cast \cup {op} /\ feed' \subseteq feed \cup {op}
    BY <2>1 DEF NodeReceives
  <2>3. TypeOK'
    BY <2>2 DEF IInv, TypeOK
  <2>4. proposal_watched # None =>
          proposal_watched.received \subseteq
             VotesFor(proposal_watched.kind, proposal_watched.candidate, cast')
    <3>1. cast' \in SUBSET Operations /\ cast \in SUBSET cast'
      BY <2>2 DEF IInv, TypeOK
    <3>2. VotesFor(proposal_watched.kind, proposal_watched.candidate, cast) \subseteq
             VotesFor(proposal_watched.kind, proposal_watched.candidate, cast')
      BY <3>1, VotesGrow
    <3> QED BY <3>2 DEF IInv, Sent
  <2>5. Sent'
    BY <2>2, <2>4 DEF IInv, Sent
  <2> QED BY <2>2, <2>3, <2>5 DEF IInv, Count
<1>3. CASE \E h \in Heads, kept \in SUBSET mempool : NodeSetsHead(h, kept)
  <2>1. TypeOK'
    BY <1>3 DEF NodeSetsHead, IInv, TypeOK
  <2>2. Sent'
    BY <1>3 DEF NodeSetsHead, IInv, Sent
  <2> QED BY <1>3, <2>1, <2>2 DEF NodeSetsHead, IInv, Count
<1>4. CASE Subscribe
  BY <1>4 DEF Subscribe, IInv, TypeOK, Sent, Count
<1>5. CASE ReadHead
  <2>1. operation_pool' \subseteq operation_pool /\ batch = {}
    BY <1>5 DEF ReadHead, update_operations_pool, IInv, Sent
  <2>2. TypeOK'
    BY <1>5, <2>1 DEF ReadHead, IInv, TypeOK
  <2>3. Sent'
    BY <1>5, <2>1 DEF ReadHead, IInv, Sent
  <2> QED BY <1>5, <2>2, <2>3 DEF ReadHead, IInv, Count
<1>6. CASE EndOfStream
  <2>1. proposal_watched' = reset_monitoring(proposal_watched)
    BY <1>6 DEF EndOfStream
  <2>2. CASE proposal_watched = None
    <3>1. proposal_watched' = None
      BY <2>1, <2>2 DEF reset_monitoring
    <3> QED BY <1>6, <3>1 DEF EndOfStream, IInv, TypeOK, Sent, Count
  <2>3. CASE proposal_watched # None
    <3>1. proposal_watched \in Watch
      BY <2>3 DEF IInv, TypeOK
    <3>2. proposal_watched' = [proposal_watched EXCEPT !.power = 0, !.received = {}]
      BY <2>1, <2>3 DEF reset_monitoring
    <3>3. 0 \in 0 .. (Threshold - 1)
      BY VotesAssumption
    <3>4. proposal_watched' \in Watch /\ proposal_watched'.power = 0 /\ proposal_watched'.received = {}
      BY <3>1, <3>2, <3>3 DEF Watch
    <3>5. TypeOK'
      BY <1>6, <3>4 DEF EndOfStream, IInv, TypeOK
    <3>6. Sent'
      BY <1>6, <3>4 DEF EndOfStream, IInv, Sent
    <3>7. Count'
      BY <3>4, NoPower DEF Count
    <3> QED BY <1>6, <3>5, <3>6, <3>7 DEF EndOfStream, IInv
  <2> QED BY <2>2, <2>3
<1>7. CASE \E ops \in SUBSET feed : ReadBatch(ops)
  <2>1. PICK ops \in SUBSET feed : ReadBatch(ops)
    BY <1>7
  <2>2. TypeOK'
    BY <2>1 DEF ReadBatch, IInv, TypeOK
  <2>3. Sent'
    BY <2>1 DEF ReadBatch, IInv, Sent
  <2> QED BY <2>1, <2>2, <2>3 DEF ReadBatch, IInv, Count
<1>8. CASE LoopFailed
  BY <1>8 DEF LoopFailed, IInv, TypeOK, Sent, Count
<1> QED BY <1>1, <1>2, <1>3, <1>4, <1>5, <1>6, <1>7, <1>8

\* One step of the worker, of the node or of the automaton.
LEMMA NextIInv ==
    ASSUME IInv, [Next]_vars
    PROVE  IInv' /\ (DistinctContents /\ Count => Count')
<1>1. CASE \E k \in WatchKinds, c \in Candidates : monitor_quorum(k, c)
  BY <1>1, monitor_quorum_IInv
<1>2. CASE CountBatch
  BY <1>2, CountBatch_IInv
<1>3. CASE \/ ConsumeEvent
           \/ \E op \in Operations : NodeReceives(op)
           \/ \E h \in Heads, kept \in SUBSET mempool : NodeSetsHead(h, kept)
           \/ Subscribe \/ ReadHead \/ EndOfStream
           \/ \E ops \in SUBSET feed : ReadBatch(ops)
           \/ LoopFailed
  BY <1>3, OtherActions
<1>4. CASE UNCHANGED vars
  BY <1>4 DEF vars, IInv, TypeOK, Sent, Count
<1> QED BY <1>1, <1>2, <1>3, <1>4 DEF Next, worker_loop

-----------------------------------------------------------------------------
(* The worker implements QuorumMonitor.                                    *)

\* The monitor's request, read off the watch.
Requested == IF proposal_watched = None THEN None
             ELSE [kind |-> proposal_watched.kind, candidate |-> proposal_watched.candidate]

\* Both modules count votes and power alike.
LEMMA SameCounting ==
    ASSUME NEW k, NEW c, NEW A
    PROVE  Monitor!VotesFor(k, c, A) = VotesFor(k, c, A) /\ Monitor!PowerOf(A) = PowerOf(A)
<1>1. Monitor!VotesFor(k, c, A) = VotesFor(k, c, A)
  BY DEF VotesFor, Monitor!VotesFor, KindWatched, Monitor!KindWatched,
         consensus_content, Monitor!consensus_content
<1>2. Monitor!PowerOf(A) = PowerOf(A)
  BY DEF PowerOf, Monitor!PowerOf, SumFunction, SumFunctionOnSet,
         FoldFunctionOnSet, MapThenFoldSet, Monitor!SumFunction,
         Monitor!SumFunctionOnSet, Monitor!FoldFunctionOnSet, Monitor!MapThenFoldSet
<1> QED BY <1>1, <1>2

\* What counting does, seen by the automaton: the request stays, or it is
\* answered by votes that were cast and whose powers reach the threshold.
LEMMA CountingRefines ==
    ASSUME IInv, DistinctContents, NEW w \in Watch, NEW ops \in SUBSET operation_pool,
           update_monitoring(w, ops), UNCHANGED cast,
           w.received \subseteq VotesFor(w.kind, w.candidate, cast),
           w.power = PowerOf(w.received)
    PROVE  LET r == [kind |-> w.kind, candidate |-> w.candidate]
           IN  /\ r \in Monitor!Request /\ r # None
               /\ \/ Requested' = r /\ qc_event_stream' = qc_event_stream
                  \/ \E contents \in SUBSET Monitor!VotesFor(r.kind, r.candidate, cast) :
                        Monitor!Answer(r, contents)
<1> DEFINE r == [kind |-> w.kind, candidate |-> w.candidate]
           u == Updated(w, ops)
<1>1. r \in Monitor!Request /\ r # None
  <2>1. w.kind \in WatchKinds /\ w.candidate \in Candidates
    BY DEF Watch
  <2>2. r # None
    BY <2>1, WatchAssumption
  <2> QED BY <2>1, <2>2 DEF Monitor!Request, Monitor!WatchKinds, WatchKinds
<1>2. /\ u.received \subseteq VotesFor(w.kind, w.candidate, cast)
      /\ \/ /\ u.power >= Threshold
            /\ proposal_watched' = None
            /\ qc_event_stream' =
                 Append(qc_event_stream, [kind |-> w.kind, candidate |-> w.candidate,
                                          votes |-> u.received])
         \/ proposal_watched' = u /\ u # None /\ qc_event_stream' = qc_event_stream
  BY Monitoring
<1>3. u.power = PowerOf(u.received)
  BY UpdateKeeps
<1>4. u.kind = w.kind /\ u.candidate = w.candidate
  <2>1. ops \in SUBSET Operations
    BY DEF IInv, TypeOK
  <2> QED BY <2>1, UpdatedWatch
<1> HIDE DEF u
<1>5. CASE proposal_watched' = u /\ u # None /\ qc_event_stream' = qc_event_stream
  <2>1. Requested' = r
    BY <1>4, <1>5 DEF Requested
  <2> QED BY <1>1, <1>5, <2>1
<1>6. CASE /\ u.power >= Threshold
           /\ proposal_watched' = None
           /\ qc_event_stream' =
                Append(qc_event_stream, [kind |-> w.kind, candidate |-> w.candidate,
                                         votes |-> u.received])
  <2>1. r.kind = w.kind /\ r.candidate = w.candidate
    OBVIOUS
  <2>2. u.received \subseteq Monitor!VotesFor(r.kind, r.candidate, cast)
    BY <1>2, <2>1, SameCounting
  <2>3. Monitor!PowerOf(u.received) >= Threshold
    BY <1>3, <1>6, SameCounting
  <2>4. Monitor!Answer(r, u.received)
    BY <1>6, <2>1, <2>2, <2>3 DEF Monitor!Answer
  <2> QED BY <1>1, <2>2, <2>4
<1> QED BY <1>1, <1>2, <1>5, <1>6

\* Every step of the worker is a step of the monitor, or one it does not see.
LEMMA StepRefines ==
    ASSUME IInv, Count, DistinctContents, [Next]_vars
    PROVE  Monitor!Next \/ UNCHANGED <<Requested, cast, qc_event_stream>>
<1> USE DEF node, stream
<1>1. ASSUME NEW k \in WatchKinds, NEW c \in Candidates, monitor_quorum(k, c)
      PROVE  Monitor!Next
  <2> DEFINE w == [kind |-> k, candidate |-> c, power |-> 0, received |-> {}]
             r == [kind |-> w.kind, candidate |-> w.candidate]
  <2>1. w \in Watch /\ w.received = {} /\ w.power = 0
    BY NewWatch
  <2>2. update_monitoring(w, operation_pool) /\ UNCHANGED cast
    BY <1>1 DEF monitor_quorum
  <2>3. w.power = PowerOf(w.received)
    BY <2>1, NoPower
  <2> HIDE DEF w
  <2>4. /\ r \in Monitor!Request
        /\ \/ Requested' = r /\ qc_event_stream' = qc_event_stream
           \/ \E contents \in SUBSET Monitor!VotesFor(r.kind, r.candidate, cast) :
                 Monitor!Answer(r, contents)
    BY <2>1, <2>2, <2>3, CountingRefines
  <2>5. Monitor!Ask(r)
    <3>1. CASE Requested' = r /\ qc_event_stream' = qc_event_stream
      BY <2>2, <3>1 DEF Monitor!Ask, Requested
    <3>2. CASE \E contents \in SUBSET Monitor!VotesFor(r.kind, r.candidate, cast) :
                 Monitor!Answer(r, contents)
      BY <3>2 DEF Monitor!Ask
    <3> QED BY <2>4, <3>1, <3>2
  <2> QED BY <2>4, <2>5 DEF Monitor!Next
<1>2. ASSUME CountBatch
      PROVE  Monitor!Next \/ UNCHANGED <<Requested, cast, qc_event_stream>>
  <2>1. update_monitoring(proposal_watched, batch) /\ batch \in SUBSET operation_pool /\ UNCHANGED cast
    BY <1>2 DEF CountBatch, IInv, Sent
  <2>2. CASE proposal_watched = None
    BY <2>1, <2>2 DEF update_monitoring, Requested
  <2>3. CASE proposal_watched # None
    <3> DEFINE r == [kind |-> proposal_watched.kind, candidate |-> proposal_watched.candidate]
    <3>1. proposal_watched \in Watch
      BY <2>3 DEF IInv, TypeOK
    <3>2. /\ proposal_watched.received \subseteq
               VotesFor(proposal_watched.kind, proposal_watched.candidate, cast)
          /\ proposal_watched.power = PowerOf(proposal_watched.received)
      BY <2>3 DEF IInv, Sent, Count
    <3>3. /\ r # None
          /\ \/ Requested' = r /\ qc_event_stream' = qc_event_stream
             \/ \E contents \in SUBSET Monitor!VotesFor(r.kind, r.candidate, cast) :
                   Monitor!Answer(r, contents)
      BY <2>1, <3>1, <3>2, CountingRefines
    <3>4. Requested = r
      BY <2>3 DEF Requested
    <3> HIDE DEF r
    <3>5. CASE Requested' = r /\ qc_event_stream' = qc_event_stream
      BY <2>1, <3>4, <3>5
    <3>6. CASE \E contents \in SUBSET Monitor!VotesFor(r.kind, r.candidate, cast) :
                   Monitor!Answer(r, contents)
      <4>1. Monitor!Report
        BY <3>3, <3>4, <3>6 DEF Monitor!Report, Requested
      <4> QED BY <4>1 DEF Monitor!Next
    <3> QED BY <3>3, <3>5, <3>6
  <2> QED BY <2>2, <2>3
<1>3. ASSUME ConsumeEvent PROVE Monitor!Next
  <2>1. Monitor!Consume
    BY <1>3 DEF ConsumeEvent, Monitor!Consume
  <2> QED BY <2>1 DEF Monitor!Next
<1>4. ASSUME NEW op \in Operations, NodeReceives(op) PROVE Monitor!Next
  <2>1. Monitor!Cast(op)
    BY <1>4 DEF NodeReceives, Monitor!Cast
  <2> QED BY <2>1 DEF Monitor!Next
<1>5. ASSUME LoopFailed PROVE Monitor!Next \/ UNCHANGED <<Requested, cast, qc_event_stream>>
  <2>1. CASE canceler
    <3>1. Monitor!Forget
      BY <1>5, <2>1 DEF LoopFailed, Monitor!Forget
    <3> QED BY <3>1 DEF Monitor!Next
  <2>2. CASE ~canceler
    BY <1>5, <2>2 DEF LoopFailed, Requested
  <2> QED BY <2>1, <2>2
<1>6. ASSUME EndOfStream PROVE UNCHANGED <<Requested, cast, qc_event_stream>>
  <2>1. proposal_watched' = reset_monitoring(proposal_watched) /\ UNCHANGED <<cast, qc_event_stream>>
    BY <1>6 DEF EndOfStream
  <2>2. CASE proposal_watched = None
    BY <2>1, <2>2 DEF reset_monitoring, Requested
  <2>3. CASE proposal_watched # None
    <3>1. proposal_watched \in Watch
      BY <2>3 DEF IInv, TypeOK
    <3>2. proposal_watched' = [proposal_watched EXCEPT !.power = 0, !.received = {}]
      BY <2>1, <2>3 DEF reset_monitoring
    <3>3. 0 \in 0 .. (Threshold - 1)
      BY VotesAssumption
    <3>4. /\ proposal_watched' \in Watch
          /\ proposal_watched'.kind = proposal_watched.kind
          /\ proposal_watched'.candidate = proposal_watched.candidate
      BY <3>1, <3>2, <3>3 DEF Watch
    <3>5. proposal_watched' # None
      BY <3>4, WatchAssumption
    <3> QED BY <2>1, <2>3, <3>4, <3>5 DEF Requested
  <2> QED BY <2>2, <2>3
<1>7. ASSUME \/ \E h \in Heads, kept \in SUBSET mempool : NodeSetsHead(h, kept)
             \/ Subscribe \/ ReadHead
             \/ \E ops \in SUBSET feed : ReadBatch(ops)
             \/ UNCHANGED vars
      PROVE  UNCHANGED <<Requested, cast, qc_event_stream>>
  <2>1. UNCHANGED <<proposal_watched, cast, qc_event_stream>>
    BY <1>7 DEF NodeSetsHead, Subscribe, ReadHead, ReadBatch, vars
  <2> QED BY <2>1 DEF Requested
<1> QED BY <1>1, <1>2, <1>3, <1>4, <1>5, <1>6, <1>7 DEF Next, worker_loop

-----------------------------------------------------------------------------
(* The theorems.                                                           *)

\* Every variable of the worker keeps its type, whatever is watched while the
\* stream is closed, reopened or lost, and the worker holds nothing the node
\* has not sent.
THEOREM WorkerInvariance == Spec => []IInv
<1>1. Init => IInv
  BY InitIInv
<1>2. IInv /\ [Next]_vars => IInv'
  BY NextIInv
<1> QED BY <1>1, <1>2, PTL DEF Spec

\* The worker keeps its promise to the automaton, without any bound on the
\* delegates, the votes or the heads: at most one event answers a request,
\* and its votes were cast by distinct delegates whose powers reach the
\* threshold, although each new head resets the counters and sends all
\* operations again.
THEOREM MonitorImplemented ==
    ASSUME DistinctContents
    PROVE  Spec => ImplementsMonitor
<1>1. Init => IInv /\ Count /\ Monitor!Init
  <2>1. Init => Monitor!Init
    BY DEF Init, Monitor!Init
  <2> QED BY <2>1, InitIInv
<1>2. IInv /\ Count /\ [Next]_vars => IInv' /\ Count'
  BY NextIInv
<1>3. IInv /\ Count /\ [Next]_vars
        => [Monitor!Next]_<<Requested, cast, qc_event_stream>>
  BY StepRefines
<1>4. Spec => Monitor!Init /\ [][Monitor!Next]_<<Requested, cast, qc_event_stream>>
  BY <1>1, <1>2, <1>3, PTL DEF Spec
<1> QED BY <1>4 DEF ImplementsMonitor, Monitor!Spec, Requested

-----------------------------------------------------------------------------
(* The attestations of a reported quorum are in the pool.                  *)

\* A payload is the hash of operations on one predecessor: its level is known.
PayloadFixesLevel ==
    \A op \in Operations, c \in Candidates : op.payload = c.payload => op.level = c.level

\* A head of an earlier level is less than 6 rounds ahead of the candidates of
\* later ones.  The flush compares rounds across levels: such a head would
\* throw away attestations that came early.
EarlierHeads ==
    \A h \in Heads, c \in Candidates : h.level < c.level => h.round <= c.round + 5

\* The head is not more than 5 rounds past the candidate c.
NotPast(c) ==
    head.level < c.level \/ (head.level = c.level /\ head.round <= c.round + 5)

Kept(k, c, votes) ==
    k = "Qc_watch" /\ NotPast(c) => votes \subseteq VotesFor(k, c, operation_pool)

\* What a watch has received and what an event reports is still in the pool.
Pool ==
    /\ \A i \in 1 .. Len(qc_event_stream) :
         Kept(qc_event_stream[i].kind, qc_event_stream[i].candidate, qc_event_stream[i].votes)
    /\ proposal_watched # None =>
         Kept(proposal_watched.kind, proposal_watched.candidate, proposal_watched.received)

\* A head only advances, and the pool only grows or is flushed for the head:
\* votes that are kept stay kept.
LEMMA KeptStep ==
    ASSUME IInv, PayloadFixesLevel, EarlierHeads,
           NEW k \in WatchKinds, NEW c \in Candidates, NEW votes, Kept(k, c, votes),
           \/ UNCHANGED head
           \/ \E h \in Heads, kept \in SUBSET mempool : NodeSetsHead(h, kept),
           \/ operation_pool \subseteq operation_pool' /\ operation_pool' \subseteq Operations
           \/ update_operations_pool(head) /\ UNCHANGED head
    PROVE  Kept(k, c, votes)'
<1> SUFFICES ASSUME k = "Qc_watch", NotPast(c)'
             PROVE  votes \subseteq VotesFor(k, c, operation_pool')
  BY DEF Kept
<1>1. head \in Heads /\ head.level \in Nat /\ head.round \in Nat /\ c.level \in Nat /\ c.round \in Nat
  BY WorkerAssumption, VotesAssumption DEF IInv, TypeOK
<1>2. NotPast(c)
  <2>1. CASE UNCHANGED head
    BY <2>1 DEF NotPast
  <2>2. CASE \E h \in Heads, kept \in SUBSET mempool : NodeSetsHead(h, kept)
    <3>1. PICK h \in Heads : head' = h /\ (h.level > head.level \/ (h.level = head.level /\ h.round > head.round))
      BY <2>2 DEF NodeSetsHead
    <3>2. h.level \in Nat /\ h.round \in Nat
      BY WorkerAssumption
    <3> QED BY <1>1, <3>1, <3>2 DEF NotPast
  <2> QED BY <2>1, <2>2
<1>3. votes \subseteq VotesFor(k, c, operation_pool)
  BY <1>2 DEF Kept
<1>4. CASE operation_pool \subseteq operation_pool' /\ operation_pool' \subseteq Operations
  <2>1. VotesFor(k, c, operation_pool) \subseteq VotesFor(k, c, operation_pool')
    BY <1>4, VotesGrow
  <2> QED BY <1>3, <2>1
<1>5. CASE update_operations_pool(head) /\ UNCHANGED head
  <2> SUFFICES ASSUME NEW x \in votes PROVE x \in VotesFor(k, c, operation_pool')
    OBVIOUS
  <2>1. PICK op \in operation_pool : /\ op.kind = "attestation"
                                     /\ op.round = c.round
                                     /\ op.payload = c.payload
                                     /\ Power[op.slot] # None
                                     /\ x = consensus_content(op)
    BY <1>3 DEF VotesFor, KindWatched
  <2>2. op \in Operations
    BY DEF IInv, TypeOK
  <2>3. op.level = c.level
    BY <2>1, <2>2 DEF PayloadFixesLevel
  <2>4. head.round - op.round <= 5 /\ head.level - op.level <= 1
    BY <1>1, <1>2, <2>1, <2>3 DEF NotPast, EarlierHeads
  <2>5. op \in operation_pool'
    BY <1>5, <2>1, <2>4 DEF update_operations_pool
  <2> QED BY <2>1, <2>5 DEF VotesFor, KindWatched
<1> QED BY <1>4, <1>5

\* Counting a batch of the pool: what it adds is in the pool.
LEMMA PoolCounts ==
    ASSUME IInv, Pool, NEW w \in Watch, NEW ops \in SUBSET operation_pool,
           update_monitoring(w, ops), UNCHANGED <<head, operation_pool>>,
           w.received \subseteq VotesFor(w.kind, w.candidate, cast),
           Kept(w.kind, w.candidate, w.received)
    PROVE  Pool'
<1> DEFINE u == Updated(w, ops)
           e == [kind |-> w.kind, candidate |-> w.candidate, votes |-> u.received]
           added == {consensus_content(op) : op \in Counted(w, ops)}
<1>1. ops \in SUBSET Operations /\ operation_pool \in SUBSET Operations
  BY DEF IInv, TypeOK
<1>2. /\ u.kind = w.kind /\ u.candidate = w.candidate
      /\ u.received = w.received \cup added
      /\ added \subseteq VotesFor(w.kind, w.candidate, ops)
  BY <1>1, UpdatedWatch
<1>3. VotesFor(w.kind, w.candidate, ops) \subseteq VotesFor(w.kind, w.candidate, operation_pool)
  BY <1>1, VotesGrow
<1>4. Kept(w.kind, w.candidate, u.received)
  <2> HIDE DEF u, added
  <2> QED BY <1>2, <1>3 DEF Kept
<1>5. \/ /\ proposal_watched' = None
         /\ qc_event_stream' = Append(qc_event_stream, e) /\ e \in Events
      \/ proposal_watched' = u /\ u \in Watch /\ qc_event_stream' = qc_event_stream
  BY Monitoring
<1>6. qc_event_stream \in Seq(Events)
  BY DEF IInv
<1>7. \A k, c, v : Kept(k, c, v) => Kept(k, c, v)'
  BY DEF Kept, NotPast
<1>8. \A i \in 1 .. Len(qc_event_stream) :
         Kept(qc_event_stream[i].kind, qc_event_stream[i].candidate, qc_event_stream[i].votes)
  BY DEF Pool
<1> HIDE DEF u
<1>9. CASE proposal_watched' = u /\ u \in Watch /\ qc_event_stream' = qc_event_stream
  <2>1. Kept(u.kind, u.candidate, u.received)'
    BY <1>2, <1>4, <1>7
  <2>2. ASSUME NEW i \in 1 .. Len(qc_event_stream)
        PROVE  Kept(qc_event_stream[i].kind, qc_event_stream[i].candidate, qc_event_stream[i].votes)'
    BY <1>7, <1>8, <1>9 DEF Kept, NotPast
  <2> QED BY <1>9, <2>1, <2>2 DEF Pool, Kept, NotPast
<1>10. CASE /\ proposal_watched' = None
            /\ qc_event_stream' = Append(qc_event_stream, e) /\ e \in Events
  <2> SUFFICES ASSUME NEW i \in 1 .. Len(qc_event_stream')
               PROVE  Kept(qc_event_stream'[i].kind, qc_event_stream'[i].candidate, qc_event_stream'[i].votes)
    BY <1>10 DEF Pool, Kept, NotPast
  <2>1. e.kind = w.kind /\ e.candidate = w.candidate /\ e.votes = u.received
    OBVIOUS
  <2>2. Kept(e.kind, e.candidate, e.votes)
    BY <1>4, <2>1
  <2> HIDE DEF e
  <2>3. \/ i \in 1 .. Len(qc_event_stream) /\ qc_event_stream'[i] = qc_event_stream[i]
        \/ qc_event_stream'[i] = e
    BY <1>6, <1>10
  <2> QED BY <1>8, <2>2, <2>3
<1> QED BY <1>5, <1>9, <1>10

\* Every step keeps the votes of watches and events in the pool.
LEMMA NextPool ==
    ASSUME IInv, Pool, PayloadFixesLevel, EarlierHeads, [Next]_vars
    PROVE  Pool'
<1> USE DEF node, stream
<1>0. /\ qc_event_stream \in Seq(Events)
      /\ proposal_watched \in Watch \cup {None}
  BY DEF IInv, TypeOK
<1>1. ASSUME NEW k \in WatchKinds, NEW c \in Candidates, monitor_quorum(k, c)
      PROVE  Pool'
  <2> DEFINE w == [kind |-> k, candidate |-> c, power |-> 0, received |-> {}]
  <2>1. w \in Watch /\ w.received = {}
    BY NewWatch
  <2>2. update_monitoring(w, operation_pool) /\ UNCHANGED <<head, operation_pool>>
    BY <1>1 DEF monitor_quorum
  <2> HIDE DEF w
  <2>3. Kept(w.kind, w.candidate, w.received)
    BY <2>1 DEF Kept
  <2> QED BY <2>1, <2>2, <2>3, PoolCounts
<1>2. ASSUME CountBatch PROVE Pool'
  <2>1. /\ update_monitoring(proposal_watched, batch) /\ batch \in SUBSET operation_pool
        /\ UNCHANGED <<head, operation_pool>>
    BY <1>2 DEF CountBatch, IInv, Sent
  <2>2. CASE proposal_watched = None
    BY <2>1, <2>2 DEF update_monitoring, Pool, Kept, NotPast
  <2>3. CASE proposal_watched # None
    <3>1. /\ proposal_watched \in Watch
          /\ proposal_watched.received \subseteq
               VotesFor(proposal_watched.kind, proposal_watched.candidate, cast)
          /\ Kept(proposal_watched.kind, proposal_watched.candidate, proposal_watched.received)
      BY <1>0, <2>3 DEF IInv, Sent, Pool
    <3> QED BY <2>1, <3>1, PoolCounts
  <2> QED BY <2>2, <2>3
<1>3. ASSUME ConsumeEvent PROVE Pool'
  <2>1. UNCHANGED <<head, operation_pool, proposal_watched>>
        /\ qc_event_stream # <<>> /\ qc_event_stream' = Tail(qc_event_stream)
    BY <1>3 DEF ConsumeEvent
  <2>2. ASSUME NEW i \in 1 .. Len(qc_event_stream')
        PROVE  Kept(qc_event_stream'[i].kind, qc_event_stream'[i].candidate, qc_event_stream'[i].votes)
    <3>1. i + 1 \in 1 .. Len(qc_event_stream) /\ qc_event_stream'[i] = qc_event_stream[i + 1]
      BY <1>0, <2>1
    <3> QED BY <3>1 DEF Pool
  <2> QED BY <2>1, <2>2 DEF Pool, Kept, NotPast
<1>4. ASSUME EndOfStream \/ LoopFailed PROVE Pool'
  <2>1. UNCHANGED <<head, operation_pool, qc_event_stream>>
    BY <1>4 DEF EndOfStream, LoopFailed
  <2>2. \/ proposal_watched' = None
        \/ proposal_watched' = proposal_watched
        \/ proposal_watched # None /\ proposal_watched' = [proposal_watched EXCEPT !.power = 0, !.received = {}]
    BY <1>4 DEF EndOfStream, LoopFailed, reset_monitoring
  <2>3. proposal_watched' # None =>
          Kept(proposal_watched'.kind, proposal_watched'.candidate, proposal_watched'.received)
    <3>1. CASE proposal_watched # None /\ proposal_watched' = [proposal_watched EXCEPT !.power = 0, !.received = {}]
      <4>1. proposal_watched'.received = {}
        BY <1>0, <3>1 DEF Watch
      <4> QED BY <4>1 DEF Kept
    <3> QED BY <2>2, <3>1 DEF Pool
  <2> QED BY <2>1, <2>3 DEF Pool, Kept, NotPast
<1>5. ASSUME \/ \E op \in Operations : NodeReceives(op)
             \/ \E h \in Heads, kept \in SUBSET mempool : NodeSetsHead(h, kept)
             \/ Subscribe \/ ReadHead
             \/ \E ops \in SUBSET feed : ReadBatch(ops)
             \/ UNCHANGED vars
      PROVE  Pool'
  <2>1. UNCHANGED <<proposal_watched, qc_event_stream>>
    BY <1>5 DEF NodeReceives, NodeSetsHead, Subscribe, ReadHead, ReadBatch, vars
  <2>2. \/ UNCHANGED head
        \/ \E h \in Heads, kept \in SUBSET mempool : NodeSetsHead(h, kept)
    BY <1>5 DEF NodeReceives, NodeSetsHead, Subscribe, ReadHead, ReadBatch, vars
  <2>3. \/ operation_pool \subseteq operation_pool' /\ operation_pool' \subseteq Operations
        \/ update_operations_pool(head) /\ UNCHANGED head
    BY <1>5 DEF NodeReceives, NodeSetsHead, Subscribe, ReadHead, ReadBatch, vars, IInv, TypeOK
  <2>4. ASSUME NEW k \in WatchKinds, NEW c \in Candidates, NEW votes, Kept(k, c, votes)
        PROVE  Kept(k, c, votes)'
    BY <2>2, <2>3, <2>4, KeptStep
  <2>5. ASSUME NEW i \in 1 .. Len(qc_event_stream)
        PROVE  \E k, c, v : /\ k = qc_event_stream[i].kind
                            /\ c = qc_event_stream[i].candidate
                            /\ v = qc_event_stream[i].votes
                            /\ Kept(k, c, v)'
    <3>1. qc_event_stream[i] \in Events
      BY <1>0
    <3>2. PICK k, c, v : /\ k = qc_event_stream[i].kind
                         /\ c = qc_event_stream[i].candidate
                         /\ v = qc_event_stream[i].votes
      OBVIOUS
    <3>3. k \in WatchKinds /\ c \in Candidates
      BY <3>1, <3>2 DEF Events
    <3>4. Kept(k, c, v)
      BY <3>2 DEF Pool
    <3>5. Kept(k, c, v)'
      BY <2>4, <3>3, <3>4
    <3> QED BY <3>2, <3>5
  <2>6. ASSUME proposal_watched # None
        PROVE  \E k, c, v : /\ k = proposal_watched.kind
                            /\ c = proposal_watched.candidate
                            /\ v = proposal_watched.received
                            /\ Kept(k, c, v)'
    <3>1. proposal_watched \in Watch
      BY <1>0, <2>6
    <3>2. PICK k, c, v : /\ k = proposal_watched.kind
                         /\ c = proposal_watched.candidate
                         /\ v = proposal_watched.received
      OBVIOUS
    <3>3. k \in WatchKinds /\ c \in Candidates
      BY <3>1, <3>2 DEF Watch
    <3>4. Kept(k, c, v)
      BY <2>6, <3>2 DEF Pool
    <3>5. Kept(k, c, v)'
      BY <2>4, <3>3, <3>4
    <3> QED BY <3>2, <3>5
  <2> QED BY <2>1, <2>5, <2>6 DEF Pool, Kept, NotPast
<1> QED BY <1>1, <1>2, <1>3, <1>4, <1>5 DEF Next, worker_loop

\* The attestations of a quorum that was reported to the automaton are in the
\* pool for its next block for as long as the head is at most 5 rounds past
\* the candidate, although every new head flushes the pool and the session
\* that brought them is closed.
THEOREM QuorumInPool ==
    ASSUME PayloadFixesLevel, EarlierHeads
    PROVE  Spec => []ReportedQuorumInPool
<1>1. Init => IInv /\ Pool
  <2>1. Init => Pool
    <3> SUFFICES ASSUME Init PROVE Pool
      OBVIOUS
    <3>1. \A i \in 1 .. Len(qc_event_stream) : FALSE
      BY DEF Init
    <3> QED BY <3>1 DEF Init, Pool
  <2> QED BY <2>1, InitIInv
<1>2. IInv /\ Pool /\ [Next]_vars => IInv' /\ Pool'
  BY NextIInv, NextPool
<1>3. IInv /\ Pool => ReportedQuorumInPool
  <2> SUFFICES ASSUME IInv, Pool, NEW i \in 1 .. Len(qc_event_stream),
                      qc_event_stream[i].kind = "Qc_watch",
                      head.level = qc_event_stream[i].candidate.level,
                      head.round <= qc_event_stream[i].candidate.round + 5,
                      NEW x \in qc_event_stream[i].votes
               PROVE  x \in {consensus_content(op) : op \in operation_pool}
    BY DEF ReportedQuorumInPool
  <2>1. Kept(qc_event_stream[i].kind, qc_event_stream[i].candidate, qc_event_stream[i].votes)
    BY DEF Pool
  <2>2. x \in VotesFor(qc_event_stream[i].kind, qc_event_stream[i].candidate, operation_pool)
    BY <2>1 DEF Kept, NotPast
  <2> QED BY <2>2 DEF VotesFor
<1> QED BY <1>1, <1>2, <1>3, PTL DEF Spec
=============================================================================
