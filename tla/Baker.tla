------------------------------- MODULE Baker -------------------------------
(***************************************************************************)
(* One Tenderbake baker process: the event loop of baking_scheduling.ml,   *)
(* the actions of baking_actions.ml around the transition function of      *)
(* StateTransitions, the two files it keeps (state, high watermarks), and  *)
(* the event stream of its operation worker.                               *)
(*                                                                         *)
(* Its environment is the node (heads by increasing fitness, validated     *)
(* blocks in any order), the other bakers (through certs: at most one      *)
(* payload of a round gathers a prequorum), the wall clock, and the faults *)
(* listed in Faults:                                                       *)
(*   "crash"  - the process stops, between two events or inside an action  *)
(*   "sync"   - an RPC needed to enter a level or a branch fails           *)
(*   "disk"   - writing the state file fails                               *)
(*   "read"   - a restarting baker cannot read its state file              *)
(*   "hwm"    - reading or writing the high watermarks fails               *)
(*   "sign"   - the signer refuses                                         *)
(*   "forge"  - a block cannot be built, or its nonce cannot be saved      *)
(*   "inject" - injecting a block returns an error; the node may have it   *)
(*   "lag"    - the baker restarts while the node's head is still below    *)
(*              the level of the saved state                               *)
(*   "rpc"    - the operation worker cannot open a session with the node,  *)
(*              and ends until the baker is restarted                      *)
(***************************************************************************)
EXTENDS StateTransitions, Sequences

CONSTANTS
    Faults,      \* the faults that may happen
    StateRecorder, \* config.state_recorder: where the state is recorded
    MaxStream    \* bound on the quorum events not yet consumed

ASSUME FaultsAssumption ==
    Faults \subseteq {"crash", "sync", "disk", "read", "hwm", "sign",
                      "forge", "inject", "lag", "rpc"}

\* Memory is the default: --record-state asks for Filesystem.
ASSUME StateRecorderAssumption == StateRecorder \in {"Filesystem", "Memory"}

VARIABLES
    st,        \* the automaton's state; None: the process is not running
    disk,      \* the state file; None: absent
    hwm,       \* the high watermarks file
    signed,    \* everything the delegates ever signed (history)
    injected,  \* the own blocks that reached the node
    worker,    \* whether the operation worker's thread runs
    watch,     \* what the operation worker monitors
    qcs,       \* the worker's stream of quorum events
    head,      \* the node's current head
    certs,     \* the payload that has a prequorum, per level and round
    clock      \* the latest round the clock showed, per level and branch

vars == <<st, disk, hwm, signed, injected, worker, watch, qcs, head, certs,
          clock>>

Up == st # None

EventKinds == {"Prequorum_reached", "Quorum_reached"}
QuorumEvent == [kind : EventKinds, candidate : Proposals]

Item == [kind : Kinds, delegate : Delegates, level : 1 .. MaxLevel + 1,
         round : Rounds, payload : Payloads]

TypeOK ==
    /\ st \in State \cup {None}
    /\ disk \in StateData \cup {None}
    /\ hwm \in [Kinds -> HighwatermarkMap]
    /\ signed \subseteq Item
    /\ injected \subseteq Headers
    /\ worker \in {"running", "stopped"}
    /\ watch \in QuorumEvent \cup {None}
    /\ qcs \in Seq(QuorumEvent)
    /\ head \in Proposals
    /\ certs \in [Levels -> [Rounds -> Payloads \cup {None}]]
    /\ clock \in [Levels -> [Preds -> Rounds]]

-----------------------------------------------------------------------------
(* The environment.                                                        *)

\* Quorums intersect in a correct delegate, which preattests one payload.
MayCertify(level, round, payload) == certs[level][round] \in {None, payload}

\* A block the node validated: its prequorum is genuine, and a block of one
\* of our slots is one we made.
Received(p) ==
    /\ Proposer[p.level][p.round] # None => p \in injected
    /\ p.pqc # NoPqc => MayCertify(p.level, p.pqc, p.payload)
    /\ certs' = IF p.pqc = NoPqc THEN certs
                ELSE [certs EXCEPT ![p.level][p.pqc] = p.payload]

\* The clock goes forward, and a block is not handled before its time.  The
\* rounds of a level start later on a predecessor of a later round (the
\* predecessors of valid blocks have a quorum, hence one common parent).
compute_round(p, c) ==
    /\ c \in Rounds /\ c >= p.round
    /\ \A x \in Preds :
         PredRound[x] >= PredRound[predecessor(p)] => c >= clock[p.level][x]

Elapsed(p, c) ==
    clock' = [clock EXCEPT ![p.level][predecessor(p)] =
                  IF c > @ THEN c ELSE @]

-----------------------------------------------------------------------------
(* The recorder, and what follows an error or a crash.                     *)

\* In Memory nothing is compared and nothing is written.
state_recorder(prev, r) ==
    \/ StateRecorder = "Memory" /\ disk' = disk
    \/ /\ StateRecorder = "Filesystem"
       /\ is_new_state_consistent(prev, r.st)
       /\ disk' = IF r.fresh THEN state_data(r.st) ELSE disk

RecorderFails(prev, r) ==
    /\ StateRecorder = "Filesystem"
    /\ \/ ~is_new_state_consistent(prev, r.st)
       \/ "disk" \in Faults /\ r.fresh

Dies == /\ "crash" \in Faults
        /\ st' = None /\ watch' = None /\ qcs' = <<>>

\* The loop goes on from the state the transition returned, and tries to
\* record it.
ContinueAfterError(prev, base, q) ==
    /\ st' = base.st /\ watch' = watch /\ qcs' = q
    /\ \/ state_recorder(prev, base)
       \/ RecorderFails(prev, base) /\ disk' = disk

Fault(f, prev, base, q) ==
    \/ f \in Faults /\ ContinueAfterError(prev, base, q)
    \/ Dies /\ disk' = disk

-----------------------------------------------------------------------------
(* Signing.                                                                *)

\* The delegates whose high watermark lets them vote.
Authorized(kind, s, p) ==
    {d \in Delegates : may_sign(hwm[kind], d, s.current_level, p.round)}

\* The high watermarks of all of them are saved first; then ds sign.
sign_consensus_votes(kind, s, p, ds) ==
    /\ ds \subseteq Authorized(kind, s, p)
    /\ hwm' = [hwm EXCEPT ![kind] =
                 record_all(@, Authorized(kind, s, p), s.current_level,
                            p.round)]
    /\ signed' = signed \cup
         {[kind |-> kind, delegate |-> d, level |-> s.current_level,
           round |-> p.round, payload |-> p.payload] : d \in ds}

AllOrSignerFails(kind, s, p, ds) ==
    "sign" \in Faults \/ ds = Authorized(kind, s, p)

start_waiting_for_quorum(kind, s) ==
    watch' = [kind |-> kind, candidate |-> s.latest_proposal]

record_block(d, b) ==
    hwm' = [hwm EXCEPT !["block"] = record(@, d, b.level, b.round)]

MaySignBlock(d, b) == may_sign(hwm["block"], d, b.level, b.round)

\* forge_signed_block up to the recorder, which has nothing to write: a
\* proposal changes neither lock nor attestable payload.
ForgeSignedBlock(d, b) ==
    /\ MaySignBlock(d, b)
    /\ record_block(d, b)
    /\ signed' = signed \cup
         {[kind |-> "block", delegate |-> d, level |-> b.level,
           round |-> b.round, payload |-> b.payload]}

ForgeFails(prev, base, q, d, b) ==
    \/ Fault("forge", prev, base, q) /\ UNCHANGED <<hwm, signed>>
    \/ /\ ~MaySignBlock(d, b)
       /\ ContinueAfterError(prev, base, q) /\ UNCHANGED <<hwm, signed>>
    \/ /\ MaySignBlock(d, b) /\ Fault("sign", prev, base, q)
       /\ record_block(d, b) /\ UNCHANGED signed
    \/ ForgeSignedBlock(d, b) /\ Fault("forge", prev, base, q)

-----------------------------------------------------------------------------
(* perform_action on the state r that a transition, started in prev,       *)
(* returned; base is what is left of it after an error, and q the quorum   *)
(* events not consumed.                                                    *)

Do_nothing(prev, r, base, q) ==
    /\ r.act = "Do_nothing"
    /\ \/ state_recorder(prev, r) /\ st' = r.st /\ watch' = watch /\ qcs' = q
       \/ RecorderFails(prev, r) /\ ContinueAfterError(prev, base, q)
    /\ UNCHANGED <<hwm, signed>>

\* Mutant of Watch_proposal: the worker is not told.
Mut_Watch_proposal(prev, r, base, q) ==
    /\ r.act = "Watch_proposal"
    /\ st' = r.st /\ qcs' = q
    /\ UNCHANGED <<disk, hwm, signed, watch>>

Watch_proposal(prev, r, base, q) ==
    /\ r.act = "Watch_proposal"
    /\ st' = r.st /\ qcs' = q
    /\ start_waiting_for_quorum("Prequorum_reached", r.st)
    /\ UNCHANGED <<disk, hwm, signed>>

\* The votes go first, and nothing is recorded.
Inject_preattestations(prev, r, base, q) ==
    /\ r.act = "Inject_preattestations"
    /\ \/ Fault("hwm", prev, base, q) /\ UNCHANGED <<hwm, signed>>
       \/ \E ds \in SUBSET Delegates :
            /\ sign_consensus_votes("preattestation", r.st, r.on, ds)
            /\ disk' = disk
            /\ \/ /\ AllOrSignerFails("preattestation", r.st, r.on, ds)
                  /\ st' = r.st /\ qcs' = q
                  /\ start_waiting_for_quorum("Prequorum_reached", r.st)
               \/ Dies

\* The recorder is called before any vote is signed.
Inject_attestations(prev, r, base, q) ==
    /\ r.act = "Inject_attestations"
    /\ \/ /\ RecorderFails(prev, r) /\ ContinueAfterError(prev, base, q)
          /\ UNCHANGED <<hwm, signed>>
       \/ /\ state_recorder(prev, r)
          /\ \/ "hwm" \in Faults /\ st' = base.st /\ watch' = watch /\ qcs' = q
             \/ Dies
          /\ UNCHANGED <<hwm, signed>>
       \/ /\ state_recorder(prev, r)
          /\ \E ds \in SUBSET Delegates :
               /\ sign_consensus_votes("attestation", r.st, r.on, ds)
               /\ \/ /\ AllOrSignerFails("attestation", r.st, r.on, ds)
                     /\ st' = r.st /\ qcs' = q
                     /\ start_waiting_for_quorum("Quorum_reached", r.st)
                  \/ Dies

perform_action(prev, r, base, q) ==
    /\ \/ Do_nothing(prev, r, base, q)
       \/ Watch_proposal(prev, r, base, q)
       \/ Inject_preattestations(prev, r, base, q)
       \/ Inject_attestations(prev, r, base, q)
    /\ injected' = injected

\* A transition on a proposal may first need to enter a level or a branch.
perform_on_proposal(prev, r, applied, p) ==
    \/ /\ r.act \notin {"Update_to_level", "Synchronize_round"}
       /\ perform_action(prev, r, r, qcs)
       /\ Elapsed(p, p.round)
    \/ \E c \in Rounds :
         /\ r.act = "Update_to_level" /\ compute_round(p, c)
         /\ perform_action(prev, update_to_level(applied, p, c), r, qcs)
         /\ Elapsed(p, c)
    \/ \E c \in Rounds :
         /\ r.act = "Synchronize_round" /\ compute_round(p, c)
         /\ perform_action(prev, synchronize_round(applied, r.st, p, c), r,
                           qcs)
         /\ Elapsed(p, c)
    \/ /\ r.act \in {"Update_to_level", "Synchronize_round"}
       /\ Fault("sync", prev, r, qcs)
       /\ Elapsed(p, p.round)
       /\ UNCHANGED <<hwm, signed, injected>>

-----------------------------------------------------------------------------
(* Proposing a block.                                                      *)

inject_block(prev, base, q, updated, b) ==
    \/ /\ st' = updated /\ watch' = watch /\ qcs' = q /\ disk' = disk
       /\ injected' = injected \cup {b}
    \/ /\ Fault("inject", prev, base, q)
       /\ injected' \in {injected, injected \cup {b}}

\* Mutant of Forge_and_inject: the state of after the injection is dropped, and
\* the phase of the round before goes on.
Mut_Forge_and_inject(prev, base, q, updated, d, b) ==
    \/ ForgeFails(prev, base, q, d, b) /\ injected' = injected
    \/ ForgeSignedBlock(d, b) /\ inject_block(prev, base, q, base.st, b)

Forge_and_inject(prev, base, q, updated, d, b) ==
    \/ ForgeFails(prev, base, q, d, b) /\ injected' = injected
    \/ ForgeSignedBlock(d, b) /\ inject_block(prev, base, q, updated, b)

\* The payloads a fresh block on a predecessor may have.
FreshPayloads(pred) == {y \in Payloads : PredOf[y] = pred}

\* A block forged ahead of time is injected whatever the round is now.
propose_fresh_block_action(prev, s, q, d, level, round, payloads) ==
    LET base == [st |-> s, fresh |-> FALSE]
        idle == update_current_phase(s, "Idle")
    IN  \/ /\ s.next_forged_block # None
           /\ inject_block(prev, base, q,
                           [idle EXCEPT !.next_forged_block = None],
                           s.next_forged_block.block)
           /\ UNCHANGED <<hwm, signed>>
        \/ /\ s.next_forged_block = None
           /\ \E y \in payloads :
                Forge_and_inject(prev, base, q, idle, d,
                    [level |-> level, round |-> round, payload |-> y,
                     pqc |-> NoPqc])

\* Mutant of propose_block_action: a block proposed again carries the round
\* of the attestable proposal as that of its prequorum.
Mut_propose_block_action(prev, s, q, d, round) ==
    \/ /\ s.attestable_payload = None
       /\ propose_fresh_block_action(prev, s, q, d, s.current_level, round,
              FreshPayloads(predecessor(s.latest_proposal)))
    \/ /\ s.attestable_payload # None
       /\ Forge_and_inject(prev, [st |-> s, fresh |-> FALSE], q,
              update_current_phase(s, "Idle"), d,
              [level   |-> s.current_level, round |-> round,
               payload |-> s.attestable_payload.proposal.payload,
               pqc     |-> s.attestable_payload.proposal.round])

\* The attestable payload is proposed again with its prequorum.
propose_block_action(prev, s, q, d, round) ==
    \/ /\ s.attestable_payload = None
       /\ propose_fresh_block_action(prev, s, q, d, s.current_level, round,
              FreshPayloads(predecessor(s.latest_proposal)))
    \/ /\ s.attestable_payload # None
       /\ Forge_and_inject(prev, [st |-> s, fresh |-> FALSE], q,
              update_current_phase(s, "Idle"), d,
              [level   |-> s.current_level, round |-> round,
               payload |-> s.attestable_payload.proposal.payload,
               pqc     |-> s.attestable_payload.pqc])

end_of_round(prev, ending_round, q) ==
    LET new_round == ending_round + 1
        new == [prev EXCEPT !.current_round = new_round]
        d   == round_proposer(new, "Current", new_round)
    IN  /\ \/ /\ d = None
              /\ perform_action(prev,
                     do_nothing(update_current_phase(new, "Idle")),
                     do_nothing(update_current_phase(new, "Idle")), q)
           \/ /\ d # None /\ is_first_block_in_protocol(prev.latest_proposal)
              /\ perform_action(prev, do_nothing(new), do_nothing(new), q)
           \/ /\ d # None /\ ~is_first_block_in_protocol(prev.latest_proposal)
              /\ propose_block_action(prev, new, q, d, new_round)
        /\ Elapsed(prev.latest_proposal, new_round)

-----------------------------------------------------------------------------
(* The events of the loop.                                                 *)

NewHead(p) ==
    /\ Up /\ LowerFitness(head, p)
    /\ Received(p)
    /\ head' = p
    /\ perform_on_proposal(st, step_New_head_proposal(st, p), TRUE, p)
    /\ UNCHANGED worker

\* The node validates a block once its predecessor is applied, before it
\* applies it, and whatever its fitness.
NewValid(p) ==
    /\ Up /\ p.level <= head.level + 1
    /\ Received(p)
    /\ perform_on_proposal(st, step_New_valid_proposal(st, p), FALSE, p)
    /\ UNCHANGED <<worker, head>>

EndOfRound ==
    /\ Up /\ st.current_round < MaxRound
    /\ compute_next_round_time(st)
    /\ end_of_round(st, st.current_round, qcs)
    /\ UNCHANGED <<worker, head, certs>>

\* Rounds of ours at the next level that we have not proposed at yet.
compute_next_potential_baking_time_at_next_level(s, round) ==
    /\ s.elected_block # None
    /\ round_proposer(s, "Next", round) # None
    /\ s.next_level_proposed_round # None
         => s.next_level_proposed_round < round

should_wait_to_forge_block(s, round) ==
    round = 0 /\ s.next_forged_block = None

TimeToForgeBlock ==
    LET d    == round_proposer(st, "Next", 0)
        idle == update_current_phase(st, "Idle")
        base == [st |-> st, fresh |-> FALSE]
    IN  /\ Up
        /\ compute_next_potential_baking_time_at_next_level(st, 0)
        /\ should_wait_to_forge_block(st, 0)
        /\ \E y \in Payloads :
             LET block == [level |-> st.current_level + 1, round |-> 0,
                           payload |-> y, pqc |-> NoPqc]
             IN  \/ ForgeFails(st, base, qcs, d, block)
                 \/ /\ ForgeSignedBlock(d, block)
                    /\ st' = [idle EXCEPT !.next_forged_block =
                                [block |-> block,
                                 on |-> st.elected_block.proposal]]
                    /\ UNCHANGED <<disk, watch, qcs>>
        /\ UNCHANGED <<injected, worker, head, certs, clock>>

TimeToBakeNextLevel(at_round) ==
    LET d   == round_proposer(st, "Next", at_round)
        new == [st EXCEPT !.next_level_proposed_round = at_round]
    IN  /\ Up
        /\ compute_next_potential_baking_time_at_next_level(st, at_round)
        /\ ~should_wait_to_forge_block(st, at_round)
        /\ propose_fresh_block_action(st, new, qcs, d, st.current_level + 1,
                                      at_round, Payloads)
        /\ UNCHANGED <<worker, head, certs, clock>>

ConsumeQuorumEvent ==
    /\ Up /\ qcs # <<>>
    /\ LET r == step_Quorum_event(st, Head(qcs).kind, Head(qcs).candidate)
       IN  perform_action(st, r, r, Tail(qcs))
    /\ UNCHANGED <<worker, head, certs, clock>>

\* The worker has counted enough votes for what it monitors, emits the event
\* and stops monitoring.  A request made after its thread has ended is only
\* answered from the pool, when it is made: the model lets the answer come
\* later too.
WorkerQuorumReached ==
    /\ watch # None /\ Len(qcs) < MaxStream
    /\ LET p == watch.candidate
       IN  /\ MayCertify(p.level, p.round, p.payload)
           /\ certs' = [certs EXCEPT ![p.level][p.round] = p.payload]
    /\ qcs' = Append(qcs, watch)
    /\ watch' = None
    /\ UNCHANGED <<st, disk, hwm, signed, injected, worker, head, clock>>

\* A session with the node cannot be opened: the thread ends for good, and its
\* canceler, if there ever was a session, drops the request.
WorkerStops ==
    /\ "rpc" \in Faults
    /\ Up /\ worker = "running"
    /\ worker' = "stopped"
    /\ watch' \in {watch, None}
    /\ UNCHANGED <<st, disk, hwm, signed, injected, qcs, head, certs, clock>>

-----------------------------------------------------------------------------
(* Crash and restart.                                                      *)

Crash ==
    /\ Up /\ Dies
    /\ UNCHANGED <<disk, hwm, signed, injected, worker, head, certs, clock>>

NodeAdvances(p) ==
    /\ ~Up /\ LowerFitness(head, p)
    /\ Received(p)
    /\ head' = p
    /\ Elapsed(p, p.round)
    /\ UNCHANGED <<st, disk, hwm, signed, injected, worker, watch, qcs>>

may_initialise_with_latest_proposal_pqc(s) ==
    LET p == s.latest_proposal
    IN  IF /\ p.pqc # NoPqc
           /\ \/ s.attestable_payload = None
              \/ s.attestable_payload.pqc < p.pqc
        THEN [s EXCEPT !.attestable_payload = [proposal |-> p,
                                               pqc |-> p.pqc]]
        ELSE s

create_initial_state(p, round, file) ==
    LET fresh == compute_new_state(TRUE, p, round)
        state == IF is_first_block_in_protocol(p)
                 THEN [fresh EXCEPT !.elected_block = [proposal |-> p,
                                                       qc |-> None]]
                 ELSE fresh
    IN  may_initialise_with_latest_proposal_pqc(
            may_load_attestable_data(state, file))

\* The baker starts on the node's head, creates its worker and makes up its
\* own first event.
Start ==
    /\ ~Up
    /\ "lag" \notin Faults /\ disk # None => disk.level_data <= head.level
    /\ \E c \in Rounds, file \in {disk, None} :
         /\ compute_round(head, c)
         /\ file = disk \/ "read" \in Faults
         /\ LET init == create_initial_state(head, c, file)
                r    == step_New_head_proposal(init, head)
            IN  \/ /\ head.round = c
                   /\ perform_action(init, r, r, <<>>)
                   /\ Elapsed(head, c)
                \/ /\ head.round # c
                   /\ end_of_round(init, c - 1, <<>>)
    /\ worker' = "running"
    /\ UNCHANGED <<head, certs>>

-----------------------------------------------------------------------------

Init ==
    /\ st = None /\ disk = None /\ hwm = empty
    /\ signed = {} /\ injected = {}
    /\ worker = "running" /\ watch = None /\ qcs = <<>>
    /\ head \in {p \in Proposals : /\ p.level = 1 /\ p.round = 0
                                   /\ Proposer[1][0] = None}
    /\ certs = [l \in Levels |-> [r \in Rounds |-> None]]
    /\ clock = [l \in Levels |-> [b \in Preds |-> 0]]

Next ==
    \/ \E p \in Proposals : NewHead(p)
    \/ \E p \in Proposals : NewValid(p)
    \/ EndOfRound
    \/ TimeToForgeBlock
    \/ \E r \in Rounds : TimeToBakeNextLevel(r)
    \/ ConsumeQuorumEvent
    \/ WorkerQuorumReached
    \/ WorkerStops
    \/ Crash
    \/ \E p \in Proposals : NodeAdvances(p)
    \/ Start

Spec == Init /\ [][Next]_vars

-----------------------------------------------------------------------------
(* Properties.                                                             *)

\* The assertion of propose_block_action, and what makes it inductive: a
\* locked baker knows an attestable payload whose prequorum is at least as
\* recent as its lock, in memory and on disk.
LockedImpliesAttestable ==
    /\ Up /\ st.locked_round # None =>
         /\ st.attestable_payload # None
         /\ st.locked_round.round <= st.attestable_payload.pqc
    /\ disk # None /\ disk.locked_round_data # None =>
         /\ disk.attestable_payload_data # None
         /\ disk.locked_round_data.round <= disk.attestable_payload_data.pqc

\* Through crashes, restarts and failures between saving a high watermark and
\* signing, a delegate signs one block, one preattestation and one
\* attestation per level and round.
NoDoubleSigning ==
    \A x, y \in signed :
        (/\ x.kind = y.kind /\ x.delegate = y.delegate
         /\ x.level = y.level /\ x.round = y.round) => x = y

\* locked_round covers every attestation signed at the current level: with
\* --record-state it is saved before the votes and read back after a crash;
\* in Memory, the default, this is a property of bakers that do not crash.
LockCoversAttestations ==
    Up => \A x \in signed :
        x.kind = "attestation" /\ x.level = st.current_level =>
            /\ st.locked_round # None
            /\ st.locked_round.round >= x.round
            /\ st.locked_round.round = x.round
                 => st.locked_round.payload = x.payload

\* The locking rule of Tenderbake: after an attestation, a delegate preattests
\* another payload at a later round only if that payload got a prequorum at a
\* round in between (or at that round).  It survives a crash with
\* --record-state only: in Memory a restarted baker has lost its lock.
PreattestRule ==
    [][\A v \in signed' \ signed : v.kind = "preattestation" =>
         \A x \in signed :
           (/\ x.kind = "attestation" /\ x.level = v.level
            /\ x.round < v.round /\ x.payload # v.payload) =>
              \E q \in x.round + 1 .. v.round :
                  certs'[v.level][q] = v.payload]_vars

\* Only a payload that has a prequorum at its round is attested, although
\* quorum events may be consumed long after they were emitted; and a block of
\* ours that is proposed again carries a prequorum of an earlier round, for
\* its own payload.
PrequorumsAreGenuine ==
    /\ \A x \in signed :
          x.kind = "attestation" => certs[x.level][x.round] = x.payload
    /\ \A b \in injected : b.pqc # NoPqc =>
          /\ b.pqc < b.round
          /\ certs[b.level][b.pqc] = b.payload

\* elected_block and the quorum that waits for an application belong to the
\* block they elect (the protocol's first block needs no quorum).
QuorumMatchesBlock ==
    Up =>
      /\ st.elected_block # None =>
           \/ st.elected_block.qc = st.elected_block.proposal
           \/ is_first_block_in_protocol(st.elected_block.proposal)
      /\ st.current_phase = "Awaiting_application" /\ st.elected_block = None
           => st.delayed_quorum = st.latest_proposal

\* A baker in a voting phase will hear of the quorum it waits for: the worker
\* monitors the latest proposal, or the event is in the stream.  The one
\* exception is a worker that has ended (worker_loop, loop_failed), which
\* nothing but a restart of the baker brings back.
Expects(kind) ==
    \/ watch = [kind |-> kind, candidate |-> st.latest_proposal]
    \/ \E i \in 1 .. Len(qcs) :
          qcs[i] = [kind |-> kind, candidate |-> st.latest_proposal]

NeverDeaf ==
    Up /\ worker = "running" =>
      /\ st.current_phase = "Awaiting_preattestations"
           => Expects("Prequorum_reached")
      /\ st.current_phase = "Awaiting_attestations" /\ st.elected_block = None
           => Expects("Quorum_reached")

\* A baker that waits for votes or for an application does so for a proposal
\* of its current round, unless its own block for this round was refused: the
\* next level's block, forged ahead, already raised the high watermark.
WaitsInCurrentRound ==
    Up /\ st.current_phase # "Idle" =>
        \/ st.latest_proposal.round = st.current_round
        \/ round_proposer(st, "Current", st.current_round) # None

\* Within a level neither the lock nor the attestable prequorum goes back to
\* an earlier round, whatever blocks and branches the node shows, and a
\* running baker never goes back to an earlier level.
LocksNeverRegress ==
    [][Up /\ st' # None =>
         /\ st'.current_level >= st.current_level
         /\ st'.current_level = st.current_level =>
              /\ st.locked_round # None =>
                   /\ st'.locked_round # None
                   /\ st'.locked_round.round >= st.locked_round.round
              /\ st.attestable_payload # None =>
                   /\ st'.attestable_payload # None
                   /\ st'.attestable_payload.pqc >= st.attestable_payload.pqc
      ]_vars

\* A block forged ahead of its time extends the elected block and is for the
\* next level.
ForgedExtendsElected ==
    Up /\ st.next_forged_block # None =>
        /\ st.elected_block # None
        /\ st.next_forged_block.on = st.elected_block.proposal
        /\ st.next_forged_block.block.level = st.current_level + 1

\* The first block of the protocol is left to the bakers of the previous one
\* (no vote, no block of ours at its level) and taken as final: a baker at
\* that level always has a block to bake upon.
FirstBlockIsFinal ==
    /\ \A x \in signed : x.level # ActivationLevel
    /\ Up /\ st.current_level = ActivationLevel => st.elected_block # None

=============================================================================
