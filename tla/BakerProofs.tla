----------------------------- MODULE BakerProofs -----------------------------
(***************************************************************************)
(* What holds of one baker for every set of delegates, payloads, branches  *)
(* and slots, every bound and every set of faults: types, the lock and the *)
(* attestable payload agree, and nothing is signed twice; and then the     *)
(* locking rules of Tenderbake.                                            *)
(*                                                                         *)
(* The transition function comes first: every operator of StateTransitions *)
(* maps a good state to a good state.  The interpreter then leaves the     *)
(* process dead, in the state of the transition, or in the state of before *)
(* the action that failed.                                                 *)
(***************************************************************************)
EXTENDS Baker, TLAPS

\* The lock never runs ahead of the attestable payload.
Sound(s) ==
    s.locked_round # None =>
        /\ s.attestable_payload # None
        /\ s.locked_round.round <= s.attestable_payload.pqc

SoundData(f) ==
    f.locked_round_data # None =>
        /\ f.attestable_payload_data # None
        /\ f.locked_round_data.round <= f.attestable_payload_data.pqc

Good(s) == s \in State /\ Sound(s)

GoodResult(r) == Good(r.st) /\ r.on \in Proposals /\ r.fresh \in BOOLEAN

-----------------------------------------------------------------------------
(* Blocks.                                                                 *)

\* What a proposal's fields are.
LEMMA ProposalFields ==
    ASSUME NEW p \in Proposals
    PROVE  /\ p.level \in Levels /\ p.round \in Rounds
           /\ p.payload \in Payloads
           /\ p.pqc \in NoPqc .. MaxRound /\ p.pqc < p.round
           /\ p.pqc # NoPqc => p.pqc \in Rounds
BY BoundsAssumption DEF Proposals, Blocks, Headers, Levels, Rounds, NoPqc

\* Levels and rounds are naturals.
LEMMA BoundedNaturals == Levels \subseteq Nat /\ Rounds \subseteq Nat
BY BoundsAssumption DEF Levels, Rounds

\* The predecessor of a proposal is one of the blocks to build on.
LEMMA PredecessorType ==
    ASSUME NEW p \in Proposals PROVE predecessor(p) \in Preds
BY ProposalFields, ChainAssumption DEF predecessor

-----------------------------------------------------------------------------
(* The transition function.                                                *)

\* The phase takes no part in Sound.
LEMMA PhaseGood ==
    ASSUME NEW s, Good(s), NEW ph \in Phases
    PROVE  Good(update_current_phase(s, ph))
BY DEF Good, State, Sound, update_current_phase

\* do_nothing returns the state it was given.
LEMMA DoNothingGood ==
    ASSUME NEW s, Good(s) PROVE GoodResult(do_nothing(s))
BY DEF GoodResult, do_nothing, Result, Good, State

\* Recording a proposal keeps lock and attestable payload.
LEMMA UpdateProposalGood ==
    ASSUME NEW s, Good(s), NEW p \in Proposals, NEW applied \in BOOLEAN
    PROVE  /\ Good(update_proposal(applied, s, p))
           /\ Good(may_update_proposal(applied, s, p))
<1>1. Good(update_proposal(applied, s, p))
  BY DEF Good, State, Sound, update_proposal
<1> QED BY <1>1 DEF may_update_proposal

\* A proposal's own prequorum replaces only an older one.
LEMMA InternalPqcGood ==
    ASSUME NEW s, Good(s), NEW p \in Proposals
    PROVE  Good(may_update_attestable_payload_with_internal_pqc(s, p))
<1>1. CASE has_better_internal_pqc(s, p)
  <2> DEFINE ap == [proposal |-> p, pqc |-> p.pqc]
             n  == [s EXCEPT !.attestable_payload = ap]
  <2>1. ap \in AttestablePayload
    BY <1>1, ProposalFields DEF has_better_internal_pqc, AttestablePayload
  <2>2. n \in State
    BY <2>1 DEF Good, State
  <2>3. ap # None
    BY <2>1, NoneAssumption
  <2>4. n.locked_round = s.locked_round /\ n.attestable_payload = ap
    BY DEF Good, State
  <2>5. s.locked_round # None => s.locked_round.round \in Nat
    BY BoundedNaturals DEF Good, State, LockedRound
  <2>6. s.attestable_payload # None => s.attestable_payload.pqc \in Nat
    BY BoundedNaturals DEF Good, State, AttestablePayload
  <2>7. Sound(n)
    BY <1>1, <2>3, <2>4, <2>5, <2>6, ProposalFields, BoundedNaturals
    DEF has_better_internal_pqc, Good, Sound
  <2> QED
    BY <1>1, <2>2, <2>7
    DEF Good, may_update_attestable_payload_with_internal_pqc
<1>2. CASE ~has_better_internal_pqc(s, p)
  BY <1>2 DEF may_update_attestable_payload_with_internal_pqc
<1> QED BY <1>1, <1>2

\* A preattestation changes the phase only.
LEMMA PreattestGood ==
    ASSUME NEW s, Good(s), NEW p \in Proposals, NEW fresh \in BOOLEAN
    PROVE  /\ GoodResult(preattest(s, p, fresh))
           /\ GoodResult(may_preattest(s, p, fresh))
<1>1. GoodResult(preattest(s, p, fresh))
  BY PhaseGood DEF preattest, Result, GoodResult, Phases
<1> QED BY <1>1 DEF may_preattest, Result, GoodResult

\* A proposal of the current level and branch.
LEMMA OnBranchGood ==
    ASSUME NEW s, Good(s), NEW p \in Proposals, NEW applied \in BOOLEAN
    PROVE  GoodResult(handle_proposal_on_branch(applied, s, p))
<1> DEFINE fresh == has_better_internal_pqc(s, p)
           new   == may_update_proposal(
                      applied,
                      may_update_attestable_payload_with_internal_pqc(s, p), p)
           acceptance == is_acceptable_proposal_for_current_level(s, p)
<1>1. fresh \in BOOLEAN
  BY DEF has_better_internal_pqc
<1>2. Good(new)
  BY InternalPqcGood, UpdateProposalGood
<1>3. GoodResult(Result(new, "Do_nothing", p, fresh))
  BY <1>1, <1>2 DEF Result, GoodResult
<1>4. GoodResult(may_preattest(new, p, fresh))
  BY <1>1, <1>2, PreattestGood
<1>5. GoodResult(Result(
        update_current_phase(new, "Awaiting_preattestations"),
        "Watch_proposal", p, fresh))
  BY <1>1, <1>2, PhaseGood DEF Result, GoodResult, Phases
<1>6. GoodResult(do_nothing(s))
  BY DoNothingGood
<1> HIDE DEF fresh, new, acceptance
<1> QED
  BY <1>3, <1>4, <1>5, <1>6
  DEF handle_proposal_on_branch, fresh, new, acceptance

\* Following another branch records its proposal.
LEMMA SwitchBranchGood ==
    ASSUME NEW s, Good(s), NEW p \in Proposals, NEW applied \in BOOLEAN
    PROVE  GoodResult(may_switch_branch(applied, s, p))
BY UpdateProposalGood, DoNothingGood DEF may_switch_branch, Result, GoodResult

\* Any proposal.
LEMMA HandleProposalGood ==
    ASSUME NEW s, Good(s), NEW p \in Proposals, NEW applied \in BOOLEAN
    PROVE  GoodResult(handle_proposal(applied, s, p))
<1> DEFINE m == may_update_is_latest_proposal_applied(applied, s, p)
<1>1. Good(m)
  BY DEF Good, State, Sound, may_update_is_latest_proposal_applied
<1>2. GoodResult(do_nothing(m))
  BY <1>1, DoNothingGood
<1>3. GoodResult(Result(m, "Update_to_level", p, FALSE))
  BY <1>1 DEF Result, GoodResult
<1>4. GoodResult(may_switch_branch(applied, m, p))
  BY <1>1, SwitchBranchGood
<1>5. GoodResult(handle_proposal_on_branch(applied, m, p))
  BY <1>1, OnBranchGood
<1> HIDE DEF m
<1> QED BY <1>2, <1>3, <1>4, <1>5 DEF handle_proposal, m

\* A new level starts without lock.
LEMMA NewStateGood ==
    ASSUME NEW p \in Proposals, NEW c \in Rounds, NEW applied \in BOOLEAN
    PROVE  Good(compute_new_state(applied, p, c))
BY ProposalFields DEF Good, State, Sound, compute_new_state, Phases

\* Entering a level.
LEMMA UpdateToLevelGood ==
    ASSUME NEW p \in Proposals, NEW c \in Rounds, NEW applied \in BOOLEAN
    PROVE  GoodResult(update_to_level(applied, p, c))
<1> DEFINE r == handle_proposal_on_branch(
                  applied, compute_new_state(applied, p, c), p)
<1>1. GoodResult(r)
  BY NewStateGood, OnBranchGood
<1>2. r = [st |-> r.st, act |-> r.act, on |-> r.on, fresh |-> r.fresh]
  BY DEF handle_proposal_on_branch, Result, do_nothing, may_preattest,
         preattest
<1> HIDE DEF r
<1> QED BY <1>1, <1>2 DEF update_to_level, GoodResult, r

\* Moving to the round of another branch.
LEMMA SynchronizeRoundGood ==
    ASSUME NEW s, Good(s), NEW p \in Proposals, NEW c \in Rounds,
           NEW applied \in BOOLEAN
    PROVE  GoodResult(synchronize_round(applied, s, p, c))
<1> DEFINE n == [s EXCEPT !.current_round = c,
                          !.current_phase = "Idle",
                          !.delayed_quorum = None]
<1>1. n \in State
  BY DEF Good, State, Phases
<1>2. Good(n)
  BY <1>1 DEF Good, Sound, State
<1> QED BY <1>2, OnBranchGood DEF synchronize_round

\* After a prequorum, the attestable payload is at least as recent as the new
\* lock.
LEMMA LockAndAttestGood ==
    ASSUME NEW s, Good(s)
    PROVE  GoodResult(lock_and_attest(s))
<1> DEFINE latest == s.latest_proposal
           better == \/ s.attestable_payload = None
                     \/ s.attestable_payload.pqc < latest.round
           ap     == [proposal |-> latest, pqc |-> latest.round]
           att    == IF better THEN [s EXCEPT !.attestable_payload = ap]
                     ELSE s
           lock   == [payload |-> latest.payload, round |-> latest.round]
           locked == [att EXCEPT !.locked_round = lock]
<1>1. latest \in Proposals /\ latest.round \in Rounds
      /\ latest.payload \in Payloads
  BY ProposalFields DEF Good, State
<1>2. ap \in AttestablePayload /\ lock \in LockedRound
  BY <1>1 DEF AttestablePayload, LockedRound
<1>3. att \in State
  BY <1>2 DEF Good, State
<1>4. att.attestable_payload \in AttestablePayload
      /\ latest.round <= att.attestable_payload.pqc
  <2>1. CASE better
    BY <2>1, <1>1, <1>2, BoundedNaturals DEF Good, State
  <2>2. CASE ~better
    BY <2>2, <1>1, BoundedNaturals DEF Good, State, AttestablePayload
  <2> QED BY <2>1, <2>2
<1>5. locked \in State
  BY <1>2, <1>3 DEF State
<1>6. locked.locked_round = lock
      /\ locked.attestable_payload = att.attestable_payload
  BY <1>3 DEF State
<1>7. Good(locked)
  BY <1>4, <1>5, <1>6, NoneAssumption DEF Good, Sound
<1>8. locked = update_locked_round(att, latest.round, latest.payload)
  BY DEF update_locked_round
<1>9. Good(update_current_phase(locked, "Awaiting_attestations"))
  BY <1>7, PhaseGood DEF Phases
<1>10. lock_and_attest(s) =
         Result(update_current_phase(locked, "Awaiting_attestations"),
                "Inject_attestations", latest, TRUE)
  BY <1>8 DEF lock_and_attest
<1> HIDE DEF locked
<1> QED BY <1>1, <1>9, <1>10 DEF Result, GoodResult

\* A quorum touches neither lock nor attestable payload.
LEMMA ElectGood ==
    ASSUME NEW s, Good(s), NEW c \in Proposals
    PROVE  GoodResult(elect(s, c))
<1> DEFINE e == [s EXCEPT !.elected_block = [proposal |-> s.latest_proposal,
                                             qc |-> c],
                          !.current_phase = "Idle"]
           w == [s EXCEPT !.current_phase = "Awaiting_application",
                          !.delayed_quorum = c]
<1>1. e \in State /\ w \in State
  BY DEF Good, State, ElectedBlock, Phases
<1>2. Good(e) /\ Good(w)
  BY <1>1 DEF Good, Sound, State
<1> HIDE DEF e, w
<1>3. GoodResult(do_nothing(IF s.is_latest_proposal_applied THEN e ELSE w))
  BY <1>2, DoNothingGood
<1> QED BY <1>3 DEF elect, e, w

\* Nor does the application of the block it waited for.
LEMMA ExpectedAppliedGood ==
    ASSUME NEW s, Good(s)
    PROVE  GoodResult(handle_expected_applied_proposal(s))
<1> DEFINE e == [s EXCEPT !.elected_block = [proposal |-> s.latest_proposal,
                                             qc |-> s.delayed_quorum],
                          !.current_phase = "Idle"]
           w == [s EXCEPT !.is_latest_proposal_applied = TRUE,
                          !.current_phase = "Idle"]
<1>1. e \in State /\ w \in State
  BY DEF Good, State, ElectedBlock, Phases
<1>2. Good(e) /\ Good(w)
  BY <1>1 DEF Good, Sound, State
<1> HIDE DEF e, w
<1>3. GoodResult(do_nothing(IF s.elected_block = None THEN e ELSE w))
  BY <1>2, DoNothingGood
<1> QED BY <1>3 DEF handle_expected_applied_proposal, e, w

\* The dispatch of step.
LEMMA StepGood ==
    ASSUME NEW s, Good(s), NEW p \in Proposals
    PROVE  /\ GoodResult(step_New_head_proposal(s, p))
           /\ GoodResult(step_New_valid_proposal(s, p))
           /\ \A kind : GoodResult(step_Quorum_event(s, kind, p))
<1>1. GoodResult(step_New_head_proposal(s, p))
  BY ExpectedAppliedGood, HandleProposalGood DEF step_New_head_proposal
<1>2. GoodResult(step_New_valid_proposal(s, p))
  BY DoNothingGood, HandleProposalGood DEF step_New_valid_proposal
<1>3. GoodResult(prequorum_reached_when_awaiting_preattestations(s, p))
  BY DoNothingGood, LockAndAttestGood
  DEF prequorum_reached_when_awaiting_preattestations
<1>4. GoodResult(quorum_reached_when_waiting_attestations(s, p))
  BY DoNothingGood, ElectGood DEF quorum_reached_when_waiting_attestations
<1>5. \A kind : GoodResult(step_Quorum_event(s, kind, p))
  BY <1>3, <1>4, DoNothingGood DEF step_Quorum_event
<1> QED BY <1>1, <1>2, <1>5

\* A restarted baker: a sound file gives a sound state.
LEMMA InitialStateGood ==
    ASSUME NEW p \in Proposals, NEW c \in Rounds, NEW file,
           file # None => file \in StateData /\ SoundData(file)
    PROVE  Good(create_initial_state(p, c, file))
<1> DEFINE fresh == compute_new_state(TRUE, p, c)
           eb    == [proposal |-> p, qc |-> None]
           state == IF is_first_block_in_protocol(p)
                    THEN [fresh EXCEPT !.elected_block = eb] ELSE fresh
           m     == may_load_attestable_data(state, file)
<1>1. Good(fresh)
  BY NewStateGood
<1>2. eb \in ElectedBlock
  BY DEF ElectedBlock
<1> HIDE DEF fresh, eb
<1>3. Good(state)
  BY <1>1, <1>2 DEF Good, Sound, State
<1> HIDE DEF state
<1>4. Good(m)
  <2> DEFINE n == [state EXCEPT
                     !.locked_round = file.locked_round_data,
                     !.attestable_payload = file.attestable_payload_data]
  <2>1. CASE file # None /\ file.level_data = state.current_level
    <3>1. n \in State
      BY <1>3, <2>1 DEF Good, State, StateData
    <3>2. n.locked_round = file.locked_round_data
          /\ n.attestable_payload = file.attestable_payload_data
      BY <1>3 DEF Good, State
    <3>3. Good(n)
      BY <3>1, <3>2, <2>1 DEF Good, Sound, SoundData
    <3> QED BY <2>1, <3>3 DEF may_load_attestable_data
  <2>2. CASE ~(file # None /\ file.level_data = state.current_level)
    BY <1>3, <2>2 DEF may_load_attestable_data
  <2> QED BY <2>1, <2>2
<1> HIDE DEF m
<1>5. Good(may_initialise_with_latest_proposal_pqc(m))
  <2> DEFINE l  == m.latest_proposal
             ap == [proposal |-> l, pqc |-> l.pqc]
             n  == [m EXCEPT !.attestable_payload = ap]
             better == /\ l.pqc # NoPqc
                       /\ \/ m.attestable_payload = None
                          \/ m.attestable_payload.pqc < l.pqc
  <2>1. CASE better
    <3>1. l \in Proposals
      BY <1>4 DEF Good, State
    <3>2. ap \in AttestablePayload /\ l.pqc \in Nat
      BY <2>1, <3>1, ProposalFields, BoundedNaturals DEF AttestablePayload
    <3>3. n \in State
      BY <1>4, <3>2 DEF Good, State
    <3>4. n.locked_round = m.locked_round /\ n.attestable_payload = ap
      BY <1>4 DEF Good, State
    <3>5. m.locked_round # None => m.locked_round.round \in Nat
      BY <1>4, BoundedNaturals DEF Good, State, LockedRound
    <3>6. m.attestable_payload # None => m.attestable_payload.pqc \in Nat
      BY <1>4, BoundedNaturals DEF Good, State, AttestablePayload
    <3>7. ap # None
      BY <3>2, NoneAssumption
    <3>8. Good(n)
      BY <1>4, <2>1, <3>2, <3>3, <3>4, <3>5, <3>6, <3>7 DEF Good, Sound
    <3> QED BY <2>1, <3>8 DEF may_initialise_with_latest_proposal_pqc
  <2>2. CASE ~better
    BY <1>4, <2>2 DEF may_initialise_with_latest_proposal_pqc
  <2> QED BY <2>1, <2>2
<1> QED
  BY <1>5 DEF create_initial_state, fresh, eb, state, m

-----------------------------------------------------------------------------
(* Signing.  Every step that signs first raises the marks of the delegates *)
(* all, who were allowed to sign at that level and round; ds of them sign. *)

SignsFor(kind, all, ds, level, round, payload) ==
    /\ ds \subseteq all /\ all \subseteq Delegates
    /\ \A d \in all : may_sign(hwm[kind], d, level, round)
    /\ hwm' = [hwm EXCEPT ![kind] = record_all(@, all, level, round)]
    /\ signed' = signed \cup
         {[kind |-> kind, delegate |-> d, level |-> level, round |-> round,
           payload |-> payload] : d \in ds}

SignStep ==
    \/ UNCHANGED <<hwm, signed>>
    \/ \E kind \in Kinds, all, ds \in SUBSET Delegates,
          level \in 1 .. MaxLevel + 1, round \in Rounds,
          payload \in Payloads :
         SignsFor(kind, all, ds, level, round, payload)

SigningOK == hwm \in [Kinds -> HighwatermarkMap] /\ signed \subseteq Item

\* The marks cover everything signed: what makes NoDoubleSigning inductive.
MarksCoverSigned ==
    \A x \in signed :
        /\ hwm[x.kind][x.delegate] # None
        /\ Covers(hwm[x.kind][x.delegate], x.level, x.round)

\* Raising several marks: who signs gets the new mark, others keep theirs.
LEMMA RecordAllMarks ==
    ASSUME NEW map \in HighwatermarkMap, NEW all \in SUBSET Delegates,
           NEW level \in Nat, NEW round \in Nat,
           \A d \in all : may_sign(map, d, level, round)
    PROVE  /\ record_all(map, all, level, round) \in HighwatermarkMap
           /\ \A d \in Delegates :
                record_all(map, all, level, round)[d] =
                  IF d \in all THEN [level |-> level, round |-> round]
                  ELSE map[d]
BY DEF record_all, record, HighwatermarkMap, Highwatermark

\* Votes are one case of SignsFor.
LEMMA VotesSign ==
    ASSUME NEW kind \in Kinds, NEW s \in State, NEW p \in Proposals, NEW ds,
           sign_consensus_votes(kind, s, p, ds)
    PROVE  SignStep
<1> DEFINE all == Authorized(kind, s, p)
<1>1. /\ s.current_level \in 1 .. MaxLevel + 1
      /\ p.round \in Rounds /\ p.payload \in Payloads
  BY ProposalFields, BoundsAssumption DEF State, Levels
<1>2. all \subseteq Delegates /\ ds \subseteq all
  BY DEF Authorized, sign_consensus_votes
<1>3. \A d \in all : may_sign(hwm[kind], d, s.current_level, p.round)
  BY DEF Authorized
<1>4. SignsFor(kind, all, ds, s.current_level, p.round, p.payload)
  BY <1>2, <1>3 DEF SignsFor, sign_consensus_votes
<1> HIDE DEF all
<1> QED BY <1>1, <1>2, <1>4 DEF SignStep

\* A block is another, whether the signer then answers or not.
LEMMA BlockSigns ==
    ASSUME SigningOK, NEW d \in Delegates, NEW b \in Headers,
           MaySignBlock(d, b), record_block(d, b),
           \/ UNCHANGED signed
           \/ signed' = signed \cup
                {[kind |-> "block", delegate |-> d, level |-> b.level,
                  round |-> b.round, payload |-> b.payload]}
    PROVE  SignStep
<1> DEFINE map == hwm["block"]
<1>1. b.level \in 1 .. MaxLevel + 1 /\ b.round \in Rounds
      /\ b.payload \in Payloads /\ "block" \in Kinds
  BY DEF Headers, Kinds
<1>2. map \in HighwatermarkMap
  BY <1>1 DEF SigningOK
<1>3. record(map, d, b.level, b.round)
        = record_all(map, {d}, b.level, b.round)
  BY <1>2 DEF record, record_all, HighwatermarkMap
<1>4. hwm' = [hwm EXCEPT !["block"] = record_all(@, {d}, b.level, b.round)]
  BY <1>3 DEF record_block
<1>5. \A x \in {d} : may_sign(hwm["block"], x, b.level, b.round)
  BY DEF MaySignBlock
<1> DEFINE item(x) == [kind |-> "block", delegate |-> x, level |-> b.level,
                       round |-> b.round, payload |-> b.payload]
<1>6. \/ signed' = signed \cup {item(x) : x \in {}}
      \/ signed' = signed \cup {item(x) : x \in {d}}
  <2>1. {item(x) : x \in {}} = {} /\ {item(x) : x \in {d}} = {item(d)}
    OBVIOUS
  <2> QED BY <2>1
<1>7. \/ SignsFor("block", {d}, {}, b.level, b.round, b.payload)
      \/ SignsFor("block", {d}, {d}, b.level, b.round, b.payload)
  BY <1>4, <1>5, <1>6 DEF SignsFor
<1> QED BY <1>1, <1>7 DEF SignStep

\* SignsFor keeps types, marks and unicity.
LEMMA SignsForKeeps ==
    ASSUME SigningOK, MarksCoverSigned, NoDoubleSigning,
           NEW kind \in Kinds, NEW all \in SUBSET Delegates,
           NEW ds \in SUBSET Delegates, NEW level \in 1 .. MaxLevel + 1,
           NEW round \in Rounds, NEW payload \in Payloads,
           SignsFor(kind, all, ds, level, round, payload)
    PROVE  SigningOK' /\ MarksCoverSigned' /\ NoDoubleSigning'
<1> DEFINE item(d) == [kind |-> kind, delegate |-> d, level |-> level,
                       round |-> round, payload |-> payload]
           new == {item(d) : d \in ds}
           mark == [level |-> level, round |-> round]
<1>1. level \in Nat /\ round \in Nat
  BY BoundsAssumption, BoundedNaturals
<1>2. signed' = signed \cup new /\ ds \subseteq all
      /\ \A d \in all : may_sign(hwm[kind], d, level, round)
  BY DEF SignsFor
<1>3. hwm[kind] \in HighwatermarkMap
  BY DEF SigningOK
<1>4. hwm' \in [Kinds -> HighwatermarkMap]
  BY <1>1, <1>2, <1>3, RecordAllMarks DEF SignsFor, SigningOK
<1>5. \A k \in Kinds, d \in Delegates :
        hwm'[k][d] = IF k = kind /\ d \in all THEN mark ELSE hwm[k][d]
  <2>1. hwm'[kind] = record_all(hwm[kind], all, level, round)
        /\ \A k \in Kinds : k # kind => hwm'[k] = hwm[k]
    BY DEF SignsFor, SigningOK
  <2>2. \A d \in Delegates : record_all(hwm[kind], all, level, round)[d] =
          IF d \in all THEN mark ELSE hwm[kind][d]
    BY <1>1, <1>2, <1>3, RecordAllMarks
  <2> QED BY <2>1, <2>2
<1>6. \A d \in ds : item(d) \in Item
  BY <1>2 DEF Item
<1>7. SigningOK'
  BY <1>2, <1>4, <1>6 DEF SigningOK
<1>8. mark # None /\ mark.level = level /\ mark.round = round
  BY <1>1, NoneAssumption DEF Highwatermark
<1>9. \A x \in signed :
        /\ x.kind \in Kinds /\ x.delegate \in Delegates
        /\ x.level \in Nat /\ x.round \in Nat
  <2>1. 1 .. MaxLevel + 1 \subseteq Nat
    BY BoundsAssumption
  <2>2. signed \subseteq Item
    BY DEF SigningOK
  <2> QED BY <2>1, <2>2, BoundedNaturals DEF Item
<1>10. \A x \in signed :
         /\ hwm[x.kind][x.delegate] # None
         /\ hwm[x.kind][x.delegate].level \in Nat
         /\ hwm[x.kind][x.delegate].round \in Nat
         /\ Covers(hwm[x.kind][x.delegate], x.level, x.round)
  BY <1>9 DEF MarksCoverSigned, SigningOK, HighwatermarkMap, Highwatermark
<1>11. \A x \in signed, d \in all :
         x.kind = kind /\ x.delegate = d
           => ~Covers(hwm[x.kind][x.delegate], level, round)
  BY <1>2, <1>10 DEF may_sign
<1>12. ASSUME NEW x \in signed
       PROVE  /\ hwm'[x.kind][x.delegate] # None
              /\ Covers(hwm'[x.kind][x.delegate], x.level, x.round)
  <2>1. CASE x.kind = kind /\ x.delegate \in all
    <3>1. hwm'[x.kind][x.delegate] = mark
      BY <2>1, <1>5, <1>9
    <3>2. ~Covers(hwm[x.kind][x.delegate], level, round)
      BY <2>1, <1>11
    <3> HIDE DEF mark
    <3> QED BY <3>1, <3>2, <1>1, <1>8, <1>9, <1>10 DEF Covers
  <2>2. CASE ~(x.kind = kind /\ x.delegate \in all)
    BY <2>2, <1>5, <1>9, <1>10
  <2> QED BY <2>1, <2>2
<1>13. ASSUME NEW d \in ds
       PROVE  /\ hwm'[kind][d] # None
              /\ Covers(hwm'[kind][d], level, round)
  <2>1. hwm'[kind][d] = mark
    BY <1>2, <1>5
  <2> HIDE DEF mark
  <2> QED BY <2>1, <1>1, <1>8 DEF Covers
<1>14. MarksCoverSigned'
  BY <1>2, <1>12, <1>13 DEF MarksCoverSigned
<1>15. ASSUME NEW x \in signed, NEW d \in ds,
              x.kind = kind, x.delegate = d, x.level = level, x.round = round
       PROVE  FALSE
  BY <1>2, <1>10, <1>11, <1>15
<1>16. NoDoubleSigning'
  BY <1>2, <1>15 DEF NoDoubleSigning
<1> QED BY <1>7, <1>14, <1>16

\* So does every step.
LEMMA SignStepKeeps ==
    ASSUME SigningOK, MarksCoverSigned, NoDoubleSigning, SignStep
    PROVE  SigningOK' /\ MarksCoverSigned' /\ NoDoubleSigning'
<1>1. CASE UNCHANGED <<hwm, signed>>
  BY <1>1 DEF SigningOK, MarksCoverSigned, NoDoubleSigning
<1>2. CASE \E kind \in Kinds, all, ds \in SUBSET Delegates,
              level \in 1 .. MaxLevel + 1, round \in Rounds,
              payload \in Payloads :
             SignsFor(kind, all, ds, level, round, payload)
  BY <1>2, SignsForKeeps
<1> QED BY <1>1, <1>2 DEF SignStep

-----------------------------------------------------------------------------
(* The interpreter.  An action ends in a good state or with the process    *)
(* dead, and writes only sound files.                                      *)

GoodStep ==
    /\ st' # None => Good(st')
    /\ disk' # disk => disk' \in StateData /\ SoundData(disk')
    /\ watch' \in QuorumEvent \cup {None}
    /\ qcs' \in Seq(QuorumEvent)

\* What the lemmas need of the state before the step.
WorkerOK == watch \in QuorumEvent \cup {None} /\ qcs \in Seq(QuorumEvent)

\* The recorder writes the lock and the attestable payload of one state.
LEMMA StateDataSound ==
    ASSUME NEW s, Good(s)
    PROVE  state_data(s) \in StateData /\ SoundData(state_data(s))
BY DEF Good, Sound, State, StateData, SoundData, state_data

\* A successful recorder.
LEMMA RecorderSound ==
    ASSUME NEW prev, NEW r, Good(r.st), state_recorder(prev, r)
    PROVE  disk' # disk => disk' \in StateData /\ SoundData(disk')
BY StateDataSound DEF state_recorder

\* The process dies.
LEMMA DiesGood ==
    ASSUME Dies, disk' # disk => disk' \in StateData /\ SoundData(disk')
    PROVE  GoodStep
BY DEF Dies, GoodStep

\* The loop goes on after an error.
LEMMA ContinueGood ==
    ASSUME WorkerOK, NEW prev, NEW base, Good(base.st),
           NEW q \in Seq(QuorumEvent), ContinueAfterError(prev, base, q)
    PROVE  GoodStep
<1>1. disk' # disk => disk' \in StateData /\ SoundData(disk')
  BY RecorderSound DEF ContinueAfterError
<1> QED BY <1>1 DEF ContinueAfterError, WorkerOK, GoodStep

\* Either of the two.
LEMMA FaultGood ==
    ASSUME WorkerOK, NEW f, NEW prev, NEW base, Good(base.st),
           NEW q \in Seq(QuorumEvent), Fault(f, prev, base, q)
    PROVE  GoodStep
BY ContinueGood, DiesGood DEF Fault

\* The worker is asked about the latest proposal of a good state.
LEMMA WaitingGood ==
    ASSUME NEW kind \in EventKinds, NEW s, Good(s),
           start_waiting_for_quorum(kind, s)
    PROVE  watch' \in QuorumEvent \cup {None}
BY DEF Good, State, start_waiting_for_quorum, QuorumEvent

\* Preattesting: the votes, then the watch, or a crash in between.
LEMMA InjectPreattestationsGood ==
    ASSUME WorkerOK, NEW prev, NEW r, GoodResult(r), NEW base, Good(base.st),
           NEW q \in Seq(QuorumEvent), Inject_preattestations(prev, r, base, q)
    PROVE  GoodStep /\ SignStep
<1>1. CASE Fault("hwm", prev, base, q) /\ UNCHANGED <<hwm, signed>>
  BY <1>1, FaultGood DEF SignStep
<1>2. ASSUME NEW ds \in SUBSET Delegates,
             sign_consensus_votes("preattestation", r.st, r.on, ds),
             disk' = disk,
             \/ /\ st' = r.st /\ qcs' = q
                /\ start_waiting_for_quorum("Prequorum_reached", r.st)
             \/ Dies
      PROVE  GoodStep /\ SignStep
  <2>1. SignStep
    BY <1>2, VotesSign DEF GoodResult, Good, Kinds
  <2>2. CASE Dies
    BY <1>2, <2>1, <2>2, DiesGood
  <2>3. CASE /\ st' = r.st /\ qcs' = q
             /\ start_waiting_for_quorum("Prequorum_reached", r.st)
    <3>1. watch' \in QuorumEvent \cup {None}
      BY <2>3, WaitingGood DEF EventKinds, GoodResult
    <3> QED BY <1>2, <2>1, <2>3, <3>1 DEF GoodStep, GoodResult
  <2> QED BY <1>2, <2>1, <2>2, <2>3
<1> QED BY <1>1, <1>2 DEF Inject_preattestations

\* Attesting: the file, then the votes, then the watch.
LEMMA InjectAttestationsGood ==
    ASSUME WorkerOK, NEW prev, NEW r, GoodResult(r), NEW base, Good(base.st),
           NEW q \in Seq(QuorumEvent), Inject_attestations(prev, r, base, q)
    PROVE  GoodStep /\ SignStep
<1>1. CASE /\ RecorderFails(prev, r) /\ ContinueAfterError(prev, base, q)
           /\ UNCHANGED <<hwm, signed>>
  BY <1>1, ContinueGood DEF SignStep
<1>2. CASE /\ state_recorder(prev, r)
           /\ \/ "hwm" \in Faults /\ st' = base.st /\ watch' = watch /\ qcs' = q
              \/ Dies
           /\ UNCHANGED <<hwm, signed>>
  <2>1. disk' # disk => disk' \in StateData /\ SoundData(disk')
    BY <1>2, RecorderSound DEF GoodResult
  <2>2. GoodStep
    BY <1>2, <2>1, DiesGood DEF GoodStep, WorkerOK
  <2> QED BY <1>2, <2>2 DEF SignStep
<1>3. ASSUME state_recorder(prev, r), NEW ds \in SUBSET Delegates,
             sign_consensus_votes("attestation", r.st, r.on, ds),
             \/ /\ st' = r.st /\ qcs' = q
                /\ start_waiting_for_quorum("Quorum_reached", r.st)
             \/ Dies
      PROVE  GoodStep /\ SignStep
  <2>1. SignStep
    BY <1>3, VotesSign DEF GoodResult, Good, Kinds
  <2>2. disk' # disk => disk' \in StateData /\ SoundData(disk')
    BY <1>3, RecorderSound DEF GoodResult
  <2>3. CASE Dies
    BY <2>2, <2>3, <2>1, DiesGood
  <2>4. CASE /\ st' = r.st /\ qcs' = q
             /\ start_waiting_for_quorum("Quorum_reached", r.st)
    <3>1. watch' \in QuorumEvent \cup {None}
      BY <2>4, WaitingGood DEF EventKinds, GoodResult
    <3> QED BY <2>1, <2>2, <2>4, <3>1 DEF GoodStep, GoodResult
  <2> QED BY <1>3, <2>3, <2>4
<1> QED BY <1>1, <1>2, <1>3 DEF Inject_attestations

\* Any action of the interpreter that is not a proposal.
LEMMA PerformActionGood ==
    ASSUME WorkerOK, NEW prev, NEW r, GoodResult(r), NEW base, Good(base.st),
           NEW q \in Seq(QuorumEvent), perform_action(prev, r, base, q)
    PROVE  GoodStep /\ SignStep /\ injected' = injected
<1>1. injected' = injected
  BY DEF perform_action
<1>2. CASE Do_nothing(prev, r, base, q)
  <2>1. SignStep
    BY <1>2 DEF Do_nothing, SignStep
  <2>2. CASE RecorderFails(prev, r) /\ ContinueAfterError(prev, base, q)
    BY <1>1, <2>1, <2>2, ContinueGood
  <2>3. CASE /\ state_recorder(prev, r) /\ st' = r.st /\ watch' = watch
             /\ qcs' = q
    <3>1. disk' # disk => disk' \in StateData /\ SoundData(disk')
      BY <2>3, RecorderSound DEF GoodResult
    <3> QED BY <1>1, <2>1, <2>3, <3>1 DEF GoodStep, GoodResult, WorkerOK
  <2> QED BY <1>2, <2>2, <2>3 DEF Do_nothing
<1>3. CASE Watch_proposal(prev, r, base, q)
  <2>1. watch' \in QuorumEvent \cup {None}
    BY <1>3, WaitingGood DEF Watch_proposal, EventKinds, GoodResult
  <2> QED
    BY <1>1, <1>3, <2>1 DEF Watch_proposal, GoodStep, GoodResult, SignStep
<1>4. CASE Inject_preattestations(prev, r, base, q)
  BY <1>1, <1>4, InjectPreattestationsGood
<1>5. CASE Inject_attestations(prev, r, base, q)
  BY <1>1, <1>5, InjectAttestationsGood
<1> QED BY <1>2, <1>3, <1>4, <1>5 DEF perform_action

\* The same after a proposal, which may first enter a level or a branch.
LEMMA PerformOnProposalGood ==
    ASSUME WorkerOK, NEW prev, NEW r, GoodResult(r), NEW applied \in BOOLEAN,
           NEW p \in Proposals, perform_on_proposal(prev, r, applied, p)
    PROVE  GoodStep /\ SignStep /\ injected' = injected
<1>1. Good(r.st) /\ qcs \in Seq(QuorumEvent)
  BY DEF GoodResult, WorkerOK
<1>2. CASE perform_action(prev, r, r, qcs)
  BY <1>1, <1>2, PerformActionGood
<1>3. ASSUME NEW c \in Rounds,
             perform_action(prev, update_to_level(applied, p, c), r, qcs)
      PROVE  GoodStep /\ SignStep /\ injected' = injected
  BY <1>1, <1>3, UpdateToLevelGood, PerformActionGood
<1>4. ASSUME NEW c \in Rounds,
             perform_action(prev, synchronize_round(applied, r.st, p, c), r,
                            qcs)
      PROVE  GoodStep /\ SignStep /\ injected' = injected
  BY <1>1, <1>4, SynchronizeRoundGood, PerformActionGood
<1>5. CASE Fault("sync", prev, r, qcs) /\ UNCHANGED <<hwm, signed, injected>>
  BY <1>1, <1>5, FaultGood DEF SignStep
<1> QED BY <1>2, <1>3, <1>4, <1>5 DEF perform_on_proposal

-----------------------------------------------------------------------------
(* Proposing.                                                              *)

\* A step of the interpreter that may also inject a block.
ProposalStep == GoodStep /\ SignStep /\ injected' \subseteq Headers

ProposerOK == WorkerOK /\ SigningOK /\ injected \subseteq Headers

\* inject_block, on success and on error.
LEMMA InjectBlockGood ==
    ASSUME ProposerOK, NEW prev, NEW base, Good(base.st),
           NEW q \in Seq(QuorumEvent), NEW updated, Good(updated),
           NEW b \in Headers, inject_block(prev, base, q, updated, b)
    PROVE  GoodStep /\ injected' \subseteq Headers
<1>1. CASE /\ st' = updated /\ watch' = watch /\ qcs' = q /\ disk' = disk
           /\ injected' = injected \cup {b}
  BY <1>1 DEF GoodStep, ProposerOK, WorkerOK
<1>2. CASE /\ Fault("inject", prev, base, q)
           /\ injected' \in {injected, injected \cup {b}}
  BY <1>2, FaultGood DEF ProposerOK
<1> QED BY <1>1, <1>2 DEF inject_block

\* A forged block is signed above the mark.
LEMMA ForgeSigns ==
    ASSUME ProposerOK, NEW d \in Delegates, NEW b \in Headers,
           ForgeSignedBlock(d, b)
    PROVE  SignStep
BY BlockSigns DEF ForgeSignedBlock, ProposerOK

\* A block that is not forged to the end: at worst it is signed for nothing.
LEMMA ForgeFailsGood ==
    ASSUME ProposerOK, NEW prev, NEW base, Good(base.st),
           NEW q \in Seq(QuorumEvent), NEW d \in Delegates, NEW b \in Headers,
           ForgeFails(prev, base, q, d, b)
    PROVE  GoodStep /\ SignStep
<1>1. CASE Fault("forge", prev, base, q) /\ UNCHANGED <<hwm, signed>>
  BY <1>1, FaultGood DEF SignStep, ProposerOK
<1>2. CASE ContinueAfterError(prev, base, q) /\ UNCHANGED <<hwm, signed>>
  BY <1>2, ContinueGood DEF SignStep, ProposerOK
<1>3. CASE /\ MaySignBlock(d, b) /\ Fault("sign", prev, base, q)
           /\ record_block(d, b) /\ UNCHANGED signed
  BY <1>3, FaultGood, BlockSigns DEF ProposerOK
<1>4. CASE ForgeSignedBlock(d, b) /\ Fault("forge", prev, base, q)
  BY <1>4, FaultGood, ForgeSigns DEF ProposerOK
<1> QED BY <1>1, <1>2, <1>3, <1>4 DEF ForgeFails

\* Forging and injecting.
LEMMA ForgeAndInjectGood ==
    ASSUME ProposerOK, NEW prev, NEW base, Good(base.st),
           NEW q \in Seq(QuorumEvent), NEW updated, Good(updated),
           NEW d \in Delegates, NEW b \in Headers,
           Forge_and_inject(prev, base, q, updated, d, b)
    PROVE  ProposalStep
<1>1. CASE ForgeFails(prev, base, q, d, b) /\ injected' = injected
  BY <1>1, ForgeFailsGood DEF ProposalStep, ProposerOK
<1>2. CASE /\ ForgeSignedBlock(d, b)
           /\ inject_block(prev, base, q, updated, b)
  BY <1>2, ForgeSigns, InjectBlockGood DEF ProposalStep
<1> QED BY <1>1, <1>2 DEF Forge_and_inject

\* A fresh block, or the one forged ahead of time.
LEMMA ProposeFreshGood ==
    ASSUME ProposerOK, NEW prev, NEW s, Good(s),
           NEW q \in Seq(QuorumEvent), NEW d \in Delegates,
           NEW level \in 1 .. MaxLevel + 1, NEW round \in Rounds,
           NEW payloads \in SUBSET Payloads,
           propose_fresh_block_action(prev, s, q, d, level, round, payloads)
    PROVE  ProposalStep
<1> DEFINE base == [st |-> s, fresh |-> FALSE]
           idle == update_current_phase(s, "Idle")
           sent == [idle EXCEPT !.next_forged_block = None]
           b(y) == [level |-> level, round |-> round, payload |-> y,
                    pqc |-> NoPqc]
<1>1. Good(base.st)
  OBVIOUS
<1>2. Good(idle)
  BY PhaseGood DEF Phases
<1>3. Good(sent)
  <2> HIDE DEF idle
  <2>1. sent \in State
    BY <1>2 DEF Good, State
  <2> QED BY <1>2, <2>1 DEF Good, Sound, State
<1> HIDE DEF base, idle, sent
<1>4. CASE /\ s.next_forged_block # None
           /\ inject_block(prev, base, q, sent, s.next_forged_block.block)
           /\ UNCHANGED <<hwm, signed>>
  <2>1. s.next_forged_block.block \in Headers
    BY <1>4 DEF Good, State, SignedBlock, Blocks
  <2> QED
    BY <1>1, <1>3, <1>4, <2>1, InjectBlockGood DEF ProposalStep, SignStep
<1>5. ASSUME NEW y \in payloads,
             Forge_and_inject(prev, base, q, idle, d, b(y))
      PROVE  ProposalStep
  <2>1. b(y) \in Headers
    BY BoundsAssumption DEF Headers, NoPqc
  <2> QED BY <1>1, <1>2, <1>5, <2>1, ForgeAndInjectGood
<1> QED BY <1>4, <1>5 DEF propose_fresh_block_action, base, idle, sent

\* A block at a round of the current level.
LEMMA ProposeBlockGood ==
    ASSUME ProposerOK, NEW prev, NEW s, Good(s),
           NEW q \in Seq(QuorumEvent), NEW d \in Delegates,
           NEW round \in Rounds, propose_block_action(prev, s, q, d, round)
    PROVE  ProposalStep
<1>1. s.current_level \in 1 .. MaxLevel + 1
  BY BoundsAssumption DEF Good, State, Levels
<1>2. CASE s.attestable_payload = None
  <2>1. FreshPayloads(predecessor(s.latest_proposal)) \in SUBSET Payloads
    BY DEF FreshPayloads
  <2> QED BY <1>1, <1>2, <2>1, ProposeFreshGood DEF propose_block_action
<1>3. CASE s.attestable_payload # None
  <2> DEFINE b == [level   |-> s.current_level, round |-> round,
                   payload |-> s.attestable_payload.proposal.payload,
                   pqc     |-> s.attestable_payload.pqc]
             base == [st |-> s, fresh |-> FALSE]
             idle == update_current_phase(s, "Idle")
  <2>1. s.attestable_payload.pqc \in NoPqc .. MaxRound
        /\ s.attestable_payload.proposal.payload \in Payloads
    BY <1>3, ProposalFields, BoundsAssumption
    DEF Good, State, AttestablePayload, Rounds, NoPqc
  <2>2. b \in Headers
    BY <1>1, <2>1 DEF Headers
  <2>3. Good(base.st) /\ Good(idle)
    BY PhaseGood DEF Phases
  <2>4. Forge_and_inject(prev, base, q, idle, d, b)
    BY <1>3 DEF propose_block_action
  <2> HIDE DEF b, base, idle
  <2> QED BY <2>2, <2>3, <2>4, ForgeAndInjectGood
<1> QED BY <1>2, <1>3

\* The end of a round, proposal included.
LEMMA EndOfRoundGood ==
    ASSUME ProposerOK, NEW prev, Good(prev), NEW r \in Int, r + 1 \in Rounds,
           NEW q \in Seq(QuorumEvent), end_of_round(prev, r, q)
    PROVE  ProposalStep
<1> DEFINE new == [prev EXCEPT !.current_round = r + 1]
           idle == update_current_phase(new, "Idle")
           d == round_proposer(new, "Current", r + 1)
<1>1. Good(new)
  <2>1. new \in State
    BY DEF Good, State
  <2> QED BY <2>1 DEF Good, Sound, State
<1>2. d \in Delegates \cup {None}
  <2>1. new.current_level \in 1 .. MaxLevel + 1
    BY <1>1, BoundsAssumption DEF Good, State, Levels
  <2> QED BY <2>1, SlotsAssumption DEF round_proposer
<1>3. GoodResult(do_nothing(new)) /\ GoodResult(do_nothing(idle))
  BY <1>1, PhaseGood, DoNothingGood DEF Phases
<1> HIDE DEF new, idle, d
<1>4. CASE perform_action(prev, do_nothing(idle), do_nothing(idle), q)
  BY <1>3, <1>4, PerformActionGood DEF ProposalStep, ProposerOK, GoodResult
<1>5. CASE perform_action(prev, do_nothing(new), do_nothing(new), q)
  BY <1>3, <1>5, PerformActionGood DEF ProposalStep, ProposerOK, GoodResult
<1>6. CASE d # None /\ propose_block_action(prev, new, q, d, r + 1)
  BY <1>1, <1>2, <1>6, ProposeBlockGood
<1> QED BY <1>4, <1>5, <1>6 DEF end_of_round, new, idle, d

-----------------------------------------------------------------------------
(* The inductive invariant.                                                *)

IInv ==
    /\ TypeOK
    /\ LockedImpliesAttestable
    /\ MarksCoverSigned
    /\ NoDoubleSigning

ClockType == clock \in [Levels -> [Preds -> Rounds]]
CertsType == certs \in [Levels -> [Rounds -> Payloads \cup {None}]]
ThreadType == worker \in {"running", "stopped"}

\* The parts of the invariant that the lemmas above are about.
LEMMA InvariantParts ==
    ASSUME IInv
    PROVE  /\ ProposerOK /\ ClockType /\ CertsType /\ head \in Proposals
           /\ st # None => Good(st)
           /\ disk # None => disk \in StateData /\ SoundData(disk)
BY DEF IInv, TypeOK, ProposerOK, WorkerOK, SigningOK, ClockType, CertsType,
       LockedImpliesAttestable, Up, Good, Sound, SoundData

\* And back, after a step of the interpreter.
LEMMA StepKeeps ==
    ASSUME IInv, ProposalStep, head' \in Proposals, ClockType', CertsType',
           ThreadType'
    PROVE  IInv'
<1>1. SigningOK' /\ MarksCoverSigned' /\ NoDoubleSigning'
  BY InvariantParts, SignStepKeeps DEF IInv, ProposalStep, ProposerOK
<1>2. st' # None => Good(st')
  BY DEF ProposalStep, GoodStep
<1>3. disk' # None => disk' \in StateData /\ SoundData(disk')
  BY InvariantParts DEF ProposalStep, GoodStep
<1>4. TypeOK'
  BY <1>1, <1>2, <1>3
  DEF TypeOK, Good, SigningOK, ProposalStep, GoodStep, ClockType, CertsType,
      ThreadType
<1>5. LockedImpliesAttestable'
  BY <1>2, <1>3 DEF LockedImpliesAttestable, Up, Good, Sound, SoundData
<1> QED BY <1>1, <1>4, <1>5 DEF IInv

\* The clock of one branch moves.
LEMMA ElapsedType ==
    ASSUME ClockType, NEW p \in Proposals, NEW c \in Rounds, Elapsed(p, c)
    PROVE  ClockType'
BY ProposalFields, PredecessorType DEF ClockType, Elapsed

\* A block of the node adds its prequorum.
LEMMA ReceivedType ==
    ASSUME CertsType, NEW p \in Proposals, Received(p)
    PROVE  CertsType'
BY ProposalFields DEF CertsType, Received

\* A proposal's action moves the clock to a round.
LEMMA OnProposalClock ==
    ASSUME ClockType, NEW prev, NEW r, NEW applied, NEW p \in Proposals,
           perform_on_proposal(prev, r, applied, p)
    PROVE  ClockType'
BY ProposalFields, ElapsedType DEF perform_on_proposal

\* The worker's thread runs or has ended.
LEMMA ThreadKeepsType == ASSUME IInv, [Next]_vars PROVE ThreadType'
<1>1. ThreadType
  BY DEF IInv, TypeOK, ThreadType
<1>2. worker' \in {worker, "running", "stopped"}
  BY DEF Next, vars, NewHead, NewValid, EndOfRound, TimeToForgeBlock,
         TimeToBakeNextLevel, ConsumeQuorumEvent, WorkerQuorumReached,
         WorkerStops, Crash, NodeAdvances, Start
<1> QED BY <1>1, <1>2 DEF ThreadType

\* One step per event of the loop.
LEMMA NextKeeps == ASSUME IInv, [Next]_vars PROVE IInv'
<1>0. ThreadType'
  BY ThreadKeepsType
<1> USE InvariantParts, <1>0
<1>1. ASSUME NEW p \in Proposals, NewHead(p) PROVE IInv'
  <2>1. Good(st)
    BY <1>1 DEF NewHead, Up
  <2>2. GoodResult(step_New_head_proposal(st, p))
    BY <2>1, StepGood
  <2>3. GoodStep /\ SignStep /\ injected' = injected
    BY <1>1, <2>2, PerformOnProposalGood DEF NewHead, ProposerOK
  <2>4. ClockType' /\ CertsType' /\ head' \in Proposals
    BY <1>1, OnProposalClock, ReceivedType DEF NewHead
  <2> QED BY <2>3, <2>4, StepKeeps DEF ProposalStep, ProposerOK
<1>2. ASSUME NEW p \in Proposals, NewValid(p) PROVE IInv'
  <2>1. Good(st)
    BY <1>2 DEF NewValid, Up
  <2>2. GoodResult(step_New_valid_proposal(st, p))
    BY <2>1, StepGood
  <2>3. GoodStep /\ SignStep /\ injected' = injected
    BY <1>2, <2>2, PerformOnProposalGood DEF NewValid, ProposerOK
  <2>4. ClockType' /\ CertsType' /\ head' \in Proposals
    BY <1>2, OnProposalClock, ReceivedType DEF NewValid
  <2> QED BY <2>3, <2>4, StepKeeps DEF ProposalStep, ProposerOK
<1>3. CASE EndOfRound
  <2>1. Good(st)
    BY <1>3 DEF EndOfRound, Up
  <2>2. st.current_round \in Int /\ st.current_round + 1 \in Rounds
    BY <1>3, <2>1, BoundsAssumption DEF EndOfRound, Good, State, Rounds
  <2>3. ProposalStep
    BY <1>3, <2>1, <2>2, EndOfRoundGood
    DEF EndOfRound, ProposerOK, WorkerOK
  <2>4. ClockType'
    BY <1>3, <2>1, <2>2, ElapsedType
    DEF EndOfRound, end_of_round, Good, State
  <2> QED BY <1>3, <2>3, <2>4, StepKeeps DEF EndOfRound, CertsType
<1>4. CASE TimeToForgeBlock
  <2> DEFINE d    == round_proposer(st, "Next", 0)
             idle == update_current_phase(st, "Idle")
             base == [st |-> st, fresh |-> FALSE]
             b(y) == [level |-> st.current_level + 1, round |-> 0,
                      payload |-> y, pqc |-> NoPqc]
             kept(y) == [idle EXCEPT !.next_forged_block =
                           [block |-> b(y), on |-> st.elected_block.proposal]]
  <2>1. Good(st) /\ Good(idle)
    BY <1>4, PhaseGood DEF TimeToForgeBlock, Up, Phases
  <2>2. st.current_level + 1 \in 1 .. MaxLevel + 1 /\ 0 \in Rounds
    BY <2>1, BoundsAssumption DEF Good, State, Levels, Rounds
  <2>3. d \in Delegates
    BY <1>4, <2>2, SlotsAssumption
    DEF TimeToForgeBlock, round_proposer,
        compute_next_potential_baking_time_at_next_level
  <2>4. \A y \in Payloads : b(y) \in Blocks
    BY <2>2, BoundsAssumption DEF Blocks, Headers, NoPqc
  <2>5. st.elected_block.proposal \in Proposals
    BY <1>4, <2>1
    DEF TimeToForgeBlock, Good, State, ElectedBlock,
        compute_next_potential_baking_time_at_next_level
  <2> HIDE DEF d, idle, b
  <2>6. ASSUME NEW y \in Payloads PROVE Good(kept(y))
    <3>1. kept(y) \in State
      BY <2>1, <2>4, <2>5 DEF Good, State, SignedBlock
    <3> QED BY <2>1, <3>1 DEF Good, Sound, State
  <2> HIDE DEF kept
  <2>7. PICK y \in Payloads :
          \/ ForgeFails(st, base, qcs, d, b(y))
          \/ /\ ForgeSignedBlock(d, b(y)) /\ st' = kept(y)
             /\ UNCHANGED <<disk, watch, qcs>>
    BY <1>4 DEF TimeToForgeBlock, d, idle, b, kept
  <2>8. b(y) \in Headers
    BY <2>4 DEF Blocks
  <2>9. GoodStep /\ SignStep
    <3>1. CASE ForgeFails(st, base, qcs, d, b(y))
      <4>1. Good(base.st) /\ qcs \in Seq(QuorumEvent)
        BY <2>1 DEF ProposerOK, WorkerOK
      <4> HIDE DEF base
      <4> QED BY <3>1, <2>3, <2>8, <4>1, ForgeFailsGood
    <3>2. CASE /\ ForgeSignedBlock(d, b(y)) /\ st' = kept(y)
               /\ UNCHANGED <<disk, watch, qcs>>
      <4>1. SignStep
        BY <3>2, <2>3, <2>8, ForgeSigns
      <4> QED BY <3>2, <4>1, <2>6 DEF GoodStep, ProposerOK, WorkerOK
    <3> QED BY <2>7, <3>1, <3>2
  <2>10. /\ injected' = injected /\ head' = head /\ certs' = certs
         /\ clock' = clock
    BY <1>4 DEF TimeToForgeBlock
  <2> QED
    BY <2>9, <2>10, StepKeeps
    DEF ProposalStep, ProposerOK, ClockType, CertsType
<1>5. ASSUME NEW r \in Rounds, TimeToBakeNextLevel(r) PROVE IInv'
  <2> DEFINE d   == round_proposer(st, "Next", r)
             new == [st EXCEPT !.next_level_proposed_round = r]
  <2>1. Good(st)
    BY <1>5 DEF TimeToBakeNextLevel, Up
  <2>2. Good(new)
    <3>1. new \in State
      BY <2>1 DEF Good, State
    <3> QED BY <2>1, <3>1 DEF Good, Sound, State
  <2>3. st.current_level + 1 \in 1 .. MaxLevel + 1
    BY <2>1, BoundsAssumption DEF Good, State, Levels
  <2>4. d \in Delegates
    BY <1>5, <2>3, SlotsAssumption
    DEF TimeToBakeNextLevel, round_proposer,
        compute_next_potential_baking_time_at_next_level
  <2> HIDE DEF d, new
  <2>5. propose_fresh_block_action(st, new, qcs, d, st.current_level + 1, r,
                                   Payloads)
    BY <1>5 DEF TimeToBakeNextLevel, d, new
  <2>6. ProposalStep
    BY <2>2, <2>3, <2>4, <2>5, ProposeFreshGood DEF ProposerOK, WorkerOK
  <2>7. head' = head /\ certs' = certs /\ clock' = clock
    BY <1>5 DEF TimeToBakeNextLevel
  <2> QED BY <2>6, <2>7, StepKeeps DEF ClockType, CertsType
<1>6. CASE ConsumeQuorumEvent
  <2> DEFINE e == Head(qcs)
             r == step_Quorum_event(st, e.kind, e.candidate)
  <2>1. Good(st) /\ qcs \in Seq(QuorumEvent) /\ qcs # <<>>
    BY <1>6 DEF ConsumeQuorumEvent, Up, ProposerOK, WorkerOK
  <2>2. e \in QuorumEvent /\ Tail(qcs) \in Seq(QuorumEvent)
    BY <2>1
  <2> HIDE DEF e
  <2>3. GoodResult(r)
    BY <2>1, <2>2, StepGood DEF QuorumEvent
  <2> HIDE DEF r
  <2>4. perform_action(st, r, r, Tail(qcs))
    BY <1>6 DEF ConsumeQuorumEvent, r, e
  <2>5. GoodStep /\ SignStep /\ injected' = injected
    BY <2>2, <2>3, <2>4, PerformActionGood DEF ProposerOK, GoodResult
  <2>6. head' = head /\ certs' = certs /\ clock' = clock
    BY <1>6 DEF ConsumeQuorumEvent
  <2> QED
    BY <2>5, <2>6, StepKeeps
    DEF ProposalStep, ProposerOK, ClockType, CertsType
<1>7. CASE WorkerQuorumReached
  <2>1. watch \in QuorumEvent
    BY <1>7 DEF WorkerQuorumReached, ProposerOK, WorkerOK
  <2>2. CertsType'
    BY <1>7, <2>1, ProposalFields
    DEF WorkerQuorumReached, CertsType, QuorumEvent
  <2>3. qcs' \in Seq(QuorumEvent)
    BY <1>7, <2>1 DEF WorkerQuorumReached, ProposerOK, WorkerOK
  <2>4. ProposalStep
    BY <1>7, <2>3
    DEF WorkerQuorumReached, ProposalStep, GoodStep, SignStep, ProposerOK
  <2> QED BY <1>7, <2>2, <2>4, StepKeeps DEF WorkerQuorumReached, ClockType
<1>8. CASE Crash
  <2>1. ProposalStep
    BY <1>8, DiesGood DEF Crash, ProposalStep, SignStep, ProposerOK
  <2> QED BY <1>8, <2>1, StepKeeps DEF Crash, ClockType, CertsType
<1>9. ASSUME NEW p \in Proposals, NodeAdvances(p) PROVE IInv'
  <2>1. ClockType' /\ CertsType' /\ head' \in Proposals
    BY <1>9, ProposalFields, ElapsedType, ReceivedType DEF NodeAdvances
  <2>2. ProposalStep
    BY <1>9
    DEF NodeAdvances, ProposalStep, GoodStep, SignStep, ProposerOK, WorkerOK
  <2> QED BY <2>1, <2>2, StepKeeps
<1>10. CASE Start
  <2>1. PICK c \in Rounds, file \in {disk, None} :
          /\ compute_round(head, c)
          /\ LET init == create_initial_state(head, c, file)
                 r    == step_New_head_proposal(init, head)
             IN  \/ /\ head.round = c
                    /\ perform_action(init, r, r, <<>>)
                    /\ Elapsed(head, c)
                 \/ /\ head.round # c
                    /\ end_of_round(init, c - 1, <<>>)
    BY <1>10 DEF Start
  <2> DEFINE init == create_initial_state(head, c, file)
             r    == step_New_head_proposal(init, head)
  <2>2. Good(init)
    BY InitialStateGood
  <2> HIDE DEF init
  <2>3. GoodResult(r)
    BY <2>2, StepGood
  <2> HIDE DEF r
  <2>4. <<>> \in Seq(QuorumEvent)
    OBVIOUS
  <2>5. head' = head /\ certs' = certs
    BY <1>10 DEF Start
  <2>6. CASE /\ perform_action(init, r, r, <<>>)
             /\ Elapsed(head, c)
    <3>1. GoodStep /\ SignStep /\ injected' = injected
      BY <2>3, <2>4, <2>6, PerformActionGood DEF ProposerOK, GoodResult
    <3>2. ClockType'
      BY <2>6, ElapsedType
    <3> QED
      BY <2>5, <3>1, <3>2, StepKeeps DEF ProposalStep, ProposerOK, CertsType
  <2>7. CASE end_of_round(init, c - 1, <<>>)
    <3>1. c - 1 \in Int /\ (c - 1) + 1 = c
      BY BoundedNaturals
    <3>2. ProposalStep
      BY <2>2, <2>4, <2>7, <3>1, EndOfRoundGood
    <3>3. Elapsed(init.latest_proposal, c)
      BY <2>7, <3>1 DEF end_of_round
    <3>4. ClockType'
      BY <2>2, <3>3, ElapsedType DEF Good, State
    <3> QED BY <2>5, <3>2, <3>4, StepKeeps DEF CertsType
  <2> QED BY <2>1, <2>6, <2>7 DEF init, r
<1>11. CASE WorkerStops
  <2>1. ProposalStep
    BY <1>11
    DEF WorkerStops, ProposalStep, GoodStep, SignStep, ProposerOK, WorkerOK
  <2> QED BY <1>11, <2>1, StepKeeps DEF WorkerStops, ClockType, CertsType
<1>12. CASE UNCHANGED vars
  BY <1>12
  DEF vars, IInv, TypeOK, LockedImpliesAttestable, Up, MarksCoverSigned,
      NoDoubleSigning
<1> QED
  BY <1>1, <1>2, <1>3, <1>4, <1>5, <1>6, <1>7, <1>8, <1>9, <1>10, <1>11,
     <1>12
  DEF Next

\* The first state: the baker is not running and no file exists.
LEMMA InitIInv == Init => IInv
<1> SUFFICES ASSUME Init PROVE IInv
  OBVIOUS
<1>1. hwm \in [Kinds -> HighwatermarkMap]
  BY DEF Init, empty, HighwatermarkMap
<1>2. /\ certs \in [Levels -> [Rounds -> Payloads \cup {None}]]
      /\ clock \in [Levels -> [Preds -> Rounds]]
  BY BoundsAssumption DEF Init, Rounds
<1>3. TypeOK
  BY <1>1, <1>2 DEF Init, TypeOK
<1>4. MarksCoverSigned /\ NoDoubleSigning
  BY DEF Init, MarksCoverSigned, NoDoubleSigning
<1>5. LockedImpliesAttestable
  BY DEF Init, LockedImpliesAttestable, Up
<1> QED BY <1>3, <1>4, <1>5 DEF IInv

\* The invariant holds of every behaviour.
THEOREM Invariance == Spec => []IInv
<1>1. IInv /\ [Next]_vars => IInv'
  BY NextKeeps
<1> QED BY <1>1, InitIInv, PTL DEF Spec

\* The state, the files, the worker's stream and the environment keep their
\* types through every event, fault and restart.
THEOREM TypeCorrect == Spec => []TypeOK
<1>1. IInv => TypeOK
  BY DEF IInv
<1> QED BY <1>1, Invariance, PTL

\* The assertion of propose_block_action never fails: a locked baker knows an
\* attestable payload at least as recent as its lock, whatever fails or
\* crashes, and its file says so too.
THEOREM LockedIsAttestable == Spec => []LockedImpliesAttestable
<1>1. IInv => LockedImpliesAttestable
  BY DEF IInv
<1> QED BY <1>1, Invariance, PTL

\* No delegate signs two blocks, two preattestations or two attestations at
\* one level and round, whatever fails or crashes: the high watermark is
\* raised before the signature.
THEOREM NeverSignsTwice == Spec => []NoDoubleSigning
<1>1. IInv => NoDoubleSigning
  BY DEF IInv
<1> QED BY <1>1, Invariance, PTL

(***************************************************************************)
(* The locking rules of one baker, for every set of delegates, payloads,   *)
(* branches and slots and every bound: what it attests, locks and proposes *)
(* again has a prequorum; its lock never goes back and covers what it      *)
(* attested, so that it preattests by the rule of Tenderbake.              *)
(*                                                                         *)
(* A second invariant on top of the one above.  The parts of it that       *)
(* need an assumption on the branches or on the faults carry it as a       *)
(* hypothesis: OneBranch, SameStart, Calm, Recorded.                       *)
(***************************************************************************)


\* The predecessors on which a level may be built: one, or all at one round
\* (their levels then count the same rounds at the same time), unless the
\* process never restarts.
OneBranch == \A x, y \in Preds : x = y
SameStart ==
    \/ "crash" \notin Faults
    \/ \A x, y \in Preds : PredRound[x] = PredRound[y]

\* Entering another branch never fails half-way.
Calm ==
    \/ OneBranch
    \/ SameStart /\ Faults \cap {"sync", "disk", "hwm"} = {}

\* What was locked survives: the baker never crashes, or the state is recorded
\* on disk and read back, on a node that has caught up with it.
Recorded ==
    /\ SameStart
    /\ "crash" \in Faults => /\ StateRecorder = "Filesystem"
                             /\ Faults \cap {"read", "lag"} = {}

-----------------------------------------------------------------------------
(* Prequorums and time, as the states below see them: C is a value of      *)
(* certs, K of clock.                                                      *)

CertsMap == [Levels -> [Rounds -> Payloads \cup {None}]]
ClockMap == [Levels -> [Preds -> Rounds]]

CertsGrow(C, D) ==
    \A l \in Levels, r \in Rounds : C[l][r] # None => D[l][r] = C[l][r]

ClockGrows(K, L) == \A l \in Levels, x \in Preds : K[l][x] <= L[l][x]

Reached(K, level, round) == \E x \in Preds : round <= K[level][x]

CertifiedBlock(p, C) == C[p.level][p.round] = p.payload
CertifiedPqc(p, C) == p.pqc # NoPqc => C[p.level][p.pqc] = p.payload

-----------------------------------------------------------------------------
(* The invariant of a state of the automaton, and of the state file.       *)

\* Lock and attestable payload have their prequorum, at the current level.
CertifiedLock(level, lock, C) ==
    lock # None => C[level][lock.round] = lock.payload

CertifiedAttestable(level, ap, C) ==
    ap # None => /\ ap.proposal.level = level
                 /\ C[level][ap.pqc] = ap.proposal.payload

\* The clock once showed their rounds.
TimelyLock(level, lock, K) == lock # None => Reached(K, level, lock.round)

TimelyAttestable(level, ap, K) ==
    ap # None => Reached(K, level, ap.pqc) /\ Reached(K, level, ap.proposal.round)

ForgedOK(s) ==
    s.next_forged_block # None =>
        /\ s.elected_block # None
        /\ s.next_forged_block.on = s.elected_block.proposal
        /\ s.next_forged_block.block.level = s.current_level + 1
        /\ s.next_forged_block.block.pqc = NoPqc

\* On the first block of the protocol nothing is done but wait.
FirstLevel == ActivationLevel \in {0, 1}

FirstOK(s) ==
    FirstLevel /\ s.current_level = ActivationLevel =>
        /\ s.elected_block # None /\ s.locked_round = None
        /\ s.current_phase = "Idle"

\* The lock is not ahead of the latest proposal, or not of the round.
LockRoundOK(s) ==
    s.locked_round # None =>
        /\ \/ s.locked_round.round <= s.latest_proposal.round
           \/ s.locked_round.round <= s.current_round
        /\ s.current_phase = "Awaiting_preattestations" =>
             s.locked_round.round <= s.latest_proposal.round

\* Nothing known is of a later round than the current one.
RoundOK(s) ==
    /\ s.latest_proposal.round <= s.current_round
    /\ s.attestable_payload # None => s.attestable_payload.pqc <= s.current_round

AttestableRoundOK(s) ==
    s.attestable_payload # None =>
        s.attestable_payload.proposal.round <= s.current_round

WaitsOK(s) ==
    s.current_phase # "Idle" =>
        \/ s.latest_proposal.round = s.current_round
        \/ round_proposer(s, "Current", s.current_round) # None

Safe(s, C, K) ==
    /\ s.latest_proposal.level = s.current_level
    /\ CertifiedLock(s.current_level, s.locked_round, C)
    /\ CertifiedAttestable(s.current_level, s.attestable_payload, C)
    /\ Reached(K, s.current_level, s.latest_proposal.round)
    /\ TimelyLock(s.current_level, s.locked_round, K)
    /\ TimelyAttestable(s.current_level, s.attestable_payload, K)
    /\ ForgedOK(s)
    /\ FirstOK(s)
    /\ SameStart => LockRoundOK(s)
    /\ Calm => RoundOK(s)
    /\ OneBranch => WaitsOK(s)

SafeData(f, C, K) ==
    /\ CertifiedLock(f.level_data, f.locked_round_data, C)
    /\ CertifiedAttestable(f.level_data, f.attestable_payload_data, C)
    /\ TimelyLock(f.level_data, f.locked_round_data, K)
    /\ TimelyAttestable(f.level_data, f.attestable_payload_data, K)
    /\ FirstLevel /\ f.level_data = ActivationLevel
         => f.locked_round_data = None

\* A block of one of our slots is one we injected, and signed before.
Own(p, J) == Proposer[p.level][p.round] # None => p \in J

SignedFor(b, G) ==
    Proposer[b.level][b.round] # None =>
        \E x \in G : /\ x.kind = "block" /\ x.level = b.level
                     /\ x.round = b.round
                     /\ x.delegate = Proposer[b.level][b.round]

OwnedAttestable(ap, J) ==
    ap # None => Own(ap.proposal, J) /\ ap.pqc <= ap.proposal.round

Owned(s, J, G) ==
    /\ Own(s.latest_proposal, J)
    /\ OwnedAttestable(s.attestable_payload, J)
    /\ s.next_forged_block # None => SignedFor(s.next_forged_block.block, G)

-----------------------------------------------------------------------------
(* What was signed and injected.                                           *)

SignedOK(C) ==
    \A x \in signed :
        /\ x.kind = "attestation" =>
             x.level \in Levels /\ C[x.level][x.round] = x.payload
        /\ FirstLevel => x.level # ActivationLevel

InjectedOK(C) ==
    \A b \in injected :
        /\ SignedFor(b, signed)
        /\ b.pqc # NoPqc =>
             /\ b.level \in Levels
             /\ C[b.level][b.pqc] = b.payload
             /\ Calm => b.pqc < b.round

\* A lock at a level covers the attestations signed so far.
LockCovers(items, level, lock) ==
    \A x \in items : x.kind = "attestation" =>
        /\ x.level <= level
        /\ x.level = level => lock # None /\ x.round <= lock.round

CoverInv ==
    Recorded =>
        /\ Up => /\ LockCovers(signed, st.current_level, st.locked_round)
                 /\ disk # None => disk.level_data <= st.current_level
        /\ "crash" \in Faults /\ disk # None =>
             LockCovers(signed, disk.level_data, disk.locked_round_data)
        /\ ("crash" \in Faults \/ ~Up) /\ disk = None =>
             \A x \in signed : x.kind # "attestation"

SInv ==
    /\ Up => /\ Safe(st, certs, clock) /\ Owned(st, injected, signed)
             /\ Calm => AttestableRoundOK(st)
    /\ disk # None => /\ SafeData(disk, certs, clock)
                      /\ OwnedAttestable(disk.attestable_payload_data, injected)
    /\ \A i \in 1 .. Len(qcs) : CertifiedBlock(qcs[i].candidate, certs)
    /\ CertifiedPqc(head, certs) /\ Own(head, injected)
    /\ SignedOK(certs)
    /\ InjectedOK(certs)
    /\ "crash" \notin Faults /\ ~Up => disk = None
    /\ CoverInv

-----------------------------------------------------------------------------
(* What a transition on a proposal does to the fields the invariant reads. *)

Kept(s, t) ==
    /\ t.current_level = s.current_level
    /\ t.locked_round = s.locked_round
    /\ t.elected_block = s.elected_block
    /\ t.next_forged_block = s.next_forged_block

Still(s, t) ==
    /\ Kept(s, t)
    /\ t.latest_proposal = s.latest_proposal
    /\ t.attestable_payload = s.attestable_payload
    /\ t.current_round = s.current_round
    /\ t.current_phase = s.current_phase

\* p is taken into account: as latest proposal, as attestable payload.
Adopts(s, t, p) ==
    /\ Kept(s, t)
    /\ t.current_round = s.current_round
    /\ t.latest_proposal = IF s.latest_proposal.round < p.round THEN p
                           ELSE s.latest_proposal
    /\ t.attestable_payload =
         IF has_better_internal_pqc(s, p)
         THEN [proposal |-> p, pqc |-> p.pqc] ELSE s.attestable_payload

OnBranch(s, r, p) ==
    \/ /\ Still(s, r.st) /\ r.act = "Do_nothing"
       /\ ~(s.latest_proposal = p /\ p.round <= s.current_round)
    \/ /\ Adopts(s, r.st, p) /\ p.round <= s.current_round /\ r.on = p
       /\ \/ r.act = "Do_nothing" /\ r.st.current_phase = s.current_phase
          \/ /\ r.act = "Inject_preattestations" /\ p.round = s.current_round
             /\ lock_allows(s, p) /\ ~is_first_block_in_protocol(p)
             /\ r.st.current_phase = "Awaiting_preattestations"
          \/ /\ r.act = "Watch_proposal" /\ p.round = s.current_round
             /\ ~lock_allows(s, p)
             /\ r.st.current_phase = "Awaiting_preattestations"

\* The branch of p is followed: its round is still to be computed.
Switches(s, t, p) ==
    /\ Kept(s, t)
    /\ t.latest_proposal = p
    /\ t.attestable_payload = s.attestable_payload
    /\ t.current_round = s.current_round
    /\ t.current_phase = s.current_phase
    /\ s.attestable_payload # None => s.attestable_payload.pqc < p.pqc
    /\ predecessor(p) # predecessor(s.latest_proposal)

OnProposal(s, r, p) ==
    \/ r.act = "Do_nothing" /\ Still(s, r.st)
    \/ /\ r.act = "Update_to_level" /\ s.current_level < p.level
       /\ Still(s, r.st)
    \/ /\ r.act = "Synchronize_round" /\ s.current_level = p.level
       /\ Switches(s, r.st, p)
    \/ s.current_level = p.level /\ OnBranch(s, r, p)

\* Recording p, with its prequorum.
LEMMA AdoptsView ==
    ASSUME NEW s \in State, NEW p \in Proposals, NEW applied \in BOOLEAN
    PROVE  LET n == may_update_proposal(applied,
                      may_update_attestable_payload_with_internal_pqc(s, p),
                      p)
           IN  /\ Adopts(s, n, p) /\ n.current_phase = s.current_phase
               /\ n \in State
<1> DEFINE m == may_update_attestable_payload_with_internal_pqc(s, p)
           n == may_update_proposal(applied, m, p)
<1>1. /\ m \in State /\ Kept(s, m) /\ m.current_round = s.current_round
      /\ m.latest_proposal = s.latest_proposal
      /\ m.current_phase = s.current_phase
      /\ m.attestable_payload =
           IF has_better_internal_pqc(s, p)
           THEN [proposal |-> p, pqc |-> p.pqc] ELSE s.attestable_payload
  <2>1. CASE has_better_internal_pqc(s, p)
    <3>1. [proposal |-> p, pqc |-> p.pqc] \in AttestablePayload
      BY <2>1, ProposalFields DEF has_better_internal_pqc, AttestablePayload
    <3> QED
      BY <2>1, <3>1
      DEF State, Kept, may_update_attestable_payload_with_internal_pqc
  <2>2. CASE ~has_better_internal_pqc(s, p)
    BY <2>2 DEF Kept, may_update_attestable_payload_with_internal_pqc
  <2> QED BY <2>1, <2>2
<1> HIDE DEF m
<1>2. /\ n \in State /\ Kept(m, n) /\ n.current_round = m.current_round
      /\ n.attestable_payload = m.attestable_payload
      /\ n.current_phase = m.current_phase
      /\ n.latest_proposal = IF m.latest_proposal.round < p.round THEN p
                             ELSE m.latest_proposal
  <2>1. CASE m.latest_proposal.round < p.round
    <3> DEFINE flag == applied \/ (m.latest_proposal = p
                                   /\ m.is_latest_proposal_applied)
               u == [m EXCEPT !.latest_proposal = p,
                              !.is_latest_proposal_applied = flag]
    <3>1. flag \in BOOLEAN
      BY <1>1 DEF State
    <3>2. n = u
      BY <2>1 DEF may_update_proposal, update_proposal
    <3> HIDE DEF flag
    <3>3. u \in State
      BY <1>1, <3>1 DEF State
    <3>4. /\ Kept(m, u) /\ u.current_round = m.current_round
          /\ u.attestable_payload = m.attestable_payload
          /\ u.current_phase = m.current_phase /\ u.latest_proposal = p
      BY <1>1 DEF State, Kept
    <3> HIDE DEF u, n
    <3> QED BY <2>1, <3>2, <3>3, <3>4
  <2>2. CASE ~(m.latest_proposal.round < p.round)
    BY <1>1, <2>2 DEF Kept, may_update_proposal
  <2> QED BY <2>1, <2>2
<1> QED BY <1>1, <1>2 DEF Adopts, Kept, m

\* A proposal of the current level and branch.
LEMMA OnBranchView ==
    ASSUME NEW s \in State, NEW p \in Proposals, NEW applied \in BOOLEAN
    PROVE  OnBranch(s, handle_proposal_on_branch(applied, s, p), p)
<1> DEFINE fresh == has_better_internal_pqc(s, p)
           new   == may_update_proposal(
                      applied,
                      may_update_attestable_payload_with_internal_pqc(s, p), p)
           acceptance == is_acceptable_proposal_for_current_level(s, p)
           watched == update_current_phase(new, "Awaiting_preattestations")
           r == handle_proposal_on_branch(applied, s, p)
<1>1. /\ Adopts(s, new, p) /\ new.current_phase = s.current_phase
      /\ new \in State
  BY AdoptsView
<1> HIDE DEF fresh, new
<1>2. s.current_round \in Nat /\ p.round \in Nat
  BY ProposalFields, BoundedNaturals DEF State
<1>3. CASE acceptance = "Invalid"
  <2>1. r = do_nothing(s)
    BY <1>3 DEF handle_proposal_on_branch
  <2>2. ~(s.latest_proposal = p /\ p.round <= s.current_round)
    BY <1>2, <1>3 DEF is_acceptable_proposal_for_current_level
  <2> QED BY <2>1, <2>2 DEF do_nothing, Result, OnBranch, Still, Kept
<1>4. CASE acceptance = "Outdated_proposal"
  <2>1. r = Result(new, "Do_nothing", p, fresh)
    BY <1>4 DEF handle_proposal_on_branch, new, fresh
  <2>2. p.round <= s.current_round
    BY <1>2, <1>4 DEF is_acceptable_proposal_for_current_level
  <2> QED BY <1>1, <2>1, <2>2 DEF Result, OnBranch
<1>5. CASE acceptance \notin {"Invalid", "Outdated_proposal"}
  <2>1. p.round = s.current_round
    BY <1>2, <1>5 DEF is_acceptable_proposal_for_current_level
  <2>2. lock_allows(new, p) <=> lock_allows(s, p)
    BY <1>1 DEF Adopts, Kept, lock_allows
  <2>3. \A ph \in Phases :
          /\ Adopts(s, update_current_phase(new, ph), p)
          /\ update_current_phase(new, ph).current_phase = ph
    BY <1>1 DEF update_current_phase, Adopts, Kept, State
  <2>4. CASE ~lock_allows(new, p)
    <3>1. r = Result(watched, "Watch_proposal", p, fresh)
      BY <1>5, <2>4 DEF handle_proposal_on_branch, new, fresh
    <3> QED
      BY <2>1, <2>2, <2>3, <2>4, <3>1, <1>2 DEF Result, OnBranch, Phases
  <2>5. CASE lock_allows(new, p) /\ s.current_phase # "Idle"
    <3>1. r = Result(new, "Do_nothing", p, fresh)
      BY <1>1, <1>5, <2>5
      DEF handle_proposal_on_branch, new, fresh, may_preattest
    <3> QED BY <1>1, <1>2, <2>1, <3>1 DEF Result, OnBranch
  <2>6. CASE /\ lock_allows(new, p) /\ s.current_phase = "Idle"
             /\ is_first_block_in_protocol(p)
    <3>1. r = Result(update_current_phase(new, "Idle"), "Do_nothing", p,
                     fresh)
      BY <1>1, <1>5, <2>6
      DEF handle_proposal_on_branch, new, fresh, may_preattest, preattest
    <3> QED
      BY <1>2, <2>1, <2>3, <2>6, <3>1 DEF Result, OnBranch, Phases
  <2>7. CASE /\ lock_allows(new, p) /\ s.current_phase = "Idle"
             /\ ~is_first_block_in_protocol(p)
    <3>1. r = Result(watched, "Inject_preattestations", p, fresh)
      BY <1>1, <1>5, <2>7
      DEF handle_proposal_on_branch, new, fresh, may_preattest, preattest
    <3> QED
      BY <1>2, <2>1, <2>2, <2>3, <2>7, <3>1 DEF Result, OnBranch, Phases
  <2> QED BY <2>4, <2>5, <2>6, <2>7
<1> QED BY <1>3, <1>4, <1>5

\* Any proposal.
LEMMA HandleProposalView ==
    ASSUME NEW s \in State, NEW p \in Proposals, NEW applied \in BOOLEAN
    PROVE  OnProposal(s, handle_proposal(applied, s, p), p)
<1> DEFINE m == may_update_is_latest_proposal_applied(applied, s, p)
           r == handle_proposal(applied, s, p)
<1> SUFFICES OnProposal(s, r, p)
  OBVIOUS
<1>1. m \in State /\ Still(s, m)
  BY DEF State, Still, Kept, may_update_is_latest_proposal_applied
<1>7. r = CASE m.current_level > p.level -> do_nothing(m)
            [] m.current_level < p.level ->
                 Result(m, "Update_to_level", p, FALSE)
            [] OTHER ->
                 IF predecessor(p) # predecessor(m.latest_proposal)
                 THEN may_switch_branch(applied, m, p)
                 ELSE handle_proposal_on_branch(applied, m, p)
  BY Zenon DEF handle_proposal
<1> HIDE DEF m, r
<1>2. s.current_level \in Nat /\ p.level \in Nat
  BY ProposalFields, BoundedNaturals DEF State
<1>8. /\ m.current_level = s.current_level
      /\ m.latest_proposal = s.latest_proposal
  BY <1>1 DEF Still, Kept
<1>3. CASE s.current_level > p.level
  <2>1. r = do_nothing(m)
    <3>1. m.current_level > p.level /\ ~(m.current_level < p.level)
      BY <1>2, <1>3, <1>8
    <3> QED BY <3>1, <1>7, Zenon
  <2> QED BY <1>1, <2>1 DEF do_nothing, Result, OnProposal
<1>4. CASE s.current_level < p.level
  <2>1. r = Result(m, "Update_to_level", p, FALSE)
    <3>1. ~(m.current_level > p.level) /\ m.current_level < p.level
      BY <1>2, <1>4, <1>8
    <3> QED BY <3>1, <1>7, Zenon
  <2> QED BY <1>1, <1>4, <2>1 DEF Result, OnProposal
<1>5. CASE /\ s.current_level = p.level
           /\ predecessor(p) # predecessor(s.latest_proposal)
  <2>1. r = may_switch_branch(applied, m, p)
    <3>1. ~(m.current_level > p.level) /\ ~(m.current_level < p.level)
      BY <1>2, <1>5, <1>8
    <3> QED BY <3>1, <1>5, <1>7, <1>8, Zenon
  <2>2. CASE m.attestable_payload = None \/ m.attestable_payload.pqc < p.pqc
    <3>1. r = Result(update_proposal(applied, m, p), "Synchronize_round", p,
                     FALSE)
      BY <2>1, <2>2 DEF may_switch_branch
    <3>2. Switches(s, update_proposal(applied, m, p), p)
      BY <1>1, <1>5, <2>2 DEF update_proposal, State, Switches, Still, Kept
    <3> QED BY <1>5, <3>1, <3>2 DEF Result, OnProposal
  <2>3. CASE ~(\/ m.attestable_payload = None
               \/ m.attestable_payload.pqc < p.pqc)
    <3>1. r = do_nothing(m)
      BY <2>1, <2>3 DEF may_switch_branch
    <3> QED BY <1>1, <3>1 DEF do_nothing, Result, OnProposal
  <2> QED BY <2>2, <2>3
<1>6. CASE /\ s.current_level = p.level
           /\ predecessor(p) = predecessor(s.latest_proposal)
  <2>1. r = handle_proposal_on_branch(applied, m, p)
    <3>1. ~(m.current_level > p.level) /\ ~(m.current_level < p.level)
      BY <1>2, <1>6, <1>8
    <3> QED BY <3>1, <1>6, <1>7, <1>8, Zenon
  <2>2. OnBranch(m, r, p)
    BY <1>1, <2>1, OnBranchView
  <2>3. OnBranch(s, r, p)
    BY <1>1, <2>2
    DEF OnBranch, Still, Kept, Adopts, has_better_internal_pqc, lock_allows
  <2> QED BY <1>6, <2>3 DEF OnProposal
<1> QED BY <1>2, <1>3, <1>4, <1>5, <1>6

-----------------------------------------------------------------------------
(* The transition function keeps states safe.                              *)

\* Numbers that the leaves compare.
LEMMA StateNumbers ==
    ASSUME NEW s \in State
    PROVE  /\ s.current_level \in Levels /\ s.current_level \in Nat
           /\ s.current_round \in Rounds /\ s.current_round \in Nat
           /\ s.latest_proposal \in Proposals
           /\ s.latest_proposal.round \in Rounds
           /\ s.latest_proposal.round \in Nat
           /\ s.locked_round # None =>
                /\ s.locked_round.round \in Rounds
                /\ s.locked_round.round \in Nat
                /\ s.locked_round.payload \in Payloads
           /\ s.attestable_payload # None =>
                /\ s.attestable_payload.pqc \in Rounds
                /\ s.attestable_payload.pqc \in Nat
                /\ s.attestable_payload.proposal \in Proposals
                /\ s.attestable_payload.proposal.round \in Rounds
                /\ s.attestable_payload.proposal.round \in Nat
<1>1. /\ s.current_level \in Levels /\ s.current_round \in Rounds
      /\ s.latest_proposal \in Proposals
      /\ s.locked_round # None => s.locked_round \in LockedRound
      /\ s.attestable_payload # None =>
           s.attestable_payload \in AttestablePayload
  BY DEF State
<1> QED
  BY <1>1, ProposalFields, BoundedNaturals DEF LockedRound, AttestablePayload

\* The same for a proposal.
LEMMA ProposalNumbers ==
    ASSUME NEW p \in Proposals
    PROVE  /\ p.level \in Levels /\ p.level \in Nat /\ p.level >= 1
           /\ p.round \in Rounds /\ p.round \in Nat
           /\ p.payload \in Payloads /\ p.payload # None
           /\ p.pqc \in Int /\ p.pqc >= NoPqc /\ p.pqc < p.round
           /\ p.pqc # NoPqc => p.pqc \in Rounds /\ p.pqc \in Nat
<1>1. p.pqc \in Int /\ p.pqc >= NoPqc
  BY ProposalFields, BoundsAssumption DEF NoPqc
<1>2. p.level >= 1
  BY ProposalFields, BoundsAssumption DEF Levels
<1> QED BY <1>1, <1>2, ProposalFields, BoundedNaturals, NoneAssumption

\* Time passes.
LEMMA ReachedGrows ==
    ASSUME NEW K \in ClockMap, NEW L \in ClockMap, ClockGrows(K, L),
           NEW level \in Levels, NEW round \in Nat, Reached(K, level, round)
    PROVE  Reached(L, level, round)
<1>1. PICK x \in Preds : round <= K[level][x]
  BY DEF Reached
<1>2. K[level][x] \in Nat /\ L[level][x] \in Nat /\ K[level][x] <= L[level][x]
  BY BoundedNaturals DEF ClockMap, ClockGrows
<1>3. round <= L[level][x]
  BY <1>1, <1>2
<1> QED BY <1>3 DEF Reached

\* An earlier round was reached before.
LEMMA ReachedBelow ==
    ASSUME NEW K \in ClockMap, NEW level \in Levels, NEW round \in Nat,
           NEW r \in Int, r <= round, Reached(K, level, round)
    PROVE  Reached(K, level, r)
<1>1. PICK x \in Preds : round <= K[level][x]
  BY DEF Reached
<1>2. K[level][x] \in Nat
  BY BoundedNaturals DEF ClockMap
<1>3. r <= K[level][x]
  BY <1>1, <1>2
<1> QED BY <1>3 DEF Reached

\* A state stays safe when prequorums and time are added.
LEMMA SafeGrows ==
    ASSUME NEW s \in State, NEW C \in CertsMap, NEW D \in CertsMap,
           NEW K \in ClockMap, NEW L \in ClockMap,
           CertsGrow(C, D), ClockGrows(K, L), Safe(s, C, K)
    PROVE  Safe(s, D, L)
<1> USE StateNumbers
<1>1. CertifiedLock(s.current_level, s.locked_round, D)
  BY NoneAssumption DEF Safe, CertifiedLock, CertsGrow
<1>2. CertifiedAttestable(s.current_level, s.attestable_payload, D)
  BY NoneAssumption, ProposalNumbers DEF Safe, CertifiedAttestable, CertsGrow
<1>3. Reached(L, s.current_level, s.latest_proposal.round)
  BY ReachedGrows DEF Safe
<1>4. TimelyLock(s.current_level, s.locked_round, L)
  BY ReachedGrows DEF Safe, TimelyLock
<1>5. TimelyAttestable(s.current_level, s.attestable_payload, L)
  BY ReachedGrows DEF Safe, TimelyAttestable
<1> QED BY <1>1, <1>2, <1>3, <1>4, <1>5 DEF Safe

\* So does a file.
LEMMA DataGrows ==
    ASSUME NEW f \in StateData, NEW C \in CertsMap, NEW D \in CertsMap,
           NEW K \in ClockMap, NEW L \in ClockMap,
           CertsGrow(C, D), ClockGrows(K, L), SafeData(f, C, K)
    PROVE  SafeData(f, D, L)
<1>0. /\ f.level_data \in Levels
      /\ f.locked_round_data # None => f.locked_round_data \in LockedRound
      /\ f.attestable_payload_data # None =>
           f.attestable_payload_data \in AttestablePayload
  BY DEF StateData
<1>1. f.locked_round_data # None =>
        /\ f.locked_round_data.round \in Rounds
        /\ f.locked_round_data.round \in Nat
        /\ f.locked_round_data.payload \in Payloads
  BY <1>0, BoundedNaturals DEF LockedRound
<1>2. f.attestable_payload_data # None =>
        /\ f.attestable_payload_data.pqc \in Rounds
        /\ f.attestable_payload_data.pqc \in Nat
        /\ f.attestable_payload_data.proposal \in Proposals
        /\ f.attestable_payload_data.proposal.round \in Nat
        /\ f.attestable_payload_data.proposal.payload \in Payloads
  BY <1>0, BoundedNaturals, ProposalNumbers DEF AttestablePayload
<1>3. CertifiedLock(f.level_data, f.locked_round_data, D)
  BY <1>0, <1>1, NoneAssumption DEF SafeData, CertifiedLock, CertsGrow
<1>4. CertifiedAttestable(f.level_data, f.attestable_payload_data, D)
  BY <1>0, <1>2, NoneAssumption DEF SafeData, CertifiedAttestable, CertsGrow
<1>5. TimelyLock(f.level_data, f.locked_round_data, L)
  BY <1>0, <1>1, ReachedGrows DEF SafeData, TimelyLock
<1>6. TimelyAttestable(f.level_data, f.attestable_payload_data, L)
  BY <1>0, <1>2, ReachedGrows DEF SafeData, TimelyAttestable
<1> QED BY <1>3, <1>4, <1>5, <1>6 DEF SafeData

\* What the recorder writes of a safe state.
LEMMA StateDataSafe ==
    ASSUME NEW s, NEW C, NEW K, Safe(s, C, K)
    PROVE  SafeData(state_data(s), C, K)
BY DEF Safe, SafeData, state_data, FirstOK

\* The fields that Safe reads are unchanged.
LEMMA StillSafe ==
    ASSUME NEW s, NEW t, NEW C, NEW K, Still(s, t), Safe(s, C, K)
    PROVE  /\ Safe(t, C, K)
           /\ AttestableRoundOK(s) => AttestableRoundOK(t)
BY DEF Still, Kept, Safe, ForgedOK, FirstOK, LockRoundOK, RoundOK, WaitsOK,
       AttestableRoundOK, round_proposer

\* A proposal of the current level and branch.
LEMMA OnBranchSafe ==
    ASSUME NEW s \in State, NEW p \in Proposals, NEW r, r.st \in State,
           NEW C \in CertsMap, NEW K \in ClockMap,
           OnBranch(s, r, p), p.level = s.current_level, Safe(s, C, K),
           CertifiedPqc(p, C), Reached(K, p.level, p.round)
    PROVE  /\ Safe(r.st, C, K)
           /\ AttestableRoundOK(s) => AttestableRoundOK(r.st)
<1> DEFINE t == r.st
<1>1. CASE Still(s, t)
  BY <1>1, StillSafe
<1>2. CASE Adopts(s, t, p) /\ p.round <= s.current_round
  <2> USE StateNumbers, ProposalNumbers
  <2>1. /\ t.current_level = s.current_level
        /\ t.locked_round = s.locked_round
        /\ t.elected_block = s.elected_block
        /\ t.next_forged_block = s.next_forged_block
        /\ t.current_round = s.current_round
    BY <1>2 DEF Adopts, Kept
  <2>2. /\ t.latest_proposal \in {p, s.latest_proposal}
        /\ t.latest_proposal.round >= p.round
        /\ t.latest_proposal.round >= s.latest_proposal.round
    BY <1>2 DEF Adopts
  <2>3. \/ t.attestable_payload = s.attestable_payload
        \/ /\ p.pqc # NoPqc
           /\ t.attestable_payload = [proposal |-> p, pqc |-> p.pqc]
    BY <1>2 DEF Adopts, has_better_internal_pqc
  <2>4. /\ t.latest_proposal.level = t.current_level
        /\ CertifiedLock(t.current_level, t.locked_round, C)
        /\ TimelyLock(t.current_level, t.locked_round, K)
        /\ ForgedOK(t)
    BY <2>1, <2>2 DEF Safe, ForgedOK
  <2>5. CertifiedAttestable(t.current_level, t.attestable_payload, C)
    BY <2>1, <2>3 DEF Safe, CertifiedAttestable, CertifiedPqc
  <2>6. Reached(K, t.current_level, t.latest_proposal.round)
    BY <2>1, <2>2 DEF Safe
  <2>7. TimelyAttestable(t.current_level, t.attestable_payload, K)
    <3>1. CASE t.attestable_payload = s.attestable_payload
      BY <2>1, <3>1 DEF Safe, TimelyAttestable
    <3>2. CASE /\ p.pqc # NoPqc
               /\ t.attestable_payload = [proposal |-> p, pqc |-> p.pqc]
      <4>1. Reached(K, p.level, p.pqc)
        BY ReachedBelow
      <4> QED BY <2>1, <3>2, <4>1 DEF TimelyAttestable
    <3> QED BY <2>3, <3>1, <3>2
  <2>8. FirstOK(t)
    <3>1. SUFFICES ASSUME FirstLevel, t.current_level = ActivationLevel
                   PROVE  t.current_phase = "Idle"
      BY <2>1 DEF Safe, FirstOK
    <3>2. s.current_phase = "Idle" /\ s.locked_round = None
      BY <2>1, <3>1 DEF Safe, FirstOK
    <3>3. lock_allows(s, p) /\ is_first_block_in_protocol(p)
      BY <2>1, <3>1, <3>2 DEF lock_allows, is_first_block_in_protocol
    <3> QED BY <3>2, <3>3 DEF OnBranch, Still
  <2>9. SameStart => LockRoundOK(t)
    BY <2>1, <2>2 DEF Safe, LockRoundOK, OnBranch, Still
  <2>10. Calm => RoundOK(t)
    BY <1>2, <2>1, <2>2, <2>3 DEF Safe, RoundOK
  <2>11. OneBranch => WaitsOK(t)
    <3>1. SUFFICES ASSUME OneBranch, t.current_phase # "Idle",
                          t.latest_proposal.round # t.current_round
                   PROVE  round_proposer(t, "Current", t.current_round) # None
      BY DEF WaitsOK
    <3>2. s.latest_proposal.round <= s.current_round
      BY <3>1 DEF Safe, RoundOK, Calm
    <3>3. p.round # s.current_round /\ s.latest_proposal.round # s.current_round
      BY <1>2, <2>1, <2>2, <3>1, <3>2
    <3>4. s.current_phase # "Idle"
      BY <3>1, <3>3 DEF OnBranch, Still
    <3>5. round_proposer(s, "Current", s.current_round) # None
      BY <3>1, <3>3, <3>4 DEF Safe, WaitsOK
    <3> QED BY <2>1, <3>5 DEF round_proposer
  <2>12. AttestableRoundOK(s) => AttestableRoundOK(t)
    BY <1>2, <2>1, <2>3 DEF AttestableRoundOK
  <2> QED
    BY <2>4, <2>5, <2>6, <2>7, <2>8, <2>9, <2>10, <2>11, <2>12 DEF Safe
<1> QED BY <1>1, <1>2 DEF OnBranch

\* A branch is followed, and its round not yet computed.
LEMMA SwitchSafe ==
    ASSUME NEW s, Good(s), NEW p \in Proposals, NEW t \in State,
           NEW C \in CertsMap, NEW K \in ClockMap,
           Switches(s, t, p), p.level = s.current_level, Safe(s, C, K),
           Reached(K, p.level, p.round), Calm => p.round <= s.current_round
    PROVE  /\ Safe(t, C, K)
           /\ AttestableRoundOK(s) => AttestableRoundOK(t)
<1>0. s \in State
  BY DEF Good
<1> USE <1>0, StateNumbers, ProposalNumbers
<1>1. /\ t.current_level = s.current_level
      /\ t.locked_round = s.locked_round
      /\ t.elected_block = s.elected_block
      /\ t.next_forged_block = s.next_forged_block
      /\ t.latest_proposal = p
      /\ t.attestable_payload = s.attestable_payload
      /\ t.current_round = s.current_round
      /\ t.current_phase = s.current_phase
  BY DEF Switches, Kept
<1>2. /\ t.latest_proposal.level = t.current_level
      /\ CertifiedLock(t.current_level, t.locked_round, C)
      /\ CertifiedAttestable(t.current_level, t.attestable_payload, C)
      /\ Reached(K, t.current_level, t.latest_proposal.round)
      /\ TimelyLock(t.current_level, t.locked_round, K)
      /\ TimelyAttestable(t.current_level, t.attestable_payload, K)
      /\ ForgedOK(t) /\ FirstOK(t)
  BY <1>1 DEF Safe, ForgedOK, FirstOK
<1>3. s.locked_round # None => s.locked_round.round < p.round
  BY DEF Good, Sound, Switches
<1>4. LockRoundOK(t)
  BY <1>1, <1>3 DEF LockRoundOK
<1>5. Calm => RoundOK(t)
  BY <1>1 DEF Safe, RoundOK
<1>6. ~OneBranch
  BY PredecessorType DEF OneBranch, Switches
<1>7. AttestableRoundOK(s) => AttestableRoundOK(t)
  BY <1>1 DEF AttestableRoundOK
<1> QED BY <1>2, <1>4, <1>5, <1>6, <1>7 DEF Safe

\* The round of the branch is known, and its proposal handled.
LEMMA SynchronizeSafe ==
    ASSUME NEW s, Good(s), NEW p \in Proposals, NEW t, Good(t),
           NEW C \in CertsMap, NEW K \in ClockMap,
           Switches(s, t, p), p.level = s.current_level, Safe(s, C, K),
           Reached(K, p.level, p.round), CertifiedPqc(p, C),
           NEW c \in Rounds, c >= p.round, NEW applied \in BOOLEAN
    PROVE  LET r == synchronize_round(applied, t, p, c)
           IN  /\ Safe(r.st, C, K)
               /\ AttestableRoundOK(r.st)
               /\ Kept(s, r.st)
               /\ r.act # "Inject_attestations"
               /\ r.act = "Inject_preattestations" =>
                    r.on = p /\ lock_allows(s, p) /\ p.round = c
               /\ r.st.current_round = c
               /\ r.st.attestable_payload =
                    IF p.pqc # NoPqc THEN [proposal |-> p, pqc |-> p.pqc]
                    ELSE None
<1> DEFINE n == [t EXCEPT !.current_round = c,
                          !.current_phase = "Idle",
                          !.delayed_quorum = None]
           r == synchronize_round(applied, t, p, c)
<1>0. s \in State /\ t \in State /\ NoPqc = -1 /\ c \in Nat
  BY BoundedNaturals DEF Good, NoPqc
<1> USE <1>0, StateNumbers, ProposalNumbers
<1>1. n \in State
  BY DEF State, Phases
<1>2. /\ n.current_level = s.current_level
      /\ n.locked_round = s.locked_round
      /\ n.elected_block = s.elected_block
      /\ n.next_forged_block = s.next_forged_block
      /\ n.latest_proposal = p
      /\ n.attestable_payload = s.attestable_payload
      /\ n.current_round = c
      /\ n.current_phase = "Idle"
  BY DEF Switches, Kept, State
<1>3. OnBranch(n, r, p)
  BY <1>1, OnBranchView DEF synchronize_round
<1>4. r.st \in State
  BY SynchronizeRoundGood DEF GoodResult, Good
<1> HIDE DEF n, r
<1>5. s.locked_round # None => s.locked_round.round < p.round
  BY DEF Good, Sound, Switches
<1>6. /\ n.latest_proposal.level = n.current_level
      /\ CertifiedLock(n.current_level, n.locked_round, C)
      /\ CertifiedAttestable(n.current_level, n.attestable_payload, C)
      /\ Reached(K, n.current_level, n.latest_proposal.round)
      /\ TimelyLock(n.current_level, n.locked_round, K)
      /\ TimelyAttestable(n.current_level, n.attestable_payload, K)
      /\ ForgedOK(n) /\ FirstOK(n)
  BY <1>2 DEF Safe, ForgedOK, FirstOK
<1>7. LockRoundOK(n) /\ WaitsOK(n)
  BY <1>2, <1>5 DEF LockRoundOK, WaitsOK
<1>8. RoundOK(n)
  BY <1>2 DEF RoundOK, Switches
<1>9. Safe(n, C, K)
  BY <1>6, <1>7, <1>8 DEF Safe
<1>10. Safe(r.st, C, K)
  BY <1>1, <1>2, <1>3, <1>4, <1>9, OnBranchSafe
<1>11. Adopts(n, r.st, p)
  BY <1>2, <1>3 DEF OnBranch
<1>12. CASE p.pqc # NoPqc
  <2>1. has_better_internal_pqc(n, p)
    BY <1>2, <1>12 DEF has_better_internal_pqc, Switches
  <2> QED
    BY <1>2, <1>3, <1>10, <1>11, <1>12, <2>1
    DEF Adopts, Kept, AttestableRoundOK, OnBranch, lock_allows, r
<1>13. CASE p.pqc = NoPqc
  <2>1. n.attestable_payload = None
    BY <1>2, <1>13 DEF Switches
  <2>2. r.st.attestable_payload = None
    BY <1>11, <1>13, <2>1 DEF Adopts, has_better_internal_pqc
  <2> QED
    BY <1>2, <1>3, <1>10, <1>11, <1>13, <2>2
    DEF Adopts, Kept, AttestableRoundOK, OnBranch, lock_allows, r
<1> QED BY <1>12, <1>13

\* Neither lock nor attestable prequorum goes back.
Progress(s, t) ==
    /\ t.current_level = s.current_level
    /\ s.locked_round # None =>
         /\ t.locked_round # None
         /\ SameStart => s.locked_round.round <= t.locked_round.round
    /\ s.attestable_payload # None =>
         /\ t.attestable_payload # None
         /\ s.attestable_payload.pqc <= t.attestable_payload.pqc

\* It holds of whatever a proposal of the level does.
LEMMA ProposalProgress ==
    ASSUME NEW s \in State, NEW p \in Proposals, NEW r, r.st \in State,
           \/ Still(s, r.st)
           \/ Switches(s, r.st, p)
           \/ OnBranch(s, r, p)
    PROVE  Progress(s, r.st)
<1> USE StateNumbers, ProposalNumbers
<1>1. CASE Still(s, r.st) \/ Switches(s, r.st, p)
  BY <1>1 DEF Still, Switches, Kept, Progress
<1>2. CASE Adopts(s, r.st, p)
  <2>1. \/ r.st.attestable_payload = s.attestable_payload
        \/ /\ p.pqc # NoPqc
           /\ r.st.attestable_payload = [proposal |-> p, pqc |-> p.pqc]
           /\ s.attestable_payload # None => s.attestable_payload.pqc <= p.pqc
    BY <1>2 DEF Adopts, has_better_internal_pqc
  <2>2. p.pqc # NoPqc => [proposal |-> p, pqc |-> p.pqc] # None
    BY NoneAssumption DEF AttestablePayload
  <2> QED BY <1>2, <2>1, <2>2 DEF Adopts, Kept, Progress
<1> QED BY <1>1, <1>2 DEF OnBranch

\* What t knows, s or p did.
Known(s, t, p) ==
    /\ t.latest_proposal \in {s.latest_proposal, p}
    /\ t.attestable_payload \in
         {s.attestable_payload, [proposal |-> p, pqc |-> p.pqc],
          [proposal |-> s.latest_proposal, pqc |-> s.latest_proposal.round]}
    /\ t.next_forged_block \in {s.next_forged_block, None}

\* A prequorum for the latest proposal.
LEMMA LockAndAttestSafe ==
    ASSUME NEW s, Good(s), NEW C \in CertsMap, NEW K \in ClockMap,
           Safe(s, C, K), s.current_phase = "Awaiting_preattestations",
           CertifiedBlock(s.latest_proposal, C)
    PROVE  LET r == lock_and_attest(s)
           IN  /\ Safe(r.st, C, K)
               /\ Calm /\ AttestableRoundOK(s) => AttestableRoundOK(r.st)
               /\ Progress(s, r.st) /\ Known(s, r.st, s.latest_proposal)
               /\ r.act = "Inject_attestations" /\ r.fresh = TRUE
               /\ r.on = s.latest_proposal
               /\ r.st.locked_round = [payload |-> r.on.payload,
                                       round |-> r.on.round]
               /\ ~(FirstLevel /\ s.current_level = ActivationLevel)
<1> DEFINE latest == s.latest_proposal
           better == \/ s.attestable_payload = None
                     \/ s.attestable_payload.pqc < latest.round
           ap     == [proposal |-> latest, pqc |-> latest.round]
           att    == IF better THEN [s EXCEPT !.attestable_payload = ap]
                     ELSE s
           lock   == [payload |-> latest.payload, round |-> latest.round]
           locked == [att EXCEPT !.locked_round = lock]
           t      == update_current_phase(locked, "Awaiting_attestations")
           r      == lock_and_attest(s)
<1>0. s \in State
  BY DEF Good
<1> USE <1>0, StateNumbers, ProposalNumbers
<1>1. r = Result(t, "Inject_attestations", latest, TRUE)
  BY DEF lock_and_attest, update_locked_round
<1>3. /\ t.current_level = s.current_level /\ t.latest_proposal = latest
      /\ t.locked_round = lock /\ t.elected_block = s.elected_block
      /\ t.next_forged_block = s.next_forged_block
      /\ t.current_round = s.current_round
      /\ t.current_phase = "Awaiting_attestations"
      /\ t.attestable_payload = IF better THEN ap ELSE s.attestable_payload
  BY DEF State, update_current_phase
<1>4. lock # None /\ ap # None
  BY NoneAssumption DEF LockedRound, AttestablePayload
<1> HIDE DEF t, r
<1>5. latest.level = s.current_level /\ C[s.current_level][latest.round]
                                          = latest.payload
  BY DEF Safe, CertifiedBlock
<1>6. Reached(K, s.current_level, latest.round)
  BY DEF Safe
<1>7. /\ CertifiedLock(t.current_level, t.locked_round, C)
      /\ CertifiedAttestable(t.current_level, t.attestable_payload, C)
      /\ TimelyLock(t.current_level, t.locked_round, K)
      /\ TimelyAttestable(t.current_level, t.attestable_payload, K)
  BY <1>3, <1>5, <1>6
  DEF Safe, CertifiedLock, CertifiedAttestable, TimelyLock, TimelyAttestable
<1>8. ~(FirstLevel /\ s.current_level = ActivationLevel)
  BY DEF Safe, FirstOK
<1>9. ForgedOK(t) /\ FirstOK(t) /\ LockRoundOK(t)
  BY <1>3, <1>8 DEF Safe, ForgedOK, FirstOK, LockRoundOK
<1>10. Calm => RoundOK(t)
  BY <1>3 DEF Safe, RoundOK
<1>11. OneBranch => WaitsOK(t)
  BY <1>3 DEF Safe, WaitsOK, round_proposer
<1>12. Safe(t, C, K)
  BY <1>3, <1>5, <1>6, <1>7, <1>9, <1>10, <1>11 DEF Safe
<1>13. Calm /\ AttestableRoundOK(s) => AttestableRoundOK(t)
  BY <1>3 DEF Safe, RoundOK, AttestableRoundOK
<1>14. Progress(s, t)
  BY <1>3, <1>4 DEF Progress, Safe, LockRoundOK
<1>15. Known(s, t, latest)
  BY <1>3 DEF Known
<1> QED BY <1>1, <1>3, <1>8, <1>12, <1>13, <1>14, <1>15 DEF Result, r

\* Electing the latest proposal, at once or when it is applied.
LEMMA ElectSafe ==
    ASSUME NEW s \in State, NEW t, NEW C, NEW K, Safe(s, C, K),
           s.current_phase # "Idle",
           \/ s.elected_block = None /\ t.elected_block # None
           \/ t.elected_block = s.elected_block,
           t.current_phase \in {"Idle", "Awaiting_application"},
           t.current_level = s.current_level,
           t.latest_proposal = s.latest_proposal,
           t.locked_round = s.locked_round,
           t.attestable_payload = s.attestable_payload,
           t.next_forged_block = s.next_forged_block,
           t.current_round = s.current_round
    PROVE  /\ Safe(t, C, K) /\ Progress(s, t)
           /\ AttestableRoundOK(s) => AttestableRoundOK(t)
<1> USE StateNumbers
<1>1. ForgedOK(t) /\ FirstOK(t)
  BY DEF Safe, ForgedOK, FirstOK
<1>2. SameStart => LockRoundOK(t)
  BY DEF Safe, LockRoundOK
<1>3. Calm => RoundOK(t)
  BY DEF Safe, RoundOK
<1>4. OneBranch => WaitsOK(t)
  BY DEF Safe, WaitsOK, round_proposer
<1>5. Progress(s, t)
  BY DEF Progress
<1> QED BY <1>1, <1>2, <1>3, <1>4, <1>5 DEF Safe, AttestableRoundOK

\* What is ours stays ours.
LEMMA KnownOwned ==
    ASSUME NEW s \in State, NEW t, NEW p \in Proposals, NEW J, NEW G,
           Owned(s, J, G), Own(p, J), Known(s, t, p)
    PROVE  Owned(t, J, G)
<1>1. Own(t.latest_proposal, J)
  BY DEF Known, Owned
<1>2. OwnedAttestable(t.attestable_payload, J)
  BY StateNumbers, ProposalNumbers DEF Known, Owned, OwnedAttestable
<1> QED BY <1>1, <1>2 DEF Known, Owned

\* The votes that an action is about to sign.
VoteOK(r, C) ==
    /\ r.act = "Inject_attestations" =>
         /\ r.fresh = TRUE
         /\ C[r.st.current_level][r.on.round] = r.on.payload
         /\ r.st.locked_round = [payload |-> r.on.payload,
                                 round |-> r.on.round]
         /\ ~(FirstLevel /\ r.st.current_level = ActivationLevel)
    /\ r.act = "Inject_preattestations" =>
         /\ r.on \in Proposals /\ r.on.level = r.st.current_level
         /\ CertifiedPqc(r.on, C)
         /\ lock_allows(r.st, r.on) /\ r.on.round = r.st.current_round
         /\ ~is_first_block_in_protocol(r.on)

\* A result the interpreter may go on from.
Fine(r, C, K, J, G) ==
    /\ Safe(r.st, C, K) /\ Owned(r.st, J, G)
    /\ Calm => AttestableRoundOK(r.st)
    /\ VoteOK(r, C)

\* A state that is safe in every respect.
SafeState(s, C, K, J, G) ==
    /\ Safe(s, C, K) /\ Owned(s, J, G)
    /\ Calm => AttestableRoundOK(s)

\* What the event of a proposal brings.
Arrives(p, C, K, J) ==
    CertifiedPqc(p, C) /\ Reached(K, p.level, p.round) /\ Own(p, J)

\* Nothing changes.
LEMMA StillFine ==
    ASSUME NEW s \in State, NEW r, NEW C, NEW K, NEW J, NEW G,
           Still(s, r.st), SafeState(s, C, K, J, G), r.act = "Do_nothing"
    PROVE  Fine(r, C, K, J, G)
<1>1. Owned(r.st, J, G)
  BY DEF Still, Kept, SafeState, Owned
<1> QED BY <1>1, StillSafe DEF SafeState, Fine, VoteOK

\* A proposal of the current level and branch, with what it may vote for.
LEMMA OnBranchFine ==
    ASSUME NEW s \in State, NEW p \in Proposals, NEW r, r.st \in State,
           NEW C \in CertsMap, NEW K \in ClockMap, NEW J, NEW G,
           OnBranch(s, r, p), p.level = s.current_level,
           SafeState(s, C, K, J, G), Arrives(p, C, K, J)
    PROVE  Fine(r, C, K, J, G)
<1>1. Safe(r.st, C, K) /\ (Calm => AttestableRoundOK(r.st))
  BY OnBranchSafe DEF SafeState, Arrives
<1>2. Known(s, r.st, p)
  BY DEF OnBranch, Still, Kept, Adopts, Known
<1>3. Owned(r.st, J, G)
  BY <1>2, KnownOwned DEF SafeState, Arrives
<1>4. VoteOK(r, C)
  BY DEF OnBranch, Adopts, Kept, VoteOK, Arrives, lock_allows
<1> QED BY <1>1, <1>3, <1>4 DEF Fine

\* One of another branch.
LEMMA SynchronizeFine ==
    ASSUME NEW s, Good(s), NEW p \in Proposals, NEW t, Good(t),
           NEW C \in CertsMap, NEW K \in ClockMap, NEW J, NEW G,
           Switches(s, t, p), p.level = s.current_level,
           SafeState(s, C, K, J, G), Arrives(p, C, K, J),
           NEW c \in Rounds, c >= p.round, NEW applied \in BOOLEAN
    PROVE  LET r == synchronize_round(applied, t, p, c)
           IN  Fine(r, C, K, J, G) /\ Progress(s, r.st)
<1> DEFINE r == synchronize_round(applied, t, p, c)
<1>0. s \in State /\ t \in State /\ r.st \in State
  BY SynchronizeRoundGood DEF Good, GoodResult
<1>1. /\ Safe(r.st, C, K) /\ AttestableRoundOK(r.st) /\ Kept(s, r.st)
      /\ r.act # "Inject_attestations"
      /\ r.act = "Inject_preattestations" =>
           r.on = p /\ lock_allows(s, p) /\ p.round = c
      /\ r.st.current_round = c
      /\ r.st.attestable_payload =
           IF p.pqc # NoPqc THEN [proposal |-> p, pqc |-> p.pqc] ELSE None
  BY SynchronizeSafe DEF SafeState, Arrives
<1> DEFINE n == [t EXCEPT !.current_round = c,
                          !.current_phase = "Idle",
                          !.delayed_quorum = None]
<1>2. n \in State /\ n.latest_proposal = p /\ n.current_level = s.current_level
  BY <1>0 DEF State, Phases, Switches, Kept
<1>3. OnBranch(n, r, p)
  BY <1>2, OnBranchView DEF synchronize_round
<1> HIDE DEF r, n
<1>4. r.st.latest_proposal = p
  BY <1>2, <1>3 DEF OnBranch, Still, Adopts
<1>5. Owned(r.st, J, G)
  BY <1>1, <1>4, ProposalNumbers, <1>0, StateNumbers
  DEF Owned, OwnedAttestable, Kept, SafeState, Arrives
<1>6. r.act = "Inject_preattestations" => ~is_first_block_in_protocol(p)
  BY <1>3 DEF OnBranch
<1>7. VoteOK(r, C)
  BY <1>1, <1>6 DEF VoteOK, Kept, lock_allows, Arrives
<1>8. Progress(s, r.st)
  <2>1. s.attestable_payload # None => p.pqc # NoPqc
    BY <1>0, StateNumbers, ProposalNumbers DEF Switches, NoPqc
  <2>2. [proposal |-> p, pqc |-> p.pqc] # None \/ p.pqc = NoPqc
    BY ProposalNumbers, NoneAssumption DEF AttestablePayload
  <2> QED
    BY <1>0, <1>1, <2>1, <2>2, StateNumbers, ProposalNumbers
    DEF Progress, Kept, Switches
<1> QED BY <1>1, <1>5, <1>7, <1>8 DEF Fine, r

\* One of a later level.
LEMMA UpdateToLevelFine ==
    ASSUME NEW p \in Proposals, NEW c \in Rounds, NEW applied \in BOOLEAN,
           c >= p.round, NEW C \in CertsMap, NEW K \in ClockMap,
           NEW J, NEW G, Arrives(p, C, K, J),
           FirstLevel => p.level # ActivationLevel
    PROVE  LET r == update_to_level(applied, p, c)
           IN  /\ Fine(r, C, K, J, G)
               /\ r.st.current_level = p.level /\ r.st.locked_round = None
<1> DEFINE n == compute_new_state(applied, p, c)
           h == handle_proposal_on_branch(applied, n, p)
           r == update_to_level(applied, p, c)
<1> USE ProposalNumbers
<1>1. /\ n \in State /\ n.current_level = p.level /\ n.latest_proposal = p
      /\ n.locked_round = None /\ n.attestable_payload = None
      /\ n.next_forged_block = None /\ n.current_round = c
      /\ n.current_phase = "Idle"
  BY NewStateGood DEF Good, compute_new_state
<1>2. OnBranch(n, h, p) /\ h.st \in State
  BY <1>1, OnBranchView, OnBranchGood, NewStateGood DEF GoodResult, Good
<1>3. h = [st |-> h.st, act |-> h.act, on |-> h.on, fresh |-> h.fresh]
  BY DEF handle_proposal_on_branch, Result, do_nothing, may_preattest,
         preattest
<1>4. r = [h EXCEPT !.fresh = TRUE]
  BY DEF update_to_level
<1> HIDE DEF h, n, r
<1>5. r.st = h.st /\ r.act = h.act /\ r.on = h.on
  BY <1>3, <1>4
<1>6. Safe(n, C, K) /\ AttestableRoundOK(n)
  BY <1>1, BoundedNaturals
  DEF Safe, CertifiedLock, CertifiedAttestable, TimelyLock, TimelyAttestable,
      ForgedOK, FirstOK, LockRoundOK, RoundOK, WaitsOK, AttestableRoundOK,
      Arrives
<1>7. Owned(n, J, G)
  BY <1>1 DEF Owned, OwnedAttestable, Arrives
<1>8. Fine(h, C, K, J, G)
  BY <1>1, <1>2, <1>6, <1>7, OnBranchFine DEF SafeState
<1>9. h.act # "Inject_attestations"
  BY <1>2 DEF OnBranch
<1>10. h.st.current_level = p.level /\ h.st.locked_round = None
  BY <1>1, <1>2 DEF OnBranch, Still, Adopts, Kept
<1> QED BY <1>5, <1>8, <1>9, <1>10 DEF Fine, VoteOK, r

\* The events.  A quorum event either does nothing, locks, or elects.
LEMMA QuorumEventFine ==
    ASSUME NEW s, Good(s), NEW e \in QuorumEvent,
           NEW C \in CertsMap, NEW K \in ClockMap, NEW J, NEW G,
           SafeState(s, C, K, J, G), CertifiedBlock(e.candidate, C)
    PROVE  LET r == step_Quorum_event(s, e.kind, e.candidate)
           IN  /\ Fine(r, C, K, J, G) /\ Progress(s, r.st)
               /\ r.act \notin {"Update_to_level", "Synchronize_round"}
<1> DEFINE r == step_Quorum_event(s, e.kind, e.candidate)
           p == s.latest_proposal
<1>0. s \in State /\ p \in Proposals /\ e.candidate \in Proposals
  BY DEF Good, State, QuorumEvent
<1>1. /\ Fine(do_nothing(s), C, K, J, G) /\ Progress(s, do_nothing(s).st)
      /\ do_nothing(s).act \notin {"Update_to_level", "Synchronize_round"}
  <2>1. Still(s, do_nothing(s).st) /\ do_nothing(s).act = "Do_nothing"
        /\ do_nothing(s).st = s
    BY DEF Still, Kept, do_nothing, Result
  <2> QED BY <1>0, <2>1, StillFine, ProposalProgress
<1>2. CASE r = do_nothing(s)
  BY <1>1, <1>2
<1>3. CASE /\ s.current_phase = "Awaiting_preattestations"
           /\ e.candidate = p /\ r = lock_and_attest(s)
  <2>1. /\ Safe(r.st, C, K)
        /\ Calm => AttestableRoundOK(r.st)
        /\ Progress(s, r.st) /\ Known(s, r.st, p)
        /\ r.act = "Inject_attestations" /\ r.fresh = TRUE
        /\ r.on = s.latest_proposal
        /\ r.st.locked_round = [payload |-> r.on.payload,
                                round |-> r.on.round]
        /\ ~(FirstLevel /\ s.current_level = ActivationLevel)
    BY <1>3, LockAndAttestSafe DEF SafeState
  <2> HIDE DEF r
  <2>3. Owned(r.st, J, G)
    BY <1>0, <2>1, KnownOwned DEF SafeState, Owned
  <2>4. VoteOK(r, C)
    BY <1>3, <2>1 DEF VoteOK, Progress, Safe, CertifiedBlock, SafeState
  <2> QED BY <2>1, <2>3, <2>4 DEF Fine, r
<1>4. CASE /\ s.current_phase = "Awaiting_attestations"
           /\ s.elected_block = None /\ r = elect(s, e.candidate)
  <2> DEFINE eb == [proposal |-> p, qc |-> e.candidate]
             now == [s EXCEPT !.elected_block = eb, !.current_phase = "Idle"]
             later == [s EXCEPT !.current_phase = "Awaiting_application",
                                !.delayed_quorum = e.candidate]
             t == IF s.is_latest_proposal_applied THEN now ELSE later
  <2>1. r = do_nothing(t)
    BY <1>4 DEF elect
  <2>2. eb # None
    BY <1>0, NoneAssumption DEF ElectedBlock
  <2>3. /\ t.current_phase \in {"Idle", "Awaiting_application"}
        /\ t.current_level = s.current_level
        /\ t.latest_proposal = s.latest_proposal
        /\ t.locked_round = s.locked_round
        /\ t.attestable_payload = s.attestable_payload
        /\ t.next_forged_block = s.next_forged_block
        /\ t.current_round = s.current_round
        /\ t.elected_block \in {eb, s.elected_block}
    BY <1>0 DEF State
  <2> HIDE DEF t, eb
  <2>4. /\ Safe(t, C, K) /\ Progress(s, t)
        /\ AttestableRoundOK(s) => AttestableRoundOK(t)
    BY <1>0, <1>4, <2>2, <2>3, ElectSafe DEF SafeState
  <2>5. Owned(t, J, G)
    BY <2>3 DEF Owned, SafeState
  <2> QED
    BY <2>1, <2>4, <2>5 DEF do_nothing, Result, Fine, VoteOK, SafeState
<1>5. \/ r = do_nothing(s)
      \/ /\ s.current_phase = "Awaiting_preattestations"
         /\ e.candidate = p /\ r = lock_and_attest(s)
      \/ /\ s.current_phase = "Awaiting_attestations"
         /\ s.elected_block = None /\ r = elect(s, e.candidate)
  BY DEF step_Quorum_event, prequorum_reached_when_awaiting_preattestations,
         quorum_reached_when_waiting_attestations
<1> QED BY <1>2, <1>3, <1>4, <1>5

\* A proposal is handled at once, or its level or branch must be entered.
EventOutcome(s, r, p, C, K, J, G) ==
    \/ /\ r.act \notin {"Update_to_level", "Synchronize_round"}
       /\ Fine(r, C, K, J, G) /\ Progress(s, r.st)
    \/ /\ r.act = "Update_to_level" /\ s.current_level < p.level
       /\ Still(s, r.st)
    \/ /\ r.act = "Synchronize_round" /\ s.current_level = p.level
       /\ Switches(s, r.st, p)

\* The two events that carry a proposal.
LEMMA ProposalEvents ==
    ASSUME NEW s, Good(s), NEW p \in Proposals,
           NEW C \in CertsMap, NEW K \in ClockMap, NEW J, NEW G,
           SafeState(s, C, K, J, G), Arrives(p, C, K, J)
    PROVE  /\ EventOutcome(s, step_New_head_proposal(s, p), p, C, K, J, G)
           /\ EventOutcome(s, step_New_valid_proposal(s, p), p, C, K, J, G)
<1>0. s \in State
  BY DEF Good
<1>1. ASSUME NEW applied \in BOOLEAN
      PROVE  EventOutcome(s, handle_proposal(applied, s, p), p, C, K, J, G)
  <2> DEFINE r == handle_proposal(applied, s, p)
  <2>1. OnProposal(s, r, p) /\ r.st \in State
    BY <1>0, HandleProposalView, HandleProposalGood DEF GoodResult, Good
  <2> SUFFICES EventOutcome(s, r, p, C, K, J, G)
    OBVIOUS
  <2> HIDE DEF r
  <2>2. CASE r.act = "Do_nothing" /\ Still(s, r.st)
    BY <1>0, <2>1, <2>2, StillFine, ProposalProgress DEF EventOutcome
  <2>3. CASE s.current_level = p.level /\ OnBranch(s, r, p)
    <3>1. r.act \notin {"Update_to_level", "Synchronize_round"}
      BY <2>3 DEF OnBranch
    <3> QED
      BY <1>0, <2>1, <2>3, <3>1, OnBranchFine, ProposalProgress
      DEF EventOutcome
  <2> QED BY <2>1, <2>2, <2>3 DEF OnProposal, EventOutcome
<1>2. EventOutcome(s, do_nothing(s), p, C, K, J, G)
  <2>1. Still(s, do_nothing(s).st) /\ do_nothing(s).act = "Do_nothing"
        /\ do_nothing(s).st = s
    BY DEF Still, Kept, do_nothing, Result
  <2> QED BY <1>0, <2>1, StillFine, ProposalProgress DEF EventOutcome
<1>3. ASSUME s.current_phase = "Awaiting_application"
      PROVE  EventOutcome(s, handle_expected_applied_proposal(s), p,
                          C, K, J, G)
  <2> DEFINE eb == [proposal |-> s.latest_proposal, qc |-> s.delayed_quorum]
             x == [s EXCEPT !.elected_block = eb, !.current_phase = "Idle"]
             y == [s EXCEPT !.is_latest_proposal_applied = TRUE,
                            !.current_phase = "Idle"]
             t == IF s.elected_block = None THEN x ELSE y
             r == handle_expected_applied_proposal(s)
  <2>1. r = do_nothing(t)
    BY DEF handle_expected_applied_proposal
  <2>2. eb # None
    BY <1>0, NoneAssumption DEF ElectedBlock, State
  <2>3. /\ t.current_phase = "Idle"
        /\ t.current_level = s.current_level
        /\ t.latest_proposal = s.latest_proposal
        /\ t.locked_round = s.locked_round
        /\ t.attestable_payload = s.attestable_payload
        /\ t.next_forged_block = s.next_forged_block
        /\ t.current_round = s.current_round
        /\ \/ s.elected_block = None /\ t.elected_block = eb
           \/ t.elected_block = s.elected_block
    BY <1>0 DEF State
  <2> HIDE DEF t, eb, r
  <2>4. /\ Safe(t, C, K) /\ Progress(s, t)
        /\ AttestableRoundOK(s) => AttestableRoundOK(t)
    BY <1>0, <1>3, <2>2, <2>3, ElectSafe DEF SafeState
  <2>5. Owned(t, J, G)
    BY <2>3 DEF Owned, SafeState
  <2> QED
    BY <2>1, <2>4, <2>5
    DEF do_nothing, Result, Fine, VoteOK, SafeState, EventOutcome, r
<1> QED
  BY <1>1, <1>2, <1>3
  DEF step_New_head_proposal, step_New_valid_proposal

\* The fields of a restarted baker.
LEMMA InitialView ==
    ASSUME NEW p \in Proposals, NEW c \in Rounds, NEW file,
           file # None => file \in StateData
    PROVE  LET i      == create_initial_state(p, c, file)
               loaded == file # None /\ file.level_data = p.level
               ap     == IF loaded THEN file.attestable_payload_data ELSE None
           IN  /\ i.current_level = p.level /\ i.latest_proposal = p
               /\ i.current_round = c /\ i.current_phase = "Idle"
               /\ i.next_forged_block = None
               /\ is_first_block_in_protocol(p) => i.elected_block # None
               /\ i.locked_round = IF loaded THEN file.locked_round_data
                                   ELSE None
               /\ \/ i.attestable_payload = ap
                  \/ /\ p.pqc # NoPqc
                     /\ i.attestable_payload = [proposal |-> p, pqc |-> p.pqc]
<1> DEFINE fresh == compute_new_state(TRUE, p, c)
           eb    == [proposal |-> p, qc |-> None]
           state == IF is_first_block_in_protocol(p)
                    THEN [fresh EXCEPT !.elected_block = eb] ELSE fresh
           m     == may_load_attestable_data(state, file)
           i     == create_initial_state(p, c, file)
           loaded == file # None /\ file.level_data = p.level
<1>1. /\ fresh \in State /\ fresh.current_level = p.level
      /\ fresh.latest_proposal = p /\ fresh.current_round = c
      /\ fresh.current_phase = "Idle" /\ fresh.next_forged_block = None
      /\ fresh.locked_round = None /\ fresh.attestable_payload = None
  BY NewStateGood DEF Good, compute_new_state
<1>2. eb \in ElectedBlock /\ eb # None
  BY NoneAssumption DEF ElectedBlock
<1>3. i = may_initialise_with_latest_proposal_pqc(m)
  BY DEF create_initial_state
<1> HIDE DEF fresh, eb, i
<1>4. /\ state \in State /\ state.current_level = p.level
      /\ state.latest_proposal = p /\ state.current_round = c
      /\ state.current_phase = "Idle" /\ state.next_forged_block = None
      /\ state.locked_round = None /\ state.attestable_payload = None
      /\ is_first_block_in_protocol(p) => state.elected_block # None
  BY <1>1, <1>2 DEF State
<1> HIDE DEF state
<1>5. /\ m \in State /\ m.current_level = p.level
      /\ m.latest_proposal = p /\ m.current_round = c
      /\ m.current_phase = "Idle" /\ m.next_forged_block = None
      /\ is_first_block_in_protocol(p) => m.elected_block # None
      /\ m.locked_round = IF loaded THEN file.locked_round_data ELSE None
      /\ m.attestable_payload =
           IF loaded THEN file.attestable_payload_data ELSE None
  BY <1>4 DEF may_load_attestable_data, State, StateData
<1> HIDE DEF m
<1>6. /\ i.current_level = p.level
      /\ i.latest_proposal = p /\ i.current_round = c
      /\ i.current_phase = "Idle" /\ i.next_forged_block = None
      /\ is_first_block_in_protocol(p) => i.elected_block # None
      /\ i.locked_round = m.locked_round
      /\ \/ i.attestable_payload = m.attestable_payload
         \/ /\ p.pqc # NoPqc
            /\ i.attestable_payload = [proposal |-> p, pqc |-> p.pqc]
  BY <1>3, <1>5 DEF may_initialise_with_latest_proposal_pqc, State
<1> QED BY <1>5, <1>6 DEF i

\* Those that a restart is judged by.
LEMMA InitialFields ==
    ASSUME NEW p \in Proposals, NEW c \in Rounds, NEW file,
           file # None => file \in StateData,
           NEW i, i = create_initial_state(p, c, file)
    PROVE  /\ i.current_level = p.level /\ i.latest_proposal = p
           /\ i.current_round = c
           /\ i.locked_round = IF file # None /\ file.level_data = p.level
                               THEN file.locked_round_data ELSE None
<1> DEFINE s      == create_initial_state(p, c, file)
           loaded == file # None /\ file.level_data = p.level
           ap     == IF loaded THEN file.attestable_payload_data ELSE None
<1>1. /\ s.current_level = p.level /\ s.latest_proposal = p
      /\ s.current_round = c /\ s.current_phase = "Idle"
      /\ s.next_forged_block = None
      /\ is_first_block_in_protocol(p) => s.elected_block # None
      /\ s.locked_round = IF loaded THEN file.locked_round_data ELSE None
      /\ \/ s.attestable_payload = ap
         \/ /\ p.pqc # NoPqc
            /\ s.attestable_payload = [proposal |-> p, pqc |-> p.pqc]
  BY InitialView
<1>2. i = s
  OBVIOUS
<1> HIDE DEF s
<1> QED BY <1>1, <1>2

\* It is safe when the file is, and the clock has not gone back behind it.
LEMMA InitialFine ==
    ASSUME NEW p \in Proposals, NEW c \in Rounds, c >= p.round,
           NEW C \in CertsMap, NEW K \in ClockMap, NEW J, NEW G, NEW file,
           Arrives(p, C, K, J),
           file # None =>
             /\ file \in StateData /\ SafeData(file, C, K)
             /\ OwnedAttestable(file.attestable_payload_data, J),
           SameStart /\ file # None /\ file.level_data = p.level =>
             /\ file.locked_round_data # None
                  => file.locked_round_data.round <= c
             /\ file.attestable_payload_data # None =>
                  /\ file.attestable_payload_data.pqc <= c
                  /\ file.attestable_payload_data.proposal.round <= c
    PROVE  SafeState(create_initial_state(p, c, file), C, K, J, G)
<1> DEFINE i      == create_initial_state(p, c, file)
           loaded == file # None /\ file.level_data = p.level
           ap     == IF loaded THEN file.attestable_payload_data ELSE None
<1> USE ProposalNumbers
<1>1. /\ i.current_level = p.level /\ i.latest_proposal = p
      /\ i.current_round = c /\ i.current_phase = "Idle"
      /\ i.next_forged_block = None
      /\ is_first_block_in_protocol(p) => i.elected_block # None
      /\ i.locked_round = IF loaded THEN file.locked_round_data ELSE None
      /\ \/ i.attestable_payload = ap
         \/ /\ p.pqc # NoPqc
            /\ i.attestable_payload = [proposal |-> p, pqc |-> p.pqc]
  BY InitialView
<1> HIDE DEF i
<1>2. c \in Nat /\ (Calm => SameStart)
  BY BoundedNaturals, ChainAssumption DEF Calm, OneBranch, SameStart
<1>3. p.pqc # NoPqc => Reached(K, p.level, p.pqc)
  BY ReachedBelow DEF Arrives
<1>4. /\ CertifiedLock(p.level, i.locked_round, C)
      /\ TimelyLock(p.level, i.locked_round, K)
  BY <1>1 DEF SafeData, CertifiedLock, TimelyLock
<1>5. CertifiedAttestable(p.level, i.attestable_payload, C)
  BY <1>1 DEF SafeData, CertifiedAttestable, Arrives, CertifiedPqc
<1>6. TimelyAttestable(p.level, i.attestable_payload, K)
  BY <1>1, <1>3 DEF SafeData, TimelyAttestable, Arrives
<1>7. ForgedOK(i) /\ WaitsOK(i)
  BY <1>1 DEF ForgedOK, WaitsOK
<1>8. FirstOK(i)
  BY <1>1 DEF FirstOK, SafeData, is_first_block_in_protocol
<1>9. SameStart => LockRoundOK(i)
  BY <1>1 DEF LockRoundOK
<1>10. Calm => RoundOK(i) /\ AttestableRoundOK(i)
  BY <1>1, <1>2 DEF RoundOK, AttestableRoundOK
<1>11. Safe(i, C, K)
  BY <1>1, <1>4, <1>5, <1>6, <1>7, <1>8, <1>9, <1>10 DEF Safe, Arrives
<1>12. Owned(i, J, G)
  BY <1>1 DEF Owned, OwnedAttestable, Arrives
<1> QED BY <1>10, <1>11, <1>12 DEF SafeState, i

-----------------------------------------------------------------------------
(* What a step of the interpreter writes, signs and leaves behind.         *)

\* The action gives up, and the loop goes on from base.
Reverts(prev, r) ==
    \/ Faults \cap {"disk", "hwm"} # {}
    \/ ~is_new_state_consistent(prev, r.st)

VotesOn(kind, r) ==
    {[kind |-> kind, delegate |-> d, level |-> r.st.current_level,
      round |-> r.on.round, payload |-> r.on.payload] : d \in Delegates}

Performs(prev, r, base, q) ==
    /\ injected' = injected
    /\ qcs' \in {q, <<>>}
    /\ signed \subseteq signed'
    /\ \/ st' = None /\ "crash" \in Faults /\ disk' \in {disk, state_data(r.st)}
       \/ st' = r.st /\ disk' \in {disk, state_data(r.st)}
       \/ st' = base.st /\ Reverts(prev, r) /\ disk' \in {disk, state_data(base.st)}
       \/ /\ st' = base.st /\ Reverts(prev, r)
          /\ r.act = "Inject_attestations" /\ disk' \in {disk, state_data(r.st)}
    /\ \/ signed' = signed
       \/ /\ r.act = "Inject_preattestations"
          /\ signed' \subseteq signed \cup VotesOn("preattestation", r)
       \/ /\ r.act = "Inject_attestations" /\ st' \in {None, r.st}
          /\ StateRecorder = "Filesystem" =>
               disk' = IF r.fresh THEN state_data(r.st) ELSE disk
          /\ signed' \subseteq signed \cup VotesOn("attestation", r)

\* The loop goes on after an error, or the process dies.
LEMMA FaultView ==
    ASSUME NEW f, NEW prev, NEW base, NEW q, Fault(f, prev, base, q)
    PROVE  /\ qcs' \in {q, <<>>} /\ disk' \in {disk, state_data(base.st)}
           /\ \/ st' = None /\ "crash" \in Faults /\ disk' = disk
              \/ st' = base.st /\ f \in Faults
BY DEF Fault, Dies, ContinueAfterError, state_recorder

\* The votes that are added.
LEMMA VotesView ==
    ASSUME NEW kind, NEW r, NEW ds,
           sign_consensus_votes(kind, r.st, r.on, ds)
    PROVE  signed \subseteq signed' /\ signed' \subseteq signed \cup VotesOn(kind, r)
BY DEF sign_consensus_votes, Authorized, VotesOn

\* Every action that is not a proposal.
LEMMA PerformsView ==
    ASSUME NEW prev, NEW r, NEW base, NEW q, perform_action(prev, r, base, q)
    PROVE  Performs(prev, r, base, q)
<1>1. injected' = injected
  BY DEF perform_action
<1>2. RecorderFails(prev, r) => Reverts(prev, r)
  BY DEF RecorderFails, Reverts
<1>3. ContinueAfterError(prev, base, q) =>
        /\ st' = base.st /\ qcs' = q /\ disk' \in {disk, state_data(base.st)}
  BY DEF ContinueAfterError, state_recorder
<1>4. state_recorder(prev, r) =>
        /\ StateRecorder = "Filesystem" =>
             disk' = IF r.fresh THEN state_data(r.st) ELSE disk
        /\ disk' \in {disk, state_data(r.st)}
  BY DEF state_recorder
<1>5. Dies => st' = None /\ "crash" \in Faults /\ qcs' = <<>>
  BY DEF Dies
<1>6. CASE Do_nothing(prev, r, base, q)
  BY <1>1, <1>2, <1>3, <1>4, <1>6 DEF Do_nothing, Performs
<1>7. CASE Watch_proposal(prev, r, base, q)
  BY <1>1, <1>7 DEF Watch_proposal, Performs
<1>8. CASE Inject_preattestations(prev, r, base, q)
  <2>1. CASE Fault("hwm", prev, base, q) /\ UNCHANGED <<hwm, signed>>
    BY <1>1, <2>1, FaultView DEF Performs, Reverts
  <2>2. ASSUME NEW ds \in SUBSET Delegates,
               sign_consensus_votes("preattestation", r.st, r.on, ds),
               disk' = disk, (st' = r.st /\ qcs' = q) \/ Dies
        PROVE  Performs(prev, r, base, q)
    BY <1>1, <1>5, <1>8, <2>2, VotesView
    DEF Performs, Inject_preattestations
  <2> QED BY <1>8, <2>1, <2>2 DEF Inject_preattestations
<1>9. CASE Inject_attestations(prev, r, base, q)
  <2>0. r.act = "Inject_attestations"
    BY <1>9 DEF Inject_attestations
  <2>1. CASE /\ RecorderFails(prev, r) /\ ContinueAfterError(prev, base, q)
             /\ UNCHANGED <<hwm, signed>>
    BY <1>1, <1>2, <1>3, <2>1 DEF Performs
  <2>2. CASE /\ state_recorder(prev, r)
             /\ \/ "hwm" \in Faults /\ st' = base.st /\ qcs' = q
                \/ Dies
             /\ UNCHANGED <<hwm, signed>>
    <3>1. "hwm" \in Faults => Reverts(prev, r)
      BY DEF Reverts
    <3> QED BY <1>1, <1>4, <1>5, <2>0, <2>2, <3>1 DEF Performs
  <2>3. ASSUME state_recorder(prev, r), NEW ds \in SUBSET Delegates,
               sign_consensus_votes("attestation", r.st, r.on, ds),
               (st' = r.st /\ qcs' = q) \/ Dies
        PROVE  Performs(prev, r, base, q)
    BY <1>1, <1>4, <1>5, <2>0, <2>3, VotesView DEF Performs
  <2> QED BY <1>9, <2>1, <2>2, <2>3 DEF Inject_attestations
<1> QED BY <1>6, <1>7, <1>8, <1>9 DEF perform_action

\* A proposal of the block b for a slot of d, from the state s.
Proposes(s, q, b) ==
    /\ qcs' \in {q, <<>>}
    /\ disk' \in {disk, state_data(s)}
    /\ \/ st' = None /\ "crash" \in Faults
       \/ st' \in {s, update_current_phase(s, "Idle"),
                   [update_current_phase(s, "Idle")
                      EXCEPT !.next_forged_block = None]}
    /\ signed \subseteq signed'
    /\ \A x \in signed' \ signed : x.kind = "block" /\ x.level = b.level
    /\ injected \subseteq injected' /\ injected' \subseteq injected \cup {b}

\* The outcomes of inject_block.
LEMMA InjectBlockView ==
    ASSUME NEW prev, NEW base, NEW q, NEW updated, NEW b,
           inject_block(prev, base, q, updated, b)
    PROVE  /\ qcs' \in {q, <<>>} /\ disk' \in {disk, state_data(base.st)}
           /\ \/ st' = None /\ "crash" \in Faults
              \/ st' \in {base.st, updated}
           /\ injected \subseteq injected'
           /\ injected' \subseteq injected \cup {b}
<1>1. CASE /\ Fault("inject", prev, base, q)
           /\ injected' \in {injected, injected \cup {b}}
  BY <1>1, FaultView
<1> QED BY <1>1 DEF inject_block

\* What forging signs.
LEMMA ForgeSignedView ==
    ASSUME NEW d, NEW b, ForgeSignedBlock(d, b)
    PROVE  /\ MaySignBlock(d, b) /\ signed \subseteq signed'
           /\ \A x \in signed' \ signed : x.kind = "block" /\ x.level = b.level
           /\ Proposer[b.level][b.round] = d => SignedFor(b, signed')
<1> DEFINE x == [kind |-> "block", delegate |-> d, level |-> b.level,
                 round |-> b.round, payload |-> b.payload]
<1>1. x \in signed' /\ signed' = signed \cup {x} /\ MaySignBlock(d, b)
  BY DEF ForgeSignedBlock
<1>2. /\ x.kind = "block" /\ x.level = b.level /\ x.round = b.round
      /\ x.delegate = d
  OBVIOUS
<1> HIDE DEF x
<1> QED BY <1>1, <1>2 DEF SignedFor

\* A forge that is not completed.
LEMMA ForgeFailsView ==
    ASSUME NEW prev, NEW base, NEW q, NEW d, NEW b,
           ForgeFails(prev, base, q, d, b)
    PROVE  /\ qcs' \in {q, <<>>} /\ disk' \in {disk, state_data(base.st)}
           /\ (st' = None /\ "crash" \in Faults) \/ st' = base.st
           /\ signed \subseteq signed'
           /\ \A x \in signed' \ signed : x.kind = "block" /\ x.level = b.level
<1>1. ContinueAfterError(prev, base, q) =>
        /\ st' = base.st /\ qcs' = q /\ disk' \in {disk, state_data(base.st)}
  BY DEF ContinueAfterError, state_recorder
<1>2. \A f : Fault(f, prev, base, q) =>
        /\ qcs' \in {q, <<>>} /\ disk' \in {disk, state_data(base.st)}
        /\ (st' = None /\ "crash" \in Faults) \/ st' = base.st
  BY FaultView
<1>3. CASE ForgeSignedBlock(d, b) /\ Fault("forge", prev, base, q)
  BY <1>2, <1>3, ForgeSignedView
<1>4. CASE UNCHANGED signed
  BY <1>1, <1>2, <1>4 DEF ForgeFails
<1> QED BY <1>3, <1>4 DEF ForgeFails

\* Forging and injecting.
LEMMA ForgeAndInjectView ==
    ASSUME NEW prev, NEW s, NEW q, NEW d, NEW b,
           Forge_and_inject(prev, [st |-> s, fresh |-> FALSE], q,
                            update_current_phase(s, "Idle"), d, b),
           Proposer[b.level][b.round] = d
    PROVE  /\ Proposes(s, q, b)
           /\ injected' # injected => MaySignBlock(d, b) /\ SignedFor(b, signed')
<1> DEFINE base == [st |-> s, fresh |-> FALSE]
           idle == update_current_phase(s, "Idle")
<1>0. base.st = s
  OBVIOUS
<1> HIDE DEF base, idle
<1>1. CASE ForgeFails(prev, base, q, d, b) /\ injected' = injected
  BY <1>0, <1>1, ForgeFailsView DEF Proposes
<1>2. CASE ForgeSignedBlock(d, b) /\ inject_block(prev, base, q, idle, b)
  BY <1>0, <1>2, ForgeSignedView, InjectBlockView DEF Proposes, idle
<1> QED BY <1>1, <1>2 DEF Forge_and_inject, base, idle

-----------------------------------------------------------------------------
(* From the parts of a step back to the invariant.                         *)

\* A safe state stays safe as certificates, time and history grow.
LEMMA SafeStateGrows ==
    ASSUME NEW s \in State, NEW C \in CertsMap, NEW D \in CertsMap,
           NEW K \in ClockMap, NEW L \in ClockMap, NEW J, NEW J2, NEW G, NEW G2,
           CertsGrow(C, D), ClockGrows(K, L), J \subseteq J2, G \subseteq G2,
           SafeState(s, C, K, J, G)
    PROVE  SafeState(s, D, L, J2, G2)
<1>1. Owned(s, J2, G2)
  BY DEF SafeState, Owned, OwnedAttestable, Own, SignedFor
<1> QED BY <1>1, SafeGrows DEF SafeState

Context ==
    /\ IInv /\ IInv' /\ SInv
    /\ CertsGrow(certs, certs') /\ ClockGrows(clock, clock')
    /\ signed \subseteq signed' /\ injected \subseteq injected'
    /\ CertifiedPqc(head', certs') /\ Own(head', injected')

\* The parts that a step must show.
StateOK ==
    st' # None => SafeState(st', certs', clock', injected', signed')

DiskOK ==
    \/ disk' = disk
    \/ /\ SafeData(disk', certs', clock')
       /\ OwnedAttestable(disk'.attestable_payload_data, injected')

NewSignedOK ==
    \A x \in signed' \ signed :
        /\ x.kind = "attestation" =>
             x.level \in Levels /\ certs'[x.level][x.round] = x.payload
        /\ FirstLevel => x.level # ActivationLevel

NewInjectedOK ==
    \A b \in injected' \ injected :
        /\ SignedFor(b, signed')
        /\ b.pqc # NoPqc => /\ b.level \in Levels
                            /\ certs'[b.level][b.pqc] = b.payload
                            /\ Calm => b.pqc < b.round

CoverOK ==
    Recorded =>
        /\ st' # None =>
             /\ LockCovers(signed', st'.current_level, st'.locked_round)
             /\ disk' # None => disk'.level_data <= st'.current_level
        /\ "crash" \in Faults \/ st' = None =>
             \/ /\ disk' = disk
                /\ \A x \in signed' \ signed : x.kind # "attestation"
             \/ /\ disk' # None
                /\ LockCovers(signed', disk'.level_data,
                              disk'.locked_round_data)

DeathOK == st' = None => "crash" \in Faults \/ (st = None /\ disk' = disk)

StreamOK == \A i \in 1 .. Len(qcs') : CertifiedBlock(qcs'[i].candidate, certs')

\* They give the invariant back.
LEMMA Conclude ==
    ASSUME Context, StateOK, DiskOK, NewSignedOK, NewInjectedOK, CoverOK,
           DeathOK, StreamOK
    PROVE  SInv'
<1>0. /\ certs \in CertsMap /\ certs' \in CertsMap
      /\ clock \in ClockMap /\ clock' \in ClockMap
      /\ signed \subseteq Item /\ injected \subseteq Headers
      /\ disk # None => disk \in StateData
  BY DEF Context, IInv, TypeOK, CertsMap, ClockMap
<1>1. Up' => /\ Safe(st', certs', clock') /\ Owned(st', injected', signed')
             /\ Calm => AttestableRoundOK(st')
  BY DEF Up, StateOK, SafeState
<1>2. disk' # None =>
        /\ SafeData(disk', certs', clock')
        /\ OwnedAttestable(disk'.attestable_payload_data, injected')
  <2>1. CASE disk' = disk /\ disk # None
    <3>1. SafeData(disk, certs', clock')
      BY <1>0, <2>1, DataGrows DEF Context, SInv
    <3>2. OwnedAttestable(disk.attestable_payload_data, injected')
      BY <2>1 DEF Context, SInv, OwnedAttestable, Own
    <3> QED BY <2>1, <3>1, <3>2
  <2> QED BY <2>1 DEF DiskOK
<1>3. SignedOK(certs)'
  <2>1. ASSUME NEW x \in signed, x.kind = "attestation"
        PROVE  x.level \in Levels /\ certs'[x.level][x.round] = x.payload
    <3>1. x.level \in Levels /\ certs[x.level][x.round] = x.payload
      BY <2>1 DEF Context, SInv, SignedOK
    <3>2. x.round \in Rounds /\ x.payload # None
      BY <1>0, NoneAssumption DEF Item
    <3> QED BY <3>1, <3>2 DEF Context, CertsGrow
  <2>2. \A x \in signed : FirstLevel => x.level # ActivationLevel
    BY DEF Context, SInv, SignedOK
  <2> QED BY <2>1, <2>2 DEF SignedOK, NewSignedOK
<1>4. InjectedOK(certs)'
  <2>1. ASSUME NEW b \in injected, b.pqc # NoPqc
        PROVE  /\ b.level \in Levels /\ certs'[b.level][b.pqc] = b.payload
               /\ Calm => b.pqc < b.round
    <3>1. /\ b.level \in Levels /\ certs[b.level][b.pqc] = b.payload
          /\ Calm => b.pqc < b.round
      BY <2>1 DEF Context, SInv, InjectedOK
    <3>2. b.pqc \in Rounds /\ b.payload # None
      BY <1>0, <2>1, NoneAssumption, BoundsAssumption DEF Headers, Rounds, NoPqc
    <3> QED BY <3>1, <3>2 DEF Context, CertsGrow
  <2>2. \A b \in injected : SignedFor(b, signed')
    BY DEF Context, SInv, InjectedOK, SignedFor
  <2> QED BY <2>1, <2>2 DEF InjectedOK, NewInjectedOK
<1>5. "crash" \notin Faults /\ ~Up' => disk' = None
  BY DEF DeathOK, Up, Context, SInv
<1>6. CoverInv'
  <2>1. SUFFICES ASSUME Recorded, "crash" \in Faults \/ st' = None
                 PROVE  /\ "crash" \in Faults /\ disk' # None =>
                             LockCovers(signed', disk'.level_data,
                                        disk'.locked_round_data)
                        /\ disk' = None =>
                             \A x \in signed' : x.kind # "attestation"
    BY DEF CoverInv, CoverOK, Up
  <2>2. "crash" \in Faults \/ st = None
    BY <2>1 DEF DeathOK
  <2>3. CASE /\ disk' = disk
             /\ \A x \in signed' \ signed : x.kind # "attestation"
    BY <2>1, <2>2, <2>3 DEF Context, SInv, CoverInv, LockCovers, Up
  <2> QED BY <2>1, <2>3 DEF CoverOK
<1> QED
  BY <1>1, <1>2, <1>3, <1>4, <1>5, <1>6 DEF SInv, Context, StreamOK

\* The step property of LocksNeverRegress, and that of PreattestRule.
LocksStep ==
    Up /\ st' # None =>
        Progress(st, st') \/ st.current_level < st'.current_level

PreattestStep ==
    Calm /\ Recorded =>
        \A v \in signed' \ signed : v.kind = "preattestation" =>
           \A x \in signed :
             (/\ x.kind = "attestation" /\ x.level = v.level
              /\ x.round < v.round /\ x.payload # v.payload) =>
                \E q \in x.round + 1 .. v.round :
                    certs'[v.level][q] = v.payload

\* The rule: a lock that covers the attestations, and allows p.
LEMMA RuleHolds ==
    ASSUME Context, Calm, Recorded, NEW s, Good(s),
           Safe(s, certs', clock'), NEW p \in Proposals,
           p.level = s.current_level, p.round = s.current_round,
           lock_allows(s, p), CertifiedPqc(p, certs'),
           LockCovers(signed, s.current_level, s.locked_round),
           NEW x \in signed, x.kind = "attestation", x.level = p.level,
           x.round < p.round, x.payload # p.payload
    PROVE  \E q \in x.round + 1 .. p.round : certs'[p.level][q] = p.payload
<1>0. s \in State
  BY DEF Good
<1> USE <1>0, StateNumbers, ProposalNumbers
<1>1. x.round \in Nat /\ x.round \in Rounds /\ x.payload # None
  BY BoundedNaturals, NoneAssumption DEF Context, IInv, TypeOK, Item
<1>2. s.locked_round # None /\ x.round <= s.locked_round.round
  BY DEF LockCovers
<1>3. /\ s.attestable_payload # None
      /\ s.locked_round.round <= s.attestable_payload.pqc
      /\ s.attestable_payload.pqc <= s.current_round
  BY <1>2 DEF Good, Sound, Safe, RoundOK
<1>4. CASE s.locked_round.payload = p.payload
  <2>1. certs'[p.level][s.locked_round.round] = p.payload
    BY <1>2, <1>4 DEF Safe, CertifiedLock
  <2>2. certs'[p.level][x.round] = x.payload
    <3>1. certs[x.level][x.round] = x.payload /\ x.level \in Levels
      BY DEF Context, SInv, SignedOK
    <3> QED BY <1>1, <3>1 DEF Context, CertsGrow
  <2>3. s.locked_round.round # x.round
    BY <2>1, <2>2
  <2>4. s.locked_round.round \in x.round + 1 .. p.round
    BY <1>1, <1>2, <1>3, <2>3
  <2> QED BY <2>1, <2>4
<1>5. CASE s.locked_round.round < p.pqc
  <2>1. p.pqc # NoPqc
    BY <1>2, <1>5 DEF NoPqc
  <2>2. p.pqc \in x.round + 1 .. p.round
    BY <1>1, <1>2, <1>5, <2>1
  <2> QED BY <2>1, <2>2 DEF CertifiedPqc
<1> QED BY <1>2, <1>4, <1>5 DEF lock_allows

\* A step of the interpreter.
LEMMA TransitionKeeps ==
    ASSUME Context, NEW prev, NEW r, NEW base, NEW q,
           Performs(prev, r, base, q), GoodResult(r), Good(base.st),
           Fine(r, certs', clock', injected, signed),
           Reverts(prev, r) =>
             SafeState(base.st, certs', clock', injected, signed),
           r.act = "Inject_attestations" => base = r,
           q \in Seq(QuorumEvent),
           \A i \in 1 .. Len(q) : CertifiedBlock(q[i].candidate, certs'),
           Recorded =>
             /\ LockCovers(signed, r.st.current_level, r.st.locked_round)
             /\ LockCovers(signed, base.st.current_level, base.st.locked_round)
             /\ disk # None => /\ disk.level_data <= r.st.current_level
                               /\ disk.level_data <= base.st.current_level,
           Up => /\ \/ Progress(st, r.st)
                    \/ st.current_level < r.st.current_level
                 /\ Progress(st, base.st)
    PROVE  SInv' /\ LocksStep /\ PreattestStep
<1>0. /\ r.st \in State /\ base.st \in State /\ r.st # None /\ base.st # None
      /\ r.on \in Proposals /\ injected' = injected /\ signed \subseteq signed'
  BY NoneAssumption DEF GoodResult, Good, Performs
<1> USE StateNumbers, ProposalNumbers
<1>1. /\ SafeState(r.st, certs', clock', injected', signed')
      /\ Reverts(prev, r) =>
           SafeState(base.st, certs', clock', injected', signed')
  <2>1. /\ certs' \in CertsMap /\ clock' \in ClockMap
        /\ CertsGrow(certs', certs') /\ ClockGrows(clock', clock')
    <3>1. certs' \in CertsMap /\ clock' \in ClockMap
      BY DEF Context, IInv, TypeOK, CertsMap, ClockMap
    <3>2. \A l \in Levels, x \in Preds : clock'[l][x] \in Nat
      BY <3>1, BoundedNaturals DEF ClockMap
    <3> QED BY <3>1, <3>2 DEF CertsGrow, ClockGrows
  <2>2. SafeState(r.st, certs', clock', injected, signed)
    BY DEF Fine, SafeState
  <2> QED BY <1>0, <2>1, <2>2, SafeStateGrows
<1>2. StateOK
  BY <1>1 DEF StateOK, Performs
<1>3. DiskOK
  <2>1. ASSUME NEW s, SafeState(s, certs', clock', injected', signed')
        PROVE  /\ SafeData(state_data(s), certs', clock')
               /\ OwnedAttestable(state_data(s).attestable_payload_data,
                                  injected')
    BY <2>1, StateDataSafe DEF SafeState, Owned, state_data
  <2> QED BY <1>1, <2>1 DEF DiskOK, Performs
<1>4. \A x \in signed' \ signed :
        /\ x.level = r.st.current_level
        /\ x.round = r.on.round /\ x.payload = r.on.payload
        /\ \/ x.kind = "attestation" /\ r.act = "Inject_attestations"
           \/ x.kind = "preattestation" /\ r.act = "Inject_preattestations"
  BY DEF Performs, VotesOn
<1>5. NewSignedOK
  <2>1. r.act = "Inject_preattestations" =>
          r.st.current_level # ActivationLevel
    BY DEF Fine, VoteOK, is_first_block_in_protocol
  <2> QED BY <1>0, <1>4, <2>1 DEF NewSignedOK, Fine, VoteOK
<1>6. NewInjectedOK /\ DeathOK
  BY <1>0 DEF NewInjectedOK, DeathOK, Performs
<1>7. StreamOK
  <2>1. qcs' \in {q, <<>>}
    BY DEF Performs
  <2> QED BY <2>1 DEF StreamOK
<1>8. CoverOK
  <2>1. SUFFICES ASSUME Recorded PROVE CoverOK
    BY DEF CoverOK
  <2>2. LockCovers(signed', r.st.current_level, r.st.locked_round)
    <3>1. ASSUME NEW x \in signed' \ signed, x.kind = "attestation"
          PROVE  /\ x.level <= r.st.current_level
                 /\ r.st.locked_round # None
                 /\ x.round <= r.st.locked_round.round
      <4>1. r.act = "Inject_attestations" /\ x.level = r.st.current_level
            /\ x.round = r.on.round
        BY <1>4, <3>1
      <4>2. r.st.locked_round = [payload |-> r.on.payload,
                                 round |-> r.on.round]
        BY <4>1 DEF Fine, VoteOK
      <4>3. r.st.locked_round # None
        BY <1>0, <4>2, NoneAssumption DEF LockedRound
      <4> QED BY <1>0, <4>1, <4>2, <4>3
    <3> QED BY <2>1, <3>1 DEF LockCovers
  <2>3. CASE \A x \in signed' \ signed : x.kind # "attestation"
    <3>1. LockCovers(signed', base.st.current_level, base.st.locked_round)
      BY <2>1, <2>3 DEF LockCovers
    <3>2. /\ state_data(r.st).level_data = r.st.current_level
          /\ state_data(r.st).locked_round_data = r.st.locked_round
          /\ state_data(base.st).level_data = base.st.current_level
          /\ state_data(base.st).locked_round_data = base.st.locked_round
      BY DEF state_data
    <3>3. state_data(r.st) # None /\ state_data(base.st) # None
      BY StateDataSound, NoFileAssumption DEF GoodResult
    <3>4. /\ st' # None =>
               LockCovers(signed', st'.current_level, st'.locked_round)
          /\ disk' # disk => /\ disk' # None
                             /\ LockCovers(signed', disk'.level_data,
                                           disk'.locked_round_data)
      BY <2>2, <3>1, <3>2, <3>3 DEF Performs
    <3>5. st' # None /\ disk' # None => disk'.level_data <= st'.current_level
      BY <1>0, <2>1, <3>2, <3>3 DEF Performs
    <3> QED BY <2>3, <3>4, <3>5 DEF CoverOK
  <2>4. CASE ~(\A x \in signed' \ signed : x.kind # "attestation")
    <3>1. r.act = "Inject_attestations" /\ signed' # signed
      BY <1>4, <2>4
    <3>2. /\ st' \in {None, r.st}
          /\ StateRecorder = "Filesystem" =>
               disk' = IF r.fresh THEN state_data(r.st) ELSE disk
          /\ disk' \in {disk, state_data(r.st)} \/ st' = base.st
      BY <3>1 DEF Performs
    <3>3. /\ state_data(r.st).level_data = r.st.current_level
          /\ state_data(r.st).locked_round_data = r.st.locked_round
          /\ state_data(r.st) # None
      BY StateDataSound, NoFileAssumption DEF GoodResult, state_data
    <3>4. CASE "crash" \in Faults
      <4>1. disk' = state_data(r.st)
        BY <2>1, <3>1, <3>2, <3>4 DEF Fine, VoteOK, Recorded
      <4> QED BY <1>0, <2>2, <3>2, <3>3, <4>1 DEF CoverOK
    <3>5. CASE "crash" \notin Faults
      <4>1. base = r /\ st' = r.st /\ disk' \in {disk, state_data(r.st)}
        BY <1>0, <3>1, <3>2, <3>5 DEF Performs
      <4>2. disk' # None => disk'.level_data <= st'.current_level
        BY <1>0, <2>1, <3>3, <4>1
      <4> QED BY <1>0, <2>2, <3>5, <4>1, <4>2 DEF CoverOK
    <3> QED BY <3>4, <3>5
  <2> QED BY <2>3, <2>4
<1>9. LocksStep
  BY DEF LocksStep, Performs
<1>10. PreattestStep
  <2>1. SUFFICES ASSUME Calm, Recorded, NEW v \in signed' \ signed,
                        v.kind = "preattestation", NEW x \in signed,
                        x.kind = "attestation", x.level = v.level,
                        x.round < v.round, x.payload # v.payload
                 PROVE  \E k \in x.round + 1 .. v.round :
                            certs'[v.level][k] = v.payload
    BY DEF PreattestStep
  <2>2. r.act = "Inject_preattestations" /\ v.level = r.st.current_level
        /\ v.round = r.on.round /\ v.payload = r.on.payload
    BY <1>4, <2>1
  <2>3. /\ r.on.level = r.st.current_level /\ CertifiedPqc(r.on, certs')
        /\ lock_allows(r.st, r.on) /\ r.on.round = r.st.current_round
    BY <2>2 DEF Fine, VoteOK
  <2>4. Good(r.st) /\ Safe(r.st, certs', clock')
    BY DEF GoodResult, Fine
  <2>5. \E k \in x.round + 1 .. r.on.round :
           certs'[r.on.level][k] = r.on.payload
    BY <1>0, <2>1, <2>2, <2>3, <2>4, RuleHolds
  <2> QED BY <2>2, <2>3, <2>5
<1> QED
  BY <1>2, <1>3, <1>5, <1>6, <1>7, <1>8, <1>9, <1>10, Conclude

\* A proposal leaves the baker idle, or where it was.
Quiet(s, t) ==
    /\ t.current_level = s.current_level
    /\ t.latest_proposal = s.latest_proposal
    /\ t.locked_round = s.locked_round
    /\ t.attestable_payload = s.attestable_payload
    /\ t.elected_block = s.elected_block
    /\ t.current_round = s.current_round
    /\ t.current_phase \in {s.current_phase, "Idle"}
    /\ t.next_forged_block \in {s.next_forged_block, None}

\* That is safe.
LEMMA QuietSafe ==
    ASSUME NEW s \in State, NEW t, NEW C, NEW K, NEW J, NEW G,
           Quiet(s, t), SafeState(s, C, K, J, G)
    PROVE  SafeState(t, C, K, J, G) /\ Progress(s, t)
<1>1. Safe(t, C, K)
  <2>1. ForgedOK(t)
    BY DEF Quiet, SafeState, Safe, ForgedOK
  <2>2. FirstOK(t)
    BY DEF Quiet, SafeState, Safe, FirstOK
  <2>3. SameStart => LockRoundOK(t)
    BY DEF Quiet, SafeState, Safe, LockRoundOK
  <2>4. Calm => RoundOK(t)
    BY DEF Quiet, SafeState, Safe, RoundOK
  <2>5. OneBranch => WaitsOK(t)
    BY DEF Quiet, SafeState, Safe, WaitsOK, round_proposer
  <2> QED BY <2>1, <2>2, <2>3, <2>4, <2>5 DEF Quiet, SafeState, Safe
<1>2. Owned(t, J, G)
  BY DEF Quiet, SafeState, Owned
<1>3. Calm => AttestableRoundOK(t)
  BY DEF Quiet, SafeState, AttestableRoundOK
<1>4. Progress(s, t)
  BY StateNumbers DEF Quiet, Progress
<1> QED BY <1>1, <1>2, <1>3, <1>4 DEF SafeState

\* A block that may be injected.
BlockOK(b, C, G) ==
    /\ SignedFor(b, G)
    /\ b.pqc # NoPqc => /\ b.level \in Levels
                        /\ C[b.level][b.pqc] = b.payload
                        /\ Calm => b.pqc < b.round

\* What a lock and the file's level must satisfy when the state s is entered.
CoveredBy(s) ==
    Recorded => /\ LockCovers(signed, s.current_level, s.locked_round)
                /\ disk # None => disk.level_data <= s.current_level

\* Progress composes.
LEMMA ProgressTrans ==
    ASSUME NEW s \in State, NEW t \in State, NEW u \in State,
           Progress(s, t), Progress(t, u)
    PROVE  Progress(s, u)
BY StateNumbers DEF Progress

\* A step that proposes a block.
LEMMA ProposalKeeps ==
    ASSUME Context, NEW s, Good(s), NEW q \in Seq(QuorumEvent), NEW b,
           Proposes(s, q, b), SafeState(s, certs', clock', injected, signed),
           FirstLevel => b.level # ActivationLevel,
           injected' # injected => BlockOK(b, certs', signed'),
           \A i \in 1 .. Len(q) : CertifiedBlock(q[i].candidate, certs'),
           CoveredBy(s), Up => Progress(st, s)
    PROVE  SInv' /\ LocksStep /\ PreattestStep
<1> DEFINE i == update_current_phase(s, "Idle")
           n == [i EXCEPT !.next_forged_block = None]
<1>1. s \in State /\ s # None
  BY NoneAssumption DEF Good
<1>2. i \in State /\ Quiet(s, i)
  BY <1>1 DEF update_current_phase, Quiet, State, Phases
<1>3. n \in State /\ Quiet(s, n)
  <2>1. /\ i.current_level = s.current_level
        /\ i.latest_proposal = s.latest_proposal
        /\ i.locked_round = s.locked_round
        /\ i.attestable_payload = s.attestable_payload
        /\ i.elected_block = s.elected_block
        /\ i.current_round = s.current_round
        /\ i.current_phase \in {s.current_phase, "Idle"}
    BY <1>2 DEF Quiet
  <2> HIDE DEF i
  <2> QED BY <1>2, <2>1 DEF Quiet, State
<1>4. Quiet(s, s)
  BY DEF Quiet
<1>5. st' # None => Quiet(s, st')
  BY <1>2, <1>3, <1>4 DEF Proposes
<1> HIDE DEF i, n
<1>6. SafeState(s, certs', clock', injected', signed')
  <2>1. /\ certs' \in CertsMap /\ clock' \in ClockMap
        /\ CertsGrow(certs', certs') /\ ClockGrows(clock', clock')
    <3>1. certs' \in CertsMap /\ clock' \in ClockMap
      BY DEF Context, IInv, TypeOK, CertsMap, ClockMap
    <3>2. \A l \in Levels, x \in Preds : clock'[l][x] \in Nat
      BY <3>1, BoundedNaturals DEF ClockMap
    <3> QED BY <3>1, <3>2 DEF CertsGrow, ClockGrows
  <2>2. injected \subseteq injected' /\ signed \subseteq signed'
    BY DEF Proposes
  <2> QED BY <1>1, <2>1, <2>2, SafeStateGrows
<1>7. /\ StateOK
      /\ st' # None => Progress(s, st')
  BY <1>1, <1>5, <1>6, QuietSafe DEF StateOK
<1>8. DiskOK
  <2>1. /\ SafeData(state_data(s), certs', clock')
        /\ OwnedAttestable(state_data(s).attestable_payload_data, injected')
    BY <1>6, StateDataSafe DEF SafeState, Owned, state_data
  <2> QED BY <2>1 DEF DiskOK, Proposes
<1>9. \A x \in signed' \ signed : x.kind = "block" /\ x.level = b.level
  BY DEF Proposes
<1>10. NewSignedOK
  BY <1>9 DEF NewSignedOK
<1>11. NewInjectedOK
  <2>1. \A y \in injected' \ injected : y = b /\ injected' # injected
    BY DEF Proposes
  <2> QED BY <2>1 DEF NewInjectedOK, BlockOK
<1>12. DeathOK
  BY <1>1, <1>2, <1>3, NoneAssumption DEF DeathOK, Proposes, i, n
<1>13. StreamOK
  <2>1. qcs' \in {q, <<>>}
    BY DEF Proposes
  <2> QED BY <2>1 DEF StreamOK
<1>14. CoverOK
  <2>1. SUFFICES ASSUME Recorded PROVE CoverOK
    BY DEF CoverOK
  <2>2. LockCovers(signed', s.current_level, s.locked_round)
    BY <1>9, <2>1 DEF LockCovers, CoveredBy
  <2>3. /\ state_data(s).level_data = s.current_level
        /\ state_data(s).locked_round_data = s.locked_round
    BY DEF state_data
  <2>4. state_data(s) # None
    BY StateDataSound, NoFileAssumption
  <2>5. /\ disk' # disk =>
             disk' # None /\ LockCovers(signed', disk'.level_data,
                                        disk'.locked_round_data)
        /\ disk' # None => disk'.level_data <= s.current_level
    BY <1>1, <2>1, <2>2, <2>3, <2>4, StateNumbers DEF Proposes, CoveredBy
  <2>6. st' # None => /\ st'.current_level = s.current_level
                      /\ st'.locked_round = s.locked_round
    BY <1>5 DEF Quiet
  <2>7. \A x \in signed' \ signed : x.kind # "attestation"
    BY <1>9
  <2> QED BY <2>2, <2>5, <2>6, <2>7 DEF CoverOK
<1>15. LocksStep
  <2>1. Up /\ st' # None => st \in State /\ st' \in State
    BY DEF Up, Context, IInv, TypeOK
  <2> QED BY <1>1, <1>7, <2>1, ProgressTrans DEF LocksStep
<1>16. PreattestStep
  BY <1>9 DEF PreattestStep
<1> QED
  BY <1>7, <1>8, <1>10, <1>11, <1>12, <1>13, <1>14, <1>15, <1>16, Conclude

\* A fresh block, or the one forged ahead of its time.
LEMMA ProposeFreshKeeps ==
    ASSUME Context, NEW prev, NEW s, Good(s), NEW q \in Seq(QuorumEvent),
           NEW d, NEW level, NEW round, NEW payloads,
           propose_fresh_block_action(prev, s, q, d, level, round, payloads),
           Proposer[level][round] = d, FirstLevel => level # ActivationLevel,
           SafeState(s, certs', clock', injected, signed),
           \A i \in 1 .. Len(q) : CertifiedBlock(q[i].candidate, certs'),
           CoveredBy(s), Up => Progress(st, s)
    PROVE  SInv' /\ LocksStep /\ PreattestStep
<1> DEFINE base == [st |-> s, fresh |-> FALSE]
           idle == update_current_phase(s, "Idle")
           sent == [idle EXCEPT !.next_forged_block = None]
           fresh(y) == [level |-> level, round |-> round, payload |-> y,
                        pqc |-> NoPqc]
           b == s.next_forged_block.block
<1>0. base.st = s
  OBVIOUS
<1>1. CASE /\ s.next_forged_block # None
           /\ inject_block(prev, base, q, sent, b)
           /\ UNCHANGED <<hwm, signed>>
  <2>1. b.level = s.current_level + 1 /\ b.pqc = NoPqc
    BY <1>1 DEF SafeState, Safe, ForgedOK
  <2>2. SignedFor(b, signed')
    BY <1>1 DEF SafeState, Owned
  <2>3. FirstLevel => b.level # ActivationLevel
    BY <2>1, BoundsAssumption DEF FirstLevel, Good, State, Levels
  <2>4. BlockOK(b, certs', signed')
    BY <2>1, <2>2 DEF BlockOK
  <2>5. /\ qcs' \in {q, <<>>} /\ disk' \in {disk, state_data(s)}
        /\ \/ st' = None /\ "crash" \in Faults
           \/ st' \in {s, sent}
        /\ injected \subseteq injected'
        /\ injected' \subseteq injected \cup {b}
    <3> HIDE DEF base, sent, b
    <3> QED BY <1>0, <1>1, InjectBlockView
  <2>6. Proposes(s, q, b)
    BY <1>1, <2>5 DEF Proposes
  <2> HIDE DEF b
  <2> QED BY <2>3, <2>4, <2>6, ProposalKeeps
<1>2. ASSUME NEW y \in payloads,
             Forge_and_inject(prev, base, q, idle, d, fresh(y))
      PROVE  SInv' /\ LocksStep /\ PreattestStep
  <2> DEFINE f == fresh(y)
  <2>1. f.level = level /\ f.round = round /\ f.pqc = NoPqc
    OBVIOUS
  <2> HIDE DEF f
  <2>2. Forge_and_inject(prev, [st |-> s, fresh |-> FALSE], q,
                         update_current_phase(s, "Idle"), d, f)
    BY <1>2 DEF f
  <2>3. Proposes(s, q, f) /\ (injected' # injected => SignedFor(f, signed'))
    BY <2>1, <2>2, ForgeAndInjectView
  <2>4. injected' # injected => BlockOK(f, certs', signed')
    BY <2>1, <2>3 DEF BlockOK
  <2> QED BY <2>1, <2>3, <2>4, ProposalKeeps
<1> HIDE DEF b
<1> QED BY <1>1, <1>2 DEF propose_fresh_block_action, b

\* A payload is proposed again with a prequorum of an earlier round, unless
\* the block may not be signed.
EarlierPqc(s, round) ==
    (/\ Calm /\ s.attestable_payload # None
     /\ Proposer[s.current_level][round] # None
     /\ may_sign(hwm["block"], Proposer[s.current_level][round],
                 s.current_level, round))
      => s.attestable_payload.pqc < round

\* A block at a round of the current level.
LEMMA ProposeBlockKeeps ==
    ASSUME Context, NEW prev, NEW s, Good(s), NEW q \in Seq(QuorumEvent),
           NEW d, NEW round \in Rounds,
           propose_block_action(prev, s, q, d, round),
           Proposer[s.current_level][round] = d,
           FirstLevel => s.current_level # ActivationLevel,
           SafeState(s, certs', clock', injected, signed),
           d # None, EarlierPqc(s, round),
           \A i \in 1 .. Len(q) : CertifiedBlock(q[i].candidate, certs'),
           CoveredBy(s), Up => Progress(st, s)
    PROVE  SInv' /\ LocksStep /\ PreattestStep
<1>1. CASE s.attestable_payload = None
  BY <1>1, ProposeFreshKeeps DEF propose_block_action
<1>2. CASE s.attestable_payload # None
  <2> DEFINE b == [level   |-> s.current_level, round |-> round,
                   payload |-> s.attestable_payload.proposal.payload,
                   pqc     |-> s.attestable_payload.pqc]
  <2>1. Forge_and_inject(prev, [st |-> s, fresh |-> FALSE], q,
                         update_current_phase(s, "Idle"), d, b)
    BY <1>2 DEF propose_block_action
  <2>2. /\ b.level = s.current_level /\ b.round = round
        /\ b.payload = s.attestable_payload.proposal.payload
        /\ b.pqc = s.attestable_payload.pqc
    OBVIOUS
  <2> HIDE DEF b
  <2>3. /\ Proposes(s, q, b)
        /\ injected' # injected => MaySignBlock(d, b) /\ SignedFor(b, signed')
    BY <2>1, <2>2, ForgeAndInjectView
  <2>4. b.level \in Levels /\ certs'[b.level][b.pqc] = b.payload
    BY <1>2, <2>2 DEF SafeState, Safe, CertifiedAttestable, Good, State
  <2>5. injected' # injected => BlockOK(b, certs', signed')
    BY <1>2, <2>2, <2>3, <2>4 DEF BlockOK, MaySignBlock, EarlierPqc
  <2> QED BY <2>2, <2>3, <2>5, ProposalKeeps
<1> QED BY <1>1, <1>2

\* The next round of the level: safe in a slot of ours, and when idle.
LEMMA NewRoundSafe ==
    ASSUME NEW s, Good(s), NEW c \in Rounds, s.current_round <= c,
           NEW C, NEW K, NEW J, NEW G, SafeState(s, C, K, J, G)
    PROVE  LET n == [s EXCEPT !.current_round = c]
               i == update_current_phase(n, "Idle")
           IN  /\ Good(n) /\ Good(i)
               /\ n.current_level = s.current_level
               /\ n.locked_round = s.locked_round
               /\ n.attestable_payload = s.attestable_payload
               /\ n.current_round = c
               /\ Progress(s, n) /\ Progress(s, i) /\ Quiet(n, i)
               /\ Proposer[s.current_level][c] # None
                    => SafeState(n, C, K, J, G)
               /\ SafeState(i, C, K, J, G)
<1> DEFINE n == [s EXCEPT !.current_round = c]
           i == update_current_phase(n, "Idle")
<1>0. s \in State /\ c \in Nat
  BY BoundedNaturals DEF Good
<1>1. /\ n \in State
      /\ n.current_level = s.current_level
      /\ n.latest_proposal = s.latest_proposal
      /\ n.locked_round = s.locked_round
      /\ n.attestable_payload = s.attestable_payload
      /\ n.elected_block = s.elected_block
      /\ n.current_round = c
      /\ n.current_phase = s.current_phase
      /\ n.next_forged_block = s.next_forged_block
  BY <1>0 DEF State
<1> HIDE DEF n
<1>2. /\ i \in State /\ Quiet(n, i) /\ i.current_phase = "Idle"
      /\ i.next_forged_block = n.next_forged_block
  BY <1>1 DEF update_current_phase, State, Quiet, Phases
<1> HIDE DEF i
<1>3. Good(n) /\ Good(i)
  BY <1>1, <1>2 DEF Good, Sound, Quiet
<1> USE StateNumbers
<1>4. Progress(s, n) /\ Progress(s, i)
  BY <1>0, <1>1, <1>2 DEF Progress, Quiet
<1>5. /\ SameStart => LockRoundOK(n)
      /\ Calm => RoundOK(n)
      /\ Calm => AttestableRoundOK(n)
  <2>1. SameStart => LockRoundOK(n)
    BY <1>0, <1>1 DEF SafeState, Safe, LockRoundOK
  <2>2. Calm => RoundOK(n)
    BY <1>0, <1>1 DEF SafeState, Safe, RoundOK
  <2>3. Calm => AttestableRoundOK(n)
    BY <1>0, <1>1 DEF SafeState, AttestableRoundOK
  <2> QED BY <2>1, <2>2, <2>3
<1>6. ForgedOK(n) /\ FirstOK(n) /\ Owned(n, J, G)
  BY <1>1 DEF SafeState, Safe, ForgedOK, FirstOK, Owned
<1>7. Proposer[s.current_level][c] # None => SafeState(n, C, K, J, G)
  <2>1. Proposer[s.current_level][c] # None => WaitsOK(n)
    BY <1>1 DEF WaitsOK, round_proposer
  <2> QED BY <1>1, <1>5, <1>6, <2>1 DEF SafeState, Safe
<1>8. SafeState(i, C, K, J, G)
  <2>1. WaitsOK(i)
    BY <1>2 DEF WaitsOK
  <2>2. SameStart => LockRoundOK(i)
    BY <1>2, <1>5 DEF LockRoundOK, Quiet
  <2>3. (Calm => RoundOK(i)) /\ (Calm => AttestableRoundOK(i))
    BY <1>2, <1>5 DEF RoundOK, AttestableRoundOK, Quiet
  <2>4. ForgedOK(i) /\ FirstOK(i) /\ Owned(i, J, G)
    BY <1>2, <1>6 DEF ForgedOK, FirstOK, Owned, Quiet
  <2> QED BY <1>1, <1>2, <2>1, <2>2, <2>3, <2>4 DEF SafeState, Safe, Quiet
<1> QED BY <1>1, <1>2, <1>3, <1>4, <1>7, <1>8 DEF n, i

\* A state that may be entered from the current one.
Enters(s) ==
    /\ Good(s) /\ SafeState(s, certs', clock', injected, signed)
    /\ CoveredBy(s)
    /\ Up => Progress(st, s)

\* Nothing is done, and the state is entered.
LEMMA NothingKeeps ==
    ASSUME Context, NEW prev, NEW s, Enters(s), NEW q \in Seq(QuorumEvent),
           \A i \in 1 .. Len(q) : CertifiedBlock(q[i].candidate, certs'),
           perform_action(prev, do_nothing(s), do_nothing(s), q)
    PROVE  SInv' /\ LocksStep /\ PreattestStep
<1> DEFINE r == do_nothing(s)
<1>1. r.st = s /\ r.act = "Do_nothing" /\ GoodResult(r)
  BY DoNothingGood DEF do_nothing, Result, Enters
<1> HIDE DEF r
<1>2. Performs(prev, r, r, q)
  BY PerformsView DEF r
<1>3. Fine(r, certs', clock', injected, signed)
  BY <1>1 DEF Enters, SafeState, Fine, VoteOK
<1> QED
  BY <1>1, <1>2, <1>3, TransitionKeeps DEF Enters, GoodResult, CoveredBy

\* The end of a round, and the block proposed at the next one.
LEMMA EndOfRoundKeeps ==
    ASSUME Context, NEW prev, Enters(prev), NEW r \in Int, r + 1 \in Rounds,
           NEW q \in Seq(QuorumEvent), end_of_round(prev, r, q),
           \A i \in 1 .. Len(q) : CertifiedBlock(q[i].candidate, certs'),
           prev.current_round <= r + 1,
           EarlierPqc(prev, r + 1)
    PROVE  SInv' /\ LocksStep /\ PreattestStep
<1> DEFINE c == r + 1
           n == [prev EXCEPT !.current_round = c]
           i == update_current_phase(n, "Idle")
           d == round_proposer(n, "Current", c)
<1>0. c \in Rounds /\ prev.current_round <= c /\ c = r + 1
  OBVIOUS
<1>1. /\ Good(n) /\ Good(i) /\ Quiet(n, i)
      /\ n.current_level = prev.current_level
      /\ n.locked_round = prev.locked_round
      /\ n.attestable_payload = prev.attestable_payload
      /\ Progress(prev, n) /\ Progress(prev, i)
      /\ Proposer[prev.current_level][c] # None
           => SafeState(n, certs', clock', injected, signed)
      /\ SafeState(i, certs', clock', injected, signed)
  <2> HIDE DEF c
  <2> QED BY <1>0, NewRoundSafe DEF Enters
<1>2. d = Proposer[prev.current_level][c]
  BY <1>1 DEF round_proposer
<1>3. \/ d = None /\ perform_action(prev, do_nothing(i), do_nothing(i), q)
      \/ d # None /\ perform_action(prev, do_nothing(n), do_nothing(n), q)
      \/ /\ d # None /\ ~is_first_block_in_protocol(prev.latest_proposal)
         /\ propose_block_action(prev, n, q, d, c)
  BY DEF end_of_round
<1> HIDE DEF c, n, i, d
<1>4. Up => st \in State
  BY DEF Up, Context, IInv, TypeOK
<1>5. Enters(i)
  <2>1. Up => Progress(st, i)
    BY <1>1, <1>4, ProgressTrans DEF Enters, Good
  <2>2. CoveredBy(i)
    BY <1>1 DEF Enters, CoveredBy, Quiet
  <2> QED BY <1>1, <2>1, <2>2 DEF Enters
<1>6. d # None => Enters(n)
  <2>1. Up => Progress(st, n)
    BY <1>1, <1>4, ProgressTrans DEF Enters, Good
  <2>2. CoveredBy(n)
    BY <1>1 DEF Enters, CoveredBy
  <2> QED BY <1>1, <1>2, <2>1, <2>2 DEF Enters
<1>7. CASE d = None /\ perform_action(prev, do_nothing(i), do_nothing(i), q)
  BY <1>5, <1>7, NothingKeeps
<1>8. CASE d # None /\ perform_action(prev, do_nothing(n), do_nothing(n), q)
  BY <1>6, <1>8, NothingKeeps
<1>9. CASE /\ d # None /\ ~is_first_block_in_protocol(prev.latest_proposal)
           /\ propose_block_action(prev, n, q, d, c)
  <2>1. n.current_level # ActivationLevel
    BY <1>1, <1>9
    DEF Enters, SafeState, Safe, is_first_block_in_protocol
  <2>2. EarlierPqc(n, c)
    BY <1>0, <1>1 DEF EarlierPqc
  <2>3. Enters(n) /\ Proposer[n.current_level][c] = d
    BY <1>1, <1>2, <1>6, <1>9
  <2> QED
    BY <1>0, <1>9, <2>1, <2>2, <2>3, ProposeBlockKeeps DEF Enters
<1> QED BY <1>3, <1>7, <1>8, <1>9

-----------------------------------------------------------------------------
(* Time and prequorums only grow.                                          *)

\* When neither moves.
LEMMA NothingGrows ==
    ASSUME ClockType, CertsType
    PROVE  /\ CertsGrow(certs, certs) /\ ClockGrows(clock, clock)
           /\ certs \in CertsMap /\ clock \in ClockMap
<1>1. \A l \in Levels, x \in Preds : clock[l][x] \in Nat
  BY BoundedNaturals DEF ClockType
<1> QED
  BY <1>1 DEF CertsGrow, ClockGrows, CertsMap, ClockMap, ClockType, CertsType

\* A block of the node.
LEMMA ReceivedGrows ==
    ASSUME CertsType, NEW p \in Proposals, Received(p)
    PROVE  /\ CertsGrow(certs, certs')
           /\ CertifiedPqc(p, certs') /\ Own(p, injected)
BY ProposalNumbers
DEF CertsType, Received, MayCertify, CertsGrow, CertifiedPqc, Own

\* The clock.
LEMMA ElapsedGrows ==
    ASSUME ClockType, NEW p \in Proposals, NEW c \in Rounds, Elapsed(p, c)
    PROVE  ClockGrows(clock, clock') /\ Reached(clock', p.level, c)
<1> DEFINE x == predecessor(p)
<1>1. p.level \in Levels /\ x \in Preds /\ c \in Nat
  BY ProposalNumbers, PredecessorType, BoundedNaturals
<1>2. \A l \in Levels, y \in Preds : clock[l][y] \in Nat
  BY BoundedNaturals DEF ClockType
<1>3. clock' = [clock EXCEPT ![p.level][x] = IF c > @ THEN c ELSE @]
  BY DEF Elapsed
<1> HIDE DEF x
<1>4. c <= clock'[p.level][x]
  BY <1>1, <1>2, <1>3 DEF ClockType
<1>5. ClockGrows(clock, clock')
  BY <1>1, <1>2, <1>3 DEF ClockType, ClockGrows
<1> QED BY <1>1, <1>4, <1>5 DEF Reached

\* A prequorum that the worker reports.
LEMMA WorkerGrows ==
    ASSUME CertsType, watch \in QuorumEvent, WorkerQuorumReached
    PROVE  /\ CertsGrow(certs, certs')
           /\ CertifiedBlock(watch.candidate, certs')
<1>1. watch.candidate \in Proposals
  BY DEF QuorumEvent
<1> QED
  BY <1>1, ProposalNumbers
  DEF CertsType, WorkerQuorumReached, MayCertify, CertsGrow, CertifiedBlock

\* A baker that restarts computes a round at least as late as those it knows.
LEMMA RestartsLater ==
    ASSUME ClockType, NEW p \in Proposals, NEW c, compute_round(p, c),
           \A x, y \in Preds : PredRound[x] = PredRound[y],
           NEW round \in Nat, Reached(clock, p.level, round)
    PROVE  round <= c
<1>1. PICK x \in Preds : round <= clock[p.level][x]
  BY DEF Reached
<1>2. predecessor(p) \in Preds /\ p.level \in Levels
  BY PredecessorType, ProposalNumbers
<1>3. PredRound[x] >= PredRound[predecessor(p)]
  BY <1>2, ChainAssumption
<1>4. c >= clock[p.level][x] /\ c \in Nat /\ clock[p.level][x] \in Nat
  BY <1>2, <1>3, BoundedNaturals DEF compute_round, ClockType
<1> QED BY <1>1, <1>4

-----------------------------------------------------------------------------
(* The events.                                                             *)

\* What the step keeps.
StepOK == SInv' /\ LocksStep /\ PreattestStep

\* The baker's own state, with what is added by the step.
LEMMA StateEnters ==
    ASSUME Context, Up
    PROVE  Enters(st)
<1>1. st \in State /\ Good(st)
  BY InvariantParts DEF Context, Up, Good
<1>2. /\ certs \in CertsMap /\ certs' \in CertsMap
      /\ clock \in ClockMap /\ clock' \in ClockMap
  BY DEF Context, IInv, TypeOK, CertsMap, ClockMap
<1>3. SafeState(st, certs, clock, injected, signed)
  BY DEF Context, SInv, SafeState
<1>4. SafeState(st, certs', clock', injected, signed)
  BY <1>1, <1>2, <1>3, SafeStateGrows DEF Context
<1>5. CoveredBy(st)
  BY DEF Context, SInv, CoverInv, CoveredBy
<1>6. Progress(st, st)
  BY <1>1, StateNumbers DEF Progress
<1> QED BY <1>1, <1>4, <1>5, <1>6 DEF Enters

\* A lock that does not go back still covers the attestations.
LEMMA ProgressCovers ==
    ASSUME Context, NEW s \in State, NEW t \in State, CoveredBy(s),
           Progress(s, t)
    PROVE  CoveredBy(t)
<1>1. SUFFICES ASSUME Recorded PROVE CoveredBy(t)
  BY DEF CoveredBy
<1>2. /\ LockCovers(signed, s.current_level, s.locked_round)
      /\ disk # None => disk.level_data <= s.current_level
      /\ SameStart
  BY <1>1 DEF CoveredBy, Recorded
<1>3. signed \subseteq Item
  BY DEF Context, IInv, TypeOK
<1>4. \A x \in signed : x.round \in Nat
  BY <1>3, BoundedNaturals DEF Item
<1> QED
  BY <1>2, <1>3, <1>4, StateNumbers DEF Progress, CoveredBy, LockCovers

\* A step of the interpreter from the running baker's state.
LEMMA RunningKeeps ==
    ASSUME Context, Up, NEW r, GoodResult(r), NEW base, Good(base.st),
           NEW q \in Seq(QuorumEvent), Performs(st, r, base, q),
           \A i \in 1 .. Len(q) : CertifiedBlock(q[i].candidate, certs'),
           Fine(r, certs', clock', injected, signed),
           Reverts(st, r) =>
             SafeState(base.st, certs', clock', injected, signed),
           r.act = "Inject_attestations" => base = r,
           Progress(st, base.st),
           \/ Progress(st, r.st)
           \/ st.current_level < r.st.current_level
    PROVE  StepOK
<1>1. st \in State /\ r.st \in State /\ base.st \in State
  BY DEF Context, Up, IInv, TypeOK, GoodResult, Good
<1>2. CoveredBy(st) /\ CoveredBy(base.st)
  BY <1>1, StateEnters, ProgressCovers DEF Enters
<1>3. CoveredBy(r.st)
  <2>1. CASE st.current_level < r.st.current_level
    <3>1. SUFFICES ASSUME Recorded PROVE CoveredBy(r.st)
      BY DEF CoveredBy
    <3>2. /\ LockCovers(signed, st.current_level, st.locked_round)
          /\ disk # None => disk.level_data <= st.current_level
      BY <3>1 DEF Context, SInv, CoverInv
    <3>3. /\ \A x \in signed : x.level \in Nat
          /\ disk # None => disk.level_data \in Nat
      <4>1. signed \subseteq Item /\ (disk # None => disk \in StateData)
        BY DEF Context, IInv, TypeOK
      <4>2. \A x \in signed : x.level \in Nat
        BY <4>1, BoundsAssumption DEF Item
      <4>3. disk # None => disk.level_data \in Nat
        BY <4>1, BoundedNaturals DEF StateData
      <4> QED BY <4>2, <4>3
    <3> QED
      BY <1>1, <2>1, <3>2, <3>3, StateNumbers DEF CoveredBy, LockCovers
  <2>2. CASE Progress(st, r.st)
    BY <1>1, <1>2, <2>2, ProgressCovers
  <2> QED BY <2>1, <2>2
<1> QED BY <1>2, <1>3, TransitionKeeps DEF StepOK, CoveredBy

\* Where the baker stands when the branch of p could not be entered.
LEMMA LeftOnBranch ==
    ASSUME Context, Up, NEW p \in Proposals, NEW t, Good(t),
           Switches(st, t, p), st.current_level = p.level,
           Arrives(p, certs', clock', injected),
           Calm => p.round <= st.current_round
    PROVE  SafeState(t, certs', clock', injected, signed)
<1>1. Good(st) /\ SafeState(st, certs', clock', injected, signed)
  BY StateEnters DEF Enters
<1>2. certs' \in CertsMap /\ clock' \in ClockMap /\ st \in State /\ t \in State
  BY DEF Context, IInv, TypeOK, CertsMap, ClockMap, Up, Good
<1>3. Safe(t, certs', clock') /\ (AttestableRoundOK(st) => AttestableRoundOK(t))
  BY <1>1, <1>2, SwitchSafe DEF SafeState, Arrives
<1>4. Known(st, t, p)
  BY DEF Switches, Kept, Known
<1>5. Owned(t, injected, signed)
  BY <1>1, <1>2, <1>4, KnownOwned DEF SafeState, Arrives
<1> QED BY <1>1, <1>3, <1>5 DEF SafeState

\* Two branches make OneBranch false.
LEMMA TwoBranches ==
    ASSUME NEW p \in Proposals, NEW o \in Proposals,
           predecessor(p) # predecessor(o)
    PROVE  ~OneBranch
BY PredecessorType DEF OneBranch

\* A new head or a new valid block, its level or branch entered.
LEMMA OnProposalKeeps ==
    ASSUME Context, Up, NEW p \in Proposals, NEW r, GoodResult(r),
           NEW applied \in BOOLEAN, perform_on_proposal(st, r, applied, p),
           EventOutcome(st, r, p, certs', clock', injected, signed),
           Arrives(p, certs', clock', injected),
           \A i \in 1 .. Len(qcs) : CertifiedBlock(qcs[i].candidate, certs')
    PROVE  StepOK
<1>1. /\ Good(st) /\ SafeState(st, certs', clock', injected, signed)
      /\ Progress(st, st) /\ st \in State
  BY StateEnters DEF Enters, Good
<1>2. /\ certs' \in CertsMap /\ clock' \in ClockMap /\ Good(r.st)
      /\ qcs \in Seq(QuorumEvent) /\ r.st \in State
  BY DEF Context, IInv, TypeOK, CertsMap, ClockMap, GoodResult, Good
<1>3. CASE /\ r.act \notin {"Update_to_level", "Synchronize_round"}
           /\ perform_action(st, r, r, qcs)
  <2>1. /\ Fine(r, certs', clock', injected, signed) /\ Progress(st, r.st)
    BY <1>3 DEF EventOutcome
  <2>2. Performs(st, r, r, qcs)
    BY <1>3, PerformsView
  <2>3. SafeState(r.st, certs', clock', injected, signed)
    BY <2>1 DEF Fine, SafeState
  <2> QED BY <1>2, <2>1, <2>2, <2>3, RunningKeeps
<1>4. ASSUME NEW c \in Rounds, r.act = "Update_to_level", compute_round(p, c),
             perform_action(st, update_to_level(applied, p, c), r, qcs)
      PROVE  StepOK
  <2> DEFINE u == update_to_level(applied, p, c)
  <2>1. st.current_level < p.level /\ Still(st, r.st)
    BY <1>4 DEF EventOutcome
  <2>2. FirstLevel => p.level # ActivationLevel
    BY <1>1, <2>1, StateNumbers, ProposalNumbers, BoundsAssumption
    DEF FirstLevel, Levels
  <2>3. GoodResult(u) /\ c >= p.round
    BY <1>4, UpdateToLevelGood DEF compute_round
  <2>4. /\ Fine(u, certs', clock', injected, signed)
        /\ u.st.current_level = p.level /\ u.st.locked_round = None
    BY <1>2, <2>2, <2>3, UpdateToLevelFine
  <2>5. Performs(st, u, r, qcs)
    BY <1>4, PerformsView
  <2> HIDE DEF u
  <2>6. u.act # "Inject_attestations"
    <3>1. [payload |-> u.on.payload, round |-> u.on.round] \in LockedRound
      BY <2>3, ProposalNumbers DEF GoodResult, LockedRound
    <3> QED BY <2>4, <3>1, NoneAssumption DEF Fine, VoteOK
  <2>7. Quiet(st, r.st)
    BY <2>1 DEF Still, Kept, Quiet
  <2>8. /\ SafeState(r.st, certs', clock', injected, signed)
        /\ Progress(st, r.st)
    BY <1>1, <2>7, QuietSafe
  <2> QED
    BY <1>2, <2>1, <2>3, <2>4, <2>5, <2>6, <2>8, RunningKeeps
<1>5. ASSUME NEW c \in Rounds, r.act = "Synchronize_round",
             compute_round(p, c),
             perform_action(st, synchronize_round(applied, r.st, p, c), r,
                            qcs)
      PROVE  StepOK
  <2> DEFINE u == synchronize_round(applied, r.st, p, c)
  <2>1. st.current_level = p.level /\ Switches(st, r.st, p)
    BY <1>5 DEF EventOutcome
  <2>2. GoodResult(u) /\ c >= p.round
    BY <1>2, <1>5, SynchronizeRoundGood DEF compute_round
  <2>3. Fine(u, certs', clock', injected, signed) /\ Progress(st, u.st)
    BY <1>1, <1>2, <2>1, <2>2, SynchronizeFine
  <2>4. /\ u.act # "Inject_attestations" /\ Kept(st, u.st)
        /\ u.st.attestable_payload =
             IF p.pqc # NoPqc THEN [proposal |-> p, pqc |-> p.pqc] ELSE None
    BY <1>1, <1>2, <2>1, <2>2, SynchronizeSafe DEF SafeState, Arrives
  <2>5. Performs(st, u, r, qcs)
    BY <1>5, PerformsView
  <2> HIDE DEF u
  <2>6. Calm /\ Reverts(st, u) => p.round <= st.current_round
    <3>1. SUFFICES ASSUME Calm, Reverts(st, u)
                   PROVE  p.round <= st.current_round
      OBVIOUS
    <3>2. ~OneBranch
      BY <1>1, <2>1, TwoBranches, StateNumbers DEF Switches
    <3>3. ~is_new_state_consistent(st, u.st)
      BY <3>1, <3>2 DEF Calm, Reverts
    <3>4. ~is_new_attestable_payload_consistent(st, u.st)
      BY <1>1, <2>4, <3>3, StateNumbers
      DEF is_new_state_consistent, is_new_locked_round_consistent, Kept
    <3>5. /\ st.attestable_payload # None
          /\ st.attestable_payload.pqc < p.pqc
      BY <2>1, <3>4 DEF is_new_attestable_payload_consistent, Switches
    <3>6. p.pqc # NoPqc
      BY <1>1, <3>5, StateNumbers, ProposalNumbers DEF NoPqc
    <3>7. u.st.attestable_payload = [proposal |-> p, pqc |-> p.pqc]
      BY <2>4, <3>6
    <3>8. u.st.attestable_payload # None
      BY <3>6, <3>7, ProposalNumbers, NoneAssumption DEF AttestablePayload
    <3>9. ~(p.round >= st.attestable_payload.proposal.round)
      BY <3>4, <3>7, <3>8 DEF is_new_attestable_payload_consistent
    <3>10. st.attestable_payload.proposal.round <= st.current_round
      BY <1>1, <3>1, <3>5 DEF SafeState, AttestableRoundOK
    <3> QED
      BY <1>1, <3>5, <3>9, <3>10, StateNumbers, ProposalNumbers
  <2>7. Reverts(st, u) => SafeState(r.st, certs', clock', injected, signed)
    BY <1>2, <2>1, <2>6, LeftOnBranch
  <2>8. Progress(st, r.st)
    BY <1>1, <1>2, <2>1, ProposalProgress
  <2> QED
    BY <1>2, <2>2, <2>3, <2>4, <2>5, <2>7, <2>8, RunningKeeps
<1>6. CASE /\ r.act \in {"Update_to_level", "Synchronize_round"}
           /\ Fault("sync", st, r, qcs)
           /\ UNCHANGED <<hwm, signed, injected>>
  <2>1. /\ qcs' \in {qcs, <<>>} /\ disk' \in {disk, state_data(r.st)}
        /\ \/ st' = None /\ "crash" \in Faults /\ disk' = disk
           \/ st' = r.st /\ "sync" \in Faults
    BY <1>6, FaultView
  <2>2. CASE st' = None /\ "crash" \in Faults /\ disk' = disk
    <3> DEFINE n == do_nothing(st)
    <3>1. n.st = st /\ n.act = "Do_nothing" /\ GoodResult(n)
      BY <1>1, DoNothingGood DEF do_nothing, Result
    <3> HIDE DEF n
    <3>2. Performs(st, n, n, qcs)
      BY <1>6, <2>1, <2>2 DEF Performs
    <3>3. Fine(n, certs', clock', injected, signed)
      BY <1>1, <3>1 DEF Fine, SafeState, VoteOK
    <3> QED BY <1>1, <1>2, <3>1, <3>2, <3>3, RunningKeeps
  <2>3. CASE st' = r.st /\ "sync" \in Faults
    <3>1. /\ SafeState(r.st, certs', clock', injected, signed)
          /\ Progress(st, r.st)
      <4>1. CASE r.act = "Update_to_level"
        <5>1. Quiet(st, r.st)
          BY <4>1 DEF EventOutcome, Still, Kept, Quiet
        <5> QED BY <1>1, <5>1, QuietSafe
      <4>2. CASE r.act = "Synchronize_round"
        <5>1. st.current_level = p.level /\ Switches(st, r.st, p)
          BY <4>2 DEF EventOutcome
        <5>2. ~OneBranch
          BY <1>1, <5>1, TwoBranches, StateNumbers DEF Switches
        <5>3. ~Calm
          BY <2>3, <5>2 DEF Calm
        <5> QED BY <1>1, <1>2, <5>1, <5>3, LeftOnBranch, ProposalProgress
      <4> QED BY <1>6, <4>1, <4>2
    <3> DEFINE n == do_nothing(r.st)
    <3>2. n.st = r.st /\ n.act = "Do_nothing" /\ GoodResult(n)
      BY <1>2, DoNothingGood DEF do_nothing, Result
    <3> HIDE DEF n
    <3>3. Performs(st, n, n, qcs)
      BY <1>6, <2>1, <2>3, <3>2 DEF Performs
    <3>4. Fine(n, certs', clock', injected, signed)
      BY <3>1, <3>2 DEF Fine, SafeState, VoteOK
    <3> QED BY <1>2, <3>1, <3>2, <3>3, <3>4, RunningKeeps
  <2> QED BY <2>1, <2>2, <2>3
<1> QED BY <1>3, <1>4, <1>5, <1>6 DEF perform_on_proposal

-----------------------------------------------------------------------------
(* Signatures and injected blocks are never taken back.                    *)

\* By an action of the interpreter on a proposal, and time passes.
LEMMA OnProposalGrows ==
    ASSUME ClockType, NEW prev, NEW r, NEW applied, NEW p \in Proposals,
           perform_on_proposal(prev, r, applied, p)
    PROVE  /\ ClockGrows(clock, clock') /\ Reached(clock', p.level, p.round)
           /\ signed \subseteq signed' /\ injected' = injected
<1>1. ASSUME NEW x, NEW y, perform_action(prev, x, y, qcs)
      PROVE  signed \subseteq signed' /\ injected' = injected
  BY <1>1, PerformsView DEF Performs
<1>2. signed \subseteq signed' /\ injected' = injected
  BY <1>1 DEF perform_on_proposal
<1>3. PICK c \in Rounds : c >= p.round /\ Elapsed(p, c)
  BY ProposalNumbers DEF perform_on_proposal, compute_round
<1>4. ClockGrows(clock, clock') /\ Reached(clock', p.level, c)
  BY <1>3, ElapsedGrows
<1>5. clock' \in ClockMap
  BY <1>3, ElapsedType DEF ClockMap, ClockType
<1>6. Reached(clock', p.level, p.round)
  BY <1>3, <1>4, <1>5, ReachedBelow, ProposalNumbers, BoundedNaturals
<1> QED BY <1>2, <1>4, <1>6

\* By a proposal.
LEMMA ProposeFreshGrows ==
    ASSUME NEW prev, NEW s, NEW q, NEW d, NEW level, NEW round, NEW payloads,
           propose_fresh_block_action(prev, s, q, d, level, round, payloads)
    PROVE  signed \subseteq signed' /\ injected \subseteq injected'
<1>1. ASSUME NEW base, NEW u, NEW b, inject_block(prev, base, q, u, b)
      PROVE  injected \subseteq injected'
  BY <1>1 DEF inject_block
<1>2. ASSUME NEW base, NEW u, NEW b, Forge_and_inject(prev, base, q, u, d, b)
      PROVE  signed \subseteq signed' /\ injected \subseteq injected'
  BY <1>1, <1>2 DEF Forge_and_inject, ForgeFails, ForgeSignedBlock
<1> QED BY <1>1, <1>2 DEF propose_fresh_block_action

\* The same at the current level.
LEMMA ProposeBlockGrows ==
    ASSUME NEW prev, NEW s, NEW q, NEW d, NEW round,
           propose_block_action(prev, s, q, d, round)
    PROVE  signed \subseteq signed' /\ injected \subseteq injected'
<1>1. ASSUME NEW base, NEW u, NEW b, Forge_and_inject(prev, base, q, u, d, b)
      PROVE  signed \subseteq signed' /\ injected \subseteq injected'
  BY <1>1 DEF Forge_and_inject, ForgeFails, ForgeSignedBlock, inject_block
<1> QED BY <1>1, ProposeFreshGrows DEF propose_block_action

\* At the end of a round.
LEMMA EndOfRoundGrows ==
    ASSUME ClockType, NEW prev, Good(prev), NEW r, r + 1 \in Rounds, NEW q,
           end_of_round(prev, r, q)
    PROVE  /\ ClockGrows(clock, clock')
           /\ Reached(clock', prev.latest_proposal.level, r + 1)
           /\ signed \subseteq signed' /\ injected \subseteq injected'
<1>1. Elapsed(prev.latest_proposal, r + 1) /\ prev.latest_proposal \in Proposals
  BY DEF end_of_round, Good, State
<1>2. ASSUME NEW x, NEW y, perform_action(prev, x, y, q)
      PROVE  signed \subseteq signed' /\ injected' = injected
  BY <1>2, PerformsView DEF Performs
<1>3. signed \subseteq signed' /\ injected \subseteq injected'
  BY <1>2, ProposeBlockGrows DEF end_of_round
<1> QED BY <1>1, <1>3, ElapsedGrows

\* What the stream says stays true.
LEMMA StreamGrows ==
    ASSUME NEW q \in Seq(QuorumEvent), NEW C, NEW D, CertsGrow(C, D),
           \A i \in 1 .. Len(q) : CertifiedBlock(q[i].candidate, C)
    PROVE  \A i \in 1 .. Len(q) : CertifiedBlock(q[i].candidate, D)
<1>1. SUFFICES ASSUME NEW i \in 1 .. Len(q)
               PROVE  CertifiedBlock(q[i].candidate, D)
  OBVIOUS
<1>2. q[i] \in QuorumEvent
  OBVIOUS
<1>3. q[i].candidate \in Proposals
  BY <1>2 DEF QuorumEvent
<1> QED
  BY <1>3, ProposalNumbers DEF CertsGrow, CertifiedBlock

-----------------------------------------------------------------------------
(* One lemma per event of the loop.                                        *)

\* The part of Context that is about the node's head, when it stays.
LEMMA SameHead ==
    ASSUME IInv, IInv', SInv, head' = head, CertsGrow(certs, certs'),
           ClockGrows(clock, clock'), signed \subseteq signed',
           injected \subseteq injected'
    PROVE  Context
<1>1. CertifiedPqc(head, certs')
  BY ProposalNumbers DEF IInv, TypeOK, SInv, CertifiedPqc, CertsGrow
<1>2. Own(head, injected')
  BY DEF SInv, Own
<1> QED BY <1>1, <1>2 DEF Context

\* The node's head changes.
LEMMA NewHeadKeeps ==
    ASSUME IInv, IInv', SInv, NEW p \in Proposals, NewHead(p)
    PROVE  StepOK
<1> DEFINE r == step_New_head_proposal(st, p)
<1>1. Up /\ Good(st) /\ ClockType /\ CertsType /\ qcs \in Seq(QuorumEvent)
  BY InvariantParts DEF NewHead, Up, ProposerOK, WorkerOK
<1>2. GoodResult(r)
  BY <1>1, StepGood
<1>3. /\ CertsGrow(certs, certs') /\ CertifiedPqc(p, certs')
      /\ Own(p, injected)
  BY <1>1, ReceivedGrows DEF NewHead
<1>4. /\ perform_on_proposal(st, r, TRUE, p) /\ head' = p
  BY DEF NewHead
<1>5. /\ ClockGrows(clock, clock') /\ Reached(clock', p.level, p.round)
      /\ signed \subseteq signed' /\ injected' = injected
  BY <1>1, <1>4, OnProposalGrows
<1>6. Context
  BY <1>3, <1>4, <1>5 DEF Context
<1>7. Arrives(p, certs', clock', injected)
  BY <1>3, <1>5 DEF Arrives
<1>8. SafeState(st, certs', clock', injected, signed)
  BY <1>1, <1>6, StateEnters DEF Enters
<1>9. certs' \in CertsMap /\ clock' \in ClockMap
  BY DEF IInv, TypeOK, CertsMap, ClockMap
<1>10. EventOutcome(st, r, p, certs', clock', injected, signed)
  BY <1>1, <1>7, <1>8, <1>9, ProposalEvents
<1>11. \A i \in 1 .. Len(qcs) : CertifiedBlock(qcs[i].candidate, certs')
  BY <1>1, <1>3, StreamGrows DEF SInv
<1> HIDE DEF r
<1> QED
  BY <1>1, <1>2, <1>4, <1>6, <1>7, <1>10, <1>11, OnProposalKeeps

\* The node validated a block.
LEMMA NewValidKeeps ==
    ASSUME IInv, IInv', SInv, NEW p \in Proposals, NewValid(p)
    PROVE  StepOK
<1> DEFINE r == step_New_valid_proposal(st, p)
<1>1. Up /\ Good(st) /\ ClockType /\ CertsType /\ qcs \in Seq(QuorumEvent)
  BY InvariantParts DEF NewValid, Up, ProposerOK, WorkerOK
<1>2. GoodResult(r)
  BY <1>1, StepGood
<1>3. /\ CertsGrow(certs, certs') /\ CertifiedPqc(p, certs')
      /\ Own(p, injected)
  BY <1>1, ReceivedGrows DEF NewValid
<1>4. /\ perform_on_proposal(st, r, FALSE, p) /\ head' = head
  BY DEF NewValid
<1>5. /\ ClockGrows(clock, clock') /\ Reached(clock', p.level, p.round)
      /\ signed \subseteq signed' /\ injected' = injected
  BY <1>1, <1>4, OnProposalGrows
<1>6. Context
  BY <1>3, <1>4, <1>5, SameHead
<1>7. Arrives(p, certs', clock', injected)
  BY <1>3, <1>5 DEF Arrives
<1>8. SafeState(st, certs', clock', injected, signed)
  BY <1>1, <1>6, StateEnters DEF Enters
<1>9. certs' \in CertsMap /\ clock' \in ClockMap
  BY DEF IInv, TypeOK, CertsMap, ClockMap
<1>10. EventOutcome(st, r, p, certs', clock', injected, signed)
  BY <1>1, <1>7, <1>8, <1>9, ProposalEvents
<1>11. \A i \in 1 .. Len(qcs) : CertifiedBlock(qcs[i].candidate, certs')
  BY <1>1, <1>3, StreamGrows DEF SInv
<1> HIDE DEF r
<1> QED
  BY <1>1, <1>2, <1>4, <1>6, <1>7, <1>10, <1>11, OnProposalKeeps

\* A round ends.
LEMMA EndOfRoundEventKeeps ==
    ASSUME IInv, IInv', SInv, EndOfRound
    PROVE  StepOK
<1>1. /\ Up /\ Good(st) /\ st \in State /\ ClockType /\ CertsType
      /\ qcs \in Seq(QuorumEvent)
  BY InvariantParts DEF EndOfRound, Up, ProposerOK, WorkerOK, Good
<1>2. st.current_round \in Int /\ st.current_round + 1 \in Rounds
  BY <1>1, BoundsAssumption DEF EndOfRound, State, Rounds
<1>3. /\ end_of_round(st, st.current_round, qcs) /\ head' = head
      /\ certs' = certs
  BY DEF EndOfRound
<1>4. /\ CertsGrow(certs, certs') /\ ClockGrows(clock, clock')
      /\ signed \subseteq signed' /\ injected \subseteq injected'
  BY <1>1, <1>2, <1>3, EndOfRoundGrows, NothingGrows
<1>5. Context
  BY <1>3, <1>4, SameHead
<1>6. Enters(st)
  BY <1>1, <1>5, StateEnters
<1>7. st.current_round <= st.current_round + 1
  BY <1>2
<1>8. EarlierPqc(st, st.current_round + 1)
  BY <1>1, StateNumbers DEF SInv, Safe, RoundOK, EarlierPqc
<1>9. \A i \in 1 .. Len(qcs) : CertifiedBlock(qcs[i].candidate, certs')
  BY <1>3 DEF SInv
<1> DEFINE c == st.current_round
<1>10. /\ c \in Int /\ c + 1 \in Rounds /\ end_of_round(st, c, qcs)
       /\ st.current_round <= c + 1 /\ EarlierPqc(st, c + 1)
  BY <1>2, <1>3, <1>7, <1>8
<1> HIDE DEF c
<1> QED
  BY <1>1, <1>5, <1>6, <1>9, <1>10, EndOfRoundKeeps DEF StepOK

\* A block is forged ahead of its time.
LEMMA ForgeBlockKeeps ==
    ASSUME IInv, IInv', SInv, TimeToForgeBlock
    PROVE  StepOK
<1> DEFINE d    == round_proposer(st, "Next", 0)
           idle == update_current_phase(st, "Idle")
           base == [st |-> st, fresh |-> FALSE]
           b(y) == [level |-> st.current_level + 1, round |-> 0,
                    payload |-> y, pqc |-> NoPqc]
           kept(y) == [idle EXCEPT !.next_forged_block =
                         [block |-> b(y), on |-> st.elected_block.proposal]]
<1>1. /\ Up /\ Good(st) /\ st \in State /\ ClockType /\ CertsType
      /\ qcs \in Seq(QuorumEvent)
  BY InvariantParts DEF TimeToForgeBlock, Up, ProposerOK, WorkerOK, Good
<1>2. /\ head' = head /\ certs' = certs /\ clock' = clock
      /\ injected' = injected /\ st.elected_block # None
  BY DEF TimeToForgeBlock, compute_next_potential_baking_time_at_next_level
<1>3. PICK y \in Payloads :
        \/ ForgeFails(st, base, qcs, d, b(y))
        \/ /\ ForgeSignedBlock(d, b(y)) /\ st' = kept(y)
           /\ UNCHANGED <<disk, watch, qcs>>
  BY DEF TimeToForgeBlock
<1> DEFINE f == b(y)
           k == kept(y)
<1>4. /\ f.level = st.current_level + 1 /\ f.round = 0 /\ f.pqc = NoPqc
      /\ Proposer[f.level][f.round] = d
  BY DEF round_proposer
<1>5. FirstLevel => f.level # ActivationLevel
  BY <1>1, <1>4, StateNumbers, BoundsAssumption DEF FirstLevel, Levels
<1>6. /\ k.current_level = st.current_level
      /\ k.latest_proposal = st.latest_proposal
      /\ k.locked_round = st.locked_round
      /\ k.attestable_payload = st.attestable_payload
      /\ k.elected_block = st.elected_block
      /\ k.current_round = st.current_round
      /\ k.current_phase = "Idle"
      /\ k.next_forged_block = [block |-> f, on |-> st.elected_block.proposal]
      /\ k \in State
  <2>1. /\ idle \in State
        /\ idle.current_level = st.current_level
        /\ idle.latest_proposal = st.latest_proposal
        /\ idle.locked_round = st.locked_round
        /\ idle.attestable_payload = st.attestable_payload
        /\ idle.elected_block = st.elected_block
        /\ idle.current_round = st.current_round
        /\ idle.current_phase = "Idle"
    BY <1>1 DEF update_current_phase, State, Phases
  <2>2. b(y) \in Blocks
    <3>1. st.current_level + 1 \in 1 .. MaxLevel + 1 /\ 0 \in Rounds
      BY <1>1, BoundsAssumption DEF State, Levels, Rounds
    <3> QED BY <3>1, BoundsAssumption DEF Blocks, Headers, NoPqc
  <2>3. st.elected_block.proposal \in Proposals
    BY <1>1, <1>2 DEF State, ElectedBlock
  <2> HIDE DEF idle, b
  <2>4. k \in State
    BY <2>1, <2>2, <2>3 DEF State, SignedBlock
  <2> QED BY <2>1, <2>4 DEF State
<1>7. \/ ForgeFails(st, base, qcs, d, f)
      \/ /\ ForgeSignedBlock(d, f) /\ st' = k
         /\ UNCHANGED <<disk, watch, qcs>>
  BY <1>3
<1>8. base.st = st
  OBVIOUS
<1> HIDE DEF f, k, d, base
<1>9. /\ signed \subseteq signed'
      /\ \A x \in signed' \ signed : x.kind = "block" /\ x.level = f.level
  BY <1>7, ForgeFailsView, ForgeSignedView
<1>10. Context
  BY <1>1, <1>2, <1>9, NothingGrows, SameHead
<1>11. Enters(st)
  BY <1>1, <1>10, StateEnters
<1>12. \A i \in 1 .. Len(qcs) : CertifiedBlock(qcs[i].candidate, certs')
  BY <1>2 DEF SInv
<1>13. CASE ForgeFails(st, base, qcs, d, f)
  <2>1. Proposes(st, qcs, f)
    BY <1>2, <1>8, <1>9, <1>13, ForgeFailsView DEF Proposes
  <2> QED
    BY <1>1, <1>2, <1>5, <1>10, <1>11, <1>12, <2>1, ProposalKeeps
    DEF Enters, StepOK
<1>14. CASE /\ ForgeSignedBlock(d, f) /\ st' = k
            /\ UNCHANGED <<disk, watch, qcs>>
  <2>1. SignedFor(f, signed')
    BY <1>4, <1>14, ForgeSignedView
  <2>2. SafeState(st, certs', clock', injected, signed)
    BY <1>11 DEF Enters
  <2>3. SafeState(k, certs', clock', injected', signed')
    <3>1. ForgedOK(k)
      BY <1>2, <1>4, <1>6 DEF ForgedOK
    <3>2. FirstOK(k) /\ WaitsOK(k)
      BY <1>6, <2>2 DEF SafeState, Safe, FirstOK, WaitsOK
    <3>3. /\ SameStart => LockRoundOK(k)
          /\ Calm => RoundOK(k)
          /\ Calm => AttestableRoundOK(k)
      BY <1>6, <2>2
      DEF SafeState, Safe, LockRoundOK, RoundOK, AttestableRoundOK
    <3>4. Owned(k, injected', signed')
      BY <1>2, <1>6, <2>1, <2>2 DEF SafeState, Owned
    <3> QED BY <1>6, <2>2, <3>1, <3>2, <3>3, <3>4 DEF SafeState, Safe
  <2>4. StateOK /\ DiskOK /\ NewInjectedOK
    BY <1>2, <1>14, <2>3 DEF StateOK, DiskOK, NewInjectedOK
  <2>5. NewSignedOK
    BY <1>5, <1>9 DEF NewSignedOK
  <2>7. DeathOK
    BY <1>6, <1>14, NoneAssumption DEF DeathOK
  <2>8. StreamOK
    BY <1>12, <1>14 DEF StreamOK
  <2>9. CoverOK
    <3>1. LockCovers(signed', st'.current_level, st'.locked_round)
            <=> LockCovers(signed, st.current_level, st.locked_round)
      BY <1>6, <1>9, <1>14 DEF LockCovers
    <3> QED
      BY <1>6, <1>9, <1>11, <1>14, <3>1 DEF CoverOK, Enters, CoveredBy
  <2>10. LocksStep /\ PreattestStep
    <3>1. Progress(st, k)
      BY <1>1, <1>6, StateNumbers DEF Progress
    <3> QED BY <1>9, <1>14, <3>1 DEF LocksStep, PreattestStep
  <2> QED
    BY <1>10, <2>4, <2>5, <2>7, <2>8, <2>9, <2>10, Conclude DEF StepOK
<1> QED BY <1>7, <1>13, <1>14

\* A block of the next level is proposed.
LEMMA BakeNextLevelKeeps ==
    ASSUME IInv, IInv', SInv, NEW r \in Rounds, TimeToBakeNextLevel(r)
    PROVE  StepOK
<1> DEFINE d == round_proposer(st, "Next", r)
           n == [st EXCEPT !.next_level_proposed_round = r]
           l == st.current_level + 1
<1>1. /\ Up /\ Good(st) /\ st \in State /\ ClockType /\ CertsType
      /\ qcs \in Seq(QuorumEvent)
  BY InvariantParts DEF TimeToBakeNextLevel, Up, ProposerOK, WorkerOK, Good
<1>2. /\ head' = head /\ certs' = certs /\ clock' = clock
      /\ propose_fresh_block_action(st, n, qcs, d, l, r, Payloads)
  BY DEF TimeToBakeNextLevel
<1>3. n \in State /\ Good(n) /\ Quiet(st, n)
  <2>1. n \in State
    BY <1>1 DEF State
  <2> QED BY <1>1, <2>1 DEF Good, Sound, Quiet, State
<1>4. Proposer[l][r] = d
  BY DEF round_proposer
<1>5. FirstLevel => l # ActivationLevel
  BY <1>1, StateNumbers, BoundsAssumption DEF FirstLevel, Levels
<1> HIDE DEF d, n, l
<1>6. signed \subseteq signed' /\ injected \subseteq injected'
  BY <1>2, ProposeFreshGrows
<1>7. Context
  BY <1>1, <1>2, <1>6, NothingGrows, SameHead
<1>8. Enters(st)
  BY <1>1, <1>7, StateEnters
<1>9. SafeState(n, certs', clock', injected, signed) /\ Progress(st, n)
  BY <1>1, <1>3, <1>8, QuietSafe DEF Enters
<1>10. CoveredBy(n)
  BY <1>1, <1>3, <1>7, <1>8, <1>9, ProgressCovers DEF Enters
<1>11. \A i \in 1 .. Len(qcs) : CertifiedBlock(qcs[i].candidate, certs')
  BY <1>2 DEF SInv
<1> QED
  BY <1>1, <1>2, <1>3, <1>4, <1>5, <1>7, <1>9, <1>10, <1>11,
     ProposeFreshKeeps DEF StepOK

\* A quorum event is taken from the stream.
LEMMA QuorumEventKeeps ==
    ASSUME IInv, IInv', SInv, ConsumeQuorumEvent
    PROVE  StepOK
<1> DEFINE e == Head(qcs)
           q == Tail(qcs)
           r == step_Quorum_event(st, e.kind, e.candidate)
<1>1. /\ Up /\ Good(st) /\ st \in State /\ ClockType /\ CertsType
      /\ qcs \in Seq(QuorumEvent) /\ qcs # <<>>
  BY InvariantParts DEF ConsumeQuorumEvent, Up, ProposerOK, WorkerOK, Good
<1>2. /\ head' = head /\ certs' = certs /\ clock' = clock
      /\ perform_action(st, r, r, q)
  BY DEF ConsumeQuorumEvent
<1>3. e \in QuorumEvent /\ q \in Seq(QuorumEvent) /\ e = qcs[1]
      /\ 1 \in 1 .. Len(qcs)
  BY <1>1
<1>4. \A i \in 1 .. Len(q) : q[i] = qcs[i + 1] /\ i + 1 \in 1 .. Len(qcs)
  BY <1>1
<1>5. /\ CertifiedBlock(e.candidate, certs')
      /\ \A i \in 1 .. Len(q) : CertifiedBlock(q[i].candidate, certs')
  <2> HIDE DEF e, q
  <2> QED BY <1>2, <1>3, <1>4 DEF SInv
<1> HIDE DEF e, q
<1>6. GoodResult(r)
  BY <1>1, <1>3, StepGood DEF QuorumEvent
<1>7. Performs(st, r, r, q)
  BY <1>2, PerformsView
<1>8. signed \subseteq signed' /\ injected \subseteq injected'
  BY <1>7 DEF Performs
<1>9. Context
  BY <1>1, <1>2, <1>8, NothingGrows, SameHead
<1>10. SafeState(st, certs', clock', injected, signed)
  BY <1>1, <1>9, StateEnters DEF Enters
<1>11. certs' \in CertsMap /\ clock' \in ClockMap
  BY DEF IInv, TypeOK, CertsMap, ClockMap
<1>12. Fine(r, certs', clock', injected, signed) /\ Progress(st, r.st)
  BY <1>1, <1>3, <1>5, <1>10, <1>11, QuorumEventFine
<1> HIDE DEF r
<1>13. SafeState(r.st, certs', clock', injected, signed) /\ Good(r.st)
  BY <1>6, <1>12 DEF Fine, SafeState, GoodResult
<1> QED
  BY <1>1, <1>3, <1>5, <1>6, <1>7, <1>9, <1>12, <1>13, RunningKeeps

\* The worker reports a quorum.
LEMMA WorkerKeeps ==
    ASSUME IInv, IInv', SInv, WorkerQuorumReached
    PROVE  StepOK
<1>1. /\ ClockType /\ CertsType /\ qcs \in Seq(QuorumEvent)
      /\ watch \in QuorumEvent
  BY InvariantParts DEF WorkerQuorumReached, ProposerOK, WorkerOK
<1>2. /\ st' = st /\ disk' = disk /\ signed' = signed /\ injected' = injected
      /\ head' = head /\ clock' = clock /\ qcs' = Append(qcs, watch)
  BY DEF WorkerQuorumReached
<1>3. CertsGrow(certs, certs') /\ CertifiedBlock(watch.candidate, certs')
  BY <1>1, WorkerGrows
<1>4. Context
  BY <1>1, <1>2, <1>3, NothingGrows, SameHead
<1>5. StreamOK
  <2>1. \A i \in 1 .. Len(qcs) : CertifiedBlock(qcs[i].candidate, certs')
    BY <1>1, <1>3, StreamGrows DEF SInv
  <2>2. \A i \in 1 .. Len(qcs') : \/ i \in 1 .. Len(qcs) /\ qcs'[i] = qcs[i]
                                  \/ qcs'[i] = watch
    BY <1>1, <1>2
  <2> QED BY <1>3, <2>1, <2>2 DEF StreamOK
<1>6. Up => Enters(st)
  BY <1>4, StateEnters
<1>7. StateOK /\ LocksStep
  BY <1>2, <1>6 DEF StateOK, LocksStep, Up, Enters
<1>8. DiskOK /\ NewSignedOK /\ NewInjectedOK /\ PreattestStep
  BY <1>2 DEF DiskOK, NewSignedOK, NewInjectedOK, PreattestStep
<1>9. CoverOK /\ DeathOK
  BY <1>2 DEF SInv, CoverInv, CoverOK, DeathOK, Up
<1> QED BY <1>4, <1>5, <1>7, <1>8, <1>9, Conclude DEF StepOK

\* The worker's thread ends.
LEMMA WorkerStopsKeeps ==
    ASSUME IInv, IInv', SInv, WorkerStops
    PROVE  StepOK
<1>1. /\ ClockType /\ CertsType /\ qcs \in Seq(QuorumEvent)
  BY InvariantParts DEF ProposerOK, WorkerOK
<1>2. /\ st' = st /\ disk' = disk /\ signed' = signed /\ injected' = injected
      /\ head' = head /\ clock' = clock /\ qcs' = qcs /\ certs' = certs
  BY DEF WorkerStops
<1>3. Context
  BY <1>1, <1>2, NothingGrows, SameHead
<1>4. StreamOK
  BY <1>2 DEF StreamOK, SInv
<1>5. Up => Enters(st)
  BY <1>3, StateEnters
<1>6. StateOK /\ LocksStep
  BY <1>2, <1>5 DEF StateOK, LocksStep, Up, Enters
<1>7. DiskOK /\ NewSignedOK /\ NewInjectedOK /\ PreattestStep
  BY <1>2 DEF DiskOK, NewSignedOK, NewInjectedOK, PreattestStep
<1>8. CoverOK /\ DeathOK
  BY <1>2 DEF SInv, CoverInv, CoverOK, DeathOK, Up
<1> QED BY <1>3, <1>4, <1>6, <1>7, <1>8, Conclude DEF StepOK

\* The process dies.
LEMMA CrashKeeps ==
    ASSUME IInv, IInv', SInv, Crash
    PROVE  StepOK
<1>1. ClockType /\ CertsType
  BY InvariantParts
<1>2. /\ st' = None /\ disk' = disk /\ signed' = signed
      /\ injected' = injected /\ head' = head /\ clock' = clock
      /\ certs' = certs /\ qcs' = <<>> /\ "crash" \in Faults
  BY DEF Crash, Dies
<1>3. Context
  BY <1>1, <1>2, NothingGrows, SameHead
<1>4. StateOK /\ LocksStep /\ StreamOK
  BY <1>2 DEF StateOK, LocksStep, StreamOK
<1>5. DiskOK /\ NewSignedOK /\ NewInjectedOK /\ PreattestStep
  BY <1>2 DEF DiskOK, NewSignedOK, NewInjectedOK, PreattestStep
<1>6. CoverOK /\ DeathOK
  BY <1>2 DEF CoverOK, DeathOK
<1> QED BY <1>3, <1>4, <1>5, <1>6, Conclude DEF StepOK

\* The node goes on without the baker.
LEMMA NodeAdvancesKeeps ==
    ASSUME IInv, IInv', SInv, NEW p \in Proposals, NodeAdvances(p)
    PROVE  StepOK
<1>1. ClockType /\ CertsType /\ qcs \in Seq(QuorumEvent)
  BY InvariantParts DEF ProposerOK, WorkerOK
<1>2. /\ st = None /\ st' = None /\ disk' = disk /\ signed' = signed
      /\ injected' = injected /\ head' = p /\ qcs' = qcs
      /\ Received(p) /\ Elapsed(p, p.round)
  BY DEF NodeAdvances, Up
<1>3. /\ CertsGrow(certs, certs') /\ CertifiedPqc(p, certs')
      /\ Own(p, injected) /\ ClockGrows(clock, clock')
  BY <1>1, <1>2, ReceivedGrows, ElapsedGrows, ProposalNumbers
<1>4. Context
  BY <1>2, <1>3 DEF Context
<1>5. StreamOK
  BY <1>1, <1>2, <1>3, StreamGrows DEF StreamOK, SInv
<1>6. StateOK /\ LocksStep
  BY <1>2 DEF StateOK, LocksStep
<1>7. DiskOK /\ NewSignedOK /\ NewInjectedOK /\ PreattestStep
  BY <1>2 DEF DiskOK, NewSignedOK, NewInjectedOK, PreattestStep
<1>8. CoverOK /\ DeathOK
  BY <1>2 DEF CoverOK, DeathOK
<1> QED BY <1>4, <1>5, <1>6, <1>7, <1>8, Conclude DEF StepOK

\* A slot of ours whose block was injected may not be signed for again.
LEMMA InjectedNotSignedAgain ==
    ASSUME IInv, SInv, NEW p \in Proposals, Own(p, injected),
           Proposer[p.level][p.round] # None
    PROVE  ~may_sign(hwm["block"], Proposer[p.level][p.round], p.level,
                     p.round)
<1>1. SignedFor(p, signed)
  BY DEF Own, SInv, InjectedOK
<1>2. PICK x \in signed : /\ x.kind = "block" /\ x.level = p.level
                          /\ x.round = p.round
                          /\ x.delegate = Proposer[p.level][p.round]
  BY <1>1 DEF SignedFor
<1> DEFINE m == hwm["block"][x.delegate]
<1>3. m # None /\ Covers(m, p.level, p.round)
  BY <1>2 DEF IInv, MarksCoverSigned
<1>4. x.delegate \in Delegates /\ hwm \in [Kinds -> HighwatermarkMap]
  BY DEF IInv, TypeOK, Item
<1>5. m \in Highwatermark
  BY <1>3, <1>4 DEF HighwatermarkMap, Kinds
<1>6. p.level \in Nat /\ p.round \in Nat /\ m.level \in Nat /\ m.round \in Nat
  BY <1>5, ProposalNumbers, BoundedNaturals, BoundsAssumption
  DEF Highwatermark, Rounds
<1> HIDE DEF m
<1>7. ~may_sign(hwm["block"], x.delegate, p.level, p.round)
  BY <1>3, <1>6 DEF may_sign, Covers, m
<1> QED BY <1>2, <1>7

\* A restart: from the file that was read, on the node's head.
LEMMA RestartEnters ==
    ASSUME Context, ~Up, NEW c \in Rounds, compute_round(head, c),
           NEW file \in {disk, None}, file = disk \/ "read" \in Faults,
           "lag" \notin Faults /\ disk # None => disk.level_data <= head.level,
           Reached(clock', head.level, head.round), certs' = certs
    PROVE  LET i == create_initial_state(head, c, file)
           IN  Enters(i) /\ EarlierPqc(i, c) /\ i.current_round = c
               /\ i.latest_proposal = head
               /\ Arrives(head, certs', clock', injected)
<1> DEFINE i == create_initial_state(head, c, file)
<1>0. IInv /\ SInv /\ ClockType /\ head \in Proposals /\ c >= head.round
  BY InvariantParts DEF Context, compute_round
<1>1. /\ certs' \in CertsMap /\ clock' \in ClockMap
      /\ certs \in CertsMap /\ clock \in ClockMap
  BY DEF Context, IInv, TypeOK, CertsMap, ClockMap
<1>2. Arrives(head, certs', clock', injected)
  BY <1>0 DEF SInv, Arrives
<1>3. /\ disk # None => disk \in StateData /\ SoundData(disk)
      /\ disk # None => /\ SafeData(disk, certs, clock)
                        /\ OwnedAttestable(disk.attestable_payload_data,
                                           injected)
  BY <1>0, InvariantParts DEF SInv
<1>4. disk # None => SafeData(disk, certs', clock')
  BY <1>1, <1>3, DataGrows DEF Context
<1>5. SameStart /\ file # None /\ file.level_data = head.level =>
        /\ file.locked_round_data # None => file.locked_round_data.round <= c
        /\ file.attestable_payload_data # None =>
             /\ file.attestable_payload_data.pqc <= c
             /\ file.attestable_payload_data.proposal.round <= c
  <2>1. SUFFICES ASSUME SameStart, disk # None, disk.level_data = head.level
                 PROVE
        /\ disk.locked_round_data # None => disk.locked_round_data.round <= c
        /\ disk.attestable_payload_data # None =>
             /\ disk.attestable_payload_data.pqc <= c
             /\ disk.attestable_payload_data.proposal.round <= c
    OBVIOUS
  <2>2. \A x, y \in Preds : PredRound[x] = PredRound[y]
    BY <1>0, <2>1 DEF SInv, SameStart
  <2>3. disk \in StateData /\ SafeData(disk, certs, clock)
    BY <1>3, <2>1
  <2>4. /\ disk.locked_round_data # None =>
             /\ disk.locked_round_data.round \in Nat
             /\ Reached(clock, head.level, disk.locked_round_data.round)
        /\ disk.attestable_payload_data # None =>
             /\ disk.attestable_payload_data.pqc \in Nat
             /\ disk.attestable_payload_data.proposal.round \in Nat
             /\ Reached(clock, head.level, disk.attestable_payload_data.pqc)
             /\ Reached(clock, head.level,
                        disk.attestable_payload_data.proposal.round)
    BY <2>1, <2>3, BoundedNaturals, ProposalNumbers
    DEF StateData, LockedRound, AttestablePayload, SafeData, TimelyLock,
        TimelyAttestable
  <2> QED BY <1>0, <2>2, <2>4, RestartsLater
<1>6. Good(i)
  BY <1>0, <1>3, InitialStateGood
<1>7. SafeState(i, certs', clock', injected, signed)
  BY <1>0, <1>1, <1>2, <1>3, <1>4, <1>5, InitialFine
<1>8. /\ i.current_level = head.level /\ i.latest_proposal = head
      /\ i.current_round = c
      /\ i.locked_round = IF file # None /\ file.level_data = head.level
                          THEN file.locked_round_data ELSE None
  BY <1>0, <1>3, InitialFields
<1> HIDE DEF i
<1>9. CoveredBy(i)
  <2>1. SUFFICES ASSUME Recorded
                 PROVE  /\ LockCovers(signed, head.level, i.locked_round)
                        /\ disk # None => disk.level_data <= head.level
    BY <1>8 DEF CoveredBy
  <2>2. /\ file = disk /\ (disk # None => disk.level_data <= head.level)
        /\ disk # None => "crash" \in Faults
    BY <1>0, <2>1 DEF Recorded, SInv
  <2>3. LockCovers(signed, head.level, i.locked_round)
    <3>1. CASE disk = None
      BY <1>0, <2>1, <3>1 DEF SInv, CoverInv, LockCovers
    <3>2. CASE disk # None
      <4>1. LockCovers(signed, disk.level_data, disk.locked_round_data)
        BY <1>0, <2>1, <2>2, <3>2 DEF SInv, CoverInv
      <4>2. disk.level_data \in Nat /\ head.level \in Nat
        BY <1>0, <1>3, <3>2, BoundedNaturals, ProposalNumbers DEF StateData
      <4>3. \A x \in signed : x.level \in Nat
        <5>1. signed \subseteq Item
          BY <1>0 DEF IInv, TypeOK
        <5> QED BY <5>1, BoundsAssumption DEF Item
      <4>4. CASE disk.level_data = head.level
        BY <1>8, <2>2, <3>2, <4>1, <4>4
      <4>5. CASE disk.level_data < head.level
        BY <4>1, <4>2, <4>3, <4>5 DEF LockCovers
      <4> QED BY <2>2, <3>2, <4>2, <4>4, <4>5
    <3> QED BY <3>1, <3>2
  <2> QED BY <2>2, <2>3
<1>10. EarlierPqc(i, c)
  <2>1. SUFFICES ASSUME Calm, i.attestable_payload # None,
                        Proposer[i.current_level][c] # None,
                        may_sign(hwm["block"], Proposer[i.current_level][c],
                                 i.current_level, c)
                 PROVE  i.attestable_payload.pqc < c
    BY DEF EarlierPqc
  <2> DEFINE ap == i.attestable_payload
  <2>2. /\ ap.pqc \in Nat /\ ap.proposal \in Proposals
        /\ ap.proposal.round \in Nat /\ c \in Nat
    BY <1>6, <2>1, StateNumbers, BoundedNaturals DEF Good
  <2>3. /\ ap.pqc <= ap.proposal.round /\ Own(ap.proposal, injected)
        /\ ap.proposal.round <= c /\ ap.proposal.level = i.current_level
    BY <1>7, <1>8, <2>1
    DEF SafeState, Safe, Owned, OwnedAttestable, AttestableRoundOK,
        CertifiedAttestable
  <2>4. ap.proposal.round # c
    BY <1>0, <2>1, <2>2, <2>3, InjectedNotSignedAgain
  <2> QED BY <2>2, <2>3, <2>4
<1>11. Enters(i)
  BY <1>6, <1>7, <1>9 DEF Enters
<1> QED BY <1>2, <1>8, <1>10, <1>11 DEF i

\* The baker starts again.
LEMMA StartKeeps ==
    ASSUME IInv, IInv', SInv, Start
    PROVE  StepOK
<1>1. PICK c \in Rounds, file \in {disk, None} :
        /\ compute_round(head, c)
        /\ file = disk \/ "read" \in Faults
        /\ LET init == create_initial_state(head, c, file)
               r    == step_New_head_proposal(init, head)
           IN  \/ /\ head.round = c
                  /\ perform_action(init, r, r, <<>>)
                  /\ Elapsed(head, c)
               \/ /\ head.round # c
                  /\ end_of_round(init, c - 1, <<>>)
  BY DEF Start
<1> DEFINE i == create_initial_state(head, c, file)
           r == step_New_head_proposal(i, head)
<1>2. /\ ~Up /\ head' = head /\ certs' = certs /\ head \in Proposals
      /\ "lag" \notin Faults /\ disk # None => disk.level_data <= head.level
      /\ ClockType /\ CertsType
  BY InvariantParts DEF Start
<1>3. Good(i) /\ i.latest_proposal = head
  <2>1. Good(i)
    BY <1>2, InvariantParts, InitialStateGood
  <2>2. i.latest_proposal = head
    BY <1>2, InvariantParts, InitialFields
  <2> QED BY <2>1, <2>2
<1>4. c \in Nat /\ c - 1 \in Int /\ (c - 1) + 1 = c /\ head.round \in Nat
      /\ c >= head.round
  BY <1>1, <1>2, BoundedNaturals, ProposalNumbers DEF compute_round
<1> DEFINE q == <<>>
<1>5. \/ /\ head.round = c /\ perform_action(i, r, r, q)
         /\ Elapsed(head, c)
      \/ end_of_round(i, c - 1, q)
  BY <1>1
<1>5a. /\ q \in Seq(QuorumEvent)
       /\ \A j \in 1 .. Len(q) : CertifiedBlock(q[j].candidate, certs')
  OBVIOUS
<1> HIDE DEF i, r, q
<1>6. /\ ClockGrows(clock, clock') /\ Reached(clock', head.level, c)
      /\ signed \subseteq signed' /\ injected \subseteq injected'
  <2>1. CASE perform_action(i, r, r, q) /\ Elapsed(head, c)
    BY <1>2, <2>1, PerformsView, ElapsedGrows DEF Performs
  <2>2. CASE end_of_round(i, c - 1, q)
    BY <1>2, <1>3, <1>4, <2>2, EndOfRoundGrows
  <2> QED BY <1>5, <2>1, <2>2
<1>7. certs' \in CertsMap /\ clock' \in ClockMap
  BY DEF IInv, TypeOK, CertsMap, ClockMap
<1>8. Reached(clock', head.level, head.round)
  BY <1>2, <1>4, <1>6, <1>7, ReachedBelow, ProposalNumbers
<1>9. Context
  BY <1>2, <1>6, NothingGrows, SameHead
<1>10. /\ Enters(i) /\ EarlierPqc(i, c) /\ i.current_round = c
       /\ Arrives(head, certs', clock', injected)
  BY <1>1, <1>2, <1>8, <1>9, RestartEnters DEF i
<1>12. CASE perform_action(i, r, r, q)
  <2>1. GoodResult(r)
    BY <1>2, <1>3, StepGood DEF r
  <2>2. EventOutcome(i, r, head, certs', clock', injected, signed)
    BY <1>2, <1>3, <1>7, <1>10, ProposalEvents DEF r, Enters
  <2>3. r.act \notin {"Update_to_level", "Synchronize_round"}
    BY <1>12
    DEF perform_action, Do_nothing, Watch_proposal, Inject_preattestations,
        Inject_attestations
  <2>4. Fine(r, certs', clock', injected, signed) /\ Progress(i, r.st)
    BY <2>2, <2>3 DEF EventOutcome
  <2>5. Performs(i, r, r, q)
    BY <1>12, PerformsView
  <2>6. SafeState(r.st, certs', clock', injected, signed)
    BY <2>4 DEF Fine, SafeState
  <2>7. CoveredBy(r.st)
    BY <1>3, <1>9, <1>10, <2>1, <2>4, ProgressCovers
    DEF Enters, GoodResult, Good
  <2> QED
    BY <1>2, <1>9, <1>5a, <2>1, <2>4, <2>5, <2>6, <2>7, TransitionKeeps
    DEF StepOK, GoodResult, CoveredBy
<1>13. CASE end_of_round(i, c - 1, q)
  <2> DEFINE k == c - 1
  <2>1. /\ k \in Int /\ k + 1 = c /\ end_of_round(i, k, q)
        /\ i.current_round <= c
    BY <1>4, <1>10, <1>13
  <2> HIDE DEF k
  <2> QED
    BY <1>9, <1>10, <1>5a, <2>1, EndOfRoundKeeps DEF StepOK
<1> QED BY <1>5, <1>12, <1>13

-----------------------------------------------------------------------------
(* The second invariant, and what it says of every behaviour.              *)

\* One step per event of the loop.
LEMMA SafetyStep == ASSUME IInv, SInv, [Next]_vars PROVE StepOK
<1>1. IInv'
  BY NextKeeps
<1>2. CASE UNCHANGED vars
  <2>1. SInv'
    BY <1>2
    DEF vars, SInv, Up, SignedOK, InjectedOK, CoverInv, LockCovers
  <2>2. LocksStep
    <3>1. Up => st \in State
      BY DEF Up, IInv, TypeOK
    <3> QED BY <1>2, <3>1, StateNumbers DEF vars, LocksStep, Progress
  <2>3. PreattestStep
    BY <1>2 DEF vars, PreattestStep
  <2> QED BY <2>1, <2>2, <2>3 DEF StepOK
<1> QED
  BY <1>1, <1>2, NewHeadKeeps, NewValidKeeps, EndOfRoundEventKeeps,
     ForgeBlockKeeps, BakeNextLevelKeeps, QuorumEventKeeps, WorkerKeeps,
     WorkerStopsKeeps, CrashKeeps, NodeAdvancesKeeps, StartKeeps
  DEF Next

\* Nothing is known, signed or injected at first.
LEMMA InitSInv == Init => SInv
<1> SUFFICES ASSUME Init PROVE SInv
  OBVIOUS
<1>1. /\ st = None /\ disk = None /\ signed = {} /\ injected = {}
      /\ qcs = <<>> /\ head \in Proposals /\ head.level = 1
      /\ head.round = 0 /\ Proposer[1][0] = None
  BY DEF Init
<1>2. CertifiedPqc(head, certs)
  BY <1>1, ProposalNumbers DEF CertifiedPqc, NoPqc
<1>3. Own(head, injected)
  BY <1>1 DEF Own
<1> QED
  BY <1>1, <1>2, <1>3 DEF SInv, Up, SignedOK, InjectedOK, CoverInv

\* The locks, the attestable payloads, the file and the signed votes agree
\* with the prequorums and with the clock in every reachable state.
THEOREM SafetyInvariance == Spec => [](IInv /\ SInv)
<1>1. IInv /\ SInv /\ [Next]_vars => (IInv /\ SInv)'
  BY NextKeeps, SafetyStep DEF StepOK
<1> QED BY <1>1, InitIInv, InitSInv, PTL DEF Spec

\* Votes and blocks of ours that carry a prequorum carry a genuine one,
\* whatever fails, crashes or is delivered late.
CertifiedPayloads ==
    /\ \A x \in signed :
          x.kind = "attestation" => certs[x.level][x.round] = x.payload
    /\ \A b \in injected : b.pqc # NoPqc => certs[b.level][b.pqc] = b.payload

\* Only a payload with a prequorum at its round is attested, and a block
\* proposed again carries a prequorum for its own payload, under every fault.
THEOREM PayloadsCertified == Spec => []CertifiedPayloads
<1>1. IInv /\ SInv => CertifiedPayloads
  BY DEF SInv, SignedOK, InjectedOK, CertifiedPayloads
<1> QED BY <1>1, SafetyInvariance, PTL

\* Moreover the prequorum is of an earlier round than the block, when a level
\* has one branch, or entering another branch never fails half-way.
THEOREM PrequorumsGenuine ==
    ASSUME Calm PROVE Spec => []PrequorumsAreGenuine
<1>1. IInv /\ SInv => PrequorumsAreGenuine
  BY DEF SInv, SignedOK, InjectedOK, PrequorumsAreGenuine
<1> QED BY <1>1, SafetyInvariance, PTL

\* The block forged ahead of its time extends the elected block.
THEOREM ForgedOnElected == Spec => []ForgedExtendsElected
<1>1. IInv /\ SInv => ForgedExtendsElected
  BY DEF SInv, Safe, ForgedOK, ForgedExtendsElected
<1> QED BY <1>1, SafetyInvariance, PTL

\* The first block of the protocol is left alone and final, when it is the
\* block of the level at which the baker starts its life, or before it.
THEOREM FirstBlockFinal ==
    ASSUME FirstLevel PROVE Spec => []FirstBlockIsFinal
<1>1. IInv /\ SInv => FirstBlockIsFinal
  BY DEF SInv, SignedOK, Safe, FirstOK, FirstBlockIsFinal
<1> QED BY <1>1, SafetyInvariance, PTL

\* The baker waits for votes on a proposal of its round, when a level has
\* only one branch.
THEOREM WaitsInItsRound ==
    ASSUME OneBranch PROVE Spec => []WaitsInCurrentRound
<1>1. IInv /\ SInv => WaitsInCurrentRound
  BY DEF SInv, Safe, WaitsOK, WaitsInCurrentRound
<1> QED BY <1>1, SafetyInvariance, PTL

\* The lock covers the attestations of the level through crashes and
\* restarts with --record-state, when the file is read back and the node is not
\* behind it; and without crashes in the default configuration too.
THEOREM LockCoversVotes ==
    ASSUME Recorded PROVE Spec => []LockCoversAttestations
<1>1. IInv /\ SInv => LockCoversAttestations
  <2>1. SUFFICES ASSUME IInv, SInv, Up, NEW x \in signed,
                        x.kind = "attestation", x.level = st.current_level
                 PROVE  /\ st.locked_round # None
                        /\ st.locked_round.round >= x.round
                        /\ st.locked_round.round = x.round
                             => st.locked_round.payload = x.payload
    BY DEF LockCoversAttestations
  <2>2. st.locked_round # None /\ x.round <= st.locked_round.round
    BY <2>1 DEF SInv, CoverInv, LockCovers
  <2>3. st \in State /\ x \in Item
    BY <2>1 DEF IInv, TypeOK, Up
  <2>4. x.round \in Nat /\ st.locked_round.round \in Nat
    BY <2>2, <2>3, StateNumbers, BoundedNaturals DEF Item
  <2>5. /\ certs[x.level][x.round] = x.payload
        /\ certs[st.current_level][st.locked_round.round]
             = st.locked_round.payload
    BY <2>1, <2>2 DEF SInv, SignedOK, Safe, CertifiedLock
  <2> QED BY <2>1, <2>2, <2>4, <2>5
<1> QED BY <1>1, SafetyInvariance, PTL

\* Neither lock nor attestable prequorum goes back within a level, and a
\* running baker does not go back a level, whatever the node shows.
THEOREM NoRegress ==
    ASSUME SameStart PROVE Spec => LocksNeverRegress
<1> DEFINE Step ==
      Up /\ st' # None =>
         /\ st'.current_level >= st.current_level
         /\ st'.current_level = st.current_level =>
              /\ st.locked_round # None =>
                   /\ st'.locked_round # None
                   /\ st'.locked_round.round >= st.locked_round.round
              /\ st.attestable_payload # None =>
                   /\ st'.attestable_payload # None
                   /\ st'.attestable_payload.pqc >= st.attestable_payload.pqc
<1>1. IInv /\ SInv /\ [Next]_vars => [Step]_vars
  <2>1. SUFFICES ASSUME IInv, SInv, [Next]_vars, Up, st' # None
                 PROVE  Step
    OBVIOUS
  <2>2. Progress(st, st') \/ st.current_level < st'.current_level
    BY <2>1, SafetyStep DEF StepOK, LocksStep
  <2>3. st \in State /\ st' \in State
    BY <2>1, NextKeeps DEF Up, IInv, TypeOK
  <2> QED BY <2>2, <2>3, StateNumbers DEF Progress
<1> HIDE DEF Step
<1>2. Spec => [][Step]_vars
  BY <1>1, SafetyInvariance, PTL DEF Spec
<1> QED BY <1>2 DEF LocksNeverRegress, Step

\* The locking rule of Tenderbake, through crashes and restarts with
\* --record-state, and without crashes in the default configuration: a
\* delegate that attested a payload preattests another one at a later round
\* only when that one got a prequorum in between.
THEOREM PreattestsByTheRule ==
    ASSUME Calm, Recorded PROVE Spec => PreattestRule
<1> DEFINE Step ==
      \A v \in signed' \ signed : v.kind = "preattestation" =>
         \A x \in signed :
           (/\ x.kind = "attestation" /\ x.level = v.level
            /\ x.round < v.round /\ x.payload # v.payload) =>
              \E q \in x.round + 1 .. v.round :
                  certs'[v.level][q] = v.payload
<1>1. IInv /\ SInv /\ [Next]_vars => [Step]_vars
  BY SafetyStep DEF StepOK, PreattestStep
<1> HIDE DEF Step
<1>2. Spec => [][Step]_vars
  BY <1>1, SafetyInvariance, PTL DEF Spec
<1> QED BY <1>2 DEF PreattestRule, Step
=============================================================================
