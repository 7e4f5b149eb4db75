-------------------------- MODULE StateTransitions --------------------------
(***************************************************************************)
(* The transition function of the baker's automaton                        *)
(* (state_transitions.ml), as operators under their source names.  A       *)
(* transition returns                                                      *)
(*   st    - the new state,                                                *)
(*   act   - the action the interpreter must perform,                      *)
(*   on    - the proposal the action is about,                             *)
(*   fresh - whether it rebuilt the level, the lock or the attestable      *)
(*           payload: the recorder compares them with physical equality.   *)
(***************************************************************************)
EXTENDS BakingState

Result(s, act, on, fresh) ==
    [st |-> s, act |-> act, on |-> on, fresh |-> fresh]

do_nothing(s) == Result(s, "Do_nothing", s.latest_proposal, FALSE)

is_acceptable_proposal_for_current_level(s, p) ==
    CASE s.current_round < p.round -> "Invalid"
      [] s.current_round > p.round -> "Outdated_proposal"
      [] OTHER ->
           IF /\ p.round = s.latest_proposal.round
              /\ p # s.latest_proposal
              /\ predecessor(p) = predecessor(s.latest_proposal)
           THEN "Invalid"
           ELSE "Valid_proposal"

update_proposal(applied, s, p) ==
    [s EXCEPT !.latest_proposal = p,
              !.is_latest_proposal_applied =
                    applied \/ (s.latest_proposal = p /\ @)]

may_update_proposal(applied, s, p) ==
    IF s.latest_proposal.round < p.round
    THEN update_proposal(applied, s, p)
    ELSE s

preattest(s, p, fresh) ==
    IF is_first_block_in_protocol(p)
    THEN Result(update_current_phase(s, "Idle"), "Do_nothing", p, fresh)
    ELSE Result(update_current_phase(s, "Awaiting_preattestations"),
                "Inject_preattestations", p, fresh)

\* Mutant of has_better_internal_pqc: an absent prequorum counts as one.
Mut_has_better_internal_pqc(s, p) ==
    s.attestable_payload = None \/ p.pqc >= s.attestable_payload.pqc

\* The proposal's own prequorum is at least as recent as the one we know.
has_better_internal_pqc(s, p) ==
    /\ p.pqc # NoPqc
    /\ \/ s.attestable_payload = None
       \/ p.pqc >= s.attestable_payload.pqc

may_update_attestable_payload_with_internal_pqc(s, p) ==
    IF has_better_internal_pqc(s, p)
    THEN [s EXCEPT !.attestable_payload = [proposal |-> p, pqc |-> p.pqc]]
    ELSE s

may_update_is_latest_proposal_applied(applied, s, p) ==
    IF applied /\ s.latest_proposal = p
    THEN [s EXCEPT !.is_latest_proposal_applied = TRUE]
    ELSE s

has_already_been_handled(s, p) ==
    s.latest_proposal = p /\ s.is_latest_proposal_applied

may_preattest(s, p, fresh) ==
    IF s.current_phase = "Idle"
    THEN preattest(s, p, fresh)
    ELSE Result(s, "Do_nothing", p, fresh)

\* The lock lets us preattest p: none, same payload, or an older one than
\* the prequorum p carries.
lock_allows(s, p) ==
    \/ s.locked_round = None
    \/ s.locked_round.payload = p.payload
    \/ s.locked_round.round < p.pqc

\* A proposal of the current level and branch.
handle_proposal_on_branch(applied, s, p) ==
    LET fresh == has_better_internal_pqc(s, p)
        new   == may_update_proposal(
                   applied,
                   may_update_attestable_payload_with_internal_pqc(s, p), p)
        acceptance == is_acceptable_proposal_for_current_level(s, p)
    IN  CASE acceptance = "Invalid" -> do_nothing(s)
          [] acceptance = "Outdated_proposal" ->
               Result(new, "Do_nothing", p, fresh)
          [] OTHER ->
               IF lock_allows(new, p)
               THEN may_preattest(new, p, fresh)
               ELSE Result(
                      update_current_phase(new, "Awaiting_preattestations"),
                      "Watch_proposal", p, fresh)

\* Mutant of may_switch_branch: the other branch is always followed.
Mut_may_switch_branch(applied, s, p) ==
    Result(update_proposal(applied, s, p), "Synchronize_round", p, FALSE)

\* A proposal of the current level on another branch: we follow it unless we
\* hold a prequorum that is at least as recent as its own.
may_switch_branch(applied, s, p) ==
    IF s.attestable_payload = None \/ s.attestable_payload.pqc < p.pqc
    THEN Result(update_proposal(applied, s, p), "Synchronize_round", p, FALSE)
    ELSE do_nothing(s)

handle_proposal(applied, state, p) ==
    LET s == may_update_is_latest_proposal_applied(applied, state, p)
    IN  CASE s.current_level > p.level -> do_nothing(s)
          [] s.current_level < p.level ->
               Result(s, "Update_to_level", p, FALSE)
          [] OTHER ->
               IF predecessor(p) # predecessor(s.latest_proposal)
               THEN may_switch_branch(applied, s, p)
               ELSE handle_proposal_on_branch(applied, s, p)

\* The fresh state of a new level, at the round the clock shows.
compute_new_state(applied, p, round) ==
    [ current_level              |-> p.level,
      latest_proposal            |-> p,
      is_latest_proposal_applied |-> applied,
      locked_round               |-> None,
      attestable_payload         |-> None,
      elected_block              |-> None,
      next_level_proposed_round  |-> None,
      next_forged_block          |-> None,
      current_round              |-> round,
      current_phase              |-> "Idle",
      delayed_quorum             |-> None ]

update_to_level(applied, p, round) ==
    LET r == handle_proposal_on_branch(
               applied, compute_new_state(applied, p, round), p)
    IN  [r EXCEPT !.fresh = TRUE]

\* Mutant of synchronize_round: the phase is not reset.
Mut_synchronize_round(applied, s, p, round) ==
    handle_proposal_on_branch(
        applied, [s EXCEPT !.current_round = round, !.delayed_quorum = None], p)

synchronize_round(applied, s, p, round) ==
    handle_proposal_on_branch(
        applied,
        [s EXCEPT !.current_round = round,
                  !.current_phase = "Idle",
                  !.delayed_quorum = None],
        p)

update_locked_round(s, round, payload) ==
    [s EXCEPT !.locked_round = [payload |-> payload, round |-> round]]

\* Mutant of lock_and_attest: a known attestable payload is never replaced.
Mut_lock_and_attest(s) ==
    LET latest == s.latest_proposal
        attestable ==
            IF s.attestable_payload = None
            THEN [s EXCEPT !.attestable_payload =
                              [proposal |-> latest, pqc |-> latest.round]]
            ELSE s
    IN  Result([update_locked_round(attestable, latest.round, latest.payload)
                EXCEPT !.current_phase = "Awaiting_attestations"],
               "Inject_attestations", latest, TRUE)

\* The latest proposal becomes attestable, unless a more recent prequorum is
\* known, and it becomes the lock in any case.
lock_and_attest(s) ==
    LET latest == s.latest_proposal
        attestable ==
            IF \/ s.attestable_payload = None
               \/ s.attestable_payload.pqc < latest.round
            THEN [s EXCEPT !.attestable_payload =
                              [proposal |-> latest, pqc |-> latest.round]]
            ELSE s
        locked == update_locked_round(attestable, latest.round, latest.payload)
    IN  Result(update_current_phase(locked, "Awaiting_attestations"),
               "Inject_attestations", latest, TRUE)

prequorum_reached_when_awaiting_preattestations(s, candidate) ==
    IF candidate # s.latest_proposal
    THEN do_nothing(s)
    ELSE lock_and_attest(s)

\* A quorum elects the latest proposal, at once or when it is applied.
elect(s, candidate) ==
    do_nothing(
      IF s.is_latest_proposal_applied
      THEN [s EXCEPT !.elected_block = [proposal |-> s.latest_proposal,
                                        qc |-> candidate],
                     !.current_phase = "Idle"]
      ELSE [s EXCEPT !.current_phase = "Awaiting_application",
                     !.delayed_quorum = candidate])

\* Mutant of quorum_reached_when_waiting_attestations: a later quorum
\* replaces the elected block.
Mut_quorum_replaces_elected(s, candidate) ==
    IF candidate # s.latest_proposal
    THEN do_nothing(s)
    ELSE elect(s, candidate)

quorum_reached_when_waiting_attestations(s, candidate) ==
    IF candidate # s.latest_proposal \/ s.elected_block # None
    THEN do_nothing(s)
    ELSE elect(s, candidate)

\* The block whose quorum came early is applied.  Without an elected block
\* the level state is rebuilt from the one of before the flag was set.
handle_expected_applied_proposal(s) ==
    do_nothing(
      IF s.elected_block = None
      THEN [s EXCEPT !.elected_block = [proposal |-> s.latest_proposal,
                                        qc |-> s.delayed_quorum],
                     !.current_phase = "Idle"]
      ELSE [s EXCEPT !.is_latest_proposal_applied = TRUE,
                     !.current_phase = "Idle"])

-----------------------------------------------------------------------------
(* The dispatch of step on the events that carry a block or a quorum.      *)

step_New_head_proposal(s, p) ==
    IF s.current_phase = "Awaiting_application" /\ s.latest_proposal = p
    THEN handle_expected_applied_proposal(s)
    ELSE handle_proposal(TRUE, s, p)

step_New_valid_proposal(s, p) ==
    IF s.current_phase # "Idle" /\ has_already_been_handled(s, p)
    THEN do_nothing(s)
    ELSE handle_proposal(FALSE, s, p)

step_Quorum_event(s, kind, candidate) ==
    CASE kind = "Prequorum_reached"
           /\ s.current_phase = "Awaiting_preattestations" ->
               prequorum_reached_when_awaiting_preattestations(s, candidate)
      [] kind = "Quorum_reached"
           /\ s.current_phase = "Awaiting_attestations" ->
               quorum_reached_when_waiting_attestations(s, candidate)
      [] OTHER -> do_nothing(s)

=============================================================================
