------------------------------ MODULE Diagnosis ------------------------------
(***************************************************************************)
(* diagnose(): a report on a request, made without the store's guard while *)
(* other threads commit (diagnostic.py), out of the checks of              *)
(* Runtime.evaluate (runtime.py, governance.py) and the assessments of     *)
(* claims (integrity.py).  Every reading of the relationship's state is a  *)
(* step of its own.  The relationships and requests are those the          *)
(* comparison experiment builds from a scenario (harness.py), extended by  *)
(* a host's governance, a second context claim, a requester who is no      *)
(* participant and evidence about the claims.                              *)
(*                                                                         *)
(* Only what the checks read of the projection is kept.  RENEWING and      *)
(* TRANSFORMING are read as ACTIVE is, DORMANT as DISSOLVING.  Reasons,    *)
(* suggested checks, references and times are left out.                    *)
(***************************************************************************)
EXTENDS Naturals, Sequences, FiniteSets

CONSTANTS
    Purposes,
    NoPurpose,      \* purpose=None
    Primary, Other, \* claims: of the scenario, of the host
    NoClaim,        \* a check is about no claim
    Asks,           \* the calls of diagnose: scenario and what the host adds
    MaxCommits      \* bound on the commits of other threads

Claims == {Primary, Other}
Kinds == {"CORRECTION", "CONTRADICTION", "PRIOR_KNOWLEDGE", "FABRICATED_PROVENANCE",
          "MATERIAL_OMISSION", "REPEATED_PATTERN"}
Outcomes == {"ALLOW", "BLOCK", "REQUIRE_CONSENT", "PAUSE", "ESCALATE", "DEFER"}
Truth == {"none", "true", "false"}      \* an observation is absent, True, False

Evidence ==
    [host_authentication : Truth, external_authority_current : Truth,
     reversibility : Truth \union {"other"},
     permission_state : {"active", "revoked", "missing"},
     permission_purpose : Purposes \union {NoPurpose},
     required_purpose : Purposes \union {NoPurpose},
     consent_required : BOOLEAN,
     consent_state : {"active", "revoked", "missing", "not_required"},
     lifecycle : {"FORMING", "ACTIVE", "RESTING"},
     claim_status : {"none", "active", "contested"}]

\* governance is the host's engine: "core" or one that always decides the same.
Ask == [given : Evidence, participant : BOOLEAN, other : BOOLEAN,
        governance : {"core", "ALLOW", "ESCALATE", "DEFER"},
        integrity : [Claims -> SUBSET Kinds], busy : BOOLEAN]

ASSUME DiagnosisAssumption ==
    /\ NoPurpose \notin Purposes
    /\ Primary # Other /\ NoClaim \notin Claims
    /\ Asks \subseteq Ask
    /\ MaxCommits \in Nat

VARIABLES
    ask,            \* the call
    rels,           \* the relationship's state after each commit
    stage,          \* where diagnose() is
    base,           \* index of the state it has read first
    todo,           \* the checks left
    toAssess,       \* the claims left to assess
    findings,       \* decisions so far
    conditions,     \* assessments so far
    report          \* << >> or the report in a sequence

diagnosisVars == <<ask, rels, stage, base, todo, toAssess, findings, conditions, report>>

Lifecycles == {"FORMING", "ACTIVE", "RESTING", "DISSOLVING", "DISSOLVED"}
Working == {"FORMING", "ACTIVE"}
Claim == [status : {"none", "active", "contested"},
          type : {"OBSERVATION", "INFERENCE", "INTERPRETATION", "SHARED_CLAIM"},
          sourced : BOOLEAN, derived : BOOLEAN]
Relationship == [life : Lifecycles, consent : {"missing", "active", "revoked"},
                 act : {"missing", "active", "revoked"}, purpose : Purposes \union {NoPurpose},
                 read : SUBSET Claims, claims : [Claims -> Claim]]
NoRecord == [status |-> "none", type |-> "SHARED_CLAIM", sourced |-> FALSE, derived |-> FALSE]

Now == rels[Len(rels)]
Given == ask.given

-----------------------------------------------------------------------------
\* harness.py: the relationship of a scenario, and the decision its rubric wants.

Built(e, other) ==
    [life |-> e.lifecycle,
     consent |-> IF e.consent_required /\ e.consent_state \in {"active", "revoked"}
                 THEN e.consent_state ELSE "missing",
     act |-> e.permission_state,
     purpose |-> e.permission_purpose,
     read |-> {c \in Claims : IF c = Primary THEN e.claim_status # "none" ELSE other},
     claims |-> [c \in Claims |->
        IF c = Other THEN [NoRecord EXCEPT !.status = IF other THEN "active" ELSE "none"]
        ELSE [status |-> e.claim_status, type |-> "INTERPRETATION",
              sourced |-> FALSE, derived |-> TRUE]]]

Rules(e) == <<
    <<e.host_authentication = "none", "REQUEST_EVIDENCE">>,
    <<e.host_authentication = "false", "DEFER">>,
    <<e.external_authority_current = "none", "REQUEST_EVIDENCE">>,
    <<e.external_authority_current = "false", "DEFER">>,
    <<e.reversibility = "none", "REQUEST_EVIDENCE">>,
    <<e.reversibility = "false", "DEFER">>,
    <<e.claim_status = "contested", "REQUEST_EVIDENCE">>,
    <<e.lifecycle = "RESTING", "DEFER">>,
    <<e.permission_state # "active", "DEFER">>,
    <<e.required_purpose # NoPurpose
        /\ e.permission_purpose \notin {NoPurpose, e.required_purpose}, "DEFER">>,
    <<e.consent_required /\ e.consent_state # "active", "DEFER">> >>

\* rubric_decision: the first rule that matches.
Rubric(e) ==
    LET hits == {i \in 1..11 : Rules(e)[i][1]} IN
    IF hits = {} THEN "EXECUTE"
    ELSE Rules(e)[CHOOSE i \in hits : \A j \in hits : i <= j][2]

-----------------------------------------------------------------------------
\* runtime.py, governance.py: the checks of Runtime.evaluate.

\* Mutant: a requested purpose is compared only when the request has one.
PurposeMatchesRubric(r) == Given.required_purpose = NoPurpose \/ r.purpose \in {NoPurpose, Given.required_purpose}

PurposeMatches(r) == r.purpose \in {NoPurpose, Given.required_purpose}

\* A check of the relationship, about no claim.
About(name) == [name |-> name, claim |-> NoClaim]

\* GovernanceEngine on a state.
Core(check, r) ==
    IF check.name = "lifecycle"
    THEN IF r.life \in Working THEN "ALLOW" ELSE IF r.life = "DISSOLVED" THEN "BLOCK" ELSE "PAUSE"
    ELSE IF check.name \in {"consent floor", "consent"}
    THEN IF r.consent = "active" THEN "ALLOW" ELSE "REQUIRE_CONSENT"
    ELSE IF check.name = "act"
    THEN IF r.life \in Working /\ r.act = "active" /\ PurposeMatches(r) THEN "ALLOW" ELSE "BLOCK"
    ELSE IF r.life # "DISSOLVED" /\ check.claim \in r.read THEN "ALLOW" ELSE "BLOCK"

Host(check, r) == IF ask.governance = "core" THEN Core(check, r) ELSE ask.governance

\* The core is asked first and can only be narrowed; require_consent does so
\* in two readings.
Decide(check, r) ==
    IF check.name = "consent floor" THEN Core(check, r)
    ELSE IF check.name = "consent" \/ Core(check, r) = "ALLOW" THEN Host(check, r)
    ELSE Core(check, r)

Where(primary, other) == (IF primary THEN <<Primary>> ELSE << >>)
                         \o (IF other THEN <<Other>> ELSE << >>)

\* The claims among the context resources of the request.
Requested == Where(Given.claim_status # "none", ask.other)
InContext(c) == \E i \in DOMAIN Requested : Requested[i] = c

\* The checks of Runtime.evaluate, in their order; require_consent makes two.
Agenda ==
    (IF Given.consent_required
     THEN <<About("lifecycle"), About("consent floor"), About("consent"), About("act")>>
     ELSE <<About("lifecycle"), About("act")>>)
    \o [i \in DOMAIN Requested |-> [name |-> "read", claim |-> Requested[i]]]

\* There is evidence about a claim of the context, in the state read first.
Assessable(c, r) == InContext(c) /\ r.claims[c].status # "none" /\ ask.integrity[c] # {}

-----------------------------------------------------------------------------
\* integrity.py

Deceptive(kinds) ==
    \/ "FABRICATED_PROVENANCE" \in kinds
    \/ /\ "PRIOR_KNOWLEDGE" \in kinds
       /\ kinds \intersect {"CONTRADICTION", "MATERIAL_OMISSION"} # {}

\* Mutant: a correction closes the matter.
ConditionCorrected(status, kinds) ==
    CASE "CORRECTION" \in kinds -> "ERROR"
      [] "CORRECTION" \notin kinds /\ Deceptive(kinds) ->
            IF "REPEATED_PATTERN" \in kinds THEN "ADVERSARIAL_MANIPULATION" ELSE "PROBABLE_DECEPTION"
      [] "CORRECTION" \notin kinds /\ ~Deceptive(kinds) ->
            IF "CONTRADICTION" \in kinds THEN "CONTRADICTION"
            ELSE IF status = "contested" THEN "UNCERTAINTY" ELSE "CLEAR"

\* assess_truth_integrity of a claim and the kinds of evidence about it.
Condition(status, kinds) ==
    IF Deceptive(kinds)
    THEN IF "REPEATED_PATTERN" \in kinds THEN "ADVERSARIAL_MANIPULATION" ELSE "PROBABLE_DECEPTION"
    ELSE IF "CONTRADICTION" \in kinds THEN "CONTRADICTION"
    ELSE IF "CORRECTION" \in kinds THEN "ERROR"
    ELSE IF status = "contested" THEN "UNCERTAINTY" ELSE "CLEAR"

Severity(condition) ==
    IF condition = "CLEAR" THEN 0
    ELSE IF condition = "UNCERTAINTY" THEN 1
    ELSE IF condition = "ERROR" THEN 2
    ELSE IF condition = "CONTRADICTION" THEN 3
    ELSE IF condition = "PROBABLE_DECEPTION" THEN 4
    ELSE 5

-----------------------------------------------------------------------------
\* diagnose()

DiagnosisInit ==
    /\ ask \in Asks
    /\ rels = <<Built(ask.given, ask.other)>>
    /\ stage = "call"
    /\ base = 1
    /\ todo = << >> /\ toAssess = << >> /\ findings = << >> /\ conditions = << >> /\ report = << >>

\* state = relationship.state; evidence about claims it does not have is refused.
Snapshot ==
    /\ stage = "call"
    /\ base' = Len(rels)
    /\ IF \E c \in Claims : ask.integrity[c] # {} /\ Now.claims[c].status = "none"
       THEN stage' = "refused" /\ UNCHANGED <<todo, toAssess>>
       ELSE /\ stage' = "checks"
            /\ todo' = Agenda
            /\ toAssess' = Where(Assessable(Primary, Now), Assessable(Other, Now))
    /\ UNCHANGED <<ask, rels, findings, conditions, report>>

Found(check, r) ==
    LET d == Decide(check, r) IN
    IF check.name = "consent floor" /\ d = "ALLOW" THEN << >>
    ELSE IF check.name = "lifecycle" /\ d = "ALLOW" /\ ~ask.participant
    THEN <<[check |-> check, outcome |-> d],
           [check |-> About("participant"), outcome |-> "BLOCK"]>>
    ELSE <<[check |-> check, outcome |-> d]>>

\* Mutant: the checks read the state diagnose() was given at first.
EvaluateBase ==
    LET found == Found(Head(todo), rels[1])
        denied == \E i \in DOMAIN found : found[i].outcome # "ALLOW"
    IN
    /\ stage = "checks" /\ todo # << >>
    /\ findings' = findings \o found
    /\ todo' = IF denied THEN << >> ELSE Tail(todo)
    /\ UNCHANGED <<ask, rels, stage, base, toAssess, conditions, report>>

\* One check, on a new reading; the first that does not allow is the last.
Evaluate ==
    LET found == Found(Head(todo), Now)
        denied == \E i \in DOMAIN found : found[i].outcome # "ALLOW"
    IN
    /\ stage = "checks" /\ todo # << >>
    /\ findings' = findings \o found
    /\ todo' = IF denied THEN << >> ELSE Tail(todo)
    /\ UNCHANGED <<ask, rels, stage, base, toAssess, conditions, report>>

Assess ==
    LET c == Head(toAssess)
        found == Condition(Now.claims[c].status, ask.integrity[c])
    IN
    /\ stage = "checks" /\ todo = << >> /\ toAssess # << >>
    /\ conditions' = Append(conditions, [claim |-> c, condition |-> found])
    /\ toAssess' = Tail(toAssess)
    /\ UNCHANGED <<ask, rels, stage, base, todo, findings, report>>

\* Signals of the context claims, in the state read first, and of observations.
ClaimSignals(r) ==
    {<<"contested_claim_in_context", c>> : c \in
        {x \in Claims : InContext(x) /\ r.claims[x].status = "contested"}}
    \union
    {<<"missing_provenance", c>> : c \in
        {x \in Claims : InContext(x) /\ r.claims[x].status # "none"
                        /\ ~r.claims[x].sourced /\ ~r.claims[x].derived}}

HostSignals ==
    {<<s, NoClaim>> : s \in
        {x \in {"host_authentication", "external_authority_current", "reversibility"} :
            Given[x] = "false"}}

Unknowns ==
    {x \in {"host_authentication", "external_authority_current", "reversibility"} :
        Given[x] = "none"}

Adverse == {conditions[i] : i \in {k \in DOMAIN conditions : conditions[k].condition # "CLEAR"}}

Precedence == <<"BLOCK", "REQUIRE_CONSENT", "PAUSE", "ESCALATE", "DEFER">>

\* Mutant: only the enforced findings count.
SummaryEnforced(outcomes, open) ==
    LET hits == {i \in DOMAIN Precedence : Precedence[i] \in outcomes} IN
    IF hits # {} THEN Precedence[CHOOSE i \in hits : \A j \in hits : i <= j] ELSE "clear"

\* _summary_for, with the outcome for its wording.
Summary(outcomes, open) ==
    LET hits == {i \in DOMAIN Precedence : Precedence[i] \in outcomes} IN
    IF hits # {} THEN Precedence[CHOOSE i \in hits : \A j \in hits : i <= j]
    ELSE IF open THEN "review" ELSE "clear"

Report ==
    LET signals == ClaimSignals(rels[base]) \union HostSignals
                   \union {<<a.condition, a.claim>> : a \in Adverse}
    IN
    /\ stage = "checks" /\ todo = << >> /\ toAssess = << >>
    /\ stage' = "reported"
    /\ report' = <<[summary |-> Summary({findings[i].outcome : i \in DOMAIN findings},
                                        signals # {} \/ Unknowns # {}),
                    signals |-> signals, unknowns |-> Unknowns, end |-> Len(rels)]>>
    /\ UNCHANGED <<ask, rels, base, todo, toAssess, findings, conditions>>

-----------------------------------------------------------------------------
\* Other threads

Commit(r) ==
    /\ ask.busy /\ Len(rels) <= MaxCommits
    /\ r # Now
    /\ rels' = Append(rels, r)
    /\ UNCHANGED <<ask, stage, base, todo, toAssess, findings, conditions, report>>

Leads == {<<"FORMING", "ACTIVE">>, <<"ACTIVE", "RESTING">>, <<"RESTING", "ACTIVE">>,
          <<"DISSOLVING", "ACTIVE">>, <<"DISSOLVING", "DISSOLVED">>}
         \union {<<l, "DISSOLVING">> : l \in {"FORMING", "ACTIVE", "RESTING"}}

\* Decided on some state of the call, as outside the guard (module Lifecycle).
Transition(to) ==
    /\ \E i \in 1..Len(rels) : <<rels[i].life, to>> \in Leads
    /\ Commit([Now EXCEPT !.life = to])

GrantAct(p) == Commit([Now EXCEPT !.act = "active", !.purpose = p])
RevokeAct == Now.act # "missing" /\ Commit([Now EXCEPT !.act = "revoked"])
GrantRead(c) == Commit([Now EXCEPT !.read = @ \union {c}])
RevokeRead(c) == Commit([Now EXCEPT !.read = @ \ {c}])
GrantConsent == Commit([Now EXCEPT !.consent = "active"])
RevokeConsent == Now.consent # "missing" /\ Commit([Now EXCEPT !.consent = "revoked"])

\* register_claim does not raise EpistemicAdmissionError.
Admitted(claim) ==
    /\ claim.type = "OBSERVATION" => claim.sourced
    /\ claim.type \in {"INFERENCE", "INTERPRETATION"} => claim.derived

RegisterClaim(c, claim) ==
    /\ Now.claims[c].status = "none"
    /\ claim.status = "active" /\ Admitted(claim)
    /\ Commit([Now EXCEPT !.claims[c] = claim])

DisputeClaim(c) ==
    /\ Now.claims[c].status # "none"
    /\ Commit([Now EXCEPT !.claims[c].status = "contested"])

Diagnose == Snapshot \/ Evaluate \/ Assess \/ Report

DiagnosisNext ==
    \/ Diagnose
    \/ \E to \in Lifecycles : Transition(to)
    \/ \E p \in Purposes \union {NoPurpose} : GrantAct(p)
    \/ RevokeAct \/ GrantConsent \/ RevokeConsent
    \/ \E c \in Claims :
          \/ GrantRead(c) \/ RevokeRead(c) \/ DisputeClaim(c)
          \/ \E claim \in Claim : RegisterClaim(c, claim)

DiagnosisSpec == DiagnosisInit /\ [][DiagnosisNext]_diagnosisVars

-----------------------------------------------------------------------------

\* The type invariant; the claims of a history are such as register_claim admits.
DiagnosisTypeOK ==
    /\ ask \in Ask
    /\ \A i \in DOMAIN rels :
          /\ rels[i] \in Relationship
          /\ \A c \in Claims : rels[i].claims[c].status # "none" =>
                \/ rels[i].claims[c].type = "OBSERVATION" /\ rels[i].claims[c].sourced
                \/ rels[i].claims[c].type \in {"INFERENCE", "INTERPRETATION"} /\ rels[i].claims[c].derived
                \/ rels[i].claims[c].type = "SHARED_CLAIM"
    /\ stage \in {"call", "checks", "refused", "reported"}
    /\ base \in DOMAIN rels
    /\ stage # "checks" => todo = << >> /\ toAssess = << >>
    /\ \A i \in DOMAIN findings : findings[i].outcome \in Outcomes
    /\ (report # << >>) <=> (stage = "reported")

\* What a check asks of the relationship.
Satisfied(name, c, r) ==
    /\ name = "lifecycle" => r.life \in Working
    /\ name = "participant" => ask.participant
    /\ name = "consent" => r.consent = "active"
    /\ name = "act" =>
          /\ r.life \in Working /\ r.act = "active"
          /\ r.purpose # NoPurpose => r.purpose = Given.required_purpose
    /\ name = "read" => r.life # "DISSOLVED" /\ c \in r.read

Refusal(name, r) ==
    IF name = "lifecycle" /\ r.life # "DISSOLVED" THEN "PAUSE"
    ELSE IF name \in {"consent floor", "consent"} THEN "REQUIRE_CONSENT"
    ELSE "BLOCK"

\* What a request asks for.
Demanded ==
    {About("lifecycle"), About("participant"), About("act")}
    \union (IF Given.consent_required THEN {About("consent")} ELSE {})
    \union {[name |-> "read", claim |-> c] : c \in {x \in Claims : InContext(x)}}

Returned == report[1].end

\* "Existing GovernanceDecision outcomes remain authoritative": each finding was
\* the right decision at some moment between the call of diagnose() and now,
\* whatever was committed meanwhile.
FindingsTraced ==
    \A i \in DOMAIN findings : \E k \in base..Len(rels) :
        LET name == findings[i].check.name
            ok == Satisfied(IF name = "consent floor" THEN "consent" ELSE name,
                            findings[i].check.claim, rels[k])
        IN
        findings[i].outcome = IF ~ok THEN Refusal(name, rels[k])
                              ELSE IF ask.governance = "core" THEN "ALLOW" ELSE ask.governance

\* A clear report was earned: everything the request asks for was satisfied at
\* some moment during the call (not all at one moment), whatever engine the host
\* has, and no observation was missing or adverse.
ClearEarned ==
    report # << >> /\ report[1].summary = "clear" =>
        /\ \A d \in Demanded : \E k \in base..Returned : Satisfied(d.name, d.claim, rels[k])
        /\ ask.governance \in {"core", "ALLOW"}
        /\ Given.host_authentication = "true" /\ Given.external_authority_current = "true"
        /\ Given.reversibility \in {"true", "other"}
        /\ \A c \in Claims : InContext(c) =>
              rels[base].claims[c].status # "contested"

\* A report is made of decisions that were right, and clear only if all were made.
ReportEarned == FindingsTraced /\ ClearEarned

\* With no commit during the call the report is exact: it refuses as the first
\* unsatisfied check does, else as the host's engine does, and is clear only if
\* there is nothing to review.
QuietReportExact ==
    report # << >> /\ Returned = base =>
        LET r == rels[base]
            Fails(name) == \E d \in Demanded : d.name = name /\ ~Satisfied(name, d.claim, r)
            review == \/ Given.host_authentication # "true" \/ Given.external_authority_current # "true"
                      \/ Given.reversibility \in {"none", "false"}
                      \/ \E d \in Demanded : /\ d.name = "read"
                                             /\ \/ r.claims[d.claim].status = "contested"
                                                \/ /\ r.claims[d.claim].status = "active"
                                                   /\ r.claims[d.claim].type = "SHARED_CLAIM"
                                                   /\ ~r.claims[d.claim].sourced /\ ~r.claims[d.claim].derived
                      \/ Adverse # {}
        IN
        report[1].summary =
            CASE Fails("lifecycle") -> IF r.life = "DISSOLVED" THEN "BLOCK" ELSE "PAUSE"
              [] ~Fails("lifecycle") /\ ask.governance \in {"ESCALATE", "DEFER"} -> ask.governance
              [] ~Fails("lifecycle") /\ ask.governance \in {"core", "ALLOW"} ->
                    IF Fails("participant") THEN "BLOCK"
                    ELSE IF Fails("consent") THEN "REQUIRE_CONSENT"
                    ELSE IF Fails("act") \/ Fails("read") THEN "BLOCK"
                    ELSE IF review THEN "review" ELSE "clear"

\* The rubric ignores the purpose of a permission when the request has none; the
\* engine does not.
PurposeGap(e) == e.required_purpose = NoPurpose /\ e.permission_purpose # NoPurpose

\* The rubric's answer and the report that one of the agents is given agree: it
\* says execute exactly when the report is clear, and where it asks for evidence
\* the report names what is unknown or contested.
RubricAgrees ==
    /\ report # << >> /\ Returned = 1
    /\ ask.participant /\ ~ask.other /\ ask.governance = "core"
    /\ \A c \in Claims : ask.integrity[c] = {}
    /\ Given.reversibility # "other"
    =>
    /\ ~PurposeGap(Given) => (Rubric(Given) = "EXECUTE" <=> report[1].summary = "clear")
    /\ Rubric(Given) = "REQUEST_EVIDENCE" =>
          \/ report[1].unknowns # {}
          \/ <<"contested_claim_in_context", Primary>> \in report[1].signals

\* An assessment stands: repeated at any later state, with the same evidence and
\* any more, it is at least as severe, so that nobody can talk a condition down
\* by adding evidence or disputes.
AssessmentStands ==
    \A i \in DOMAIN conditions : \A more \in SUBSET Kinds :
        LET c == conditions[i].claim IN
        Severity(conditions[i].condition)
            <= Severity(Condition(Now.claims[c].status, ask.integrity[c] \union more))

=============================================================================
