-------------------------------- MODULE MCHost --------------------------------
(***************************************************************************)
(* Three components of a host that share no state, in one run: the owners  *)
(* of a SQLite file, the model pilot and diagnose().  A behaviour is one   *)
(* of the component in focus; the others stay as they are at the start.    *)
(***************************************************************************)
EXTENDS SqliteSession, Pilot, Diagnosis

CONSTANTS t1, t2, t3, p1, p2, v1, v2, acting, asking

VARIABLE focus

hostVars == <<sessionVars, pilotVars, diagnosisVars, focus>>

ThreadsOf == [t \in Threads |-> IF t = t3 THEN p2 ELSE p1]
PlanLimits == {[calls |-> 2, usd |-> 4], [calls |-> 1, usd |-> 4], [calls |-> 2, usd |-> 3]}

-----------------------------------------------------------------------------
\* The calls of diagnose().

Scenario(seen, permission, purposes, required, consent, lifecycle, claim) ==
    [host_authentication |-> seen[1], external_authority_current |-> seen[2],
     reversibility |-> seen[3], permission_state |-> permission,
     permission_purpose |-> purposes[1], required_purpose |-> purposes[2],
     consent_required |-> required, consent_state |-> consent,
     lifecycle |-> lifecycle, claim_status |-> claim]

\* At most one observation is missing or adverse.
Seen == {s \in Truth \X Truth \X (Truth \union {"other"}) :
            Cardinality({i \in 1..3 : s[i] # "true"}) <= 1}

Asking(scenario, participant, other, governance, kinds, busy) ==
    [given |-> scenario, participant |-> participant, other |-> other,
     governance |-> governance, busy |-> busy,
     integrity |-> [c \in Claims |-> IF c = Primary THEN kinds ELSE {}]]

\* Every scenario of the experiment's schema with such observations, quiet.
Experiments ==
    {Asking(Scenario(seen, permission, purposes, required, consent, lifecycle, claim),
            TRUE, FALSE, "core", {}, FALSE) :
        seen \in Seen, permission \in {"active", "revoked", "missing"},
        purposes \in {acting, NoPurpose} \X {acting, asking, NoPurpose},
        required \in BOOLEAN, consent \in {"active", "revoked", "missing", "not_required"},
        lifecycle \in {"FORMING", "ACTIVE", "RESTING"},
        claim \in {"none", "active", "contested"}}

Used(permission, purpose, claim) ==
    Scenario(<<"true", "true", "true">>, permission, <<purpose, purpose>>, TRUE, "active", "ACTIVE",
             claim)

\* Every kind of evidence, every engine of the host, a stranger; quiet.
Assessments ==
    {Asking(Used(permission, NoPurpose, claim), participant, TRUE, governance, kinds, FALSE) :
        permission \in {"active", "revoked"}, claim \in {"active", "contested"},
        participant \in BOOLEAN, governance \in {"core", "ALLOW", "ESCALATE", "DEFER"},
        kinds \in SUBSET Kinds}

\* Calls that other threads interfere with.
Interrupted ==
    {Asking(Used("active", acting, "active"), TRUE, other, governance, kinds, TRUE) :
        other \in BOOLEAN, governance \in {"core", "ALLOW"}, kinds \in {{}, {"REPEATED_PATTERN"}}}

Calls == Experiments \union Assessments \union Interrupted

OneCall == Asking(Used("active", acting, "active"), TRUE, FALSE, "core", {}, FALSE)

-----------------------------------------------------------------------------

HostInit ==
    \/ focus = "session" /\ SessionInit /\ source = v1 /\ PilotInit /\ ask = OneCall /\ DiagnosisInit
    \/ focus = "pilot" /\ SessionInit /\ PilotInit /\ ask = OneCall /\ DiagnosisInit
    \/ focus = "diagnosis" /\ SessionInit /\ source = v1 /\ PilotInit /\ DiagnosisInit

SessionFocus(A) == focus = "session" /\ A /\ UNCHANGED <<pilotVars, diagnosisVars, focus>>
PilotFocus(A) == focus = "pilot" /\ A /\ UNCHANGED <<sessionVars, diagnosisVars, focus>>
DiagnosisFocus(A) == focus = "diagnosis" /\ A /\ UNCHANGED <<sessionVars, pilotVars, focus>>

HostNext ==
    \/ SessionFocus(SessionNext)
    \/ PilotFocus(PilotNext)
    \/ DiagnosisFocus(DiagnosisNext)

\* A thread inside a call goes on when it can; a run goes on, its client answers.
HostSpec ==
    /\ HostInit /\ [][HostNext]_hostVars
    /\ \A t \in Threads : WF_hostVars(SessionFocus(Proceed(t)))
    /\ WF_hostVars(PilotFocus(RunStep))

-----------------------------------------------------------------------------

\* The variables of the three components keep their types.
TypeOK == SessionTypeOK /\ PilotTypeOK /\ DiagnosisTypeOK

===============================================================================
