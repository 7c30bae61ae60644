-------------------------------- MODULE Pilot --------------------------------
(***************************************************************************)
(* The guarded model pilot (evals/agent_comparison_experiment/pilot.py):   *)
(* a frozen plan with a reservation for every trial, and a run that sends  *)
(* the trials one by one to a model client, journaling each call before it *)
(* is sent and after it is answered.  The run may end anywhere and may be  *)
(* started again, the sources may change, the client answers what it likes.*)
(*                                                                         *)
(* Prompts, digests, seeds and scores are left out.  Prices are one unit a *)
(* token; a trial's reservation is the price of its input bound and of     *)
(* MaxOutput tokens (Prices.bound).                                        *)
(***************************************************************************)
EXTENDS Naturals, Sequences, FiniteSets, SequencesExt

CONSTANTS
    Trials,         \* number of trials of a plan
    InputBounds,    \* input token bounds a counter may give
    MaxOutput,      \* cap of the output tokens of a call
    Counts,         \* token counts a client reports
    Limits,         \* the limits a plan may have: [calls, usd]
    Dirs,           \* output directories
    Versions,       \* of the sources
    Unknown,        \* a token count the client does not give
    MaxSourceEdits, MaxRuns     \* bounds on changes of the sources, on runs

ASSUME PilotAssumption ==
    /\ Trials \in Nat \ {0} /\ MaxOutput \in Nat /\ Counts \subseteq Nat
    /\ InputBounds \subseteq Nat \ {0}
    /\ Limits \subseteq [calls : Nat, usd : Nat]
    /\ Unknown \notin Nat
    /\ MaxSourceEdits \in Nat /\ MaxRuns \in Nat

VARIABLES
    source,         \* what source_hashes() finds
    plan,           \* << >> or the plan the host has, in a sequence
    folder,         \* what is on disk for each output directory
    sent,           \* calls the client has been given: directory, trial, answer
    phase,          \* where run_pilot is
    run,            \* its locals
    edits, runs     \* numbers of edits and runs

pilotVars == <<source, plan, folder, sent, phase, run, edits, runs>>

Plan == [bound : [1..Trials -> InputBounds], limits : Limits, source : Versions]
NoReply == [status |-> "none", input |-> Unknown, output |-> Unknown]
Tokens == Counts \union {Unknown}
Silent == {"transport_error", "invalid_reply"}
Answers ==
    [status : Silent, input : {Unknown}, output : {Unknown}] \union
    [status : {"valid", "model_mismatch", "refused", "malformed_response"},
     input : Tokens, output : Tokens]

NoFolder == [exists |-> FALSE, plan |-> << >>, journal |-> << >>, results |-> << >>]
NoRun == [dir |-> CHOOSE d \in Dirs : TRUE, stop |-> "no", calls |-> 0, reserved |-> 0,
          reported |-> 0, rows |-> << >>, answer |-> NoReply]

\* The sum of a sequence of numbers.
Total(seq) ==
    LET sum[n \in 0..Len(seq)] == IF n = 0 THEN 0 ELSE sum[n - 1] + seq[n]
    IN  sum[Len(seq)]

Reserve(p, i) == p.bound[i] + MaxOutput
Resolved(a) == a.input # Unknown /\ a.output # Unknown
Cost(a) == a.input + a.output

\* Usage above the bounds of the trial, or a cost above its reservation.
Over(p, i, a) ==
    \/ a.input > p.bound[i] \/ a.output > MaxOutput
    \/ Cost(a) > Reserve(p, i)

PilotInit ==
    /\ source \in Versions
    /\ plan = << >>
    /\ folder = [d \in Dirs |-> NoFolder]
    /\ sent = << >>
    /\ phase = "idle"
    /\ run = NoRun
    /\ edits = 0 /\ runs = 0

-----------------------------------------------------------------------------

\* prepare_pilot: a schedule that is not covered by its limits is refused.
Prepare(bound, limits) ==
    /\ phase = "idle" /\ runs < MaxRuns
    /\ Trials <= limits.calls
    /\ Total([i \in 1..Trials |-> bound[i] + MaxOutput]) <= limits.usd
    /\ plan' = <<[bound |-> bound, limits |-> limits, source |-> source]>>
    /\ UNCHANGED <<source, folder, sent, phase, run, edits, runs>>

\* PilotPlan(serialized, sha256): a plan the host has edited, with its digest.
EditPlan(limits) ==
    /\ phase = "idle" /\ runs < MaxRuns
    /\ plan # << >>
    /\ plan' = <<[plan[1] EXCEPT !.limits = limits]>>
    /\ UNCHANGED <<source, folder, sent, phase, run, edits, runs>>

EditSource(v) ==
    /\ v # source /\ edits < MaxSourceEdits
    /\ source' = v
    /\ edits' = edits + 1
    /\ UNCHANGED <<plan, folder, sent, phase, run, runs>>

Goto(from, to) == phase = from /\ phase' = to
Doc == folder[run.dir].plan[1]
Journal(record) == folder' = [folder EXCEPT ![run.dir].journal = Append(@, record)]
Record(event, i, answer) == [event |-> event, trial |-> i, answer |-> answer]

\* run_pilot: the plan is verified, the directory created (exist_ok=False).
Start(d) ==
    /\ Goto("idle", "setup")
    /\ plan # << >> /\ plan[1].source = source
    /\ ~folder[d].exists
    /\ runs < MaxRuns
    /\ runs' = runs + 1
    /\ folder' = [folder EXCEPT ![d].exists = TRUE]
    /\ run' = [NoRun EXCEPT !.dir = d]
    /\ UNCHANGED <<source, plan, sent, edits>>

\* plan.json is saved and the journal opened.
Setup ==
    /\ Goto("setup", "begin")
    /\ folder' = [folder EXCEPT ![run.dir].plan = plan]
    /\ UNCHANGED <<source, plan, sent, run, edits, runs>>

Begin ==
    /\ Goto("begin", "loop")
    /\ Journal(Record("run_started", 0, NoReply))
    /\ UNCHANGED <<source, plan, sent, run, edits, runs>>

-----------------------------------------------------------------------------
\* for index, trial in enumerate(doc["trials"]): ...

Index == Len(run.rows) + 1
AtTrial == phase = "loop" /\ Index <= Trials

BudgetLeft ==
    /\ run.calls < Doc.limits.calls
    /\ run.reserved + Reserve(Doc, Index) <= Doc.limits.usd

\* Mutant: a trial that is not attempted has no row.
SkipUnrecorded(stop, status) ==
    /\ run' = [run EXCEPT !.stop = stop]
    /\ UNCHANGED <<source, plan, folder, sent, phase, edits, runs>>

Skip(stop, status) ==
    /\ run' = [run EXCEPT !.stop = stop, !.rows = Append(@, status)]
    /\ UNCHANGED <<source, plan, folder, sent, phase, edits, runs>>

SkipAfterStop ==
    /\ AtTrial /\ run.stop # "no"
    /\ Skip(run.stop, "not_attempted_after_stop")

SkipSourceChanged ==
    /\ AtTrial /\ run.stop = "no"
    /\ source # Doc.source
    /\ Skip("source_changed", "not_attempted_source_changed")

SkipBudget ==
    /\ AtTrial /\ run.stop = "no"
    /\ source = Doc.source /\ ~BudgetLeft
    /\ Skip("budget_limit", "not_attempted_budget")

\* Mutant: the call is sent before it is journaled.
SendFirst ==
    /\ AtTrial /\ run.stop = "no"
    /\ source = Doc.source /\ BudgetLeft
    /\ phase' = "waiting"
    /\ run' = [run EXCEPT !.calls = @ + 1, !.reserved = @ + Reserve(Doc, Index)]
    /\ sent' = Append(sent, [dir |-> run.dir, trial |-> Index, answer |-> NoReply])
    /\ UNCHANGED <<source, plan, folder, edits, runs>>

\* The call is counted, reserved and journaled (flushed and fsynced).
StartCall ==
    /\ AtTrial /\ run.stop = "no"
    /\ source = Doc.source /\ BudgetLeft
    /\ phase' = "started"
    /\ run' = [run EXCEPT !.calls = @ + 1, !.reserved = @ + Reserve(Doc, Index)]
    /\ Journal(Record("call_started", Index, NoReply))
    /\ UNCHANGED <<source, plan, sent, edits, runs>>

\* Mutant: a call is counted when it is reserved and again when it is sent.
SendCounted ==
    /\ Goto("started", "waiting")
    /\ sent' = Append(sent, [dir |-> run.dir, trial |-> Index, answer |-> NoReply])
    /\ run' = [run EXCEPT !.calls = @ + 1]
    /\ UNCHANGED <<source, plan, folder, edits, runs>>

\* client.generate(request)
Send ==
    /\ Goto("started", "waiting")
    /\ sent' = Append(sent, [dir |-> run.dir, trial |-> Index, answer |-> NoReply])
    /\ UNCHANGED <<source, plan, folder, run, edits, runs>>

\* Attempt: a reply, an exception, or something that is no reply.
Receive(a) ==
    /\ Goto("waiting", "answered")
    /\ run' = [run EXCEPT !.answer = a]
    /\ sent' = [sent EXCEPT ![Len(sent)].answer = a]
    /\ UNCHANGED <<source, plan, folder, edits, runs>>

\* Mutant: unknown usage only marks the row.
StopUnlessUnknown(i, a) ==
    IF a.status \in Silent \union {"model_mismatch"} THEN a.status
    ELSE IF ~Resolved(a) THEN "no"
    ELSE IF Over(Doc, i, a) THEN "usage_exceeded_reservation"
    ELSE "no"

\* Why a call stops the run.
Stop(i, a) ==
    IF a.status \in Silent \union {"model_mismatch"} THEN a.status
    ELSE IF ~Resolved(a) THEN "usage_unresolved"
    ELSE IF Over(Doc, i, a) THEN "usage_exceeded_reservation"
    ELSE "no"

\* Mutant: a call that exceeds its reservation stays valid.
RowStatusAnswered(i, a) ==
    IF ~Resolved(a) /\ a.status = "valid" THEN "usage_unresolved" ELSE a.status

\* The status of the call's row.
RowStatus(i, a) ==
    IF Resolved(a) /\ Over(Doc, i, a) THEN "usage_exceeded_reservation"
    ELSE IF ~Resolved(a) /\ a.status = "valid" THEN "usage_unresolved"
    ELSE a.status

\* Usage is settled, the outcome journaled and the row kept.
FinishCall ==
    LET a == run.answer IN
    /\ Goto("answered", "loop")
    /\ run' = [run EXCEPT !.stop = Stop(Index, a), !.answer = NoReply,
                          !.reported = IF Resolved(a) THEN @ + Cost(a) ELSE @,
                          !.rows = Append(@, RowStatus(Index, a))]
    /\ Journal(Record("call_finished", Index, a))
    /\ UNCHANGED <<source, plan, sent, edits, runs>>

-----------------------------------------------------------------------------

\* summarize: contrasts only if every planned row is valid.
Complete(rows) == \A i \in DOMAIN rows : rows[i] = "valid"

FinishRun ==
    /\ phase = "loop" /\ Index > Trials
    /\ phase' = "finished"
    /\ Journal(Record("run_finished", 0, NoReply))
    /\ UNCHANGED <<source, plan, sent, run, edits, runs>>

SaveResults ==
    /\ Goto("finished", "idle")
    /\ folder' = [folder EXCEPT ![run.dir].results =
                    <<[stop |-> run.stop, rows |-> run.rows, calls |-> run.calls,
                       reported |-> run.reported, contrasts |-> Complete(run.rows)]>>]
    /\ run' = NoRun
    /\ UNCHANGED <<source, plan, sent, edits, runs>>

\* The process dies, or an interrupt ends the run: what is on disk stays.
Die ==
    /\ phase # "idle"
    /\ phase' = "idle"
    /\ run' = NoRun
    /\ UNCHANGED <<source, plan, folder, sent, edits, runs>>

RunStep ==
    \/ Setup \/ Begin
    \/ SkipAfterStop \/ SkipSourceChanged \/ SkipBudget
    \/ StartCall \/ Send \/ (\E a \in Answers : Receive(a)) \/ FinishCall
    \/ FinishRun \/ SaveResults

PilotNext ==
    \/ \E b \in [1..Trials -> InputBounds], l \in Limits : Prepare(b, l)
    \/ \E l \in Limits : EditPlan(l)
    \/ \E v \in Versions : EditSource(v)
    \/ \E d \in Dirs : Start(d)
    \/ RunStep
    \/ Die

PilotSpec == PilotInit /\ [][PilotNext]_pilotVars

-----------------------------------------------------------------------------

\* The type invariant.
PilotTypeOK ==
    /\ source \in Versions
    /\ plan \in {<< >>} \union {<<p>> : p \in Plan}
    /\ \A d \in Dirs : DOMAIN folder[d] = DOMAIN NoFolder
    /\ \A k \in DOMAIN sent : sent[k].trial \in 1..Trials
    /\ phase \in {"idle", "setup", "begin", "loop", "started", "waiting", "answered", "finished"}
    /\ run.calls <= Len(run.rows) + 1 /\ Len(run.rows) <= Trials

JournalOf(d) == folder[d].journal
SentTo(d) == {k \in DOMAIN sent : sent[k].dir = d}
At(d, event) == {k \in DOMAIN JournalOf(d) : JournalOf(d)[k].event = event}

\* "Before each dispatch, an events.jsonl record is flushed and fsynced": every
\* call the client was given is on disk, whatever ended the run.
JournaledFirst ==
    \A k \in DOMAIN sent : \E j \in At(sent[k].dir, "call_started") :
        JournalOf(sent[k].dir)[j].trial = sent[k].trial

\* "The runner deliberately has no automatic resume path": no trial is sent
\* twice for one directory, however often runs are ended and started.
SentOnce ==
    \A j, k \in DOMAIN sent :
        sent[j].dir = sent[k].dir /\ sent[j].trial = sent[k].trial => j = k

\* What was sent is on disk, and is not sent again.
SentOnRecord == JournaledFirst /\ SentOnce

\* A run sends no more calls than its plan allows, nor calls whose reservations
\* exceed its budget, also with a plan that prepare_pilot would have refused.
WithinLimits ==
    \A d \in Dirs : SentTo(d) # {} =>
        LET p == folder[d].plan[1] IN
        /\ Cardinality(SentTo(d)) <= p.limits.calls
        /\ Total([k \in 1..Len(sent) |->
                    IF sent[k].dir = d THEN Reserve(p, sent[k].trial) ELSE 0]) <= p.limits.usd

\* An answer after which a call may follow.
Harmless(p, i, a) ==
    /\ a.status \in {"valid", "refused", "malformed_response"}
    /\ Resolved(a)
    /\ a.input <= p.bound[i] /\ a.output <= MaxOutput

\* "Transport errors, model mismatches, unknown usage, or a usage/cost overrun
\* stop subsequent calls": a call is sent only when all calls before it were
\* answered harmlessly and their answers are in the journal.
NoCallAfterFault ==
    \A j, k \in DOMAIN sent : sent[j].dir = sent[k].dir /\ j < k =>
        LET d == sent[j].dir IN
        /\ Harmless(folder[d].plan[1], sent[j].trial, sent[j].answer)
        /\ \E f \in At(d, "call_finished") :
              /\ JournalOf(d)[f].trial = sent[j].trial
              /\ JournalOf(d)[f].answer = sent[j].answer

\* No call is sent that the plan, or an answer before it, forbids.
SpendingBounded == WithinLimits /\ NoCallAfterFault

\* The results that are saved are those of a finished journal: its finished
\* calls are the calls sent, and the reported cost is theirs.
ResultsOnRecord ==
    \A d \in Dirs : folder[d].results # << >> =>
        LET r == folder[d].results[1] IN
        /\ Last(JournalOf(d)).event = "run_finished"
        /\ Len(r.rows) = Trials
        /\ r.calls = Cardinality(SentTo(d))
        /\ {JournalOf(d)[k].trial : k \in At(d, "call_finished")} = {sent[k].trial : k \in SentTo(d)}
        /\ r.reported = Total([k \in 1..Len(sent) |->
                IF sent[k].dir = d /\ Resolved(sent[k].answer) THEN Cost(sent[k].answer) ELSE 0])

\* "Suppress primary contrasts if any planned response is invalid or
\* unattempted": contrasts mean that every trial was sent and answered validly,
\* within its reservation.
ContrastsEarned ==
    \A d \in Dirs : folder[d].results # << >> /\ folder[d].results[1].contrasts =>
        \A i \in 1..Trials : \E k \in SentTo(d) :
            /\ sent[k].trial = i /\ sent[k].answer.status = "valid"
            /\ Harmless(folder[d].plan[1], i, sent[k].answer)

\* Results, and the contrasts in them, are supported by the journal.
ResultsEarned == ResultsOnRecord /\ ContrastsEarned

\* A run whose client answers ends.
RunEnds == phase # "idle" ~> phase = "idle"

=============================================================================
