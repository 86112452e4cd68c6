------------------------------ MODULE Evaluation ------------------------------
(***************************************************************************)
(* evals/: one invocation of a suite.  Before a graded one the headroom     *)
(* check compares its projected cost with the ceiling and asks every task   *)
(* which provider answers it.  Then the runner drives the cases through the *)
(* orchestrator, the judge grades the replies that passed stage one, each   *)
(* run commits its ledger, and the invocation writes one eval_runs row.     *)
(* The driver is the live test; a turn's inside is Dialogue's, and a        *)
(* provider that a candidate's retries or breaker do not reach is "down".   *)
(***************************************************************************)
EXTENDS Naturals, Sequences, FiniteSets

CONSTANTS Providers,
          Routing,        \* a task's candidates in order, each a provider and a model
          Nobody,         \* no candidate
          Unwritten,      \* _provider_of a reply no model composed
          CaseTurns,      \* how many turns each case has
          Times,          \* runs of the suite in one invocation; repeat() refuses fewer than two
          MaxOutages      \* bound: providers going down or coming back

Tasks == {"composition", "extraction", "grading"}

ASSUME EvaluationAssumption ==
    /\ Routing \in [Tasks -> Seq([provider : Providers, model : STRING])]
    /\ \A task \in Tasks : Routing[task] # <<>>
    /\ Nobody = [provider |-> "nobody", model |-> "none"] /\ "nobody" \notin Providers
    /\ Unwritten \in Providers
    /\ CaseTurns \in Seq(Nat \ {0}) /\ Times \in Nat \ {0} /\ MaxOutages \in Nat

VARIABLES phase,          \* of the invocation
          graded,         \* MOC_GRADE
          noted,          \* tasks the headroom check found substituted
          down,           \* providers that do not answer
          outages,
          runs,           \* finished runs, each the outcomes of its cases
          outcomes,       \* of the current run's finished cases
          turns,          \* of the current case
          asked,          \* the answered turn that stage two has not seen, if any
          open,           \* models on the run's uncommitted ledger
          ledger,         \* models on the committed one
          row             \* the eval_runs row, if it was written

suite == <<phase, graded, noted>>
world == <<down, outages>>
run   == <<runs, outcomes, turns, asked>>
spend == <<open, ledger, row>>
vars  == <<suite, world, run, spend>>

\* A task's candidates but for some providers', by their place, and the first of them.
Candidates(task, without) == {i \in DOMAIN Routing[task] : Routing[task][i].provider \notin without}
First(task, without) ==
    LET places == Candidates(task, without)
    IN  IF places = {} THEN Nobody
                       ELSE Routing[task][CHOOSE i \in places : \A j \in places : i <= j]

Expected(task, excluded) == First(task, {excluded})

\* The completion's candidate: what Router's calls come to while `down` stands.
Answering(task, excluded) == First(task, {excluded} \cup down)

Primary(task) == Head(Routing[task])

\* check_primaries: a probe of each task, the judge's around the composer.
Barred(task) == IF task = "grading" THEN Primary("composition").provider ELSE "nobody"
Substituted  == {task \in Tasks :
    \/ Expected(task, Barred(task)) = Nobody
    \/ Answering(task, Barred(task)).provider # Expected(task, Barred(task)).provider}

Init ==
    /\ phase = "idle" /\ graded = FALSE /\ noted = {}
    /\ down = {} /\ outages = 0
    /\ runs = <<>> /\ outcomes = <<>> /\ turns = <<>> /\ asked = Nobody
    /\ open = {} /\ ledger = {} /\ row = Nobody

Outage(p) ==
    /\ outages < MaxOutages
    /\ down' = IF p \in down THEN down \ {p} ELSE down \cup {p}
    /\ outages' = outages + 1
    /\ UNCHANGED <<suite, run, spend>>

\* The projection of a measured turn's price against the ceiling.
Estimates == {"unmeasured", "over", "within"}

Begin(grading, missing) ==
    /\ phase' = "running" /\ graded' = grading /\ noted' = missing
    /\ UNCHANGED <<world, run, spend>>

StartUngraded == phase = "idle" /\ Begin(FALSE, {})

StartGraded(estimate, allowed) ==
    /\ phase = "idle"
    /\ estimate = "within"
    /\ allowed \/ Substituted = {}
    /\ Begin(TRUE, Substituted)

\* NoHeadroom: an unmeasured cost is not a cost below the ceiling.
Refuse(estimate, allowed) ==
    /\ phase = "idle"
    /\ estimate # "within" \/ (Substituted # {} /\ ~allowed)
    /\ phase' = "refused"
    /\ UNCHANGED <<graded, noted, world, run, spend>>
-----------------------------------------------------------------------------
Working == phase = "running" /\ Len(outcomes) < Len(CaseTurns)

EndCase(outcome) ==
    /\ outcomes' = Append(outcomes, outcome)
    /\ turns' = <<>>

\* The case is an error, and its finished turns stay with it.
Errored ==
    /\ Working
    /\ EndCase([turns |-> turns, errored |-> TRUE])
    /\ asked' = Nobody
    /\ UNCHANGED <<suite, world, runs, spend>>

\* The orchestrator's turn: slots are extracted, by whichever provider answers.
Extract ==
    LET extraction == Answering("extraction", "nobody") IN
        /\ Working /\ asked = Nobody
        /\ extraction # Nobody
        /\ asked' = [stage |-> "extracted", models |-> {extraction.model}]
        /\ open' = open \cup {extraction.model}
        /\ UNCHANGED <<suite, world, runs, outcomes, turns, ledger, row>>

IsAt(stage) == asked # Nobody /\ asked.stage = stage

\* The checks that fail on a reply: none, the action's alone, or another.
StageOne == {{}, {"action"}, {"figure"}}

\* Its reply is scripted, or composed by a call of its own; stage one checks it.
Reply(composition, failed) ==
    /\ IsAt("extracted")
    /\ asked' = [stage |-> "replied", by |-> composition.provider, failed |-> failed,
                 models |-> asked.models \cup ({composition.model} \ {Nobody.model})]
    /\ open' = open \cup ({composition.model} \ {Nobody.model})
    /\ UNCHANGED <<suite, world, runs, outcomes, turns, ledger, row>>

\* (A reply scripted after a discarded composition is _provider_of the composer's: here it
\* is Compose's, as nothing tells the two apart.)
Script(failed)  == Reply(Nobody, failed)
Compose(failed) == /\ Answering("composition", "nobody") # Nobody
                   /\ Reply(Answering("composition", "nobody"), failed)

\* It raised, or the call it waits for reached no provider.
FailTurn == (asked = Nobody \/ IsAt("extracted")) /\ Errored

\* Slip: the provider the routing names, not the one that answered.
ConfiguredFor(turn) == Primary("composition").provider

\* _provider_of: who composed the reply the judge is shown.
ComposerOf(turn) == IF turn.by = Nobody.provider THEN Unwritten ELSE turn.by

\* A turn is graded unless a check other than the action's failed.
IsGradable(turn) == graded /\ turn.failed \subseteq {"action"}

AddTurn(verdict) ==
    LET turn == [by |-> asked.by, models |-> asked.models, failed |-> asked.failed,
                 verdict |-> verdict]
    IN  /\ IF Len(turns) + 1 = CaseTurns[Len(outcomes) + 1]
              THEN EndCase([turns |-> Append(turns, turn), errored |-> FALSE])
              ELSE turns' = Append(turns, turn) /\ UNCHANGED outcomes
        /\ asked' = Nobody
        /\ UNCHANGED <<suite, world, runs, ledger, row>>

NotGraded == Nobody

SkipJudge ==
    /\ IsAt("replied")
    /\ ~IsGradable(asked)
    /\ AddTurn(NotGraded)
    /\ UNCHANGED open

\* What becomes of the judge's text: three scores, the facts and the claims
\* against the rubric, or nothing that can be read.
Results == {"meets", "misses", "malformed"}

Grade(result) ==
    /\ IsAt("replied") /\ IsGradable(asked)
    /\ LET judge == Answering("grading", ComposerOf(asked)) IN
        /\ judge # Nobody
        /\ AddTurn([by |-> judge.provider, model |-> judge.model, result |-> result])
        /\ open' = open \cup {judge.model}

\* The judge's call raises, AllProvidersUnavailable or a rejected request: it leaves
\* run_case, the session with the run's ledger in it, and the invocation.
LoseInvocation ==
    /\ IsAt("replied") /\ IsGradable(asked)
    /\ phase' = "lost"
    /\ asked' = Nobody
    /\ open' = {}
    /\ UNCHANGED <<graded, noted, world, runs, outcomes, turns, ledger, row>>

EndRun ==
    /\ phase = "running" /\ Len(outcomes) = Len(CaseTurns)
    /\ runs' = Append(runs, outcomes)
    /\ outcomes' = <<>>
    /\ ledger' = ledger \cup open /\ open' = {}
    /\ phase' = IF Len(runs) + 1 = Times THEN "measured" ELSE "running"
    /\ UNCHANGED <<graded, noted, world, turns, asked, row>>

\* The model the exclusion leaves standing, by the configuration.
MandatedJudge == Expected("grading", Primary("composition").provider)
Primaries     == {Primary(task).model : task \in Tasks}

\* Slip: the judge's model is never a substitution.
NotPrimaryAtAll(models) == models \ (Primaries \cup {MandatedJudge.model})

NotPrimary(models) ==
    models \ (Primaries \cup (IF graded THEN {MandatedJudge.model} ELSE {}))

Record ==
    /\ phase = "measured"
    /\ row' = [models |-> ledger,
               substituted |-> IF noted # {} THEN noted ELSE NotPrimary(ledger)]
    /\ phase' = "recorded"
    /\ UNCHANGED <<graded, noted, world, run, open, ledger>>

Next ==
    \/ \E p \in Providers : Outage(p)
    \/ StartUngraded
    \/ \E estimate \in Estimates, allowed \in BOOLEAN :
          StartGraded(estimate, allowed) \/ Refuse(estimate, allowed)
    \/ Extract
    \/ \E failed \in StageOne : Script(failed) \/ Compose(failed)
    \/ FailTurn
    \/ SkipJudge
    \/ \E result \in Results : Grade(result)
    \/ LoseInvocation
    \/ EndRun
    \/ Record

Spec == Init /\ [][Next]_vars
-----------------------------------------------------------------------------
Candidate == [provider : Providers, model : STRING]
Verdict   == [by : Providers, model : STRING, result : Results]
Turn      == [by : Providers \cup {Nobody.provider}, models : SUBSET STRING,
              failed : StageOne, verdict : Verdict \cup {NotGraded}]
Outcome   == [turns : Seq(Turn), errored : BOOLEAN]

TypeOK ==
    /\ phase \in {"idle", "refused", "running", "measured", "lost", "recorded"}
    /\ graded \in BOOLEAN /\ noted \subseteq Tasks
    /\ down \subseteq Providers /\ outages \in 0 .. MaxOutages
    /\ runs \in Seq(Seq(Outcome)) /\ outcomes \in Seq(Outcome) /\ turns \in Seq(Turn)
    /\ asked \in {Nobody} \cup [stage : {"extracted"}, models : SUBSET STRING]
                \cup [stage : {"replied"}, by : Providers \cup {Nobody.provider},
                      failed : StageOne, models : SUBSET STRING]
    /\ open \subseteq STRING /\ ledger \subseteq STRING
    /\ row \in {Nobody} \cup [models : SUBSET STRING, substituted : SUBSET (Tasks \cup STRING)]

(***************************************************************************)
(* The numbers of a run: an errored case is in neither part of the accuracy,*)
(* and the accuracy is the judged one as soon as one turn was graded.       *)
(***************************************************************************)
\* Slip: what could not be read is skipped, as its checks are.
PassedUnlessMissed(turn) ==
    turn.failed = {} /\ (turn.verdict = NotGraded \/ turn.verdict.result # "misses")

TurnPassed(turn) ==
    turn.failed = {} /\ (turn.verdict = NotGraded \/ turn.verdict.result = "meets")

Elements(seq) == {seq[i] : i \in DOMAIN seq}
CasePassed(outcome) ==
    /\ ~outcome.errored /\ outcome.turns # <<>>
    /\ \A turn \in Elements(outcome.turns) : TurnPassed(turn)

TurnsOf(outs) == UNION {Elements(outcome.turns) : outcome \in Elements(outs)}
IsJudged(outs) == \E turn \in TurnsOf(outs) : turn.verdict # NotGraded

Scored(outs) == {i \in DOMAIN outs : ~outs[i].errored}
Accuracy(outs) ==
    [name   |-> IF Scored(outs) = {} THEN "none"
                ELSE IF IsJudged(outs) THEN "overall_accuracy" ELSE "stage_one_accuracy",
     passed |-> {i \in Scored(outs) : CasePassed(outs[i])}]

\* "A provider must never grade its own output", whoever composed after a
\* failover in the middle of the suite and whoever is down when it is graded.
NobodyGradesTheirOwn ==
    \A outs \in Elements(runs) \cup {outcomes} : \A turn \in TurnsOf(outs) :
        turn.verdict # NotGraded => turn.verdict.by # turn.by

\* overall_accuracy is the judged number: every turn of a case that it counts as
\* passed was graded, by a verdict that could be read and that meets the rubric,
\* whatever the outages and skips of the other cases.
PassedWasJudged ==
    \A outs \in Elements(runs) :
        Accuracy(outs).name = "overall_accuracy" =>
            \A i \in Accuracy(outs).passed : \A turn \in Elements(outs[i].turns) :
                turn.verdict # NotGraded /\ turn.verdict.result = "meets"

\* "A row that does not say so would be quoted as one later": a recorded run
\* names its substitution when any turn ran on a model that is no task's
\* primary, the judge's own model in a graded run excepted.
SubstitutionIsNamed ==
    row # Nobody =>
        \A outs \in Elements(runs) : \A turn \in TurnsOf(outs) :
            \/ turn.models \subseteq Primaries
            \/ row.substituted # {}
            \/ graded /\ turn.models \subseteq Primaries \cup {MandatedJudge.model}
=============================================================================
