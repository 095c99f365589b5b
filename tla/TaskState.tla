----------------------------- MODULE TaskState -----------------------------
(***************************************************************************)
(* The task state machine of src/app/services/agent_task_state.py: the     *)
(* stages, the table of moves, the two gates, and the functions every      *)
(* change of a task goes through.  All of it is pure; AgentConversation    *)
(* says who calls it and when.                                             *)
(*                                                                         *)
(* Left out: current_step, expected_action and validation_note, free text  *)
(* nothing decides on; required_next, which is AllowedNext[current]; the   *)
(* wording of a refusal, which is kept as the reason it gives.             *)
(***************************************************************************)
EXTENDS Naturals

CONSTANT Plans        \* the plans a learner may approve, as stored
NoPlan == ""          \* TaskState.plan before one is approved
ASSUME PlansAssumption == NoPlan \notin Plans

Stages == {"idle", "planning", "execution", "validation", "done"}

\* STAGE_ORDER, as the position of each stage in it.
StageOrder == [s \in Stages |->
    CASE s = "idle" -> 0 [] s = "planning" -> 1 [] s = "execution" -> 2
      [] s = "validation" -> 3 [] s = "done" -> 4]

AllowedTransitions == [s \in Stages |->
    CASE s = "idle" -> {"planning"} [] s = "planning" -> {"execution"}
      [] s = "execution" -> {"validation"} [] s = "validation" -> {"done"}
      [] s = "done" -> {}]

Reasons == {"finished", "backwards", "skipped", "no_plan", "not_validated"}
NoReason == "none"

Refusals == [current : Stages, requested : Stages, unmet : Reasons]
NoRefusal == [current |-> "idle", requested |-> "idle", unmet |-> NoReason]

Tasks == [stage : Stages, plan : Plans \cup {NoPlan}, passed : BOOLEAN,
          blocked : Refusals \cup {NoRefusal}]
NoTask == [stage |-> "idle", plan |-> NoPlan, passed |-> FALSE, blocked |-> NoRefusal]

\* What the tracker proposes; "unsaid" is validation_passed = None.
Updates == [stage : Stages, plan : Plans \cup {NoPlan},
            validation : {"passed", "failed", "unsaid"}]

-----------------------------------------------------------------------------

CanTransition(current, proposed) ==
    proposed = current \/ proposed \in AllowedTransitions[current]

\* Why an edge is not in the table.
EdgeCondition(current, requested) ==
    CASE current = "done" -> "finished"
      [] current # "done" /\ StageOrder[requested] < StageOrder[current] -> "backwards"
      [] OTHER -> "skipped"

\* Mutant: the gate on execution forgotten.
GateOnDoneOnly(task, requested) ==
    IF requested = "done" /\ ~task.passed THEN "not_validated" ELSE NoReason

\* Why an edge of the table is still shut.
GateCondition(task, requested) ==
    CASE requested = "execution" /\ task.plan = NoPlan -> "no_plan"
      [] requested = "done" /\ ~task.passed -> "not_validated"
      [] OTHER -> NoReason

UnmetCondition(task, proposed) ==
    CASE proposed = task.stage -> NoReason
      [] ~CanTransition(task.stage, proposed) -> EdgeCondition(task.stage, proposed)
      [] OTHER -> GateCondition(task, proposed)

\* check_transition: NoRefusal stands for None.
CheckTransition(task, proposed) ==
    IF UnmetCondition(task, proposed) = NoReason THEN NoRefusal
    ELSE [current |-> task.stage, requested |-> proposed,
          unmet |-> UnmetCondition(task, proposed)]

\* Mutant: the refusal a plan answers is left behind.
WithPlanOnly(task, plan) == [task EXCEPT !.plan = plan]

WithPlan(task, plan) == [task EXCEPT !.plan = plan, !.blocked = NoRefusal]

WithValidation(task, passed) == [task EXCEPT !.passed = passed, !.blocked = NoRefusal]

\* Mutant: a plan is taken in at any stage.
WithPlanAnyTime(task, update) ==
    IF update.plan # NoPlan THEN WithPlan(task, update.plan) ELSE task

\* The evidence an update carries is taken only in the stage that produces
\* it, and before the move it may unlock is considered.
WithPlanNoticed(task, update) ==
    IF update.plan # NoPlan /\ task.stage = "planning"
    THEN WithPlan(task, update.plan) ELSE task

WithEvidence(task, update) ==
    LET base == WithPlanNoticed(task, update) IN
    IF update.validation # "unsaid" /\ task.stage = "validation"
    THEN WithValidation(base, update.validation = "passed") ELSE base

\* A refused move leaves the task where it was and records why.
WithUpdate(task, update) ==
    LET base == WithEvidence(task, update)
        refusal == CheckTransition(base, update.stage)
    IN  IF refusal # NoRefusal
        THEN [base EXCEPT !.blocked = refusal]
        ELSE [base EXCEPT !.stage = update.stage, !.blocked = NoRefusal]

-----------------------------------------------------------------------------

(***************************************************************************)
(* What a stored task must satisfy, whoever stored it: no stage is         *)
(* occupied before the work that unlocks it was done.  The code has no     *)
(* such check when it loads or saves; it follows only if every writer goes *)
(* through the functions above.                                            *)
(***************************************************************************)
WorkDone(task) ==
    /\ task.stage \in {"execution", "validation", "done"} => task.plan # NoPlan
    /\ task.stage = "done" => task.passed
    /\ task.passed => task.stage \in {"validation", "done"}
    /\ task.plan # NoPlan => task.stage # "idle"

(***************************************************************************)
(* A stored refusal is still the truth: asking for the same move again     *)
(* would be refused from the same stage and for the same reason.  The      *)
(* stored reason is shown on screen and put in the next prompt, so one     *)
(* that is out of date would make the agent explain something untrue.      *)
(***************************************************************************)
RefusalStillTrue(task) ==
    task.blocked # NoRefusal => CheckTransition(task, task.blocked.requested) = task.blocked

=============================================================================
