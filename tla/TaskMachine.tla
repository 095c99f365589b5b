---------------------------- MODULE TaskMachine ----------------------------
(***************************************************************************)
(* What the task promises, as the docstring of agent_task_state.py puts    *)
(* it: stages go one way, planning -> execution -> validation -> done; a   *)
(* plan is approved while planning and stays the plan the task is executed *)
(* by; execution needs one, done needs a validation that passed; only      *)
(* clearing starts over.                                                   *)
(***************************************************************************)
CONSTANTS Plans, NoPlan

VARIABLES stage, plan, passed
vars == <<stage, plan, passed>>

Edges == {<<"idle", "planning">>, <<"planning", "execution">>,
          <<"execution", "validation">>, <<"validation", "done">>}

Cleared == stage = "idle" /\ plan = NoPlan /\ passed = FALSE
Init == Cleared

Clear == stage' = "idle" /\ plan' = NoPlan /\ passed' = FALSE

\* What the present stage produces.
Work ==
    /\ \/ plan' = plan
       \/ stage = "planning" /\ plan' \in Plans
    /\ \/ passed' = passed
       \/ stage = "validation" /\ passed' \in BOOLEAN

\* One edge at most, and only through an open gate.
Advance ==
    /\ <<stage, stage'>> \in Edges \cup {<<stage, stage>>}
    /\ stage' # stage /\ stage' = "execution" => plan' # NoPlan
    /\ stage' # stage /\ stage' = "done" => passed'

Progress == Work /\ Advance

Next == Clear \/ Progress
Spec == Init /\ [][Next]_vars
=============================================================================
