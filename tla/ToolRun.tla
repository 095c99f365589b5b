------------------------------ MODULE ToolRun ------------------------------
(***************************************************************************)
(* How a chat turn uses tools: _use_tools of japanese_learning_agent.py,   *)
(* the chain of agent_pipeline.py and the file its last stage saves        *)
(* (pipeline_tools.py), over the registry.                                 *)
(*                                                                         *)
(* step[r] is what the last discovery of the turn is for: to name the tools, *)
(* to route a stage, to make a call, to report.  A turn waits for a        *)
(* listing while asking[r] # 0, for a tool while step[r] = "calling".        *)
(* What a tool found or made is known by the turn it was made for.         *)
(***************************************************************************)
EXTENDS McpRegistry

CONSTANTS
    MaxCalls,       \* MAX_CALLS of the planner
    Called,         \* bound: the tools that are planned outside the chain
    MaxNames,       \* bound: file names of one query in one second
    SavesOverlap    \* whether two saves may run at the same time

Stages == <<"search", "summarize", "save_to_file">>
ASSUME ToolAssumption ==
    /\ MaxCalls \in Nat /\ Called \subseteq Tools /\ MaxNames \in Nat /\ SavesOverlap \in BOOLEAN
    /\ \A i \in DOMAIN Stages : Stages[i] \in Tools

VARIABLES
    step,           \* what the turn is doing
    chain,          \* whether it runs the chain
    plan,           \* the tools it is to call, in order
    results,        \* how each call ended: ok, error, unusable, unavailable, notOffered
    findings,       \* the locals of PipelineRunner.run: whose search they are
    summary,        \* ... and from whose findings the summary was made
    saving,         \* the free name its save picked, or 0
    wrote,          \* whether the file is in place
    told,           \* the name the learner is told, or 0
    files           \* name -> what was saved there
turnVars == <<step, chain, plan, results, findings, summary, saving, wrote, told, files>>
toolRunVars == <<registryVars, turnVars>>

Nothing == "nothing"
MadeUp == "made up by the model"

ToolRunInit ==
    /\ RegistryInit
    /\ step = [r \in Turns |-> "idle"]
    /\ chain = [r \in Turns |-> FALSE]
    /\ plan = [r \in Turns |-> <<>>]
    /\ results = [r \in Turns |-> <<>>]
    /\ findings = [r \in Turns |-> Nothing]
    /\ summary = [r \in Turns |-> Nothing]
    /\ saving = [r \in Turns |-> 0]
    /\ wrote = [r \in Turns |-> FALSE]
    /\ told = [r \in Turns |-> 0]
    /\ files = [name \in {} |-> Nothing]

-----------------------------------------------------------------------------
\* The turn goes on to something that begins with a discovery.
GoesOn(r, what, offered) ==
    /\ step' = [step EXCEPT ![r] = what]
    /\ Discover(r, offered, 1)

Found(r, what) == step[r] = what /\ asking[r] = 0

Begins(r) ==
    /\ step[r] = "idle"
    /\ GoesOn(r, "tools", known)
    /\ trouble' = [trouble EXCEPT ![r] = {}]
    /\ UNCHANGED <<known, failures, chain, plan, results, findings, summary, saving, wrote, told, files>>

Ends(r) ==
    /\ step' = [step EXCEPT ![r] = "done"] /\ table' = [table EXCEPT ![r] = {}]
    /\ UNCHANGED asking

\* No server at all answered; or the planner failed, or wants no tool.
WithoutTools(r) ==
    /\ Found(r, "tools") /\ Ends(r)
    /\ UNCHANGED <<known, failures, trouble, chain, plan, results, findings, summary, saving, wrote, told, files>>

\* pipeline_request: the furthest stage named is how far the chain goes.
PlansChain(r) ==
    /\ Found(r, "tools")
    /\ \E furthest \in 2..Len(Stages) :
        /\ ServerOf(Stages[furthest], table[r]) # 0
        /\ plan' = [plan EXCEPT ![r] = SubSeq(Stages, 1, furthest)]
    /\ chain' = [chain EXCEPT ![r] = TRUE]
    /\ GoesOn(r, "route", known)
    /\ UNCHANGED <<known, failures, trouble, results, findings, summary, saving, wrote, told, files>>

\* A plan that is no chain, one naming a late stage but no query included.
PlansCalls(r) ==
    /\ Found(r, "tools")
    /\ \E n \in 1..MaxCalls : \E calls \in [1..n -> Called] :
        /\ \A i \in 1..n : ServerOf(calls[i], table[r]) # 0
        /\ plan' = [plan EXCEPT ![r] = calls]
    /\ GoesOn(r, "call", known)
    /\ UNCHANGED <<known, failures, trouble, chain, results, findings, summary, saving, wrote, told, files>>

Tool(r) == plan[r][Len(results[r]) + 1]

Routes(r) ==
    /\ Found(r, "route")
    /\ GoesOn(r, "call", known)
    /\ UNCHANGED <<known, failures, trouble, chain, plan, results, findings, summary, saving, wrote, told, files>>

Sends(r) ==
    /\ Found(r, "call") /\ ServerOf(Tool(r), table[r]) # 0
    /\ step' = [step EXCEPT ![r] = "calling"] /\ table' = [table EXCEPT ![r] = {}]
    /\ UNCHANGED <<known, asking, failures, trouble, chain, plan, results, findings, summary, saving, wrote, told, files>>

-----------------------------------------------------------------------------
(* What the call came to, and what the turn does next.                     *)

Stops(how) == how # "ok"

Last(r) == Len(results[r]) + 1 = Len(plan[r])

Recorded(r, how, offered) ==
    /\ results' = [results EXCEPT ![r] = Append(@, how)]
    /\ IF chain[r] /\ (Stops(how) \/ Last(r))
       THEN Ends(r)
       ELSE GoesOn(r, IF chain[r] THEN "route" ELSE IF Last(r) THEN "report" ELSE "call", offered)

\* Mutant: a tool that nobody offers is looked for until somebody does.
LooksAgain(r) ==
    /\ Found(r, "call") /\ ServerOf(Tool(r), table[r]) = 0
    /\ GoesOn(r, "call", known)
    /\ UNCHANGED <<known, failures, trouble, chain, plan, results, findings, summary, saving, wrote, told, files>>

NotOffered(r) ==
    /\ Found(r, "call") /\ ServerOf(Tool(r), table[r]) = 0
    /\ Recorded(r, "notOffered", known)
    /\ UNCHANGED <<known, failures, trouble, chain, plan, findings, summary, saving, wrote, told, files>>

Calling(r) == Servers[ServerOf(Tool(r), Names)]

\* The connection broke or the time is up: the tool's process is gone,
\* whatever it did before.
CutOff(r) ==
    /\ step[r] = "calling"
    /\ failures < MaxFailures /\ failures' = failures + 1
    /\ Failing(Calling(r))
    /\ known' = Forgets(Calling(r))
    /\ Recorded(r, "unavailable", known')
    /\ saving' = [saving EXCEPT ![r] = 0]
    /\ wrote' = [wrote EXCEPT ![r] = FALSE]
    /\ UNCHANGED <<chain, plan, findings, summary, told, files>>

ReportsError(r) ==
    /\ step[r] = "calling" /\ saving[r] = 0
    /\ Recorded(r, "error", known)
    /\ UNCHANGED <<known, failures, trouble, chain, plan, findings, summary, saving, wrote, told, files>>

\* ok, with something the next stage cannot be given.
AnswersUnusably(r) ==
    /\ step[r] = "calling" /\ chain[r] /\ Tool(r) # "save_to_file"
    /\ Recorded(r, "unusable", known)
    /\ UNCHANGED <<known, failures, trouble, chain, plan, findings, summary, saving, wrote, told, files>>

\* The chain keeps what the stage returned for the stages after it.  The
\* summary is made from the findings the stage was given, and nothing else.
Keeps(r) ==
    /\ findings' = [findings EXCEPT ![r] = IF chain[r] /\ Tool(r) = "search" THEN r ELSE @]
    /\ summary' = [summary EXCEPT ![r] =
            IF chain[r] /\ Tool(r) = "summarize" THEN findings[r] ELSE @]

ServerAnswers(r) ==
    /\ step[r] = "calling" /\ Tool(r) # "save_to_file"
    /\ Keeps(r)
    /\ Recorded(r, "ok", known)
    /\ UNCHANGED <<known, failures, trouble, chain, plan, saving, wrote, told, files>>

-----------------------------------------------------------------------------
(* save_to_file, in a process of its own.                                  *)

\* Mutant: the name is taken whether or not there is a file.
AnyName == {1}

\* _free_path: the first name that nothing is using.
FreeName == {name \in 1..MaxNames :
                name \notin DOMAIN files /\ \A before \in 1..(name - 1) : before \in DOMAIN files}

Picks(r) ==
    /\ step[r] = "calling" /\ Tool(r) = "save_to_file" /\ saving[r] = 0
    /\ SavesOverlap \/ \A other \in Turns : saving[other] = 0
    /\ \E name \in FreeName : saving' = [saving EXCEPT ![r] = name]
    /\ UNCHANGED <<registryVars, step, chain, plan, results, findings, summary, wrote, told, files>>

\* What the stage was given; a direct call has the model's own arguments.
Given(r) ==
    IF chain[r] THEN [by |-> r, findings |-> findings[r], summary |-> summary[r]]
    ELSE [by |-> r, findings |-> MadeUp, summary |-> MadeUp]

Writes(r) ==
    /\ saving[r] # 0 /\ ~wrote[r]
    /\ files' = [name \in DOMAIN files \cup {saving[r]} |->
                    IF name = saving[r] THEN Given(r) ELSE files[name]]
    /\ wrote' = [wrote EXCEPT ![r] = TRUE]
    /\ UNCHANGED <<registryVars, step, chain, plan, results, findings, summary, saving, told>>

SaysSaved(r) ==
    /\ saving[r] # 0 /\ wrote[r]
    /\ told' = [told EXCEPT ![r] = saving[r]]
    /\ saving' = [saving EXCEPT ![r] = 0]
    /\ wrote' = [wrote EXCEPT ![r] = FALSE]
    /\ Recorded(r, "ok", known)
    /\ UNCHANGED <<known, failures, trouble, chain, plan, findings, summary, files>>

Reports(r) ==
    /\ Found(r, "report") /\ Ends(r)
    /\ UNCHANGED <<known, failures, trouble, chain, plan, results, findings, summary, saving, wrote, told, files>>

RequestListed(r) == Listed(r) /\ UNCHANGED turnVars
RequestNotListed(r) == NotListed(r) /\ UNCHANGED turnVars

Goes(r) ==
    \/ RequestListed(r) \/ RequestNotListed(r)
    \/ WithoutTools(r) \/ PlansChain(r) \/ PlansCalls(r)
    \/ Routes(r) \/ Sends(r) \/ NotOffered(r)
    \/ CutOff(r) \/ ReportsError(r) \/ AnswersUnusably(r) \/ ServerAnswers(r)
    \/ Picks(r) \/ Writes(r) \/ SaysSaved(r) \/ Reports(r)

ToolRunNext == \E r \in Turns : Begins(r) \/ Goes(r)
ToolRunSpec == ToolRunInit /\ [][ToolRunNext]_toolRunVars

\* Every listing, plan and call ends: each has a timeout.
FairToolRunSpec == ToolRunSpec /\ \A r \in Turns : WF_toolRunVars(Goes(r))

-----------------------------------------------------------------------------
ToolRunTypeOK ==
    /\ RegistryTypeOK
    /\ step \in [Turns -> {"idle", "tools", "route", "call", "calling", "report", "done"}]
    /\ \A r \in Turns : Len(results[r]) <= Len(plan[r])
    /\ \A r \in Turns : saving[r] # 0 => step[r] = "calling"
    /\ saving \in [Turns -> 0..MaxNames] /\ wrote \in [Turns -> BOOLEAN]
    /\ told \in [Turns -> 0..MaxNames]
    /\ DOMAIN files \subseteq 1..MaxNames

(***************************************************************************)
(* What a chain saved is one chain: the findings of its own search, and    *)
(* the summary made of those very findings; and it was saved only after    *)
(* every stage before had answered with something usable, although servers *)
(* came and went and another turn ran the same chain meanwhile.            *)
(***************************************************************************)
SavedIsOneChain ==
    \A name \in DOMAIN files :
        LET saved == files[name]
        IN  chain[saved.by] =>
            /\ saved.findings = saved.by
            /\ saved.summary = saved.findings
            /\ SubSeq(results[saved.by], 1, 2) = <<"ok", "ok">>

(***************************************************************************)
(* The name the learner was told holds what was saved for that learner, as *)
(* long as two saves do not run at the same instant.                       *)
(***************************************************************************)
ToldIsThere ==
    \A r \in Turns : told[r] # 0 =>
        told[r] \in DOMAIN files /\ files[told[r]].by = r

(***************************************************************************)
(* A server that cannot be reached takes only its own tools with it: a     *)
(* tool is called not offered only in a turn during which its own server   *)
(* failed somebody, however discoveries and forgetting interleave.         *)
(***************************************************************************)
OnlyItsOwnTools ==
    \A r \in Turns : \A i \in DOMAIN results[r] :
        results[r][i] \in {"notOffered", "unavailable"} =>
            \E s \in trouble[r] : plan[r][i] \in Offers[s]

(***************************************************************************)
(* Every turn that asked for tools gets on with its answer.                *)
(***************************************************************************)
TurnsGetOn == \A r \in Turns : (step[r] = "tools") ~> (step[r] = "done")

(***************************************************************************)
(* What is saved, and what the learner is told of it, are true: one chain, *)
(* under the name that was told.                                           *)
(***************************************************************************)
SavedIsTrue == SavedIsOneChain /\ ToldIsThere

=============================================================================
