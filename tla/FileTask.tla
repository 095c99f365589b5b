------------------------------ MODULE FileTask ------------------------------
(***************************************************************************)
(* The file assistant (file_assistant.py): a task plans, inspects the      *)
(* project through the project-files server, compares documentation with   *)
(* code, and saves a report or proposals, a patch and a review; later a    *)
(* person applies a proposal.  Every tool call and model call is a step.   *)
(*                                                                         *)
(* A task's text for a document is named after the task.  Who asks for a   *)
(* look at the files, the model or a rule of the agent, is left out: both  *)
(* spend the same budget.  A section stands for its document.              *)
(***************************************************************************)
EXTENDS ProjectFiles, FiniteSets, Naturals, TLC

CONSTANTS
    Tasks,
    Mentions,           \* the documents where a task's searches match
    MaxToolCalls, MaxModelCalls, MaxRounds,     \* TaskLimits
    MaxEdits,           \* bound: changes other people make
    MaxFailures,        \* bound: failures of the server, and of the provider
    TasksOverlap,       \* whether a task may begin while another runs
    EditsMeanwhile      \* whether a file may change between a write's compare and its replace

SAVE_RESERVE == 6

ASSUME TaskAssumption ==
    /\ Tasks \subseteq Texts /\ Original \notin Tasks /\ IsFiniteSet(Docs)
    /\ Mentions \in [Tasks -> SUBSET Docs]
    /\ MaxToolCalls \in Nat /\ MaxToolCalls > SAVE_RESERVE
    /\ MaxModelCalls \in Nat /\ MaxRounds \in Nat
    /\ MaxEdits \in Nat /\ MaxFailures \in Nat
    /\ TasksOverlap \in BOOLEAN /\ EditsMeanwhile \in BOOLEAN

VARIABLES
    run,            \* the _Run of each task
    apply,          \* the one apply_proposal that is under way, and whose result
                    \* asked for it (which the command does not say)
    edits, failures
vars == <<files, proposals, run, apply, edits, failures>>

Unread == Gone
NewRun == [
    pc |-> "new",
    workflow |-> "none",
    calls |-> 0,                        \* len(tool_calls)
    asked |-> 0,                        \* len(model_calls)
    rounds |-> 0,                       \* of inspecting
    down |-> FALSE,                     \* provider_down
    reads |-> [d \in Docs |-> Unread],  \* what was read, and with what hash
    sections |-> {},                    \* the documents still to compare
    changed |-> {},                     \* those with a replacement that stood the checks
    left |-> {},                        \* of those, the ones _propose has not come to
    now |-> "none",                     \* the one whose diff was made
    diffs |-> {},
    artifacts |-> {},
    errors |-> "none",                  \* none, only a "limit", or "more" than that
    status |-> "none"]

NoApply == [step |-> "none"]

Init ==
    /\ FilesInit
    /\ run = [t \in Tasks |-> NewRun]
    /\ apply = NoApply
    /\ edits = 0 /\ failures = 0

-----------------------------------------------------------------------------
(* Budgets.                                                                *)

At(t, pc) == run[t].pc = pc

\* Mutant: one call too many while inspecting.
CapOffByOne(saving) == IF saving THEN MaxToolCalls ELSE MaxToolCalls - SAVE_RESERVE + 1

\* The tool calls a task may have made before it makes another.
Cap(saving) == IF saving THEN MaxToolCalls ELSE MaxToolCalls - SAVE_RESERVE

MayCall(t, saving) == run[t].calls < Cap(saving)
MayAsk(t) == run[t].asked < MaxModelCalls

\* The task's record changes, and nothing else.
Becomes(t, new) ==
    /\ run' = [run EXCEPT ![t] = new]
    /\ UNCHANGED <<files, proposals, apply, edits, failures>>

Called(r) == [r EXCEPT !.calls = @ + 1]
Asked(r) == [r EXCEPT !.asked = @ + 1]
Goes(r, pc) == [r EXCEPT !.pc = pc]
Erred(r, kind) == [r EXCEPT !.errors = IF @ \in {"none", kind} THEN kind ELSE "more"]

KeepsOnly(r, docs) == [d \in Docs |-> IF d \in docs THEN r.reads[d] ELSE Unread]

\* How far the task got; what nothing reads any more is forgotten.
Finished(r) ==
    [NewRun EXCEPT
        !.pc = "finished", !.workflow = r.workflow,
        !.reads = KeepsOnly(r, r.diffs),
        !.changed = r.changed, !.diffs = r.diffs, !.artifacts = r.artifacts, !.errors = r.errors,
        !.status = CASE r.workflow = "unsupported" -> "unsupported"
                     [] r.workflow # "unsupported" /\ r.artifacts = {} -> "failed"
                     [] OTHER -> IF r.errors = "none" THEN "completed" ELSE "partial"]

-----------------------------------------------------------------------------
(* Planning.                                                               *)

Running(t) == run[t].pc \notin {"new", "answered", "refused"}

\* list_tools: counted, and made whatever the budget.
Begins(t) ==
    /\ At(t, "new")
    /\ TasksOverlap \/ ~\E u \in Tasks : Running(u)
    /\ Becomes(t, Goes(Called(run[t]), "plan"))

\* The model's plan, or the task's own words where it does not hold.
Plans(t) ==
    /\ At(t, "plan") /\ MayAsk(t)
    /\ \E workflow \in {"usage_report", "docs_update", "unsupported"} :
        LET planned == [Asked(run[t]) EXCEPT !.workflow = workflow]
        IN  Becomes(t, IF workflow = "unsupported" THEN Finished(planned) ELSE Goes(planned, "inspect"))

\* The seconds are over before the model was asked: nothing was done.
PlanLimit(t) ==
    /\ At(t, "plan")
    /\ Becomes(t, Finished(Erred(run[t], "limit")))

-----------------------------------------------------------------------------
(* Inspecting: the plan's calls, the terms, rounds of the model, _cover.   *)

\* A search, a listing, a file that is no document, or a call that was refused.
Looks(t) ==
    /\ run[t].pc \in {"inspect", "names"} /\ MayCall(t, FALSE)
    /\ Becomes(t, Called(run[t]))

\* A document, once; one that is gone is refused.
ReadsDoc(t, d) ==
    /\ At(t, "inspect") /\ MayCall(t, FALSE)
    /\ d \in Mentions[t] /\ run[t].reads[d] = Unread /\ Exists(d)
    /\ Becomes(t, [Called(run[t]) EXCEPT !.reads[d] = files[d]])

\* Mutant: the rounds are not counted, nor is the model's answer.
RoundUncounted(t) ==
    /\ At(t, "inspect") /\ ~run[t].down /\ MayAsk(t)
    /\ Becomes(t, Goes(run[t], "round"))

\* The model says what else to read.
Round(t) ==
    /\ At(t, "inspect") /\ ~run[t].down /\ MayAsk(t) /\ run[t].rounds < MaxRounds
    /\ Becomes(t, [Goes(Asked(run[t]), "round") EXCEPT !.rounds = @ + 1])

\* Calls for what it has already cost nothing: back to inspecting.
RoundEnds(t) ==
    /\ At(t, "round")
    /\ Becomes(t, Goes(run[t], "inspect"))

AfterInspect(r) == Goes([r EXCEPT !.rounds = 0], IF r.workflow = "docs_update" THEN "names" ELSE "analyse")

Inspected(t) ==
    /\ At(t, "inspect")
    /\ Becomes(t, AfterInspect(run[t]))

\* Calls, model calls, files, characters or seconds: the first stops inspecting.
InspectLimit(t) ==
    /\ At(t, "inspect")
    /\ Becomes(t, AfterInspect(Erred(run[t], "limit")))

-----------------------------------------------------------------------------
(* The usage report.                                                       *)

\* One error at most: nothing read, a limit, an answer that is not JSON.
Analyses(t) ==
    /\ At(t, "analyse")
    /\ \/ Becomes(t, Goes(IF run[t].down THEN run[t] ELSE Erred(run[t], "more"), "report"))
       \/ Becomes(t, Goes(Erred(run[t], "limit"), "report"))
       \/ /\ MayAsk(t) /\ ~run[t].down
          /\ \E parsed \in BOOLEAN :
                Becomes(t, Goes(IF parsed THEN Asked(run[t]) ELSE Erred(Asked(run[t]), "more"), "report"))

-----------------------------------------------------------------------------
(* The documentation's sections, one comparison each.                      *)

WasRead(t) == {d \in Docs : run[t].reads[d] # Unread}

\* The names the sections mention have been looked for, as far as the budget went.
NamesEnd(t, limited) ==
    /\ At(t, "names")
    /\ \E sections \in SUBSET WasRead(t) :
        LET r == IF limited THEN Erred(run[t], "limit") ELSE run[t]
        IN  Becomes(t, [Goes(IF sections = {} THEN Erred(r, "more") ELSE r, "compare")
                        EXCEPT !.sections = sections])

NamesSearched(t) == NamesEnd(t, FALSE)
NamesLimit(t) == NamesEnd(t, TRUE)

\* A finding as the checks leave it: quotes that are where they were shown,
\* and a replacement that brings in nothing of its own.
Verdict(quoted, codeShown, supported) ==
    CASE ~quoted \/ ~codeShown -> "rejected"
      [] quoted /\ codeShown /\ ~supported -> "evidence_only"
      [] OTHER -> "proposed"

Compares(t, d) ==
    /\ At(t, "compare") /\ d \in run[t].sections /\ MayAsk(t) /\ ~run[t].down
    /\ LET compared == [Asked(run[t]) EXCEPT !.sections = @ \ {d}]
       IN  \/ Becomes(t, Erred(compared, "more"))
           \/ Becomes(t, compared)                          \* no finding
           \/ \E quoted, codeShown, supported \in BOOLEAN :
                Becomes(t, IF Verdict(quoted, codeShown, supported) = "proposed"
                           THEN [compared EXCEPT !.changed = @ \cup {d}]
                           ELSE compared)

ToPropose(r) == [Goes(r, "propose") EXCEPT !.left = r.changed, !.sections = {}]

Compared(t) ==
    /\ At(t, "compare") /\ run[t].sections = {}
    /\ Becomes(t, ToPropose(run[t]))

\* The limit, or a provider that is down since inspecting and said so then.
CompareLimit(t) ==
    /\ At(t, "compare") /\ run[t].sections # {}
    /\ Becomes(t, ToPropose(IF run[t].down THEN run[t] ELSE Erred(run[t], "limit")))

-----------------------------------------------------------------------------
(* Proposals, the patch, the review: written by the agent, to output/.     *)

\* The diff is made against the file as it is now; it has to be as it was read.
Diffs(t, d) ==
    /\ At(t, "propose") /\ d \in run[t].left /\ MayCall(t, TRUE)
    /\ LET r == [Called(run[t]) EXCEPT !.left = @ \ {d}]
       IN  \/ Becomes(t, Erred(r, "more"))               \* refused, or not valid
           \/ Becomes(t, IF Hash(files[d]) = run[t].reads[d]
                         THEN [Goes(r, "proposal") EXCEPT !.now = d]
                         ELSE Erred(r, "more"))

ProposeLimit(t) ==
    /\ At(t, "propose") /\ run[t].left # {} /\ ~MayCall(t, TRUE)
    /\ Becomes(t, Goes([Erred(run[t], "limit") EXCEPT !.left = {}], IF run[t].diffs = {} THEN "review" ELSE "patch"))

Proposed(t) ==
    /\ At(t, "propose") /\ run[t].left = {}
    /\ Becomes(t, Goes(run[t], IF run[t].diffs = {} THEN "review" ELSE "patch"))

AfterProposal(r) == [Goes(r, "propose") EXCEPT !.now = "none"]

\* The diff is listed once its proposal is saved.
SavesProposal(t) ==
    /\ At(t, "proposal") /\ MayCall(t, TRUE)
    /\ LET d == run[t].now
       IN  /\ Saves(d, t, run[t].reads[d])
           /\ run' = [run EXCEPT ![t] = AfterProposal([Called(run[t]) EXCEPT
                                            !.diffs = @ \cup {d}, !.artifacts = @ \cup {d}])]
    /\ UNCHANGED <<files, apply, edits, failures>>

\* A budget that is spent, or a write that was refused: nothing is saved.
SaveFailure(t) == IF MayCall(t, TRUE) THEN Erred(Called(run[t]), "more") ELSE Erred(run[t], "limit")

ProposalNotSaved(t) ==
    /\ At(t, "proposal")
    /\ Becomes(t, AfterProposal(SaveFailure(t)))

\* The saves that come last: what is saved at which step, and the step after.
Last == [patch |-> "review", review |-> "done", report |-> "done"]

Then(r, pc) == IF Last[pc] = "done" THEN Finished(r) ELSE Goes(r, Last[pc])

\* What is too long for the output limit is cut, which is an error too.
Cut(r) == {r, Erred(r, "more")}

SavesLast(t) ==
    /\ run[t].pc \in DOMAIN Last /\ MayCall(t, TRUE)
    /\ \E r \in Cut(Called(run[t])) :
         Becomes(t, Then([r EXCEPT !.artifacts = @ \cup {run[t].pc}], run[t].pc))

LastNotSaved(t) ==
    /\ run[t].pc \in DOMAIN Last
    /\ \E r \in Cut(SaveFailure(t)) : Becomes(t, Then(r, run[t].pc))

\* The caller has the result; the diffs it lists are all that is needed of it.
Answers(t) ==
    /\ At(t, "finished")
    /\ Becomes(t, [NewRun EXCEPT !.pc = "answered", !.diffs = run[t].diffs, !.changed = run[t].diffs,
                                 !.artifacts = run[t].diffs, !.reads = run[t].reads])

-----------------------------------------------------------------------------
(* A server or a model that is not there.                                  *)

Fails == failures < MaxFailures /\ failures' = failures + 1

\* At any tool call: the task ends there.  A save may have been made all the same.
ServerFails(t) ==
    /\ Fails
    /\ \/ /\ At(t, "new") /\ (TasksOverlap \/ ~\E u \in Tasks : Running(u))
          /\ UNCHANGED proposals
       \/ /\ run[t].pc \in {"inspect", "names"} /\ MayCall(t, FALSE)
          /\ UNCHANGED proposals
       \/ /\ run[t].pc \in {"propose", "patch", "review", "report"} /\ MayCall(t, TRUE)
          /\ At(t, "propose") => run[t].left # {}
          /\ UNCHANGED proposals
       \/ /\ At(t, "proposal") /\ MayCall(t, TRUE)
          /\ Saves(run[t].now, t, run[t].reads[run[t].now]) \/ UNCHANGED proposals
    /\ run' = [run EXCEPT ![t] = Finished(Erred(@, "more"))]
    /\ UNCHANGED <<files, apply, edits>>

\* While planning the request fails; later the task goes on without the model.
ProviderFails(t) ==
    /\ Fails /\ MayAsk(t) /\ ~run[t].down
    /\ LET r == [Erred(Asked(run[t]), "more") EXCEPT !.down = TRUE]
       IN  \/ At(t, "plan") /\ run' = [run EXCEPT ![t] = [NewRun EXCEPT !.pc = "refused"]]
           \/ At(t, "inspect") /\ run[t].rounds < MaxRounds /\ run' = [run EXCEPT ![t] = AfterInspect(r)]
           \/ At(t, "analyse") /\ run' = [run EXCEPT ![t] = Goes(r, "report")]
           \/ At(t, "compare") /\ run[t].sections # {} /\ run' = [run EXCEPT ![t] = ToPropose(r)]
    /\ UNCHANGED <<files, proposals, apply, edits>>

-----------------------------------------------------------------------------
(* apply_proposal: read the proposal, show the diff, compare, replace.     *)

Applying(new) ==
    /\ apply' = new
    /\ UNCHANGED <<files, proposals, run, edits, failures>>

\* The command a listed diff gives: the document, and the hash it was made against.
AsksToApply(t, d) ==
    /\ apply.step = "none" /\ At(t, "answered") /\ d \in run[t].diffs
    /\ Applying([step |-> "read", doc |-> d, expected |-> run[t].reads[d], task |-> t])

ReadsProposal ==
    /\ apply.step = "read"
    /\ Applying([step |-> "diff", doc |-> apply.doc, expected |-> apply.expected, task |-> apply.task,
                 text |-> proposals[apply.doc].text, base |-> proposals[apply.doc].base])

\* Changed, identical, or only shown: nothing is written.
ShowsDiff ==
    /\ apply.step = "diff"
    /\ \E confirm \in BOOLEAN :
        Applying(IF /\ Hash(files[apply.doc]) = apply.expected
                    /\ ~Identical(apply.doc, apply.text)
                    /\ confirm
                 THEN [apply EXCEPT !.step = "compare"] ELSE NoApply)

\* Mutant: the hash that was compared for the diff is good enough.
ComparesNot ==
    /\ apply.step = "compare"
    /\ Applying([apply EXCEPT !.step = "replace"])

\* write() loads the file again, in a process of its own.
ComparesAgain ==
    /\ apply.step = "compare"
    /\ Applying(IF Refusal(apply.doc, apply.expected, TRUE) = "none"
                THEN [apply EXCEPT !.step = "replace"] ELSE NoApply)

Replaces ==
    /\ apply.step = "replace"
    /\ files' = [files EXCEPT ![apply.doc] = Payload(apply.doc, apply.text)]
    /\ apply' = NoApply
    /\ UNCHANGED <<proposals, run, edits, failures>>

\* The server is gone: 503, whether or not the file was replaced.
ApplyBreaksOff ==
    /\ apply.step \in {"read", "diff", "compare", "replace"}
    /\ Applying(NoApply)

\* Somebody works on the project: writing something new, or removing the file.
Edits(d) ==
    /\ edits < MaxEdits
    /\ ~EditsMeanwhile => apply.step # "replace"
    /\ \E new \in {Gone} \cup [text : Texts \ (Tasks \cup {Original}), newline : {"lf"}] :
        new # files[d] /\ files' = [files EXCEPT ![d] = new]
    /\ edits' = edits + 1
    /\ UNCHANGED <<proposals, run, apply, failures>>

-----------------------------------------------------------------------------
TaskStep(t) ==
    \/ Plans(t) \/ PlanLimit(t) \/ Looks(t) \/ (\E d \in Docs : ReadsDoc(t, d))
    \/ Round(t) \/ RoundEnds(t) \/ Inspected(t) \/ InspectLimit(t)
    \/ Analyses(t)
    \/ NamesSearched(t) \/ NamesLimit(t)
    \/ (\E d \in Docs : Compares(t, d)) \/ Compared(t) \/ CompareLimit(t)
    \/ (\E d \in Docs : Diffs(t, d)) \/ ProposeLimit(t) \/ Proposed(t)
    \/ SavesProposal(t) \/ ProposalNotSaved(t) \/ SavesLast(t) \/ LastNotSaved(t)
    \/ Answers(t)

Next ==
    \/ \E t \in Tasks : Begins(t) \/ TaskStep(t) \/ ServerFails(t) \/ ProviderFails(t)
    \/ \E t \in Tasks, d \in Docs : AsksToApply(t, d)
    \/ ReadsProposal \/ ShowsDiff \/ ComparesAgain \/ Replaces \/ ApplyBreaksOff
    \/ \E d \in Docs : Edits(d)

\* Every tool call and model call of a task answers or times out.
Spec == Init /\ [][Next]_vars
FairSpec == Spec /\ \A t \in Tasks : WF_vars(TaskStep(t))

-----------------------------------------------------------------------------
(* Properties.                                                             *)

Contents == [text : Texts, newline : {"lf", "crlf"}] \cup {Gone}

\* Every variable stays in its type; a task is only ever on a document it
\* read and changed, and within its budgets.
TypeOK ==
    /\ files \in [Docs -> Contents]
    /\ \A d \in Docs : proposals[d] = NoProposal \/ proposals[d] \in [text : Tasks, base : Contents]
    /\ \A t \in Tasks : LET r == run[t] IN
        /\ r.calls \in 0..MaxToolCalls /\ r.asked \in 0..MaxModelCalls /\ r.rounds \in 0..MaxRounds
        /\ r.reads \in [Docs -> Contents]
        /\ r.diffs \cup r.left \subseteq r.changed
        /\ r.errors \in {"none", "limit", "more"}
        /\ r.artifacts \subseteq Docs \cup {"patch", "review", "report"}
        /\ r.now \in Docs \cup {"none"}
        /\ r.status \in {"none", "unsupported", "failed", "partial", "completed"}
    /\ edits \in 0..MaxEdits /\ failures \in 0..MaxFailures

Documented(t) == At(t, "finished") /\ run[t].workflow = "docs_update"
Whole(t) ==
    /\ "review" \in run[t].artifacts
    /\ run[t].diffs = run[t].changed
    /\ run[t].diffs # {} => "patch" \in run[t].artifacts

\* A task that says it is completed left nothing out: every replacement that
\* stood the checks has its proposal, the patch and the review are saved -
\* whatever limit, refusal or failure it met on the way (TaskResult.status).
CompletedIsWhole ==
    \A t \in Tasks : Documented(t) /\ run[t].status = "completed" => Whole(t)

\* The calls held back for saving are enough: a task that met nothing but a
\* limit still writes all it found, for up to two documents (SAVE_RESERVE:
\* two calls for each, the patch and the review).
ReserveIsEnough ==
    \A t \in Tasks :
        Documented(t) /\ run[t].errors = "limit" /\ Cardinality(run[t].changed) <= 2
            => Whole(t)

\* What a task lists to be applied is there to be applied: a diff has a
\* saved proposal, and was made against a document that was read.
DiffsHaveProposals ==
    \A t \in Tasks : \A d \in run[t].diffs :
        /\ d \in run[t].artifacts
        /\ run[t].reads[d] # Unread
        /\ proposals[d] # NoProposal

\* What a task says of itself is true: its status, what it lists, and that
\* its limits never cost it the saving of what it found (_docs, _finish).
ResultIsTrue == TypeOK /\ CompletedIsWhole /\ ReserveIsEnough /\ DiffsHaveProposals

\* A document changes only when somebody edits it, or when a confirmed
\* proposal replaces the very content - text and line ends - that the command
\* names, and keeps the line ends; the task's own proposal was made against
\* that content, one that a later task has put in its place need not have been
\* (apply_proposal).
AppliedToWhatItWasMadeFor ==
    [][\A d \in Docs : files'[d] # files[d] /\ edits' = edits =>
        /\ apply.step = "replace" /\ apply.doc = d
        /\ files[d] = apply.expected
        /\ apply.text = apply.task => files[d] = apply.base
        /\ files'[d] = [files[d] EXCEPT !.text = apply.text]]_vars

\* Every task comes to an end: a result, or a refusal when no plan could be made.
TasksEnd == \A t \in Tasks : Running(t) ~> At(t, "answered") \/ At(t, "refused")
=============================================================================
