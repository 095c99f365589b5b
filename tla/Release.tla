------------------------------ MODULE Release -------------------------------
(***************************************************************************)
(* The release assistant (release_assistant.py): look at the repository,   *)
(* collect the changes, compare the documentation, review the diffs in     *)
(* batches, run the checks a person asked for, draft the texts, conclude,  *)
(* and write the artifacts into a folder of their own - while people and   *)
(* checks go on changing the repository.                                   *)
(*                                                                         *)
(* The working tree's content is known by a version that every change      *)
(* raises.  One preparation at a time, as the route's gate lets through;   *)
(* a preparation from the command line, or a person, is "others".          *)
(***************************************************************************)
EXTENDS Naturals, FiniteSets, Sequences, FiniteSetsExt, SequencesExt, TLC

CONSTANTS
    Files,              \* the tracked files
    Checks,             \* the checks configured for the repository, in order
    Names,              \* the artifacts besides the record, in order
    Ids,                \* what run ids can be made of one second
    MaxIdTries,
    BatchFiles,         \* how many files fill a batch
    MaxBatches,
    MaxRuns,            \* bound: preparations
    MaxChanges,         \* bound: edits and commits by people and checks
    MaxOthers,          \* bound: files others put into the output folder
    MaxFailures         \* bound: servers, models, disks that fail

RECORD == "run.json"

ASSUME ReleaseAssumption ==
    /\ IsFiniteSet(Files) /\ Checks \in Seq(Range(Checks))
    /\ Names \in Seq(Range(Names)) /\ RECORD \notin Range(Names)
    /\ MaxIdTries \in Nat /\ BatchFiles \in Nat \ {0} /\ MaxBatches \in Nat \ {0}
    /\ {MaxRuns, MaxChanges, MaxOthers, MaxFailures} \subseteq Nat

VARIABLES
    tree,       \* the repository: committed since the base, modified, its version
    run,        \* the Run of the preparation under way
    output,     \* the run folders: what each file was written by
    runs, others, failures
vars == <<tree, run, output, runs, others, failures>>
counts == <<runs, others, failures>>

Artifacts == Range(Names) \cup {RECORD}

\* What an artifact holds of the run it was rendered from, and whose it is.
Text(by, r) == [by |-> by, status |-> r.status, verdict |-> r.verdict, artifacts |-> r.saved]

NoRun == [
    step |-> "none",
    base |-> FALSE, include |-> FALSE,  \* the request: is there a base_ref; include_uncommitted
    checks |-> {},                      \* ... the checks it selects
    start |-> {},                       \* git_status_at_start, as _tree_signature has it: which files are modified
    startVersion |-> 0,                 \* what the tree held then
    scope |-> {},                       \* the files collected, then those of the diff
    withheld |-> {},                    \* of those: credentials, generated, binary, over the budget
    batches |-> <<>>,                   \* still to review
    given |-> {},                       \* the files of batches the model reviewed;
    partly |-> {}, unseen |-> {},       \* of them: read in part, and not at all
    notReviewed |-> {},
    broken |-> FALSE,                   \* a batch failed, or the model went away
    draft |-> "none",
    results |-> [c \in Range(Checks) |-> "not_run"],
    executed |-> FALSE,
    compared |-> FALSE, treeChanged |-> FALSE,  \* tree_after_checks
    versions |-> {},                    \* of the tree: when each check began, and when it was compared
    onlyEdits |-> TRUE,                 \* of what befell the tree meanwhile: nothing undone, nothing committed
    defect |-> FALSE, remark |-> FALSE, \* something that blocks, something that warns: changes left
                                        \* out of the analysis, findings of rules and of the review
    status |-> "none", verdict |-> "none",
    tried |-> 0, id |-> "none", folder |-> "none",
    since |-> {},                       \* what others put into the folder after it was probed
    saved |-> {}, missed |-> {}]

Absent == Text("nobody", NoRun)
Others == Text("others", NoRun)

Init ==
    /\ \E committed, modified \in SUBSET Files :
        tree = [committed |-> committed, modified |-> modified, version |-> 0]
    /\ run = NoRun
    /\ output = [i \in Ids |-> [n \in Artifacts |-> Absent]]
    /\ runs = 0 /\ others = 0 /\ failures = 0

At(step) == run.step = step

Becomes(new) ==
    /\ run' = new
    /\ UNCHANGED <<tree, output, counts>>

Goes(r, step) == [r EXCEPT !.step = step]
Fails == failures < MaxFailures /\ failures' = failures + 1

-----------------------------------------------------------------------------
(* The request.                                                            *)

\* Checks run only when run_checks is on: those named, or all of them.
Selections == {{}} \cup {c \in SUBSET Range(Checks) : c # {}}

\* A request the configuration refuses - a repository, a check or a folder it
\* does not know - is answered before anything is looked at.
Prepares ==
    /\ At("none") /\ runs < MaxRuns
    /\ \E base, include \in BOOLEAN, selected \in Selections :
        run' = [NoRun EXCEPT !.step = "inspect", !.base = base, !.include = base /\ include,
                             !.checks = selected]
    /\ runs' = runs + 1
    /\ UNCHANGED <<tree, output, others, failures>>

\* No base, an unknown one, a server that will not start: nothing is written.
Refuses ==
    /\ run.step \in {"inspect", "collect", "diff"}
    /\ Fails
    /\ run' = NoRun
    /\ UNCHANGED <<tree, output, runs, others>>

-----------------------------------------------------------------------------
(* Looking and collecting.                                                 *)

\* get_git_status; the rest of what _inspect gathers may be missing.
Inspects ==
    /\ At("inspect")
    /\ \E conflicted \in BOOLEAN :
        Becomes([Goes(run, "collect") EXCEPT !.start = tree.modified, !.startVersion = tree.version,
                                             !.defect = conflicted])

\* The change set of a scope: base...HEAD, and the working tree when it is asked for.
InScope(r) ==
    CASE ~r.base -> tree.modified
      [] r.base /\ r.include -> tree.committed \cup tree.modified
      [] OTHER -> tree.committed

\* other_changes: uncommitted ones are analyzed, or are there and are not.
AnalyzesLess(r) == ~r.base \/ r.include \/ tree.modified # {}

Collects ==
    /\ At("collect")
    /\ \E untracked \in BOOLEAN :
        LET r == [run EXCEPT !.scope = InScope(run),
                             !.remark = AnalyzesLess(run) \/ untracked]
        IN  Becomes(Goes(r, IF r.scope = {} THEN "conclude" ELSE "diff"))

Analyzed(r) == r.scope \ r.withheld

\* make_batches: in order, as many files as a batch holds.
Batched(files) ==
    LET order == SetToSeq(files)
        n == (Len(order) + BatchFiles - 1) \div BatchFiles
    IN  [k \in 1..n |-> {order[j] : j \in ((k - 1) * BatchFiles + 1)..(IF k = n THEN Len(order) ELSE k * BatchFiles)}]

\* Those over the budget of batches are told of, not reviewed.
Plan(r) ==
    LET batches == Batched(Analyzed(r))
    IN  IF Len(batches) <= MaxBatches THEN [r EXCEPT !.batches = batches]
        ELSE [r EXCEPT !.batches = SubSeq(batches, 1, MaxBatches),
                       !.notReviewed = UNION {batches[k] : k \in (MaxBatches + 1)..Len(batches)}]

\* get_git_diff: the scope as it is now, which may have become another one.
ReadsDiff ==
    /\ At("diff")
    /\ \E withheld \in SUBSET InScope(run) :
        LET r == [run EXCEPT !.scope = InScope(run), !.withheld = withheld,
                             !.base = FALSE, !.include = FALSE]     \* no longer read
        IN  Becomes(IF Analyzed(r) = {} THEN Goes(r, "conclude") ELSE Goes(Plan(r), "documents"))

\* Documents that mention what changed are a warning each.
Documents ==
    /\ At("documents")
    /\ \E flagged \in BOOLEAN : Becomes([Goes(run, "review") EXCEPT !.remark = @ \/ flagged])

-----------------------------------------------------------------------------
(* The review, batch by batch.                                             *)

Batch == Head(run.batches)
NextBatch(r) == [r EXCEPT !.batches = Tail(@)]

\* files_reviewed: what the model was shown, in whole or in part.
Shown(r) == r.given \ r.unseen

\* The model is shown the hunks in order until its budget is used: of a batch
\* it reads one file at most in part, and perhaps others not at all, which
\* neither keeps the batch from being "reviewed" nor puts them to not_reviewed.
\* (A batch of which it could be shown nothing is too large.)
ReviewsBatch ==
    /\ At("review") /\ run.batches # <<>>
    /\ \E unseen \in (SUBSET Batch) \ {Batch}, finding \in {"none", "remark", "defect"} :
       \E partly \in {{}} \cup {{f} : f \in Batch \ unseen} :
        Becomes([NextBatch(run) EXCEPT !.given = @ \cup Batch,
                                       !.partly = @ \cup partly, !.unseen = @ \cup unseen,
                                       !.remark = @ \/ finding = "remark",
                                       !.defect = @ \/ finding = "defect"])

\* Too large for the model, or refused by the reviewer.
SkipsBatch ==
    /\ At("review") /\ run.batches # <<>>
    /\ Becomes([NextBatch(run) EXCEPT !.notReviewed = @ \cup Batch])

\* No JSON even after the repair.
BatchFails ==
    /\ At("review") /\ run.batches # <<>> /\ Fails
    /\ run' = [NextBatch(run) EXCEPT !.notReviewed = @ \cup Batch, !.broken = TRUE]
    /\ UNCHANGED <<tree, output, runs, others>>

\* The model is gone: no other is asked, and without any review the run stops there.
ModelGoes ==
    /\ At("review") /\ run.batches # <<>> /\ Fails
    /\ run' = [Goes(run, IF Shown(run) = {} THEN "conclude" ELSE "checks") EXCEPT
                    !.notReviewed = @ \cup Batch, !.broken = TRUE, !.draft = "skipped"]
    /\ UNCHANGED <<tree, output, runs, others>>

Reviewed ==
    /\ At("review") /\ run.batches = <<>>
    /\ Becomes(Goes(run, "checks"))

-----------------------------------------------------------------------------
(* The checks, and the tree after them.                                    *)

\* The first of a sequence that is among some.
FirstOf(seq, some) ==
    seq[CHOOSE i \in DOMAIN seq : seq[i] \in some /\ \A j \in 1..(i - 1) : seq[j] \notin some]

ToDo == {c \in run.checks : run.results[c] = "not_run"}

\* run_check in a thread: what the command ended with.
RunsCheck ==
    /\ At("checks") /\ ToDo # {}
    /\ \E result \in {"passed", "failed", "could_not_run"} :       \* a timeout is like could_not_run
        Becomes([run EXCEPT !.results[FirstOf(Checks, ToDo)] = result, !.executed = TRUE,
                            !.versions = @ \cup {tree.version}])

\* Mutant: the tree is compared only if a check failed.
ComparesAfterFailure ==
    /\ At("checks") /\ ToDo = {}
    /\ Becomes([Goes(run, "draft") EXCEPT
            !.compared = run.executed,
            !.treeChanged = \E c \in run.checks : run.results[c] = "failed" /\ tree.modified # run.start,
            !.versions = IF run.executed THEN @ \cup {tree.version} ELSE @])

\* Names and kinds of change, staged or not: the signature, nothing else.
ComparesTree ==
    /\ At("checks") /\ ToDo = {}
    /\ Becomes([Goes(run, "draft") EXCEPT
            !.compared = run.executed, !.treeChanged = run.executed /\ tree.modified # run.start,
            !.versions = IF run.executed THEN @ \cup {tree.version} ELSE @])

\* The server is gone: not compared, which the record says and the verdict does not heed.
CannotCompare ==
    /\ At("checks") /\ ToDo = {} /\ run.executed /\ Fails
    /\ run' = [Goes(run, "draft") EXCEPT !.versions = @ \cup {tree.version}]
    /\ UNCHANGED <<tree, output, runs, others>>

-----------------------------------------------------------------------------
(* The draft, the status, the verdict.                                     *)

Drafts ==
    /\ At("draft")
    /\ Becomes([Goes(run, "conclude") EXCEPT !.draft = IF run.draft = "skipped" THEN @ ELSE "generated"])

\* Unavailable, or no JSON after the repair.
DraftFails ==
    /\ At("draft") /\ run.draft # "skipped" /\ Fails
    /\ run' = [Goes(run, "conclude") EXCEPT !.draft = "failed"]
    /\ UNCHANGED <<tree, output, runs, others>>

StatusOf(r) ==
    CASE r.draft = "skipped" /\ Shown(r) = {} -> "failed"
      [] Analyzed(r) = {} -> "no_changes"
      [] Analyzed(r) # {} /\ (r.broken \/ r.draft \in {"failed", "skipped"} \/ Shown(r) = {})
            /\ ~(r.draft = "skipped" /\ Shown(r) = {}) -> "partial"
      [] OTHER -> "completed"

Blockers(r) == r.defect \/ \E c \in Range(Checks) : r.results[c] = "failed"
Passed(r) == \E c \in Range(Checks) : r.results[c] = "passed"
Unverified(r) == Checks = <<>> \/ \E c \in Range(Checks) : r.results[c] \notin {"passed", "failed"}

Warnings(r) ==
    r.remark \/ r.withheld # {} \/ r.notReviewed # {} \/ r.treeChanged \/ r.draft = "failed"

Verdict(r) ==
    CASE StatusOf(r) = "failed" -> "not_verified"
      [] StatusOf(r) = "no_changes" -> "nothing_to_release"
      [] OTHER -> CASE Blockers(r) -> "blocked"
                    [] ~Blockers(r) /\ ~Passed(r) -> "not_verified"
                    [] ~Blockers(r) /\ Passed(r) /\ (Warnings(r) \/ Unverified(r)) -> "ready_with_warnings"
                    [] OTHER -> "ready"

\* The status and the readiness verdict: what is left of the run is what its
\* texts say of it.  (The id was made when it began.)
Concludes ==
    /\ At("conclude")
    /\ \E id \in Ids : Becomes([NoRun EXCEPT
            !.step = "probe", !.id = id, !.status = StatusOf(run), !.verdict = Verdict(run)])

-----------------------------------------------------------------------------
(* _write: a folder nobody has written to, the artifacts, last the record. *)

\* Mutant: a folder with no record in it is taken for a free one.
FreeIfNoRecord(i) == output[i][RECORD] = Absent

Free(i) == \A n \in Artifacts : output[i][n] = Absent

\* Mutant: tried for as long as it takes.
ProbesOn ==
    /\ At("probe")
    /\ IF Free(run.id)
       THEN Becomes([Goes(run, "save") EXCEPT !.folder = run.id])
       ELSE \E id \in Ids : Becomes([run EXCEPT !.id = id])

\* All the names are probed; a folder that holds any is left alone, and the id is made anew.
Probes ==
    /\ At("probe") /\ run.tried < MaxIdTries
    /\ IF Free(run.id)
       THEN Becomes([Goes(run, "save") EXCEPT !.folder = run.id])
       ELSE \E id \in Ids : Becomes([run EXCEPT !.id = id, !.tried = @ + 1])

\* The status stays what it was.
NoFreeFolder ==
    /\ At("probe") /\ run.tried = MaxIdTries
    /\ Becomes(Goes(run, "answer"))

OutputUnavailable ==
    /\ At("probe") /\ run.tried < MaxIdTries /\ Fails
    /\ run' = [Goes(run, "answer") EXCEPT !.status = IF @ = "completed" THEN "failed" ELSE @]
    /\ UNCHANGED <<tree, output, runs, others>>

ToSave == Range(Names) \ (run.saved \cup run.missed)
NextName == FirstOf(Names, ToSave)

\* The four texts are rendered before the first of them is written.
Rendered(r) == Text(ToString(runs), [r EXCEPT !.saved = {}])
Record(r) == Text(ToString(runs), r)

\* write_project_file; the reply says whether there was a file already.
Puts(n, text) ==
    /\ output' = [output EXCEPT ![run.folder][n] = text]
    /\ UNCHANGED <<tree, counts>>

Saves ==
    /\ At("save") /\ ToSave # {}
    /\ Puts(NextName, Rendered(run))
    /\ run' = [run EXCEPT !.saved = @ \cup {NextName}]

\* Refused, or broken off - and then it may have been written all the same.
NotSaved ==
    /\ At("save") /\ ToSave # {} /\ Fails
    /\ \/ UNCHANGED output
       \/ output' = [output EXCEPT ![run.folder][NextName] = Rendered(run)]
    /\ run' = [run EXCEPT !.missed = @ \cup {NextName}]
    /\ UNCHANGED <<tree, runs, others>>

\* Mutant: the status is left as it was concluded.
LastStatusKept(r) == r

\* What is missing makes a completed run a partial one.
LastStatus(r) == IF r.missed # {} /\ r.status = "completed" THEN [r EXCEPT !.status = "partial"] ELSE r

\* The record is rendered last; it names the artifacts that were saved.
SavesRecord ==
    /\ At("save") /\ ToSave = {}
    /\ Puts(RECORD, Record(LastStatus(run)))
    /\ run' = Goes(LastStatus(run), "answer")

RecordNotSaved ==
    /\ At("save") /\ ToSave = {} /\ Fails
    /\ run' = Goes(LastStatus(run), "answer")
    /\ \/ UNCHANGED output
       \/ output' = [output EXCEPT ![run.folder][RECORD] = Record(run')]
    /\ UNCHANGED <<tree, runs, others>>

\* The route leaves its gate and replies; the command line exits.
Answers ==
    /\ At("answer")
    /\ Becomes(NoRun)

-----------------------------------------------------------------------------
(* People, checks that change what they check, and other writers: from     *)
(* the status on and until the comparison, and once a folder is looked at. *)

Changes(new, r) ==
    /\ run.step \in {"collect", "diff", "documents", "review", "checks"}
    /\ tree.version < MaxChanges
    /\ tree' = [new EXCEPT !.version = @ + 1]
    /\ run' = r
    /\ UNCHANGED <<output, runs, others, failures>>

\* A file is edited, one that was modified before or not.
Edits(f) == Changes([tree EXCEPT !.modified = @ \cup {f}], run)

\* What HEAD has of it is put back.
Restores(f) ==
    /\ f \in tree.modified
    /\ Changes([tree EXCEPT !.modified = @ \ {f}], [run EXCEPT !.onlyEdits = FALSE])

Commits ==
    /\ tree.modified # {}
    /\ Changes([tree EXCEPT !.committed = @ \cup tree.modified, !.modified = {}],
               [run EXCEPT !.onlyEdits = FALSE])

\* Nothing keeps others out of the folder that was found free.
OtherWrites(i, n) ==
    /\ others < MaxOthers /\ others' = others + 1
    /\ run.step \in {"probe", "save", "answer"}
    /\ output' = [output EXCEPT ![i][n] = Others]
    /\ run' = [run EXCEPT !.since = IF i = run.folder THEN @ \cup {n} ELSE @]
    /\ UNCHANGED <<tree, runs, failures>>

-----------------------------------------------------------------------------
RunStep ==
    \/ Inspects \/ Collects \/ ReadsDiff \/ Documents
    \/ ReviewsBatch \/ SkipsBatch \/ Reviewed
    \/ RunsCheck \/ ComparesTree
    \/ Drafts \/ Concludes
    \/ Probes \/ NoFreeFolder \/ Saves \/ SavesRecord \/ Answers

Failure ==
    \/ Refuses \/ BatchFails \/ ModelGoes \/ CannotCompare \/ DraftFails \/ OutputUnavailable
    \/ NotSaved \/ RecordNotSaved

Next ==
    \/ Prepares \/ RunStep \/ Failure
    \/ (\E f \in Files : Edits(f) \/ Restores(f)) \/ Commits
    \/ \E i \in Ids, n \in Range(Names) : OtherWrites(i, n)

\* Every tool call, model call and check answers or times out.
Spec == Init /\ [][Next]_vars
FairSpec == Spec /\ WF_vars(RunStep)

-----------------------------------------------------------------------------
(* Properties.                                                             *)

\* Every variable stays in its type; a file is given to the model or told of,
\* not both, and read in part or not at all only of those given.
TypeOK ==
    /\ tree.committed \cup tree.modified \subseteq Files /\ tree.version \in 0..MaxChanges
    /\ run.withheld \subseteq run.scope /\ run.scope \subseteq Files
    /\ run.given \cup run.notReviewed \subseteq Analyzed(run)
    /\ run.given \cap run.notReviewed = {}
    /\ run.partly \cup run.unseen \subseteq run.given /\ run.partly \cap run.unseen = {}
    /\ run.results \in [Range(Checks) -> {"not_run", "passed", "failed", "could_not_run"}]
    /\ run.versions \subseteq 0..MaxChanges
    /\ run.status \in {"none", "failed", "no_changes", "partial", "completed"}
    /\ run.tried \in 0..MaxIdTries
    /\ run.saved \cup run.missed \subseteq Range(Names) /\ run.saved \cap run.missed = {}

\* What "ready" vouches for: every file changed since the base was in a batch
\* the model reviewed - which has read some of each batch, not always all of it
\* (WarnsOfUnseenFiles) - every check of the configuration passed, and what the
\* checks ran on is what was there when the preparation began, however many
\* edits came while it ran: where the tree could be compared, and nobody
\* committed or put back what was edited, which the comparison of names cannot
\* see.
ReadyIsEarned ==
    At("conclude") /\ Verdict(run) = "ready" =>
        /\ run.given = run.scope /\ Shown(run) # {}
        /\ \A c \in Range(Checks) : run.results[c] = "passed"
        /\ run.compared /\ run.onlyEdits => run.versions = {run.startVersion}

\* A preparation that failed for want of a model ran no check and vouches for nothing.
FailureVouchesForNothing ==
    At("conclude") /\ StatusOf(run) = "failed" =>
        ~run.executed /\ Shown(run) = {} /\ Verdict(run) = "not_verified"

\* The verdict rests on what was done: "ready" on a review of the whole scope
\* and on checks of one tree, and a failure on nothing it did not do.
VerdictIsEarned == TypeOK /\ ReadyIsEarned /\ FailureVouchesForNothing

\* docs/release_assistant.md:78 has unreviewed files among what keeps a release
\* from being "ready".  Not those the reviewer skipped within a batch.
WarnsOfUnseenFiles ==
    At("conclude") /\ Verdict(run) = "ready" => run.unseen = {}

\* docs/release_assistant.md:71: "After the checks the working tree is compared
\* with its state before, and a change is a warning."  Not a change of a file
\* that was modified before: names and kinds of change are compared.
WarnsOfChanges ==
    At("conclude") /\ run.compared /\ Cardinality(run.versions) > 1 => run.treeChanged

\* A record is a true one of its folder, whatever failed while it was filled:
\* the artifacts it names are there, as its run wrote them and with its
\* verdict, unless somebody has put a file of theirs in the place of one since;
\* and a run it calls "completed" has all of them (run.json is written last and
\* names the others).
RecordIsTrue ==
    \A i \in Ids : output[i][RECORD].by \notin {"nobody", "others"} =>
        /\ \A n \in output[i][RECORD].artifacts : output[i][n] # Others =>
            /\ output[i][n].by = output[i][RECORD].by
            /\ output[i][n].verdict = output[i][RECORD].verdict
        /\ output[i][RECORD].status = "completed" => output[i][RECORD].artifacts = Range(Names)

\* A preparation writes over no earlier run's artifact and over no file a
\* person has put there - but one put into the folder after it was probed.
OnlyLateFilesAreReplaced ==
    [][\A i \in Ids, n \in Artifacts :
        output[i][n] # Absent /\ others' = others /\ output'[i][n] # output[i][n] =>
            i = run.folder /\ n \in run.since]_vars

\* docs/release_assistant.md:86, and _write: "an existing file is never
\* overwritten", with no such exception.
NeverOverwritten ==
    [][\A i \in Ids, n \in Artifacts :
        output[i][n] # Absent /\ others' = others => output'[i][n] = output[i][n]]_vars

\* Every preparation is answered, and the next one can begin.
PreparationEnds == run.step # "none" ~> run.step = "none"

=============================================================================
