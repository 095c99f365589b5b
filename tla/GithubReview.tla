---------------------------- MODULE GithubReview ----------------------------
(***************************************************************************)
(* The pull-request review: the workflow that queues a job for a push, the *)
(* script that reads the pull request, asks the backend and publishes one  *)
(* comment (github_review.py), and the backend that reviews one diff at a  *)
(* time (routes/code_review.py, code_review.py).                           *)
(*                                                                         *)
(* A pull request's commits are numbered by its pushes; a diff is known by *)
(* the commit it was read at.  GitHub and the runner are the environment.  *)
(***************************************************************************)
EXTENDS Naturals, Sequences, FiniteSets, SequencesExt

CONSTANTS
    Pulls,          \* pull requests, each of a branch of this repository
    MaxPolls,       \* BUSY_WAIT / BUSY_POLL: how often a busy backend is asked again
    MaxPushes,      \* bound: pushes to each pull request
    MaxFailures     \* bound: calls that fail, jobs that are stopped

ASSUME ReviewAssumption ==
    /\ IsFiniteSet(Pulls) /\ MaxPolls \in Nat
    /\ MaxPushes \in [Pulls -> Nat] /\ MaxFailures \in Nat

VARIABLES
    head,           \* the number of a pull request's last commit
    open,
    queued,         \* a run that waits for the one before it
    job,            \* the run under way: what it has read and what it will say
    outcome,        \* how the last run of a pull request ended
    gate,           \* ConcurrencyGate(1): the places taken
    reviewing,      \* the reviews under way in the backend
    comments,       \* those of github-actions[bot] that carry the marker
    failures
reviewVars == <<head, open, queued, job, outcome, gate, reviewing, comments, failures>>

NoJob == [step |-> "none", commit |-> 0, diff |-> 0, says |-> "none", polls |-> 0]

ReviewInit ==
    /\ head = [p \in Pulls |-> 0]
    /\ open = [p \in Pulls |-> TRUE]
    /\ queued = [p \in Pulls |-> FALSE]
    /\ job = [p \in Pulls |-> NoJob]
    /\ outcome = [p \in Pulls |-> "none"]
    /\ gate = 0
    /\ reviewing = {}
    /\ comments = [p \in Pulls |-> <<>>]
    /\ failures = 0

At(p, step) == job[p].step = step

-----------------------------------------------------------------------------
(* The pull request and the workflow.                                      *)

\* Mutant: a push while a review runs starts nothing.
QueuesIfIdle(p) == queued' = [queued EXCEPT ![p] = @ \/ At(p, "none")]

\* One run at a time, and one that waits; a newer one takes its place.
Queues(p) == queued' = [queued EXCEPT ![p] = TRUE]

Pushes(p) ==
    /\ open[p] /\ head[p] < MaxPushes[p]
    /\ head' = [head EXCEPT ![p] = @ + 1]
    /\ Queues(p)
    /\ UNCHANGED <<open, job, outcome, gate, reviewing, comments, failures>>

\* Merged or closed, which queues nothing.
Closes(p) ==
    /\ open[p]
    /\ open' = [open EXCEPT ![p] = FALSE]
    /\ UNCHANGED <<head, queued, job, outcome, gate, reviewing, comments, failures>>

JobStarts(p) ==
    /\ queued[p] /\ At(p, "none")
    /\ queued' = [queued EXCEPT ![p] = FALSE]
    /\ job' = [job EXCEPT ![p].step = "pull"]
    /\ UNCHANGED <<head, open, outcome, gate, reviewing, comments, failures>>

-----------------------------------------------------------------------------
(* run(): three reads, the request, the comment.                           *)

JobBecomes(p, new) ==
    /\ job' = [job EXCEPT ![p] = new]
    /\ UNCHANGED <<head, open, queued, outcome, gate, reviewing, comments, failures>>

Ends(p, how) ==
    /\ job' = [job EXCEPT ![p] = NoJob]
    /\ outcome' = [outcome EXCEPT ![p] = how]

ReadsPull(p) ==
    /\ At(p, "pull")
    /\ IF open[p]
       THEN JobBecomes(p, [job[p] EXCEPT !.step = "diff", !.commit = head[p]])
       ELSE Ends(p, "closed") /\ UNCHANGED <<head, open, queued, gate, reviewing, comments, failures>>

ReadsDiff(p) ==
    /\ At(p, "diff")
    /\ JobBecomes(p, [job[p] EXCEPT !.step = "files", !.diff = head[p]])

ReadsFiles(p) ==
    /\ At(p, "files")
    /\ JobBecomes(p, [job[p] EXCEPT !.step = "ask"])

Says(p, what) == [job[p] EXCEPT !.step = "publish", !.says = what, !.polls = 0]

\* try_enter
HasRoom == gate < 1

\* POST /code-review: refused before any work, busy, or under way.
AsksForReview(p) ==
    /\ At(p, "ask")
    /\ HasRoom
    /\ gate' = gate + 1
    /\ reviewing' = reviewing \cup {[pull |-> p, diff |-> job[p].diff, asks |-> 0]}
    /\ job' = [job EXCEPT ![p].step = "asked", ![p].polls = 0]
    /\ UNCHANGED <<head, open, queued, outcome, comments, failures>>

RefusedAtOnce(p) ==
    /\ At(p, "ask")
    /\ JobBecomes(p, Says(p, "not_run"))

\* Mutant: once more than the limit says.
PollsOnceMore(p) ==
    /\ At(p, "ask") /\ gate = 1
    /\ JobBecomes(p, IF job[p].polls <= MaxPolls THEN [job[p] EXCEPT !.polls = @ + 1] ELSE Says(p, "not_run"))

\* review_when_free: sleeps, and asks again; at the end says that it was busy.
Polls(p) ==
    /\ At(p, "ask") /\ gate = 1
    /\ JobBecomes(p, IF job[p].polls < MaxPolls THEN [job[p] EXCEPT !.polls = @ + 1] ELSE Says(p, "not_run"))

-----------------------------------------------------------------------------
(* CodeReviewer.review in the backend.                                     *)

Waiting(review) == At(review.pull, "asked")

\* The finally of the route: the place is free again, whatever the answer.
Leaves(review) == gate' = gate - 1 /\ reviewing' = reviewing \ {review}

Answered(review, what) ==
    /\ Leaves(review)
    /\ job' = IF Waiting(review) THEN [job EXCEPT ![review.pull] = Says(review.pull, what)] ELSE job
    /\ UNCHANGED <<head, open, queued, outcome, comments, failures>>

\* read_files, build_prompt: a file of the list that is not in the diff - they
\* are two reads - no text at all, a first hunk that does not fit.
InvalidDiff(review) ==
    /\ review.asks = 0
    /\ Answered(review, "not_run")

\* The model's answer is no JSON; it is asked once to repair it.
AsksToRepair(review) ==
    /\ review.asks = 0
    /\ reviewing' = (reviewing \ {review}) \cup {[review EXCEPT !.asks = 1]}
    /\ UNCHANGED <<head, open, queued, job, outcome, gate, comments, failures>>

ProviderUnavailable(review) == Answered(review, "not_run")

InvalidOutput(review) ==
    /\ review.asks = 1
    /\ Answered(review, "not_run")

Reviews(review) == Answered(review, "review")

-----------------------------------------------------------------------------
(* publish(): this tool's earlier comment is updated, or one is made.      *)

Comment(p) == [of |-> job[p].commit, diff |-> job[p].diff, says |-> job[p].says]

\* The first of this tool's comments, or 0.
FirstOwn(p) == IF comments[p] = <<>> THEN 0 ELSE 1

\* The listing decides which call is made.
ListsComments(p) ==
    /\ At(p, "publish")
    /\ JobBecomes(p, [job[p] EXCEPT !.step = IF FirstOwn(p) = 0 THEN "create" ELSE "update"])

WritesComment(p) ==
    comments' = [comments EXCEPT ![p] = IF At(p, "create") THEN Append(@, Comment(p)) ELSE [@ EXCEPT ![1] = Comment(p)]]

Publishes(p) ==
    /\ job[p].step \in {"create", "update"}
    /\ WritesComment(p)
    /\ Ends(p, "told")
    /\ UNCHANGED <<head, open, queued, gate, reviewing, failures>>

-----------------------------------------------------------------------------
(* What fails.                                                             *)

Fails == failures < MaxFailures /\ failures' = failures + 1

\* A call to GitHub: the run ends with status 1.  One that timed out may have written.
GitHubFails(p) ==
    /\ Fails
    /\ job[p].step \in {"pull", "diff", "files", "publish", "create", "update"}
    /\ Ends(p, "lost")
    /\ \/ UNCHANGED comments
       \/ job[p].step \in {"create", "update"} /\ WritesComment(p)
    /\ UNCHANGED <<head, open, queued, gate, reviewing>>

\* The backend cannot be reached, or the script stops waiting for it (REVIEW_TIMEOUT).
StopsWaiting(p) ==
    /\ Fails
    /\ job[p].step \in {"ask", "asked"}
    /\ job' = [job EXCEPT ![p] = Says(p, "not_run")]
    /\ UNCHANGED <<head, open, queued, outcome, gate, reviewing, comments>>

\* timeout-minutes: the runner stops the job wherever it is; the backend goes on.
Stopped(p) ==
    /\ Fails
    /\ ~At(p, "none")
    /\ Ends(p, "lost")
    /\ UNCHANGED <<head, open, queued, gate, reviewing, comments>>

-----------------------------------------------------------------------------
JobStep(p) ==
    \/ JobStarts(p) \/ ReadsPull(p) \/ ReadsDiff(p) \/ ReadsFiles(p)
    \/ AsksForReview(p) \/ RefusedAtOnce(p) \/ Polls(p) \/ ListsComments(p) \/ Publishes(p)

ReviewStep(review) ==
    \/ InvalidDiff(review) \/ AsksToRepair(review) \/ ProviderUnavailable(review)
    \/ InvalidOutput(review) \/ Reviews(review)

ReviewNext ==
    \/ \E p \in Pulls : Pushes(p) \/ Closes(p) \/ JobStep(p) \/ GitHubFails(p) \/ StopsWaiting(p) \/ Stopped(p)
    \/ \E review \in reviewing : ReviewStep(review)

ReviewSpec == ReviewInit /\ [][ReviewNext]_reviewVars

\* The runner goes on with a job, and the model answers or its timeout does.
FairReviewSpec ==
    /\ ReviewSpec
    /\ \A p \in Pulls : WF_reviewVars(JobStep(p))
    /\ WF_reviewVars(\E review \in reviewing : ReviewStep(review))

-----------------------------------------------------------------------------
(* Properties.                                                             *)

Commits(p) == 0..MaxPushes[p]

\* Every variable stays in its type.
ReviewTypeOK ==
    /\ open \in [Pulls -> BOOLEAN] /\ queued \in [Pulls -> BOOLEAN]
    /\ \A p \in Pulls :
        /\ {head[p], job[p].commit, job[p].diff} \subseteq Commits(p)
        /\ job[p].polls \in 0..MaxPolls
        /\ outcome[p] \in {"none", "told", "lost", "closed"}
    /\ gate \in 0..Cardinality(Pulls)
    /\ \A review \in reviewing : review.diff \in Commits(review.pull) /\ review.asks \in {0, 1}
    /\ failures \in 0..MaxFailures

\* The backend reviews one diff at a time, and its gate counts just that:
\* also when the script that asked has stopped waiting.
OneReviewAtATime == Cardinality(reviewing) = gate /\ gate <= 1

\* A pull request collects one comment, not one for each push, also after a
\* job that was stopped or whose call timed out though it had written.
OneComment == \A p \in Pulls : Len(comments[p]) <= 1

\* Whatever pushes arrived while a review was under way: when the runs of an
\* open pull request have come to rest and the last one could publish, its
\* comment is about the last commit, and so is the diff it was made from.
SettledIsCurrent ==
    \A p \in Pulls :
        open[p] /\ At(p, "none") /\ ~queued[p] /\ outcome[p] = "told" =>
            /\ comments[p] # <<>>
            /\ Last(comments[p]).of = head[p] /\ Last(comments[p]).diff = head[p]

\* A comment never shows findings of a diff older than the commit it names.
DiffIsNotOlder == \A p \in Pulls : \A i \in DOMAIN comments[p] : comments[p][i].diff >= comments[p][i].of

\* Every push of a pull request gets an end to its review, and the backend
\* does not stay busy.
RunsEnd == \A p \in Pulls : queued[p] ~> At(p, "none") /\ ~queued[p]
GateIsFreed == gate = 1 ~> gate = 0

(***************************************************************************)
(* What a pull request shows is its review: made one at a time, told in    *)
(* one comment, of a diff no older than the commit it names, and at rest   *)
(* of the last one pushed (github_review.run, publish; the route's gate).  *)
(***************************************************************************)
ReviewsAreRight == OneReviewAtATime /\ OneComment /\ DiffIsNotOlder /\ SettledIsCurrent

=============================================================================
