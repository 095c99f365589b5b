----------------------------- MODULE BackendMC -----------------------------
(* The digest scheduler and the pull-request reviews, one of the two to a   *)
(* behaviour: they share no state.                                          *)
EXTENDS Digest, GithubReview

CONSTANTS p1, p2
VARIABLE kind

backendVars == <<kind, digestVars, reviewVars>>

BackendInit == kind \in {"digests", "reviews"} /\ DigestInit /\ ReviewInit

Digests(step) == kind = "digests" /\ step /\ UNCHANGED <<kind, reviewVars>>
Reviewed(step) == kind = "reviews" /\ step /\ UNCHANGED <<kind, digestVars>>

BackendNext == Digests(DigestNext) \/ Reviewed(ReviewNext)

\* The fairness of both: only one of the first two steps is ever enabled.
BackendSpec ==
    /\ BackendInit /\ [][BackendNext]_backendVars
    /\ WF_backendVars(\/ Digests(Schedules /\ UNCHANGED <<taskVars, clock>>)
                      \/ Reviewed(\E review \in reviewing : ReviewStep(review)))
    /\ \A p \in Pulls : WF_backendVars(Reviewed(JobStep(p)))

TwoThenOne == [p \in {p1, p2} |-> IF p = p1 THEN 2 ELSE 1]

\* Every variable of the two stays in its type.
BackendTypeOK == TasksTypeOK /\ ReviewTypeOK

\* The backend gets on by itself: a task that is due is run, a push gets an
\* end to its review, and the place a review held is given back.
BackendGetsOn == DueIsRun /\ RunsEnd /\ GateIsFreed

=============================================================================
