----------------------------- MODULE FileTaskMC -----------------------------
(* Two documents, one of them with "crlf" line ends, and two tasks, with     *)
(* people about; or four documents and one task, more than its budget lets   *)
(* it save, and nobody else.                                                 *)
EXTENDS FileTask

CONSTANTS d1, d2, d3, d4, t1, t2
VARIABLE size

BothEnds == [d \in {d1, d2, d3, d4} |-> IF d = d2 THEN "crlf" ELSE "lf"]
FirstBothThenAll == [t \in {t1, t2} |-> IF t = t1 THEN {d1, d2} ELSE {d1, d2, d3, d4}]

sizedVars == <<size, vars>>

SizedInit == size \in {"two", "four"} /\ Init

\* With two documents the second task reads one of them, and a task makes no
\* call while it looks but to read: that the budget runs out there is left
\* to the other size.
OnlyReads ==
    /\ \A d \in {d2, d3, d4} : run'[t2].reads[d] = Unread
    /\ \A t \in {t1, t2} :
         run'[t].pc \in {"inspect", "names"} =>
             run'[t].calls <= 1 + Cardinality({d \in {d1, d2} : run'[t].reads[d] # Unread})

Two(step) ==
    /\ size = "two" /\ step /\ OnlyReads
    /\ files'[d3] = files[d3] /\ files'[d4] = files[d4]
    /\ UNCHANGED size
Four(step) == size = "four" /\ step /\ UNCHANGED size

SizedNext == Two(Next) \/ Four(Begins(t2) \/ TaskStep(t2))

\* The fairness of FileTask: only t2 ever begins with four documents.
SizedSpec ==
    /\ SizedInit /\ [][SizedNext]_sizedVars
    /\ \A t \in {t1, t2} : WF_sizedVars(Two(TaskStep(t)) \/ Four(TaskStep(t)))

=============================================================================
