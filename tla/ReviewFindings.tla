--------------------------- MODULE ReviewFindings ---------------------------
(***************************************************************************)
(* validate_findings of src/app/services/code_review.py: what the model    *)
(* proposed, one finding after another, checked against the diff.          *)
(*                                                                         *)
(* A place is a changed file together with a category: findings of two     *)
(* categories are never compared.  A line of a diff is what it says, and   *)
(* its number in the new file, or NoLine when it was removed.  Quoting a   *)
(* line is quoting the whole of it.                                        *)
(***************************************************************************)
EXTENDS Integers, Sequences, FiniteSets

CONSTANTS
    Places,
    LinesOf(_),         \* a place -> the lines of its diff: [says, number]
    Quotes,             \* what a proposal may quote, in the diff or not
    Numbers,            \* the line numbers a proposal may give
    Titles, Severities, \* 1 is the worst
    MAX_FINDINGS,
    MaxProposed         \* bound: findings of one reply

ASSUME FindingsAssumption ==
    /\ \A place \in Places : IsFiniteSet(LinesOf(place))
    /\ Numbers \subseteq Nat \ {0} /\ Severities \subseteq Nat
    /\ MAX_FINDINGS \in Nat \ {0} /\ MaxProposed \in Nat

VARIABLES
    proposed,           \* how many findings of the reply were passed so far
    accepted,           \* a set: sorting decides the order
    rejected,           \* how many
    findings,           \* what is returned
    checkPc
findingsVars == <<proposed, accepted, rejected, findings, checkPc>>

NoLine == 0

FindingsInit ==
    /\ proposed = 0 /\ accepted = {} /\ rejected = 0
    /\ findings = <<>> /\ checkPc = "checking"

\* The numbered lines that hold a quote.
Holding(place, quote) ==
    {line.number : line \in {l \in LinesOf(place) : l.says = quote /\ l.number # NoLine}}

ShownNumbers(place) == {line.number : line \in LinesOf(place)} \ {NoLine}

TheOne(numbers) == CHOOSE n \in numbers : numbers = {n}

\* A quote that is on one numbered line decides; else a number the diff does
\* not show is removed.
Adjusted(place, quote, number) ==
    CASE Cardinality(Holding(place, quote)) = 1 -> TheOne(Holding(place, quote))
      [] Cardinality(Holding(place, quote)) # 1 /\ number \in ShownNumbers(place) -> number
      [] OTHER -> NoLine

\* What makes a finding the same as another: its line, or its title when it
\* has none, and its quote.
Keys(finding) ==
    { IF finding.line # NoLine THEN <<finding.place, "line", finding.line>>
                               ELSE <<finding.place, "title", finding.title>>,
      <<finding.place, "quote", finding.quote>> }

Seen == UNION {Keys(finding) : finding \in accepted}

Duplicate(finding) == Keys(finding) \cap Seen # {}

Looking == checkPc = "checking" /\ proposed < MaxProposed
Looked == proposed < 2 * MAX_FINDINGS

\* Not an object, an unknown category, severity or file, no title, or no
\* quote that is in the file's diff.
Malformed ==
    /\ Looking /\ Looked
    /\ proposed' = proposed + 1 /\ rejected' = rejected + 1
    /\ UNCHANGED <<accepted, findings, checkPc>>

Checks ==
    /\ Looking /\ Looked
    /\ proposed' = proposed + 1
    /\ \E place \in Places, quote \in Quotes, number \in Numbers \cup {NoLine},
          title \in Titles, severity \in Severities :
         LET finding == [place |-> place, line |-> Adjusted(place, quote, number),
                         quote |-> quote, title |-> title, severity |-> severity]
             unfounded == \A line \in LinesOf(place) : line.says # quote
         IN  IF unfounded \/ Duplicate(finding)
             THEN rejected' = rejected + 1 /\ UNCHANGED accepted
             ELSE accepted' = accepted \cup {finding} /\ UNCHANGED rejected
    /\ UNCHANGED <<findings, checkPc>>

\* Beyond twice as many as are returned, a proposal is not looked at.
Overlooks ==
    /\ Looking /\ ~Looked
    /\ proposed' = proposed + 1
    /\ UNCHANGED <<accepted, rejected, findings, checkPc>>

\* Mutant: they are ordered by where they are.
ByPlace(f, g) == f.line <= g.line

\* The worst first; places have no order here.
NotAfter(f, g) ==
    f.severity < g.severity \/ (f.severity = g.severity /\ (f.place # g.place \/ f.line <= g.line))

\* Sorted, and the first MAX_FINDINGS of them.
Returns ==
    /\ checkPc = "checking"
    /\ LET n == Cardinality(accepted)
           size == IF n < MAX_FINDINGS THEN n ELSE MAX_FINDINGS
       IN  \E best \in {chosen \in SUBSET accepted : Cardinality(chosen) = size} :
             /\ \A f \in best, g \in accepted \ best : NotAfter(f, g)
             /\ findings' \in {order \in [1..size -> best] :
                    /\ {order[k] : k \in 1..size} = best
                    /\ \A j, k \in 1..size : j < k => NotAfter(order[j], order[k])}
    /\ checkPc' = "checked"
    /\ UNCHANGED <<proposed, accepted, rejected>>

FindingsNext == Malformed \/ Checks \/ Overlooks \/ Returns
FindingsSpec == FindingsInit /\ [][FindingsNext]_findingsVars

-----------------------------------------------------------------------------
(***************************************************************************)
(* "A finding that names a line the diff does not show can be caught       *)
(* instead of believed" (code_review_diff.py:12): a returned finding has a *)
(* line of its own file's diff, or none, and the line of its quote when    *)
(* that is on one line.                                                    *)
(***************************************************************************)
LinesAreOfTheDiff ==
    \A k \in 1..Len(findings) : LET f == findings[k] IN
        /\ f.line # NoLine => f.line \in ShownNumbers(f.place)
        /\ Cardinality(Holding(f.place, f.quote)) = 1 => f.line \in Holding(f.place, f.quote)

(***************************************************************************)
(* One finding per problem: no two that are returned are about one line,   *)
(* or quote the same of it, even when the model gave them other lines.     *)
(***************************************************************************)
NoTwoAlike ==
    \A j, k \in 1..Len(findings) : LET f == findings[j]  g == findings[k] IN
        f.place = g.place /\ (f.quote = g.quote \/ (f.line = g.line /\ f.line # NoLine)) => j = k

(***************************************************************************)
(* What is cut to MAX_FINDINGS is the least severe of what was accepted,   *)
(* and every proposal that was looked at was accepted or rejected.         *)
(***************************************************************************)
WorstAreReturned ==
    checkPc = "checked" =>
        /\ \A k \in 1..Len(findings), g \in accepted :
             g.severity < findings[k].severity => \E j \in 1..Len(findings) : findings[j] = g
        /\ proposed <= 2 * MAX_FINDINGS => Cardinality(accepted) + rejected = proposed

(***************************************************************************)
(* Whatever the model returns, what validate_findings hands on is about    *)
(* the diff, says nothing twice, and is the worst of it.                   *)
(***************************************************************************)
FindingsAreRight == LinesAreOfTheDiff /\ NoTwoAlike /\ WorstAreReturned

=============================================================================
