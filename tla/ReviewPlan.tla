----------------------------- MODULE ReviewPlan -----------------------------
(***************************************************************************)
(* What a review's prompt holds, src/app/services/code_review.py:          *)
(* gather_context looks for related chunks, one query after another, and   *)
(* build_prompt fits the diff and those chunks into the model's budget.    *)
(* One action is one pass of a loop.                                       *)
(*                                                                         *)
(* A hunk, a file without text and a chunk are what they cost in tokens.   *)
(* The tokens of the rules and of the list of files are already taken off  *)
(* what is available.                                                      *)
(***************************************************************************)
EXTENDS Integers, Sequences, FiniteSets

CONSTANTS
    Chunks,             \* numbered: a chunk's id
    CostOf(_),          \* what a chunk's block costs
    Scores,             \* rerank scores
    MaxQueries,         \* bound: queries of a review
    ANCHOR_CHUNKS, CONTEXT_CHUNKS,
    ReviewedFiles,      \* sequences of [text |-> is there any, cost, hunks]
    Budgets,            \* what is available: may be nothing at all
    CONTEXT_SHARE       \* percent of it kept for context

ASSUME ReviewPlanAssumption ==
    /\ Chunks \subseteq Nat /\ IsFiniteSet(Chunks)
    /\ \A c \in Chunks : CostOf(c) \in Nat
    /\ MaxQueries \in Nat /\ ANCHOR_CHUNKS \in Nat /\ CONTEXT_CHUNKS \in Nat
    /\ CONTEXT_SHARE \in 0..100
    /\ Scores \subseteq Int /\ Budgets \subseteq Int
    /\ \A files \in ReviewedFiles :
         /\ files \in Seq({files[k] : k \in DOMAIN files})
         /\ \A k \in DOMAIN files :
              /\ files[k].cost \in Nat /\ files[k].hunks \in Seq(Nat)
              /\ files[k].text <=> files[k].hunks # <<>>

VARIABLES
    asked,              \* how many queries were made
    anchors,            \* the chunks that hold lines of the diff
    best,               \* chunk -> the best score a query gave it
    context,            \* the chunks, ranked
    parts,              \* the files of the diff
    available, diffBudget,
    used,
    shown,              \* for each file so far: how many hunks, and its state
    full,               \* no hunk has been left out yet
    taken,              \* hunks taken of the file at hand
    room, inPrompt, looked,     \* the context: what is left, what is in, how many seen
    planPc
gatherVars == <<asked, anchors, best, context>>
diffVars == <<parts, available, diffBudget, used, shown, full, taken>>
contextVars == <<room, inPrompt, looked>>
reviewPlanVars == <<gatherVars, diffVars, contextVars, planPc>>

Listed(seq) == {seq[k] : k \in 1..Len(seq)}

ReviewPlanInit ==
    /\ asked = 0 /\ anchors = <<>> /\ best = [c \in {} |-> 0] /\ context = <<>>
    /\ parts = <<>> /\ available = 0 /\ diffBudget = 0
    /\ used = 0 /\ shown = <<>> /\ full = TRUE /\ taken = 0
    /\ room = 0 /\ inPrompt = <<>> /\ looked = 0
    /\ planPc = "anchors"

-----------------------------------------------------------------------------
(* gather_context                                                           *)

\* At most ANCHOR_CHUNKS: the chunks of the changed files that hold most of the lines.
\* None when the index cannot be read.
FindsAnchors ==
    /\ planPc = "anchors"
    /\ \E n \in 0..ANCHOR_CHUNKS :
         anchors' \in {found \in [1..n -> Chunks] : Cardinality(Listed(found)) = n}
    /\ planPc' = "searching"
    /\ UNCHANGED <<asked, best, context, diffVars, contextVars>>

\* A chunk keeps the best score any query gave it.
Better(found) ==
    [c \in DOMAIN best \cup DOMAIN found |->
        CASE c \notin DOMAIN found -> best[c]
          [] c \notin DOMAIN best -> found[c]
          [] OTHER -> IF found[c] > best[c] THEN found[c] ELSE best[c]]

Searches ==
    /\ planPc = "searching" /\ asked < MaxQueries
    /\ asked' = asked + 1
    /\ \E hits \in SUBSET Chunks : \E found \in [hits -> Scores] : best' = Better(found)
    /\ UNCHANGED <<anchors, context, diffVars, contextVars, planPc>>

Similar == DOMAIN best \ Listed(anchors)

Ahead(c, d) == best[c] > best[d] \/ (best[c] = best[d] /\ c < d)

Sorted(chunks) ==
    [k \in 1..Cardinality(chunks) |->
        CHOOSE c \in chunks : Cardinality({d \in chunks : Ahead(d, c)}) = k - 1]

First(seq, n) == SubSeq(seq, 1, IF Len(seq) < n THEN Len(seq) ELSE n)

\* After the last query, or at the first that fails, whatever the error: the
\* chunks found so far are kept.
Ranks ==
    /\ planPc = "searching"
    /\ context' = First(anchors \o Sorted(Similar), CONTEXT_CHUNKS)
    /\ planPc' = "planning"
    /\ UNCHANGED <<asked, anchors, best, diffVars, contextVars>>

-----------------------------------------------------------------------------
(* build_prompt                                                             *)

Sum(costs) ==
    LET sum[k \in 0..Len(costs)] == IF k = 0 THEN 0 ELSE sum[k - 1] + costs[k]
    IN  sum[Len(costs)]

\* What is kept for context: what it costs, and never more than its share.
ReserveFor(tokens) ==
    LET wanted == Sum([k \in 1..Len(context) |-> CostOf(context[k])])
        share == (tokens * CONTEXT_SHARE) \div 100
    IN  IF wanted < share THEN wanted ELSE share

\* What was gathered and is not used again is let go.
Plans ==
    /\ planPc = "planning"
    /\ parts' \in ReviewedFiles /\ available' \in Budgets
    /\ diffBudget' = available' - ReserveFor(available')
    /\ planPc' = IF available' <= 0 THEN "too large" ELSE "diff"
    /\ asked' = 0 /\ anchors' = <<>> /\ best' = [c \in {} |-> 0]
    /\ UNCHANGED <<context, used, shown, full, taken, contextVars>>

Part == parts[Len(shown) + 1]
InDiff == planPc = "diff" /\ Len(shown) < Len(parts)
Shows(state) == shown' = Append(shown, [hunks |-> taken, state |-> state]) /\ taken' = 0

\* A binary file, or one without hunks, is a heading.
ShowsHeading ==
    /\ InDiff /\ ~Part.text
    /\ IF used + Part.cost <= diffBudget
       THEN Shows("heading") /\ used' = used + Part.cost
       ELSE Shows("skipped") /\ UNCHANGED used
    /\ UNCHANGED <<gatherVars, parts, available, diffBudget, full, contextVars, planPc>>

NextHunk == Part.hunks[taken + 1]

TakesHunk ==
    /\ InDiff /\ Part.text /\ full /\ taken < Len(Part.hunks)
    /\ used + NextHunk <= diffBudget
    /\ taken' = taken + 1 /\ used' = used + NextHunk
    /\ UNCHANGED <<gatherVars, parts, available, diffBudget, shown, full, contextVars, planPc>>

TextState == CASE taken = 0 -> "skipped"
               [] taken = Len(Part.hunks) -> "full"
               [] OTHER -> "partial"

\* Mutant: the next file's hunks are tried again.
LeavesHunkAndGoesOn ==
    /\ InDiff /\ Part.text /\ full /\ taken < Len(Part.hunks)
    /\ used + NextHunk > diffBudget
    /\ Shows(TextState)
    /\ UNCHANGED <<gatherVars, parts, available, diffBudget, used, full, contextVars, planPc>>

\* The first hunk that does not fit is the last that is looked at.
LeavesHunk ==
    /\ InDiff /\ Part.text /\ full /\ taken < Len(Part.hunks)
    /\ used + NextHunk > diffBudget
    /\ full' = FALSE
    /\ Shows(TextState)
    /\ UNCHANGED <<gatherVars, parts, available, diffBudget, used, contextVars, planPc>>

FileIsDone ==
    /\ InDiff /\ Part.text
    /\ ~full \/ taken = Len(Part.hunks)
    /\ Shows(TextState)
    /\ UNCHANGED <<gatherVars, parts, available, diffBudget, used, full, contextVars, planPc>>

ShowsCode == \E k \in 1..Len(shown) : shown[k].state \in {"full", "partial"}

\* ReviewTooLarge when not one hunk is in it.
DiffIsDone ==
    /\ planPc = "diff" /\ Len(shown) = Len(parts)
    /\ IF ShowsCode THEN room' = available - used /\ planPc' = "context"
       ELSE planPc' = "too large" /\ UNCHANGED room
    /\ UNCHANGED <<gatherVars, diffVars, inPrompt, looked>>

BlockCost == CostOf(context[looked + 1]) + 2
InContext == planPc = "context" /\ looked < Len(context)

AddsBlock ==
    /\ InContext /\ BlockCost <= room
    /\ inPrompt' = Append(inPrompt, context[looked + 1])
    /\ room' = room - BlockCost /\ looked' = looked + 1
    /\ UNCHANGED <<gatherVars, diffVars, planPc>>

\* A smaller one behind it may still fit.
PassesBlock ==
    /\ InContext /\ BlockCost > room
    /\ looked' = looked + 1
    /\ UNCHANGED <<gatherVars, diffVars, room, inPrompt, planPc>>

PromptIsPlanned ==
    /\ planPc = "context" /\ looked = Len(context)
    /\ planPc' = "planned"
    /\ UNCHANGED <<gatherVars, diffVars, contextVars>>

ReviewPlanNext ==
    \/ FindsAnchors \/ Searches \/ Ranks
    \/ Plans \/ ShowsHeading \/ TakesHunk \/ LeavesHunk \/ FileIsDone \/ DiffIsDone
    \/ AddsBlock \/ PassesBlock \/ PromptIsPlanned
ReviewPlanSpec == ReviewPlanInit /\ [][ReviewPlanNext]_reviewPlanVars

-----------------------------------------------------------------------------
(***************************************************************************)
(* gather_context: the chunks around the changed lines come first, no      *)
(* chunk comes twice, and of the others none that is left out has a better *)
(* score than one that is in.                                              *)
(***************************************************************************)
ContextIsBest ==
    [][Ranks =>
        /\ First(context', Len(anchors)) = First(anchors, CONTEXT_CHUNKS)
        /\ Cardinality(Listed(context')) = Len(context')
        /\ \A c \in Listed(context') \ Listed(anchors), d \in DOMAIN best \ Listed(context') :
             d \notin Listed(anchors) => best[c] >= best[d]]_reviewPlanVars

\* The hunks of the diff in order, as <<file, hunk>>.
HunksIn == UNION {{<<f, h>> : h \in 1..Len(parts[f].hunks)} : f \in 1..Len(parts)}
Before(a, b) == a[1] < b[1] \/ (a[1] = b[1] /\ a[2] < b[2])
InThePrompt(fh) == fh[2] <= shown[fh[1]].hunks

(***************************************************************************)
(* "What does not fit is reported as partial or skipped, never silently    *)
(* dropped": the hunks shown are the first ones of the diff, without a     *)
(* gap, and a file is called full only when all of its own are.            *)
(***************************************************************************)
NothingDroppedSilently ==
    planPc \in {"context", "planned"} =>
        /\ \A a, b \in HunksIn : Before(a, b) /\ InThePrompt(b) => InThePrompt(a)
        /\ \A a \in HunksIn : ~InThePrompt(a) => shown[a[1]].state \in {"partial", "skipped"}
        /\ \A k \in 1..Len(parts) :
             parts[k].text => (shown[k].state = "full" <=> \A h \in 1..Len(parts[k].hunks) :
                                                          InThePrompt(<<k, h>>))

(***************************************************************************)
(* "The review prompt, within budget": headings, hunks and the blocks of   *)
(* the context with what separates them are within what is available.      *)
(***************************************************************************)
WithinAvailable ==
    planPc = "planned" =>
        used + Sum([k \in 1..Len(inPrompt) |-> CostOf(inPrompt[k]) + 2]) <= available

(***************************************************************************)
(* "The diff comes first and gets everything except a share kept for       *)
(* context": the first hunk left out, or refused with the whole review,    *)
(* would have taken the diff beyond all but that share.                    *)
(***************************************************************************)
DiffComesFirst ==
    [][LeavesHunk =>
        (used + NextHunk) * 100 > available * (100 - CONTEXT_SHARE)]_reviewPlanVars

(***************************************************************************)
(* The prompt of a review: within its budget, nothing left out unsaid, and *)
(* of the two that share it the diff first, then the best of the context.  *)
(***************************************************************************)
PromptIsFair == [](NothingDroppedSilently /\ WithinAvailable) /\ ContextIsBest /\ DiffComesFirst

=============================================================================
