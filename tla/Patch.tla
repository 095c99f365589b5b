------------------------------- MODULE Patch --------------------------------
(***************************************************************************)
(* src/app/services/project_files.py: the unified diff of two texts, and   *)
(* how it is applied - which is how a proposal's diff is checked before it *)
(* is saved (_propose): applied to the text it was made from, it has to    *)
(* give the proposal back.                                                 *)
(*                                                                         *)
(* A text is its lines, each with what ends it: a newline, nothing (the    *)
(* last one; a lone carriage return is like it, being joined with the      *)
(* newline it is given), or another character splitlines cuts at           *)
(* ("other").  What the texts have in common is part of the input, a       *)
(* script of kept, removed and added lines as difflib's matcher may give   *)
(* it: every such script is one of two texts.                              *)
(***************************************************************************)
EXTENDS Integers, Sequences

CONSTANTS
    Scripts,            \* sequences of [tag : {" ", "-", "+"}, line]
    Around,             \* unified_diff's n: lines shown around a change
    OtherBases(_)       \* texts a script's diff is applied to besides its own

IsLines(lines) == lines \in Seq({lines[i] : i \in 1..Len(lines)})
IsScripted(steps) ==
    steps \in Seq([tag : {" ", "-", "+"},
                   line : [text : {steps[k].line.text : k \in 1..Len(steps)},
                           end : {"newline", "none", "other"}]])

VARIABLES
    script, base,       \* what the diff was made from; what it is applied to
    patchLines,         \* the lines of the diff
    patch               \* the loops of apply_unified_diff: see NothingRead
patchVars == <<script, base, patchLines, patch>>

NothingRead == [pc |-> "reading", line |-> 1, hunks |-> <<>>, position |-> 0, result |-> <<>>]

Having(steps, tags) ==
    LET having[k \in 0..Len(steps)] ==
            CASE k = 0 -> <<>>
              [] k > 0 /\ steps[k].tag \in tags -> Append(having[k - 1], steps[k].line)
              [] OTHER -> having[k - 1]
    IN  having[Len(steps)]
OldOf(steps) == Having(steps, {" ", "-"})
NewOf(steps) == Having(steps, {" ", "+"})

ASSUME PatchAssumption ==
    /\ Around \in Nat \ {0}
    /\ \A steps \in Scripts :
         IsScripted(steps) /\ \A lines \in OtherBases(OldOf(steps)) : IsLines(lines)

-----------------------------------------------------------------------------
(* unified_diff.                                                           *)

\* A step is shown when a change is near enough; a hunk is a stretch of them.
Shown(k) ==
    \E c \in DOMAIN script : script[c].tag # " " /\ c <= k + Around /\ k <= c + Around
FirstOfHunk(k) == Shown(k) /\ (k = 1 \/ ~Shown(k - 1))
LastOfHunk(k) == Shown(k) /\ (k = Len(script) \/ ~Shown(k + 1))

HunkEnd(first) ==
    CHOOSE k \in first..Len(script) : LastOfHunk(k) /\ \A j \in first..(k - 1) : ~LastOfHunk(j)

\* The lines of the old text that the first k steps are.
OldLine(k) == Len(OldOf(SubSeq(script, 1, k)))

\* @@ -start,count: of an empty range, the line before it.
HeaderOf(first) ==
    LET count == Len(OldOf(SubSeq(script, first, HunkEnd(first))))
    IN  [is |-> "header", count |-> count,
         start |-> IF count = 0 THEN OldLine(first - 1) ELSE OldLine(first - 1) + 1]

Said(step) == [is |-> "line", step |-> step]
NoNewline == [is |-> "note"]
Rest == [is |-> "rest"]     \* what is left when a line is cut before its newline

\* A line that does not end in a newline is given one, and a note.
DiffLine(step) ==
    CASE step.line.end = "newline" -> <<Said(step)>>
      [] step.line.end = "none" -> <<Said([step EXCEPT !.line.end = "newline"]), NoNewline>>
      [] OTHER -> <<Said(step), Rest, NoNewline>>

DiffText(k) ==
    CASE ~Shown(k) -> <<>>
      [] FirstOfHunk(k) -> <<HeaderOf(k)>> \o DiffLine(script[k])
      [] OTHER -> DiffLine(script[k])

\* The diff of the first k steps, for every k.
DiffTo ==
    LET diff[k \in 0..Len(script)] == IF k = 0 THEN <<>> ELSE diff[k - 1] \o DiffText(k)
    IN  diff
Diff == DiffTo[Len(script)]

-----------------------------------------------------------------------------
(* apply_unified_diff: the diff is read whole, then its hunks are applied. *)

PatchInit ==
    /\ script \in Scripts
    /\ base \in {OldOf(script)} \cup OtherBases(OldOf(script))
    /\ patchLines = Diff /\ patch = NothingRead

Reads(new) ==
    /\ patch' = [new EXCEPT !.line = @ + 1]
    /\ UNCHANGED <<script, base, patchLines>>
Reading(what) ==
    patch.pc = "reading" /\ patch.line <= Len(patchLines) /\ patchLines[patch.line].is = what

OpenedBy(header) == [start |-> header.start, count |-> header.count, body |-> <<>>]

ReadsHeader ==
    /\ Reading("header")
    /\ Reads([patch EXCEPT !.hunks = Append(@, OpenedBy(patchLines[patch.line]))])

WithStep(hunks, step) == [hunks EXCEPT ![Len(hunks)].body = Append(@, step)]

ReadsBodyLine ==
    /\ Reading("line")
    /\ Reads([patch EXCEPT !.hunks = WithStep(@, patchLines[patch.line].step)])

\* The line before has no newline after all.
Unended(step) == [step EXCEPT !.line.end = "none"]
Noted(hunks) == [hunks EXCEPT ![Len(hunks)].body[Len(hunks[Len(hunks)].body)] = Unended(@)]

ReadsNote == Reading("note") /\ Reads([patch EXCEPT !.hunks = Noted(@)])

RefusesPatch == patch' = [patch EXCEPT !.pc = "refused"] /\ UNCHANGED <<script, base, patchLines>>

NotADiffLine == Reading("rest") /\ RefusesPatch

Hunk == Head(patch.hunks)
HunksLeft == patch.pc = "reading" /\ patch.line > Len(patchLines) /\ patch.hunks # <<>>

\* Mutant: a hunk that takes nothing away begins like the others.
StartOfAll(hunk) == hunk.start - 1

StartOf(hunk) == IF hunk.count = 0 THEN hunk.start ELSE hunk.start - 1

\* It is after the last one, and its kept and removed lines are the text's.
Stands(hunk) ==
    LET wanted == OldOf(hunk.body) IN
    /\ StartOf(hunk) >= patch.position
    /\ StartOf(hunk) + Len(wanted) <= Len(base)
    /\ SubSeq(base, StartOf(hunk) + 1, StartOf(hunk) + Len(wanted)) = wanted

DoesNotMatch == HunksLeft /\ ~Stands(Hunk) /\ RefusesPatch

AppliesHunk ==
    /\ HunksLeft /\ Stands(Hunk)
    /\ patch' = [patch EXCEPT
            !.hunks = Tail(@),
            !.position = StartOf(Hunk) + Len(OldOf(Hunk.body)),
            !.result = @ \o SubSeq(base, patch.position + 1, StartOf(Hunk)) \o NewOf(Hunk.body)]
    /\ UNCHANGED <<script, base, patchLines>>

\* The rest of the text, as it is.
AppliesRest ==
    /\ patch.pc = "reading" /\ patch.line > Len(patchLines) /\ patch.hunks = <<>>
    /\ patch' = [patch EXCEPT !.pc = "applied",
                              !.result = @ \o SubSeq(base, patch.position + 1, Len(base))]
    /\ UNCHANGED <<script, base, patchLines>>

PatchNext ==
    \/ ReadsHeader \/ ReadsBodyLine \/ ReadsNote \/ NotADiffLine
    \/ AppliesHunk \/ DoesNotMatch \/ AppliesRest

PatchSpec == PatchInit /\ [][PatchNext]_patchVars

-----------------------------------------------------------------------------
(* Properties.                                                             *)

\* The script as the text it was applied to would have it: lines the diff
\* does not show are that text's own, and so is what comes after the last hunk.
UpToLast == CHOOSE k \in 0..Len(script) :
    /\ k > 0 => Shown(k)
    /\ \A j \in (k + 1)..Len(script) : ~Shown(j)
ElsewhereTo(last) ==
    [k \in 1..last |->
        IF Shown(k) THEN script[k] ELSE [tag |-> script[k].tag, line |-> base[OldLine(k)]]]
Elsewhere ==
    ElsewhereTo(UpToLast)
        \o [i \in 1..(Len(base) - OldLine(UpToLast)) |->
                [tag |-> " ", line |-> base[OldLine(UpToLast) + i]]]

\* Where a diff is accepted, the lines it shows were there, they and no
\* others are changed, and the result is the proposal's - line by line, with
\* or without a newline at the end (apply_unified_diff: "Raises ValueError
\* when a context or removed line does not match").
ChangesWhatItShows ==
    patch.pc = "applied" =>
        /\ Len(base) >= OldLine(UpToLast)
        /\ base = OldOf(Elsewhere) /\ patch.result = NewOf(Elsewhere)

\* On the text it was made from it is never refused, wherever its hunks lie
\* and whatever is missing at either end, but for lines splitlines cuts at
\* another character ("applied to the original, it has to give the proposal
\* back").
AppliesWhereItWasMade ==
    patch.pc = "refused" /\ base = OldOf(script) =>
        \E k \in DOMAIN script : Shown(k) /\ script[k].line.end = "other"

\* A diff changes what it shows, and the text it was made from takes it.
PatchIsRight == ChangesWhatItShows /\ AppliesWhereItWasMade

=============================================================================
