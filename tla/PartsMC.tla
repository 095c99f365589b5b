------------------------------ MODULE PartsMC ------------------------------
(* The parts of the program that work each by itself, one part to a         *)
(* behaviour; and instances of them small enough for TLC.                   *)
EXTENDS RateLimiter, PromptPlan, DigestTasks, Chunking, DiffReader, ReviewPlan,
        ReviewFindings, DraftCheck, Patch, FileSearch

CONSTANT Parts      \* which of them
VARIABLE part

(* A part that rests has one state.                                         *)
LimiterRests == LimiterInit
PromptRests ==
    /\ message = CHOOSE text \in Texts : TRUE
    /\ history = <<>> /\ budget = 0 /\ recent = 0
    /\ kept = 0 /\ dropped = 0 /\ pc = "start"
TasksRest == TasksInit
ChunkingRests ==
    corpus = <<>> /\ setting = (CHOOSE s \in Settings : TRUE) /\ cutting = NothingCut
ReaderRests ==
    /\ diff = <<>> /\ raw = <<>> /\ files = <<>> /\ hunk = FALSE
    /\ left = <<0, 0>> /\ number = <<0, 0>> /\ readPc = "reading"
PatchRests == script = <<>> /\ base = <<>> /\ patchLines = <<>> /\ patch = NothingRead
SearchRests == project = <<>> /\ vanished = {} /\ search = NoSearch

Starts(name, begins, rests) == IF part = name THEN begins ELSE rests

PartsInit ==
    /\ part \in Parts
    /\ Starts("limiter", LimiterInit, LimiterRests)
    /\ Starts("prompt", PromptInit, PromptRests)
    /\ Starts("tasks", TasksInit, TasksRest)
    /\ Starts("chunking", ChunkingInit, ChunkingRests)
    /\ Starts("reader", ReaderInit, ReaderRests)
    /\ Starts("patch", PatchInit, PatchRests)
    /\ Starts("search", SearchInit, SearchRests)
    /\ ReviewPlanInit /\ FindingsInit /\ DraftInit

allVars ==
    <<limiterVars, promptVars, taskVars, chunkingVars, readerVars, reviewPlanVars,
      findingsVars, draftVars, patchVars, searchVars>>

PartsNext ==
    \/ /\ part = "limiter" /\ LimiterNext
       /\ UNCHANGED <<part, promptVars, taskVars, chunkingVars, readerVars, reviewPlanVars, findingsVars,
                         draftVars, patchVars, searchVars>>
    \/ /\ part = "prompt" /\ PromptNext
       /\ UNCHANGED <<part, limiterVars, taskVars, chunkingVars, readerVars, reviewPlanVars, findingsVars,
                         draftVars, patchVars, searchVars>>
    \/ /\ part = "tasks" /\ TasksNext
       /\ UNCHANGED <<part, limiterVars, promptVars, chunkingVars, readerVars, reviewPlanVars, findingsVars,
                         draftVars, patchVars, searchVars>>
    \/ /\ part = "chunking" /\ ChunkingNext
       /\ UNCHANGED <<part, limiterVars, promptVars, taskVars, readerVars, reviewPlanVars, findingsVars,
                         draftVars, patchVars, searchVars>>
    \/ /\ part = "reader" /\ ReaderNext
       /\ UNCHANGED <<part, limiterVars, promptVars, taskVars, chunkingVars, reviewPlanVars, findingsVars,
                         draftVars, patchVars, searchVars>>
    \/ /\ part = "plan" /\ ReviewPlanNext
       /\ UNCHANGED <<part, limiterVars, promptVars, taskVars, chunkingVars, readerVars, findingsVars,
                         draftVars, patchVars, searchVars>>
    \/ /\ part = "findings" /\ FindingsNext
       /\ UNCHANGED <<part, limiterVars, promptVars, taskVars, chunkingVars, readerVars, reviewPlanVars,
                         draftVars, patchVars, searchVars>>
    \/ /\ part = "draft" /\ DraftNext
       /\ UNCHANGED <<part, limiterVars, promptVars, taskVars, chunkingVars, readerVars, reviewPlanVars,
                         findingsVars, patchVars, searchVars>>
    \/ /\ part = "patch" /\ PatchNext
       /\ UNCHANGED <<part, limiterVars, promptVars, taskVars, chunkingVars, readerVars, reviewPlanVars,
                         findingsVars, draftVars, searchVars>>
    \/ /\ part = "search" /\ SearchNext
       /\ UNCHANGED <<part, limiterVars, promptVars, taskVars, chunkingVars, readerVars, reviewPlanVars,
                         findingsVars, draftVars, patchVars>>

PartsSpec == PartsInit /\ [][PartsNext]_<<part, allVars>>

-----------------------------------------------------------------------------
SmallTexts == [dense : 0..1, other : {0, 1, 2, 4}]

(* Every text of up to 5 characters, and every two of up to 3.              *)
Names2 == <<[dirs |-> <<>>, stem |-> <<"a">>], [dirs |-> <<>>, stem |-> <<"b">>]>>
TextsUpTo(n, file) ==
    {text \in [file : {file}, length : 1..n, blank : SUBSET (1..n), starts : SUBSET (2..n)] :
        text.blank \cup text.starts \subseteq 1..text.length}
SmallCorpora ==
    {<<text>> : text \in TextsUpTo(5, Names2[1])}
        \cup {<<s, t>> : s \in TextsUpTo(3, Names2[1]), t \in TextsUpTo(3, Names2[2])}
SmallSettings ==
    [strategy : {"fixed-size", "structural"}, size : {2, 3}, overlap : {1, 2}]
        \cup {[strategy |-> "structural", size |-> 2, overlap |-> 3]}

(* One section with any short hunks, alone or before a plain one.           *)
ShortHunks(texts, short) ==
    [lines : texts, short : short, eof : BOOLEAN, old : {3}, new : {3}]
AnyLines == UNION {[1..n -> {Is("+"), Is("-"), Is(" "), Is("---"), Is("+++")}] : n \in 1..2}
Section(path, change, git, hunks) ==
    [path |-> path, old |-> IF change = "renamed" THEN "c" ELSE path,
     status |-> IF change = "binary" THEN "modified" ELSE change,
     git |-> git, binary |-> change = "binary",
     hunks |-> IF change = "binary" THEN <<>> ELSE hunks]
TextChanges == {"modified", "added", "removed", "renamed"}
FirstSections ==
    {Section("a", c, TRUE, <<h>>) : c \in TextChanges \cup {"binary"},
                                    h \in ShortHunks(AnyLines, {0, 1})}
    \cup {Section("a", c, FALSE, <<h>>) : c \in TextChanges, h \in ShortHunks(AnyLines, {0})}
    \cup {Section("a", "modified", TRUE, <<g, h>>) :
            g \in ShortHunks({<<Is("-"), Is("---")>>, <<Is(" "), Is("+")>>}, {0}),
            h \in ShortHunks(AnyLines, {0, 1})}
PlainHunk == [lines |-> <<Is("-"), Is("+")>>, short |-> 0, eof |-> FALSE, old |-> 1, new |-> 1]
SecondSections ==
    {Section("b", c, git, <<PlainHunk>>) : c \in TextChanges, git \in BOOLEAN}
    \cup {Section("b", "binary", TRUE, <<>>), Section("b", "renamed", TRUE, <<>>),
          Section("unsafe", "added", TRUE, <<PlainHunk>>)}
SmallDiffs ==
    {<<>>} \cup {<<s>> : s \in FirstSections}
    \cup {<<st[1], st[2]>> : st \in {st \in FirstSections \X SecondSections :
                                        st[1].git = st[2].git}}
SmallChanges == {{}, {"a"}, {"b"}}

ItsNumber(chunk) == chunk
SomeHunks(n) == UNION {[1..k -> {1, 3, 6}] : k \in 1..n}
TextFile(hunks) == [text |-> TRUE, cost |-> 0, hunks |-> hunks]
HeadingFile == [text |-> FALSE, cost |-> 2, hunks |-> <<>>]
SmallFiles ==
    {<<TextFile(f)>> : f \in SomeHunks(2)}
    \cup {<<TextFile(f), TextFile(g)>> : f \in SomeHunks(2), g \in SomeHunks(1)}
    \cup {<<HeadingFile, TextFile(f)>> : f \in SomeHunks(1)}
    \cup {<<TextFile(f), HeadingFile, TextFile(g)>> : f, g \in SomeHunks(1)}
    \cup {<<HeadingFile>>}

(* x is said twice, and z only by a line that was removed.                  *)
Says(what, n) == [says |-> what, number |-> n]
SmallLines(place) ==
    IF place = "f" THEN {Says("x", 1), Says("y", 2), Says("x", 3), Says("z", 0)}
                   ELSE {Says("x", 1)}

(* Texts of short lines; of longer ones, the shape alone.                   *)
LineOf(text, end) == [text |-> text, end |-> end]
ShortLines == {LineOf("p", "newline"), LineOf("q", "newline"), LineOf("p", "none"), LineOf("p", "other")}
EndsLast(lines) == \A i \in 1..(Len(lines) - 1) : lines[i].end # "none"
IsScript(steps) ==
    /\ EndsLast(OldOf(steps)) /\ EndsLast(NewOf(steps))
    /\ \A i \in 1..(Len(steps) - 1) : ~(steps[i].tag = "+" /\ steps[i + 1].tag = "-")
ScriptsOf(n, lines) ==
    {steps \in [1..n -> [tag : {" ", "-", "+"}, line : lines]] : IsScript(steps)}
SmallScripts ==
    UNION {ScriptsOf(n, ShortLines) : n \in 0..3} \cup ScriptsOf(7, {LineOf("p", "newline")})
ShorterLongerOther(old) ==
    {SubSeq(old, 1, Len(old) - 1)}
        \cup {longer \in {Append(old, LineOf("r", "newline"))} : EndsLast(longer)}
        \cup {[old EXCEPT ![i].text = "r"] : i \in DOMAIN old}

ProjectFile(hides, kind, lines) == [hidden |-> hides, kind |-> kind, lines |-> lines]
SmallProjects ==
    UNION {[1..n -> {ProjectFile(FALSE, "text", lines) : lines \in SUBSET (1..2)}
                      \cup {ProjectFile(TRUE, "text", {1})}
                      \cup {ProjectFile(FALSE, kind, {1}) : kind \in {"binary", "secret", "too_large"}}] :
              n \in 0..3}

\* Quotes of each kind: of a line, of a line and a subject, of nothing, of a
\* subject that says nothing of a fix, and of one that does.
Fact(path, status, userFacing) ==
    [path |-> path, status |-> status, userFacing |-> userFacing]
SmallFacts == {Fact("f", "modified", TRUE), Fact("g", "added", FALSE)}

Evidence(path, side, subject) == [path |-> path, side |-> side, subject |-> subject]
SmallEvidences ==
    {Evidence("f", "added", "none"), Evidence("f", "removed", "plain"),
     Evidence("g", "added", "none"), Evidence("none", "none", "none"),
     Evidence("none", "none", "plain"), Evidence("none", "none", "Fixed")}

=============================================================================
