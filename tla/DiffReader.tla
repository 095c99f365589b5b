----------------------------- MODULE DiffReader -----------------------------
(***************************************************************************)
(* parse_diff of src/app/services/code_review_diff.py, which reads a       *)
(* unified diff line by line into files, hunks and numbered lines, and     *)
(* read_files of code_review.py, which says what of it can be reviewed.    *)
(*                                                                         *)
(* The diff is what a tool wrote: sections, one of each changed file.      *)
(* Written turns them into raw lines the way "git diff" does, or without   *)
(* its "diff --git" lines; changed lines may look like headers ("--- x" is *)
(* what removing the line "-- x" looks like), and a section may end before *)
(* its last hunk has the lines its header promises.  No line holds one of  *)
(* the characters besides the newline at which splitlines also cuts.       *)
(***************************************************************************)
EXTENDS Integers, Sequences, FiniteSets

CONSTANTS
    Diffs,              \* sequences of [path, old, status, git, hunks]
    UnsafePath,         \* a path safe_path refuses
    MAX_FILES,
    ChangedFiles        \* what the request may list as changed: sets of paths

VARIABLES
    diff,               \* the sections, as they were written
    raw,                \* the lines that are left to read
    files,              \* what has been read: a sequence of FileDiff
    hunk,               \* TRUE while a hunk is open
    left,               \* lines its header still promises, of each side
    number,             \* the next line's number on each side
    readPc
readerVars == <<diff, raw, files, hunk, left, number, readPc>>

NoPath == "none"        \* /dev/null, or no path yet

-----------------------------------------------------------------------------
(* What a tool writes of a section.                                         *)

Is(kind) == [is |-> kind, path |-> NoPath, old |-> <<0, 0>>, new |-> <<0, 0>>]
Names(kind, path) == [Is(kind) EXCEPT !.path = path]

\* The marker a raw line begins with.
Marker(line) ==
    CASE line.is \in {"+", "+++"} -> "+"
      [] line.is \in {"-", "---"} -> "-"
      [] OTHER -> " "

Count(lines, marker) == Cardinality({k \in 1..Len(lines) : Marker(lines[k]) # marker})

\* A hunk's header, its lines, and "\ No newline at end of file".
HunkText(h) ==
    << [Is("@@") EXCEPT !.old = <<h.old, Count(h.lines, "+") + h.short>>,
                        !.new = <<h.new, Count(h.lines, "-") + h.short>>] >>
        \o h.lines \o (IF h.eof THEN <<Is("\\")>> ELSE <<>>)

Flat(seqs) ==
    LET flat[k \in 0..Len(seqs)] == IF k = 0 THEN <<>> ELSE flat[k - 1] \o seqs[k]
    IN  flat[Len(seqs)]

StatusLines(s) ==
    CASE s.git /\ s.status = "added" -> <<Is("new file")>>
      [] s.git /\ s.status = "removed" -> <<Is("deleted file")>>
      [] s.git /\ s.status = "renamed" ->
           <<Names("rename from", s.old), Names("rename to", s.path)>>
      [] OTHER -> <<>>

SideLines(s) ==
    CASE s.binary -> <<Is("binary")>>
      [] ~s.binary /\ s.hunks # <<>> ->
           << Names("---", IF s.status = "added" THEN NoPath ELSE s.old),
              Names("+++", IF s.status = "removed" THEN NoPath ELSE s.path) >>
      [] OTHER -> <<>>

HunkTexts(s) == [k \in 1..Len(s.hunks) |-> HunkText(s.hunks[k])]

SectionText(s) ==
    (IF s.git THEN <<Names("diff", s.path)>> ELSE <<>>)
        \o (StatusLines(s) \o (SideLines(s) \o Flat(HunkTexts(s))))

Written(sections) == Flat([k \in 1..Len(sections) |-> SectionText(sections[k])])

\* What is written is a diff: only the last hunk of a section may be short of
\* lines, and only where a "diff --git" line tells that the next file begins;
\* without such lines every section has a hunk.
IsHunk(h) ==
    /\ h.lines \in Seq({Is(kind) : kind \in {"+", "-", " ", "+++", "---"}})
    /\ h.old \in Nat /\ h.new \in Nat /\ h.short \in Nat /\ h.eof \in BOOLEAN
IsSection(s) ==
    /\ s.path # NoPath /\ s.old # NoPath
    /\ s.status \in {"modified", "added", "removed", "renamed"}
    /\ s.status = "renamed" <=> s.old # s.path
    /\ s.git \in BOOLEAN /\ s.binary \in BOOLEAN
    /\ s.hunks \in Seq({s.hunks[k] : k \in DOMAIN s.hunks})
    /\ \A k \in DOMAIN s.hunks : /\ IsHunk(s.hunks[k])
                                 /\ s.hunks[k].short = 0 \/ (s.git /\ k = Len(s.hunks))
    /\ s.binary => s.hunks = <<>>
    /\ ~s.git => s.hunks # <<>>
IsDiff(sections) ==
    /\ sections \in Seq({sections[k] : k \in DOMAIN sections})
    /\ \A k \in DOMAIN sections : IsSection(sections[k]) /\ sections[k].git = sections[1].git

ASSUME DiffAssumption == MAX_FILES \in Nat /\ \A sections \in Diffs : IsDiff(sections)

-----------------------------------------------------------------------------

ReaderInit ==
    /\ diff \in Diffs
    /\ raw = Written(diff)
    /\ files = <<>> /\ hunk = FALSE
    /\ left = <<0, 0>> /\ number = <<0, 0>>
    /\ readPc = "reading"

Refused == readPc' = "refused" /\ UNCHANGED <<diff, raw, files, hunk, left, number>>

\* DiffError: there is nothing in the text.
Empty == readPc = "reading" /\ diff = <<>> /\ Refused

Line == raw[1]
More == readPc = "reading" /\ raw # <<>>
NextLine == raw' = Tail(raw) /\ UNCHANGED <<diff, readPc>>

Current == files[Len(files)]
CurrentIs(file) == files' = [files EXCEPT ![Len(files)] = file]
NewFile(path) ==
    [path |-> path, old |-> NoPath, status |-> "modified", binary |-> FALSE, hunks |-> <<>>]

\* Mutant: a new file does not end the hunk before it.
HunkGoesOn == hunk /\ (left[1] > 0 \/ left[2] > 0)

\* Inside a hunk, until both its counts are used up or a new file begins.
InHunk == hunk /\ Line.is # "diff" /\ (left[1] > 0 \/ left[2] > 0)

\* "\ No newline at end of file" is nobody's line.
SkipsNote ==
    /\ More /\ InHunk /\ Line.is = "\\"
    /\ NextLine /\ UNCHANGED <<files, hunk, left, number>>

\* A removed line is one of the old file, an added one of the new file, and
\* any other of both.
StepOf(marker) == <<IF marker = "+" THEN 0 ELSE 1, IF marker = "-" THEN 0 ELSE 1>>

NumberedLine(marker) ==
    [kind |-> marker,
     old |-> IF marker = "+" THEN 0 ELSE number[1],
     new |-> IF marker = "-" THEN 0 ELSE number[2]]
WithLine(hunks, line) == [hunks EXCEPT ![Len(hunks)] = Append(@, line)]

ReadsLine ==
    /\ More /\ InHunk /\ Line.is # "\\"
    /\ LET marker == Marker(Line)
           step == StepOf(marker)
       IN  /\ CurrentIs([Current EXCEPT !.hunks = WithLine(@, NumberedLine(marker))])
           /\ number' = <<number[1] + step[1], number[2] + step[2]>>
           /\ left' = <<left[1] - step[1], left[2] - step[2]>>
    /\ NextLine /\ UNCHANGED hunk

Header == More /\ ~InHunk
\* Only another "@@" leaves hunk as it was; it sets it anew.
Closes == hunk' = FALSE /\ UNCHANGED <<left, number>>

UnsafeHeader ==
    /\ Header /\ Line.path = UnsafePath
    /\ \/ Line.is \in {"diff", "---"}
       \/ files # <<>> /\ Line.is \in {"+++", "rename from", "rename to"}
    /\ Refused

Safe == Line.path # UnsafePath

DiffHeader ==
    /\ Header /\ Line.is = "diff" /\ Safe
    /\ files' = Append(files, NewFile(Line.path))
    /\ Closes /\ NextLine

\* Without a "diff --git" line, "---" begins the next file.
OldSide(file) ==
    IF Line.path = NoPath THEN [file EXCEPT !.status = "added"] ELSE [file EXCEPT !.old = Line.path]

OldHeader ==
    /\ Header /\ Line.is = "---" /\ Safe
    /\ IF files = <<>> \/ Current.hunks # <<>>
       THEN files' = Append(files, OldSide(NewFile(NoPath)))
       ELSE CurrentIs(OldSide(Current))
    /\ Closes /\ NextLine

NewSide(file) ==
    IF Line.path # NoPath THEN [file EXCEPT !.path = Line.path]
    ELSE [file EXCEPT !.status = "removed",
                      !.path = IF file.old # NoPath THEN file.old ELSE file.path]

NewHeader ==
    /\ Header /\ Line.is = "+++" /\ files # <<>> /\ Safe
    /\ CurrentIs(NewSide(Current))
    /\ Closes /\ NextLine

WithNote(file) ==
    CASE Line.is = "new file" -> [file EXCEPT !.status = "added"]
      [] Line.is = "deleted file" -> [file EXCEPT !.status = "removed"]
      [] Line.is = "rename from" -> [file EXCEPT !.status = "renamed", !.old = Line.path]
      [] Line.is = "rename to" -> [file EXCEPT !.path = Line.path]
      [] Line.is = "binary" -> [file EXCEPT !.binary = TRUE]
      [] OTHER -> file

FileNote ==
    /\ Header /\ files # <<>> /\ Safe
    /\ Line.is \in {"new file", "deleted file", "rename from", "rename to", "binary"}
    /\ CurrentIs(WithNote(Current))
    /\ Closes /\ NextLine

HunkHeader ==
    /\ Header /\ files # <<>> /\ Line.is = "@@"
    /\ number' = <<Line.old[1], Line.new[1]>>
    /\ left' = <<Line.old[2], Line.new[2]>>
    /\ hunk' = TRUE
    /\ CurrentIs([Current EXCEPT !.hunks = Append(@, <<>>)])
    /\ NextLine

\* Anything else outside a hunk, or before the first file, is passed over.
Passed ==
    /\ Header
    /\ Line.is \in {"\\", "text", "+", "-", " "} \/ (files = <<>> /\ Line.is \notin {"diff", "---"})
    /\ Closes /\ NextLine /\ UNCHANGED files

-----------------------------------------------------------------------------
(* The end of parse_diff, and read_files.                                   *)

Moved(file) ==
    IF file.status = "modified" /\ file.old \notin {NoPath, file.path}
    THEN [file EXCEPT !.status = "renamed"] ELSE file

KeptFiles ==
    LET kept[k \in 0..Len(files)] ==
            CASE k = 0 -> <<>>
              [] k > 0 /\ files[k].path = NoPath -> kept[k - 1]
              [] OTHER -> Append(kept[k - 1], Moved(files[k]))
    IN  kept[Len(files)]

PathsOf(fs) == {fs[k].path : k \in 1..Len(fs)} \cup {fs[k].old : k \in 1..Len(fs)}

Reviewable(changed) ==
    /\ KeptFiles # <<>> /\ Len(KeptFiles) <= MAX_FILES
    /\ \E k \in 1..Len(KeptFiles) : KeptFiles[k].hunks # <<>>
    /\ changed \subseteq PathsOf(KeptFiles)

\* What the request lists must be in the diff.
ReadFiles ==
    /\ readPc = "reading" /\ diff # <<>> /\ raw = <<>>
    /\ \E changed \in ChangedFiles : readPc' = IF Reviewable(changed) THEN "read" ELSE "refused"
    /\ files' = KeptFiles
    /\ UNCHANGED <<diff, raw, hunk, left, number>>

ReaderNext == Empty \/ SkipsNote \/ ReadsLine \/ UnsafeHeader \/ DiffHeader \/ OldHeader
                \/ NewHeader \/ FileNote \/ HunkHeader \/ Passed \/ ReadFiles
ReaderSpec == ReaderInit /\ [][ReaderNext]_readerVars

-----------------------------------------------------------------------------
\* The lines of a hunk with the numbers they have in the two files.
NumberedHunk(h) ==
    [k \in 1..Len(h.lines) |->
        LET marker == Marker(h.lines[k])
            before == SubSeq(h.lines, 1, k - 1)
        IN  [kind |-> marker,
             old |-> IF marker = "+" THEN 0 ELSE h.old + Count(before, "+"),
             new |-> IF marker = "-" THEN 0 ELSE h.new + Count(before, "-")]]

(***************************************************************************)
(* "Everything downstream works from the result": the files of the diff    *)
(* are its sections, and every changed line is read into its own file's    *)
(* hunk with "the number it has in the new file" or in the old one,        *)
(* whatever a changed line looks like and however a section breaks off.    *)
(***************************************************************************)
ReadAsWritten ==
    readPc = "read" =>
        /\ Len(files) = Len(diff)
        /\ \A k \in 1..Len(diff) :
             /\ files[k].path = diff[k].path /\ files[k].status = diff[k].status
             /\ files[k].binary = diff[k].binary
             /\ files[k].hunks = [h \in 1..Len(diff[k].hunks) |-> NumberedHunk(diff[k].hunks[h])]

=============================================================================
