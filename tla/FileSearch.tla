----------------------------- MODULE FileSearch -----------------------------
(***************************************************************************)
(* src/app/services/project_files.py: what a search of the project finds,  *)
(* and what it says of what it leaves out (search_files, search_text),     *)
(* while files it has listed go away.                                      *)
(*                                                                         *)
(* A file is its path, whether the rules hide it, what keeps it from being *)
(* searched, and which of its lines hold the text.                         *)
(***************************************************************************)
EXTENDS Integers, FiniteSets, Sequences, Functions

CONSTANTS
    Projects,           \* the files, sorted: sequences of [hidden, kind, lines]
    MAX_RESULTS,        \* FileLimits.max_results
    MAX_LISTED,         \* FileLimits.max_listed
    MAX_WALK            \* _MAX_WALK

\* What keeps a file from being searched.
Reasons == {"binary", "too_large", "secret"}

ASSUME SearchAssumption ==
    /\ {MAX_RESULTS, MAX_LISTED, MAX_WALK} \subseteq Nat
    /\ \A files \in Projects :
         /\ files \in Seq({files[f] : f \in DOMAIN files})
         /\ \A f \in DOMAIN files :
              /\ files[f].kind \in Reasons \cup {"text"}
              /\ files[f].lines \subseteq Nat /\ IsFiniteSet(files[f].lines)

VARIABLES
    project,            \* the files
    vanished,           \* of these: no longer there
    search              \* search_text's locals
searchVars == <<project, vanished, search>>

NoSearch ==
    [pc |-> "none", git |-> TRUE, wanted |-> {}, scope |-> <<>>, searched |-> 0,
     skipped |-> [why \in Reasons |-> 0],
     matches |-> <<>>, matched |-> {}, truncated |-> FALSE, total |-> 0]

SearchInit == project \in Projects /\ vanished = {} /\ search = NoSearch

\* The first of them, the second, and so on.
InOrder(numbers) ==
    [i \in 1..Cardinality(numbers) |->
        CHOOSE n \in numbers : Cardinality({m \in numbers : m <= n}) = i]

Visible == {f \in DOMAIN project \ vanished : ~project[f].hidden}

\* What Git lists; without Git, what a walk of the folders comes to first.
Walked == {f \in DOMAIN project \ vanished : f <= MAX_WALK}
FilesListed(git) == IF git THEN Visible ELSE Visible \cap Walked

\* The folder and the pattern choose some of the files there are.
Scoped(git, wanted) == InOrder(FilesListed(git) \cap wanted)

Becoming(new) == search' = new /\ UNCHANGED <<project, vanished>>

\* search_files: the first of them, and how many there are.
FindsFiles ==
    /\ search.pc = "none"
    /\ \E git \in BOOLEAN, wanted \in SUBSET DOMAIN project :
        LET found == Scoped(git, wanted)
            shown == IF Len(found) > MAX_LISTED THEN MAX_LISTED ELSE Len(found)
        IN  Becoming([search EXCEPT
                !.pc = "found", !.git = git, !.wanted = wanted,
                !.matches = [i \in 1..shown |-> <<found[i], 0>>],
                !.total = Len(found), !.truncated = Len(found) > MAX_LISTED])

\* search_text: the files it will look into.
BeginsSearch ==
    /\ search.pc = "none"
    /\ \E git \in BOOLEAN, wanted \in SUBSET DOMAIN project :
        Becoming([search EXCEPT !.pc = "searching", !.git = git, !.wanted = wanted,
                                !.scope = Scoped(git, wanted)])

Searching == search.pc = "searching" /\ search.scope # <<>>
Upcoming == Head(search.scope)

OneMore(skipped, why) == [skipped EXCEPT ![why] = @ + 1]

\* Counted, but for one that has gone since it was listed.
SkipsFile ==
    /\ Searching
    /\ Upcoming \in vanished \/ project[Upcoming].kind # "text"
    /\ Becoming([search EXCEPT
            !.scope = Tail(@),
            !.skipped = IF Upcoming \in vanished THEN @
                        ELSE OneMore(@, project[Upcoming].kind)])

Hits == [i \in 1..Cardinality(project[Upcoming].lines) |-> <<Upcoming, InOrder(project[Upcoming].lines)[i]>>]
Room == MAX_RESULTS - Len(search.matches)

\* Mutant: the search is over as soon as there is no room.
OverWhenFull == Len(Hits) >= Room

\* One match more than there is room for ends the search.
TooMany == Len(Hits) > Room

LooksInto ==
    /\ Searching /\ Upcoming \notin vanished /\ project[Upcoming].kind = "text"
    /\ LET taken == SubSeq(Hits, 1, IF TooMany THEN Room ELSE Len(Hits))
       IN  Becoming([search EXCEPT
                !.searched = @ + 1,
                !.matches = @ \o taken,
                !.matched = IF taken = <<>> THEN @ ELSE @ \cup {Upcoming},
                !.truncated = TooMany,
                !.scope = IF TooMany THEN <<>> ELSE Tail(@)])

SearchEnds ==
    /\ search.pc = "searching" /\ search.scope = <<>>
    /\ Becoming([search EXCEPT !.pc = "ended"])

Vanishes(f) ==
    /\ search.pc = "searching" /\ vanished = {}
    /\ vanished' = {f}
    /\ UNCHANGED <<project, search>>

SearchNext ==
    \/ FindsFiles \/ BeginsSearch \/ SkipsFile \/ LooksInto \/ SearchEnds
    \/ \E f \in DOMAIN project : Vanishes(f)

SearchSpec == SearchInit /\ [][SearchNext]_searchVars

-----------------------------------------------------------------------------
(* Properties.                                                             *)

MayMatch ==
    {f \in DOMAIN project : f \in search.wanted /\ ~project[f].hidden /\ project[f].kind = "text"}
AllMatches == UNION {{<<f, n>> : n \in project[f].lines} : f \in MayMatch}
ShownLines == Range(search.matches)
Lost == UNION {{<<f, n>> : n \in project[f].lines} : f \in MayMatch \cap vanished}

\* "Search results stop at PROJECT_FILES_MAX_RESULTS and say so"
\* (docs/project_files_assistant.md:42): a search that does not say it
\* stopped has found every line there is, but in a file that went away
\* meanwhile; one that does has a full page of lines and there are more.
\* (So it is where Git lists the files: a walk stops and says nothing.)
StopsAndSaysSo ==
    search.pc = "ended" /\ search.git =>
        /\ ShownLines \subseteq AllMatches /\ Cardinality(ShownLines) = Len(search.matches)
        /\ ~search.truncated => AllMatches \ Lost \subseteq ShownLines
        /\ search.truncated => Len(search.matches) = MAX_RESULTS /\ AllMatches \ ShownLines # {}

\* "Binary and non-UTF-8 files are skipped and counted": a search that went
\* to its end accounts for every file it was to look into.
SkippedAreCounted ==
    search.pc = "ended" /\ search.git /\ ~search.truncated =>
        LET files == {f \in search.wanted : ~project[f].hidden}
            counted == search.searched + search.skipped["binary"]
                         + search.skipped["too_large"] + search.skipped["secret"]
        IN  Cardinality(files \ vanished) <= counted /\ counted <= Cardinality(files)

\* A search tells what it found, where it stopped, and what it passed over.
SearchIsTold == StopsAndSaysSo /\ SkippedAreCounted

=============================================================================
