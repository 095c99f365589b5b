----------------------------- MODULE DraftCheck -----------------------------
(***************************************************************************)
(* src/app/services/release_draft.py: the model drafts a changelog and     *)
(* release notes, and validate keeps of them what the change set proves.   *)
(* One action is one entry.                                                *)
(*                                                                         *)
(* A quote is where it is found: on a changed line of one file, in a       *)
(* commit subject of the range, or nowhere. Of a subject only this counts: *)
(* whether it says that something was fixed or secured, or neither.        *)
(***************************************************************************)
EXTENDS Integers, Sequences, FiniteSets

CONSTANTS
    Facts,              \* the change set: [path, status, userFacing]
    Evidences,          \* [path, side, subject]: path = NoFile for no line, and
                        \* what the subject says, or "none" for no subject
    NoFile,
    Sentences,          \* what an entry says
    Claims,             \* the texts that promise what a diff cannot show
    Asked,              \* the categories an entry may ask for
    MAX_CHANGELOG, MAX_NOTES,
    MaxEntries          \* bound: entries of one list

ASSUME DraftAssumption ==
    /\ Claims \subseteq Sentences
    /\ MAX_CHANGELOG \in Nat /\ MAX_NOTES \in Nat /\ MaxEntries \in Nat

VARIABLES
    parse,              \* "ok" or, after an unusable reply, "repaired"
    entriesSeen,        \* texts of the entries that were proven so far
    changelog, notes,   \* what is kept
    offered,            \* how many entries of each list were passed
    discarded,          \* how many of each were rejected
    draftPc
draftVars == <<parse, entriesSeen, changelog, notes, offered, discarded, draftPc>>

CATEGORIES == {"Added", "Changed", "Fixed", "Removed", "Security"}

DraftInit ==
    /\ parse = "ok" /\ entriesSeen = {}
    /\ changelog = <<>> /\ notes = <<>>
    /\ offered = [changelog |-> 0, notes |-> 0]
    /\ discarded = [changelog |-> 0, notes |-> 0]
    /\ draftPc = "asking"

\* The reply is a draft: an object with one of the two lists.
IsUsable ==
    /\ draftPc = "asking"
    /\ draftPc' = "changelog"
    /\ UNCHANGED <<parse, entriesSeen, changelog, notes, offered, discarded>>

\* It is sent back once, and after that the run has no draft.
IsNotUsable ==
    /\ draftPc = "asking"
    /\ IF parse = "ok" THEN parse' = "repaired" /\ UNCHANGED draftPc
                       ELSE draftPc' = "invalid" /\ UNCHANGED parse
    /\ UNCHANGED <<entriesSeen, changelog, notes, offered, discarded>>

\* ProviderUnavailable goes to the caller.
Unavailable ==
    /\ draftPc = "asking"
    /\ draftPc' = "unavailable"
    /\ UNCHANGED <<parse, entriesSeen, changelog, notes, offered, discarded>>

\* Among the changed lines of the named files first, then among the subjects.
Found(evidence, named) ==
    CASE evidence.path \in {fact.path : fact \in named} -> "line"
      [] /\ evidence.path \notin {fact.path : fact \in named}
         /\ evidence.subject # "none" -> "subject"
      [] OTHER -> "nowhere"

SideOf(evidence, named) == IF Found(evidence, named) = "line" THEN evidence.side ELSE "none"

\* The category an entry is given in the end.
CategoryOf(asked, evidence, named) ==
    LET statuses == {fact.status : fact \in named} IN
    IF \/ asked \notin CATEGORIES
       \/ asked \in {"Fixed", "Security"} /\ Found(evidence, named) # "subject"
       \/ asked = "Added" /\ "added" \notin statuses /\ SideOf(evidence, named) # "added"
       \/ asked = "Removed" /\ "deleted" \notin statuses /\ SideOf(evidence, named) # "removed"
    THEN "Changed" ELSE asked

\* One more entry of a list was looked at.
Offers(list) == draftPc = list /\ offered[list] < MaxEntries
Passes(list) == offered' = [offered EXCEPT ![list] = @ + 1]

\* Mutant: an entry that is rejected later is not remembered.
RemembersKept(text, list) == entriesSeen' = entriesSeen

\* The text of a proven entry, of either list, is not proven again.
Remembers(text, list) == entriesSeen' = entriesSeen \cup {text}

Discards(list) == discarded' = [discarded EXCEPT ![list] = @ + 1]

\* Not an object, no text, a credential, no file of the change set, no
\* evidence, or a text that was there before.
IsNotProven(list) ==
    /\ Offers(list) /\ Passes(list) /\ Discards(list)
    /\ UNCHANGED <<parse, entriesSeen, changelog, notes, draftPc>>

Proven(text, evidence, named) ==
    /\ named # {} /\ text \notin entriesSeen
    /\ Found(evidence, named) # "nowhere"

ChangelogEntry ==
    /\ Offers("changelog") /\ Passes("changelog")
    /\ \E text \in Sentences, named \in SUBSET Facts, evidence \in Evidences, asked \in Asked :
         /\ Proven(text, evidence, named) /\ Remembers(text, "changelog")
         /\ IF text \in Claims \/ Len(changelog) >= MAX_CHANGELOG
            THEN Discards("changelog") /\ UNCHANGED changelog
            ELSE /\ changelog' = Append(changelog,
                      [text |-> text, evidence |-> evidence, named |-> named,
                       category |-> CategoryOf(asked, evidence, named)])
                 /\ UNCHANGED discarded
    /\ UNCHANGED <<parse, notes, draftPc>>

ChangelogDone ==
    /\ draftPc = "changelog"
    /\ draftPc' = "notes"
    /\ UNCHANGED <<parse, entriesSeen, changelog, notes, offered, discarded>>

\* A note is for people who use the app: one of its files is what they see.
Note ==
    /\ Offers("notes") /\ Passes("notes")
    /\ \E text \in Sentences, named \in SUBSET Facts, evidence \in Evidences :
         /\ Proven(text, evidence, named) /\ Remembers(text, "notes")
         /\ IF \/ \A fact \in named : ~fact.userFacing
               \/ text \in Claims \/ Len(notes) >= MAX_NOTES
            THEN Discards("notes") /\ UNCHANGED notes
            ELSE /\ notes' = Append(notes,
                      [text |-> text, evidence |-> evidence, named |-> named])
                 /\ UNCHANGED discarded
    /\ UNCHANGED <<parse, changelog, draftPc>>

NotesDone ==
    /\ draftPc = "notes"
    /\ draftPc' = "drafted"
    /\ UNCHANGED <<parse, entriesSeen, changelog, notes, offered, discarded>>

DraftNext ==
    \/ IsUsable \/ IsNotUsable \/ Unavailable
    \/ \E list \in {"changelog", "notes"} : IsNotProven(list)
    \/ ChangelogEntry \/ ChangelogDone \/ Note \/ NotesDone
DraftSpec == DraftInit /\ [][DraftNext]_draftVars

-----------------------------------------------------------------------------
Entries(seq) == {seq[k] : k \in 1..Len(seq)}

\* Where an entry's evidence really is.
OnLineOf(entry, facts) == \E fact \in facts : entry.evidence.path = fact.path
OnSide(entry, side) == OnLineOf(entry, entry.named) /\ entry.evidence.side = side

(***************************************************************************)
(* What is kept quotes the change set: a changed line of a file it names,  *)
(* or a subject of the range. What was Fixed or is about Security quotes a *)
(* subject, which one does not matter (ClaimsAreSaid); Added and Removed   *)
(* have a file or a line that was; a note names what a user can see.       *)
(***************************************************************************)
EveryEntryIsQuoted ==
    /\ \A entry \in Entries(changelog) \cup Entries(notes) :
         OnLineOf(entry, entry.named) \/ entry.evidence.subject # "none"
    /\ \A entry \in Entries(changelog) :
         LET statuses == {fact.status : fact \in entry.named} IN
         CASE entry.category \in {"Fixed", "Security"} -> entry.evidence.subject # "none"
           [] entry.category = "Added" -> "added" \in statuses \/ OnSide(entry, "added")
           [] entry.category = "Removed" -> "deleted" \in statuses \/ OnSide(entry, "removed")
           [] OTHER -> entry.category = "Changed"
    /\ \A note \in Entries(notes) : \E fact \in note.named : fact.userFacing

(***************************************************************************)
(* "Fixed and Security rest on a commit subject that says so - otherwise   *)
(* the entry is moved to Changed, never kept under a claim the diff cannot *)
(* prove" (the docstring of release_draft.py). CategoryOf asks for any     *)
(* subject, so this does not hold.                                         *)
(***************************************************************************)
ClaimsAreSaid ==
    \A entry \in Entries(changelog) :
        entry.category \in {"Fixed", "Security"} => entry.evidence.subject = entry.category

(***************************************************************************)
(* "What is dropped is listed with the reason": of every list the model    *)
(* gave, the kept and the rejected entries make all of them.               *)
(***************************************************************************)
EveryEntryIsAnswered ==
    /\ Len(changelog) + discarded.changelog = offered.changelog
    /\ Len(notes) + discarded.notes = offered.notes

(***************************************************************************)
(* No sentence is published twice, not even once in each of the two files. *)
(***************************************************************************)
SaidOnce ==
    /\ \A j, k \in 1..Len(changelog) : changelog[j].text = changelog[k].text => j = k
    /\ \A j, k \in 1..Len(notes) : notes[j].text = notes[k].text => j = k
    /\ \A entry \in Entries(changelog), note \in Entries(notes) : entry.text # note.text

(***************************************************************************)
(* Whatever the model returns, what is kept of a draft quotes the change   *)
(* set, what is not kept is told, and nothing is said twice (validate).    *)
(***************************************************************************)
DraftIsRight == EveryEntryIsQuoted /\ EveryEntryIsAnswered /\ SaidOnce

=============================================================================
