------------------------- MODULE Validation_proofs --------------------------
(***************************************************************************)
(* What a review shows the model is fair to the diff, whatever the diff,   *)
(* the chunks and the budget are (ReviewPlan); what is kept of a model's   *)
(* reply quotes the change set, whatever the reply, the diff and the       *)
(* limits are: the findings of a review (ReviewFindings) and the entries   *)
(* of a release draft (DraftCheck); and the diff itself is read as it was  *)
(* written (DiffReader).                                                   *)
(***************************************************************************)
EXTENDS ReviewFindings, DraftCheck, ReviewPlan, DiffReader,
        FiniteSetTheorems, SequenceTheorems, WellFoundedInduction, TLAPS

-----------------------------------------------------------------------------
(* A finding's line.                                                       *)

LineIsRight(f) ==
    /\ f.line # NoLine => f.line \in ShownNumbers(f.place)
    /\ Cardinality(Holding(f.place, f.quote)) = 1 => f.line \in Holding(f.place, f.quote)

LEMMA HoldingIsFinite ==
  ASSUME NEW place \in Places, NEW quote
  PROVE  IsFiniteSet(Holding(place, quote))
  <1> DEFINE lines == {l \in LinesOf(place) : l.says = quote /\ l.number # NoLine}
  <1> DEFINE numberOf[l \in lines] == l.number
  <1>1. IsFiniteSet(lines)
    <2>1. IsFiniteSet(LinesOf(place)) /\ lines \in SUBSET LinesOf(place)
      BY FindingsAssumption
    <2> QED BY <2>1, FS_Subset
  <1>2. Holding(place, quote) = {l.number : l \in lines}
    BY DEF Holding
  <1>3. numberOf \in Surjection(lines, Holding(place, quote))
    BY <1>2 DEF Surjection
  <1> HIDE DEF lines, numberOf
  <1> QED BY <1>1, <1>3, FS_Surjection

\* The quote's only line is the one that is taken.
LEMMA TheOneIsIn ==
  ASSUME NEW S, IsFiniteSet(S), Cardinality(S) = 1
  PROVE  TheOne(S) \in S
  <1>1. PICK x : S = {x}
    BY FS_Singleton
  <1> QED BY <1>1 DEF TheOne

LEMMA HoldingIsShown ==
  ASSUME NEW place, NEW quote
  PROVE  Holding(place, quote) \subseteq ShownNumbers(place)
  BY DEF Holding, ShownNumbers

LEMMA AdjustedIsRight ==
  ASSUME NEW place \in Places, NEW quote, NEW given, NEW f,
         f.place = place, f.quote = quote, f.line = Adjusted(place, quote, given)
  PROVE  LineIsRight(f)
  <1>1. IsFiniteSet(Holding(place, quote))
    BY HoldingIsFinite
  <1>2. CASE Cardinality(Holding(place, quote)) = 1
    <2>1. f.line = TheOne(Holding(place, quote))
      BY <1>2 DEF Adjusted
    <2>2. f.line \in Holding(place, quote)
      BY <1>1, <1>2, <2>1, TheOneIsIn
    <2> QED BY <2>2, HoldingIsShown DEF LineIsRight
  <1>3. CASE Cardinality(Holding(place, quote)) # 1
    BY <1>3 DEF Adjusted, LineIsRight
  <1> QED BY <1>2, <1>3

-----------------------------------------------------------------------------
(* The findings of a review.                                               *)

\* What was accepted, entry by entry, and how much of the reply it is.
AcceptedIsRight ==
    /\ IsFiniteSet(accepted) /\ proposed \in Nat /\ rejected \in Nat
    /\ \A f \in accepted : LineIsRight(f) /\ f.severity \in Nat
    /\ \A f, g \in accepted : Keys(f) \cap Keys(g) # {} => f = g
    /\ proposed <= 2 * MAX_FINDINGS => Cardinality(accepted) + rejected = proposed

\* What is returned: accepted, each once, and nothing worse left out.
ReturnedIsRight ==
    /\ findings \in Seq(accepted)
    /\ \A j, k \in 1..Len(findings) : findings[j] = findings[k] => j = k
    /\ \A k \in 1..Len(findings), g \in accepted :
         g.severity < findings[k].severity => \E j \in 1..Len(findings) : findings[j] = g

FindingsInv ==
    /\ AcceptedIsRight
    /\ IF checkPc = "checking" THEN findings = <<>> ELSE checkPc = "checked" /\ ReturnedIsRight

LEMMA OneIsAccepted ==
  ASSUME AcceptedIsRight, NEW f, LineIsRight(f), f.severity \in Nat, ~Duplicate(f),
         accepted' = accepted \cup {f}, proposed' = proposed + 1, rejected' = rejected,
         Looked
  PROVE  AcceptedIsRight'
  <1>1. \A g \in accepted : Keys(f) \cap Keys(g) = {}
    BY DEF Duplicate, Seen
  <1>2. Keys(f) # {}
    BY DEF Keys
  <1>3. f \notin accepted
    BY <1>1, <1>2
  <1>4. /\ IsFiniteSet(accepted') /\ Cardinality(accepted') = Cardinality(accepted) + 1
        /\ Cardinality(accepted) \in Nat
    BY <1>3, FS_AddElement, FS_CardinalityType DEF AcceptedIsRight
  <1>5. \A g, h \in accepted' : Keys(g) \cap Keys(h) # {} => g = h
    BY <1>1 DEF AcceptedIsRight
  <1>6. \A g \in accepted' : LineIsRight(g) /\ g.severity \in Nat
    BY DEF AcceptedIsRight
  <1>7. proposed' <= 2 * MAX_FINDINGS => Cardinality(accepted') + rejected' = proposed'
    BY <1>4, FindingsAssumption DEF AcceptedIsRight, Looked
  <1> QED BY <1>4, <1>5, <1>6, <1>7 DEF AcceptedIsRight, LineIsRight, Keys

LEMMA ChecksFinding ==
  ASSUME FindingsInv, Checks
  PROVE  FindingsInv'
  <1>1. PICK place \in Places, quote \in Quotes, given \in Numbers \cup {NoLine},
             title \in Titles, severity \in Severities :
         LET finding == [place |-> place, line |-> Adjusted(place, quote, given),
                         quote |-> quote, title |-> title, severity |-> severity]
             unfounded == \A line \in LinesOf(place) : line.says # quote
         IN  IF unfounded \/ Duplicate(finding)
             THEN rejected' = rejected + 1 /\ UNCHANGED accepted
             ELSE accepted' = accepted \cup {finding} /\ UNCHANGED rejected
    BY DEF Checks
  <1> DEFINE finding == [place |-> place, line |-> Adjusted(place, quote, given),
                         quote |-> quote, title |-> title, severity |-> severity]
  <1>2. /\ checkPc = "checking" /\ UNCHANGED <<findings, checkPc>>
        /\ proposed' = proposed + 1 /\ Looked /\ AcceptedIsRight
    BY DEF Checks, Looking, FindingsInv
  <1>3. LineIsRight(finding) /\ finding.severity \in Nat
    <2>1. finding.place = place /\ finding.quote = quote
          /\ finding.line = Adjusted(place, quote, given) /\ finding.severity \in Nat
      BY FindingsAssumption
    <2> HIDE DEF finding
    <2> QED BY <2>1, AdjustedIsRight
  <1>4. CASE rejected' = rejected + 1 /\ UNCHANGED accepted
    <2>1. Cardinality(accepted) \in Nat
      BY <1>2, FS_CardinalityType DEF AcceptedIsRight
    <2>2. AcceptedIsRight'
      BY <1>2, <1>4, <2>1, FindingsAssumption DEF AcceptedIsRight, LineIsRight, Keys, Looked
    <2> QED BY <1>2, <2>2 DEF FindingsInv
  <1>5. CASE ~Duplicate(finding) /\ accepted' = accepted \cup {finding} /\ rejected' = rejected
    <2> HIDE DEF finding
    <2>1. AcceptedIsRight'
      BY <1>2, <1>3, <1>5, OneIsAccepted
    <2> QED BY <1>2, <2>1 DEF FindingsInv
  <1> QED BY <1>1, <1>4, <1>5

LEMMA ReturnsFindings ==
  ASSUME FindingsInv, Returns
  PROVE  FindingsInv'
  <1> DEFINE n == Cardinality(accepted)
  <1> DEFINE size == IF n < MAX_FINDINGS THEN n ELSE MAX_FINDINGS
  <1>1. PICK top \in SUBSET accepted :
          /\ Cardinality(top) = size
          /\ \A f \in top, g \in accepted \ top : NotAfter(f, g)
          /\ findings' \in [1..size -> top]
          /\ {findings'[k] : k \in 1..size} = top
    <2>1. PICK top \in {chosen \in SUBSET accepted : Cardinality(chosen) = size} :
             /\ \A f \in top, g \in accepted \ top : NotAfter(f, g)
             /\ findings' \in {order \in [1..size -> top] :
                    /\ {order[k] : k \in 1..size} = top
                    /\ \A j, k \in 1..size : j < k => NotAfter(order[j], order[k])}
      BY DEF Returns
    <2> QED BY <2>1
  <1>2. AcceptedIsRight /\ UNCHANGED <<proposed, accepted, rejected>> /\ checkPc' = "checked"
    BY DEF Returns, FindingsInv
  <1>3. AcceptedIsRight'
    BY <1>2 DEF AcceptedIsRight, LineIsRight, Keys
  <1>4. size \in Nat /\ IsFiniteSet(1..size) /\ Cardinality(1..size) = size
    <2>1. size \in Nat
      BY <1>2, FS_CardinalityType, FindingsAssumption DEF AcceptedIsRight
    <2> QED BY <2>1, FS_Interval
  <1> HIDE DEF size
  <1>5. findings' \in Seq(accepted) /\ Len(findings') = size
    BY <1>1, <1>4
  <1>6. findings' \in Injection(1..size, top)
    <2>1. findings' \in Surjection(1..size, top)
      BY <1>1 DEF Surjection
    <2> QED BY <1>1, <1>4, <2>1, FS_SurjSameCardinalityImpliesInj
  <1>7. \A j, k \in 1..size : findings'[j] = findings'[k] => j = k
    BY <1>6 DEF Injection, IsInjective
  <1>8. ASSUME NEW k \in 1..size, NEW g \in accepted, g.severity < findings'[k].severity
        PROVE  \E j \in 1..size : findings'[j] = g
    <2>1. findings'[k] \in top /\ findings'[k].severity \in Nat /\ g.severity \in Nat
      BY <1>1, <1>2 DEF AcceptedIsRight
    <2>2. ~NotAfter(findings'[k], g)
      BY <1>8, <2>1 DEF NotAfter
    <2>3. g \in top
      BY <1>1, <2>1, <2>2
    <2> QED BY <1>1, <2>3
  <1>9. ReturnedIsRight'
    BY <1>2, <1>5, <1>7, <1>8 DEF ReturnedIsRight
  <1> QED BY <1>2, <1>3, <1>9 DEF FindingsInv

LEMMA FindingsAlways == FindingsSpec => []FindingsInv
  <1>1. FindingsInit => FindingsInv
    BY FS_EmptySet, FindingsAssumption DEF FindingsInit, FindingsInv, AcceptedIsRight
  <1>2. FindingsInv /\ [FindingsNext]_findingsVars => FindingsInv'
    <2> SUFFICES ASSUME FindingsInv, [FindingsNext]_findingsVars PROVE FindingsInv'
      OBVIOUS
    <2>1. Cardinality(accepted) \in Nat
      BY FS_CardinalityType DEF FindingsInv, AcceptedIsRight
    <2>2. CASE Malformed
      <3>1. AcceptedIsRight'
        BY <2>1, <2>2, FindingsAssumption DEF Malformed, Looked, FindingsInv, AcceptedIsRight, LineIsRight, Keys
      <3> QED BY <2>2, <3>1 DEF Malformed, Looking, FindingsInv
    <2>3. CASE Overlooks
      <3>1. AcceptedIsRight'
        BY <2>1, <2>3, FindingsAssumption DEF Overlooks, Looked, FindingsInv, AcceptedIsRight, LineIsRight, Keys
      <3> QED BY <2>3, <3>1 DEF Overlooks, Looking, FindingsInv
    <2>4. CASE UNCHANGED findingsVars
      BY <2>4 DEF findingsVars, FindingsInv, AcceptedIsRight, ReturnedIsRight, LineIsRight, Keys
    <2> QED BY <2>2, <2>3, <2>4, ChecksFinding, ReturnsFindings DEF FindingsNext
  <1> QED BY <1>1, <1>2, PTL DEF FindingsSpec

(***************************************************************************)
(* For every diff and every reply: a returned finding has a line of its    *)
(* own file's diff or none, and its quote's when that is on one line       *)
(* (validate_findings, "the quote wins").                                  *)
(***************************************************************************)
THEOREM FindingsAreOfTheDiff == FindingsSpec => []LinesAreOfTheDiff
  <1>1. FindingsInv => LinesAreOfTheDiff
    <2> SUFFICES ASSUME FindingsInv, NEW k \in 1..Len(findings)
                 PROVE  LineIsRight(findings[k])
      BY DEF LinesAreOfTheDiff, LineIsRight
    <2>1. findings # <<>>
      OBVIOUS
    <2>2. findings[k] \in accepted
      BY <2>1 DEF FindingsInv, ReturnedIsRight
    <2> QED BY <2>2 DEF FindingsInv, AcceptedIsRight
  <1> QED BY <1>1, FindingsAlways, PTL

(***************************************************************************)
(* No two findings that are returned are about one line or quote the same  *)
(* of one file and category (the keys validate_findings compares).         *)
(***************************************************************************)
THEOREM FindingsDiffer == FindingsSpec => []NoTwoAlike
  <1>1. FindingsInv => NoTwoAlike
    <2> SUFFICES ASSUME FindingsInv, NEW j \in 1..Len(findings), NEW k \in 1..Len(findings),
                        findings[j].place = findings[k].place,
                        \/ findings[j].quote = findings[k].quote
                        \/ findings[j].line = findings[k].line /\ findings[j].line # NoLine
                 PROVE  j = k
      BY DEF NoTwoAlike
    <2>1. findings # <<>>
      OBVIOUS
    <2>2. ReturnedIsRight /\ findings[j] \in accepted /\ findings[k] \in accepted
      BY <2>1 DEF FindingsInv, ReturnedIsRight
    <2>3. Keys(findings[j]) \cap Keys(findings[k]) # {}
      BY DEF Keys
    <2>4. findings[j] = findings[k]
      BY <2>2, <2>3 DEF FindingsInv, AcceptedIsRight
    <2> QED BY <2>2, <2>4 DEF ReturnedIsRight
  <1> QED BY <1>1, FindingsAlways, PTL

(***************************************************************************)
(* What is cut to MAX_FINDINGS is never worse than what is returned, and   *)
(* what was looked at was accepted or rejected.                            *)
(***************************************************************************)
THEOREM FindingsAreTheWorst == FindingsSpec => []WorstAreReturned
  <1>1. FindingsInv => WorstAreReturned
    BY DEF FindingsInv, AcceptedIsRight, ReturnedIsRight, WorstAreReturned
  <1> QED BY <1>1, FindingsAlways, PTL

-----------------------------------------------------------------------------
(* The entries of a release draft.                                         *)

Shown == [text : Sentences, evidence : Evidences, named : SUBSET Facts, category : CATEGORIES]
Noted == [text : Sentences, evidence : Evidences, named : SUBSET Facts]

\* What EveryEntryIsQuoted says of one entry, and more of one of the changelog.
QuoteIsThere(entry) == OnLineOf(entry, entry.named) \/ entry.evidence.subject # "none"
CategoryIsProven(entry) ==
    LET statuses == {fact.status : fact \in entry.named} IN
    CASE entry.category \in {"Fixed", "Security"} -> entry.evidence.subject # "none"
      [] entry.category = "Added" -> "added" \in statuses \/ OnSide(entry, "added")
      [] entry.category = "Removed" -> "deleted" \in statuses \/ OnSide(entry, "removed")
      [] OTHER -> entry.category = "Changed"
UsersSeeIt(note) == \E fact \in note.named : fact.userFacing

ChangelogIsRight ==
    /\ changelog \in Seq(Shown)
    /\ \A k \in 1..Len(changelog) :
         /\ QuoteIsThere(changelog[k]) /\ CategoryIsProven(changelog[k])
         /\ changelog[k].text \in entriesSeen
    /\ \A j, k \in 1..Len(changelog) : changelog[j].text = changelog[k].text => j = k

NotesAreRight ==
    /\ notes \in Seq(Noted)
    /\ \A k \in 1..Len(notes) :
         /\ QuoteIsThere(notes[k]) /\ UsersSeeIt(notes[k])
         /\ notes[k].text \in entriesSeen
    /\ \A j, k \in 1..Len(notes) : notes[j].text = notes[k].text => j = k

\* A sentence is remembered as soon as it is proven, kept or not: that is
\* what keeps it from being said in the other list.
DraftInv ==
    /\ ChangelogIsRight /\ NotesAreRight
    /\ \A j \in 1..Len(changelog), k \in 1..Len(notes) : changelog[j].text # notes[k].text
    /\ offered \in [{"changelog", "notes"} -> Nat]
    /\ discarded \in [{"changelog", "notes"} -> Nat]
    /\ EveryEntryIsAnswered

LEMMA QuoteIsFound ==
  ASSUME NEW text, NEW evidence \in Evidences, NEW named \in SUBSET Facts, Proven(text, evidence, named),
         NEW entry, entry.evidence = evidence, entry.named = named
  PROVE  QuoteIsThere(entry)
  BY DEF Proven, Found, QuoteIsThere, OnLineOf

LEMMA CategoryIsEarned ==
  ASSUME NEW text, NEW evidence \in Evidences, NEW named \in SUBSET Facts, NEW wanted,
         Proven(text, evidence, named),
         NEW entry, entry.evidence = evidence, entry.named = named,
         entry.category = CategoryOf(wanted, evidence, named)
  PROVE  CategoryIsProven(entry) /\ entry.category \in CATEGORIES
  <1>1. Found(evidence, named) = "subject" => evidence.subject # "none"
    BY DEF Found
  <1>2. ASSUME NEW side, side # "none", SideOf(evidence, named) = side
        PROVE  OnSide(entry, side)
    BY <1>2 DEF SideOf, Found, OnSide, OnLineOf
  <1> QED BY <1>1, <1>2 DEF CategoryOf, CategoryIsProven, CATEGORIES

LEMMA ChangelogGrows ==
  ASSUME DraftInv, ChangelogEntry
  PROVE  DraftInv'
  <1>1. PICK text \in Sentences, named \in SUBSET Facts, evidence \in Evidences, wanted \in Asked :
         /\ Proven(text, evidence, named) /\ Remembers(text, "changelog")
         /\ IF text \in Claims \/ Len(changelog) >= MAX_CHANGELOG
            THEN Discards("changelog") /\ UNCHANGED changelog
            ELSE /\ changelog' = Append(changelog,
                      [text |-> text, evidence |-> evidence, named |-> named,
                       category |-> CategoryOf(wanted, evidence, named)])
                 /\ UNCHANGED discarded
    BY DEF ChangelogEntry
  <1> DEFINE entry == [text |-> text, evidence |-> evidence, named |-> named,
                       category |-> CategoryOf(wanted, evidence, named)]
  <1>2. /\ UNCHANGED notes /\ offered' = [offered EXCEPT !["changelog"] = @ + 1]
        /\ entriesSeen' = entriesSeen \cup {text} /\ text \notin entriesSeen
    BY <1>1 DEF ChangelogEntry, Passes, Remembers, Proven
  <1>3. /\ offered' \in [{"changelog", "notes"} -> Nat]
        /\ offered'.changelog = offered.changelog + 1 /\ offered'.notes = offered.notes
    BY <1>2 DEF DraftInv
  <1>4. NotesAreRight'
    BY <1>2 DEF DraftInv, NotesAreRight, QuoteIsThere, UsersSeeIt, OnLineOf
  <1>5. Len(changelog) \in Nat /\ Len(notes) \in Nat
    BY DEF DraftInv, ChangelogIsRight, NotesAreRight
  <1>6. CASE Discards("changelog") /\ UNCHANGED changelog
    <2>1. /\ discarded' \in [{"changelog", "notes"} -> Nat]
          /\ discarded'.changelog = discarded.changelog + 1 /\ discarded'.notes = discarded.notes
      BY <1>6 DEF Discards, DraftInv
    <2>2. EveryEntryIsAnswered'
      BY <1>2, <1>3, <1>5, <1>6, <2>1 DEF DraftInv, EveryEntryIsAnswered
    <2>3. ChangelogIsRight'
      BY <1>2, <1>6 DEF DraftInv, ChangelogIsRight, QuoteIsThere, CategoryIsProven, OnLineOf, OnSide
    <2> QED BY <1>2, <1>3, <1>4, <1>6, <2>1, <2>2, <2>3 DEF DraftInv
  <1>7. CASE changelog' = Append(changelog, entry) /\ UNCHANGED discarded
    <2>1. QuoteIsThere(entry) /\ CategoryIsProven(entry) /\ entry \in Shown /\ entry.text = text
      <3>1. entry.evidence = evidence /\ entry.named = named /\ entry.text = text
            /\ entry.category = CategoryOf(wanted, evidence, named)
        OBVIOUS
      <3>2. QuoteIsThere(entry) /\ CategoryIsProven(entry) /\ entry.category \in CATEGORIES
        <4> HIDE DEF entry
        <4> QED BY <1>1, <3>1, QuoteIsFound, CategoryIsEarned
      <3> QED BY <3>1, <3>2 DEF Shown
    <2> HIDE DEF entry
    <2>2. /\ changelog' \in Seq(Shown) /\ Len(changelog') = Len(changelog) + 1
          /\ \A k \in 1..Len(changelog) : changelog'[k] = changelog[k]
          /\ changelog'[Len(changelog) + 1] = entry
      BY <1>7, <2>1, AppendProperties DEF DraftInv, ChangelogIsRight
    <2>3. \A k \in 1..Len(changelog) : changelog[k].text # text
      BY <1>2 DEF DraftInv, ChangelogIsRight
    <2>4. ASSUME NEW k \in 1..Len(changelog')
          PROVE  /\ QuoteIsThere(changelog'[k]) /\ CategoryIsProven(changelog'[k])
                 /\ changelog'[k].text \in entriesSeen'
      <3>1. CASE k = Len(changelog) + 1
        BY <1>2, <2>1, <2>2, <3>1
      <3>2. CASE k \in 1..Len(changelog)
        BY <1>2, <2>2, <3>2 DEF DraftInv, ChangelogIsRight
      <3> QED BY <1>5, <2>2, <3>1, <3>2
    <2>5. ASSUME NEW j \in 1..Len(changelog'), NEW k \in 1..Len(changelog'),
                 changelog'[j].text = changelog'[k].text
          PROVE  j = k
      <3>1. /\ j = Len(changelog) + 1 \/ j \in 1..Len(changelog)
            /\ k = Len(changelog) + 1 \/ k \in 1..Len(changelog)
        BY <1>5, <2>2
      <3>2. CASE j \in 1..Len(changelog) /\ k \in 1..Len(changelog)
        <4>1. changelog[j].text = changelog[k].text
          BY <2>2, <2>5, <3>2
        <4> QED BY <3>2, <4>1 DEF DraftInv, ChangelogIsRight
      <3>3. CASE j = Len(changelog) + 1 /\ k \in 1..Len(changelog)
        BY <2>1, <2>2, <2>3, <2>5, <3>3
      <3>4. CASE j \in 1..Len(changelog) /\ k = Len(changelog) + 1
        BY <2>1, <2>2, <2>3, <2>5, <3>4
      <3> QED BY <3>1, <3>2, <3>3, <3>4
    <2>6. ChangelogIsRight'
      BY <2>2, <2>4, <2>5 DEF ChangelogIsRight, QuoteIsThere, CategoryIsProven, OnLineOf, OnSide
    <2>7. \A k \in 1..Len(notes) : notes[k].text # text
      BY <1>2 DEF DraftInv, NotesAreRight
    <2>8. \A j \in 1..Len(changelog'), k \in 1..Len(notes') : changelog'[j].text # notes'[k].text
      <3> SUFFICES ASSUME NEW j \in 1..Len(changelog'), NEW k \in 1..Len(notes)
                   PROVE  changelog'[j].text # notes[k].text
        BY <1>2
      <3>1. CASE j = Len(changelog) + 1
        BY <2>1, <2>2, <2>7, <3>1
      <3>2. CASE j \in 1..Len(changelog)
        <4>1. changelog'[j] = changelog[j]
          BY <2>2, <3>2
        <4> QED BY <3>2, <4>1 DEF DraftInv
      <3> QED BY <1>5, <2>2, <3>1, <3>2
    <2>9. EveryEntryIsAnswered'
      BY <1>2, <1>3, <1>5, <1>7, <2>2 DEF DraftInv, EveryEntryIsAnswered
    <2> QED BY <1>3, <1>4, <1>7, <2>6, <2>8, <2>9 DEF DraftInv
  <1> QED BY <1>1, <1>6, <1>7

LEMMA NotesGrow ==
  ASSUME DraftInv, Note
  PROVE  DraftInv'
  <1>1. PICK text \in Sentences, named \in SUBSET Facts, evidence \in Evidences :
         /\ Proven(text, evidence, named) /\ Remembers(text, "notes")
         /\ IF \/ \A fact \in named : ~fact.userFacing
               \/ text \in Claims \/ Len(notes) >= MAX_NOTES
            THEN Discards("notes") /\ UNCHANGED notes
            ELSE /\ notes' = Append(notes,
                      [text |-> text, evidence |-> evidence, named |-> named])
                 /\ UNCHANGED discarded
    BY DEF Note
  <1> DEFINE entry == [text |-> text, evidence |-> evidence, named |-> named]
  <1>2. /\ UNCHANGED changelog /\ offered' = [offered EXCEPT !["notes"] = @ + 1]
        /\ entriesSeen' = entriesSeen \cup {text} /\ text \notin entriesSeen
    BY <1>1 DEF Note, Passes, Remembers, Proven
  <1>3. /\ offered' \in [{"changelog", "notes"} -> Nat]
        /\ offered'.notes = offered.notes + 1 /\ offered'.changelog = offered.changelog
    BY <1>2 DEF DraftInv
  <1>4. ChangelogIsRight'
    BY <1>2 DEF DraftInv, ChangelogIsRight, QuoteIsThere, CategoryIsProven, OnLineOf, OnSide
  <1>5. Len(changelog) \in Nat /\ Len(notes) \in Nat
    BY DEF DraftInv, ChangelogIsRight, NotesAreRight
  <1>6. CASE Discards("notes") /\ UNCHANGED notes
    <2>1. /\ discarded' \in [{"changelog", "notes"} -> Nat]
          /\ discarded'.notes = discarded.notes + 1 /\ discarded'.changelog = discarded.changelog
      BY <1>6 DEF Discards, DraftInv
    <2>2. EveryEntryIsAnswered'
      BY <1>2, <1>3, <1>5, <1>6, <2>1 DEF DraftInv, EveryEntryIsAnswered
    <2>3. NotesAreRight'
      BY <1>2, <1>6 DEF DraftInv, NotesAreRight, QuoteIsThere, UsersSeeIt, OnLineOf
    <2> QED BY <1>2, <1>3, <1>4, <1>6, <2>1, <2>2, <2>3 DEF DraftInv
  <1>7. CASE /\ ~\A fact \in named : ~fact.userFacing
             /\ notes' = Append(notes, entry) /\ UNCHANGED discarded
    <2>1. QuoteIsThere(entry) /\ UsersSeeIt(entry) /\ entry \in Noted /\ entry.text = text
      <3>1. entry.evidence = evidence /\ entry.named = named /\ entry.text = text /\ entry \in Noted
        BY DEF Noted
      <3>2. QuoteIsThere(entry)
        <4> HIDE DEF entry
        <4> QED BY <1>1, <3>1, QuoteIsFound
      <3> QED BY <1>7, <3>1, <3>2 DEF UsersSeeIt
    <2> HIDE DEF entry
    <2>2. /\ notes' \in Seq(Noted) /\ Len(notes') = Len(notes) + 1
          /\ \A k \in 1..Len(notes) : notes'[k] = notes[k]
          /\ notes'[Len(notes) + 1] = entry
      BY <1>7, <2>1, AppendProperties DEF DraftInv, NotesAreRight
    <2>3. \A k \in 1..Len(notes) : notes[k].text # text
      BY <1>2 DEF DraftInv, NotesAreRight
    <2>4. ASSUME NEW k \in 1..Len(notes')
          PROVE  /\ QuoteIsThere(notes'[k]) /\ UsersSeeIt(notes'[k])
                 /\ notes'[k].text \in entriesSeen'
      <3>1. CASE k = Len(notes) + 1
        BY <1>2, <2>1, <2>2, <3>1
      <3>2. CASE k \in 1..Len(notes)
        BY <1>2, <2>2, <3>2 DEF DraftInv, NotesAreRight
      <3> QED BY <1>5, <2>2, <3>1, <3>2
    <2>5. ASSUME NEW j \in 1..Len(notes'), NEW k \in 1..Len(notes'),
                 notes'[j].text = notes'[k].text
          PROVE  j = k
      <3>1. /\ j = Len(notes) + 1 \/ j \in 1..Len(notes)
            /\ k = Len(notes) + 1 \/ k \in 1..Len(notes)
        BY <1>5, <2>2
      <3>2. CASE j \in 1..Len(notes) /\ k \in 1..Len(notes)
        <4>1. notes[j].text = notes[k].text
          BY <2>2, <2>5, <3>2
        <4> QED BY <3>2, <4>1 DEF DraftInv, NotesAreRight
      <3>3. CASE j = Len(notes) + 1 /\ k \in 1..Len(notes)
        BY <2>1, <2>2, <2>3, <2>5, <3>3
      <3>4. CASE j \in 1..Len(notes) /\ k = Len(notes) + 1
        BY <2>1, <2>2, <2>3, <2>5, <3>4
      <3> QED BY <3>1, <3>2, <3>3, <3>4
    <2>6. NotesAreRight'
      BY <2>2, <2>4, <2>5 DEF NotesAreRight, QuoteIsThere, UsersSeeIt, OnLineOf
    <2>7. \A j \in 1..Len(changelog) : changelog[j].text # text
      BY <1>2 DEF DraftInv, ChangelogIsRight
    <2>8. \A j \in 1..Len(changelog'), k \in 1..Len(notes') : changelog'[j].text # notes'[k].text
      <3> SUFFICES ASSUME NEW j \in 1..Len(changelog), NEW k \in 1..Len(notes')
                   PROVE  changelog[j].text # notes'[k].text
        BY <1>2
      <3>1. CASE k = Len(notes) + 1
        BY <2>1, <2>2, <2>7, <3>1
      <3>2. CASE k \in 1..Len(notes)
        <4>1. notes'[k] = notes[k]
          BY <2>2, <3>2
        <4> QED BY <3>2, <4>1 DEF DraftInv
      <3> QED BY <1>5, <2>2, <3>1, <3>2
    <2>9. EveryEntryIsAnswered'
      BY <1>2, <1>3, <1>5, <1>7, <2>2 DEF DraftInv, EveryEntryIsAnswered
    <2> QED BY <1>3, <1>4, <1>7, <2>6, <2>8, <2>9 DEF DraftInv
  <1> QED BY <1>1, <1>6, <1>7

LEMMA DraftAlways == DraftSpec => []DraftInv
  <1>1. DraftInit => DraftInv
    BY DEF DraftInit, DraftInv, ChangelogIsRight, NotesAreRight, EveryEntryIsAnswered
  <1>2. DraftInv /\ [DraftNext]_draftVars => DraftInv'
    <2> SUFFICES ASSUME DraftInv, [DraftNext]_draftVars PROVE DraftInv'
      OBVIOUS
    <2>1. ASSUME NEW list \in {"changelog", "notes"}, IsNotProven(list) PROVE DraftInv'
      <3>1. UNCHANGED <<changelog, notes, entriesSeen>>
        BY <2>1 DEF IsNotProven
      <3>2. /\ offered' = [offered EXCEPT ![list] = @ + 1]
            /\ discarded' = [discarded EXCEPT ![list] = @ + 1]
        BY <2>1 DEF IsNotProven, Passes, Discards
      <3>3. Len(changelog) \in Nat /\ Len(notes) \in Nat
        BY DEF DraftInv, ChangelogIsRight, NotesAreRight
      <3>4. EveryEntryIsAnswered'
        BY <3>1, <3>2, <3>3 DEF DraftInv, EveryEntryIsAnswered
      <3>5. ChangelogIsRight' /\ NotesAreRight'
        BY <3>1 DEF DraftInv, ChangelogIsRight, NotesAreRight, QuoteIsThere, CategoryIsProven,
                    UsersSeeIt, OnLineOf, OnSide
      <3> QED BY <3>1, <3>2, <3>4, <3>5 DEF DraftInv
    <2>2. CASE \/ IsUsable \/ IsNotUsable \/ Unavailable \/ ChangelogDone \/ NotesDone
               \/ UNCHANGED draftVars
      <3>1. UNCHANGED <<changelog, notes, entriesSeen, offered, discarded>>
        BY <2>2 DEF IsUsable, IsNotUsable, Unavailable, ChangelogDone, NotesDone, draftVars
      <3>2. ChangelogIsRight' /\ NotesAreRight'
        BY <3>1 DEF DraftInv, ChangelogIsRight, NotesAreRight, QuoteIsThere, CategoryIsProven,
                    UsersSeeIt, OnLineOf, OnSide
      <3> QED BY <3>1, <3>2 DEF DraftInv, EveryEntryIsAnswered
    <2> QED BY <2>1, <2>2, ChangelogGrows, NotesGrow DEF DraftNext
  <1> QED BY <1>1, <1>2, PTL DEF DraftSpec

(***************************************************************************)
(* For every change set and every reply: what is kept of a draft quotes a  *)
(* changed line of a file it names or a subject of the range; Fixed and    *)
(* Security quote a subject, of whatever content; Added and Removed have a *)
(* file or a line that was; and a note is of something a user can see      *)
(* (release_draft.validate).                                               *)
(***************************************************************************)
THEOREM DraftsQuoteTheChangeSet == DraftSpec => []EveryEntryIsQuoted
  <1>1. DraftInv => EveryEntryIsQuoted
    <2> SUFFICES ASSUME DraftInv PROVE EveryEntryIsQuoted
      OBVIOUS
    <2>1. \A entry \in Entries(changelog) : QuoteIsThere(entry) /\ CategoryIsProven(entry)
      BY DEF DraftInv, ChangelogIsRight, Entries
    <2>2. \A entry \in Entries(notes) : QuoteIsThere(entry) /\ UsersSeeIt(entry)
      BY DEF DraftInv, NotesAreRight, Entries
    <2> QED BY <2>1, <2>2 DEF EveryEntryIsQuoted, QuoteIsThere, CategoryIsProven, UsersSeeIt
  <1> QED BY <1>1, DraftAlways, PTL

(***************************************************************************)
(* Of each list, the kept and the rejected entries make all of them.       *)
(***************************************************************************)
THEOREM DraftsAreAnswered == DraftSpec => []EveryEntryIsAnswered
  <1>1. DraftInv => EveryEntryIsAnswered
    BY DEF DraftInv
  <1> QED BY <1>1, DraftAlways, PTL

(***************************************************************************)
(* No sentence is published twice, not even once in each of the two files  *)
(* (the set "seen" that validate hands from one list to the other).        *)
(***************************************************************************)
THEOREM DraftsSayOnce == DraftSpec => []SaidOnce
  <1>1. DraftInv => SaidOnce
    <2> SUFFICES ASSUME DraftInv PROVE SaidOnce
      OBVIOUS
    <2>1. \A entry \in Entries(changelog), note \in Entries(notes) : entry.text # note.text
      BY DEF DraftInv, Entries
    <2> QED BY <2>1 DEF SaidOnce, DraftInv, ChangelogIsRight, NotesAreRight
  <1> QED BY <1>1, DraftAlways, PTL

(***************************************************************************)
(* Whatever the model returns, the findings that are handed on are right.  *)
(***************************************************************************)
THEOREM FindingsStayRight == FindingsSpec => []FindingsAreRight
  BY FindingsAreOfTheDiff, FindingsDiffer, FindingsAreTheWorst, PTL DEF FindingsAreRight

(***************************************************************************)
(* Whatever the model returns, what is kept of a draft quotes the change   *)
(* set, what is not kept is told, and nothing is said twice. Whether the   *)
(* subject says what the entry claims is not in it: see ClaimsAreSaid.     *)
(***************************************************************************)
THEOREM DraftsStayRight == DraftSpec => []DraftIsRight
  BY DraftsQuoteTheChangeSet, DraftsAreAnswered, DraftsSayOnce, PTL DEF DraftIsRight

-----------------------------------------------------------------------------
(* A review's prompt.                                                      *)

\* A set of naturals that is not empty has a least element.
LEMMA LeastNatural ==
    ASSUME NEW T, T \subseteq Nat, T # {}
    PROVE  \E x \in T : \A y \in T : x <= y
<1> DEFINE R == {ss \in Nat \X Nat : ss[1] < ss[2]}
<1>1. IsWellFoundedOn(R, Nat)
    BY NatLessThanWellFounded DEF OpToRel
<1>2. \E x \in T : \A y \in T : ~ (<<y, x>> \in R)
    <2> HIDE DEF R
    <2> QED
        BY <1>1, WFMin, Zenon
<1>3. PICK x \in T : \A y \in T : ~ (<<y, x>> \in R)
    BY <1>2
<1>4. ASSUME NEW y \in T PROVE x <= y
    <2>1. x \in Nat /\ y \in Nat
        OBVIOUS
    <2>2. y < x => <<y, x>> \in R
        BY <2>1
    <2> QED
        BY <1>3, <2>1, <2>2
<1> QED
    BY <1>4

\* Induction up to n, of a set.
LEMMA InductionTo ==
    ASSUME NEW n \in Nat, NEW S, 0 \in S, \A i \in 0..n : i < n /\ i \in S => i + 1 \in S
    PROVE  \A i \in 0..n : i \in S
<1> DEFINE T == {i \in 0..n : i \notin S}
<1>1. SUFFICES ASSUME T # {} PROVE FALSE
    OBVIOUS
<1>2. T \subseteq Nat
    OBVIOUS
<1>3. PICK x \in T : \A y \in T : x <= y
    <2> HIDE DEF T
    <2> QED
        BY <1>1, <1>2, LeastNatural
<1>4. x # 0 /\ x - 1 \in 0..n /\ x - 1 < n /\ ~(x <= x - 1)
    OBVIOUS
<1>5. x - 1 \in S
    BY <1>3, <1>4
<1>6. (x - 1) + 1 \in S /\ (x - 1) + 1 = x
    BY <1>4, <1>5
<1> QED
    BY <1>6

(***************************************************************************)
(* A function that is defined by what it was one place before.             *)
(***************************************************************************)
Runs(g, n, S, first, step) ==
    /\ g \in [0..n -> S] /\ g[0] = first
    /\ \A k \in 1..n : g[k] = step[<<g[k - 1], k>>]

\* There is one.
LEMMA OneRuns ==
    ASSUME NEW n \in Nat, NEW S, NEW first \in S, NEW step \in [S \X (1..n) -> S]
    PROVE  \E g : Runs(g, n, S, first, step)
<1> DEFINE T == {i \in 0..n : \E g : Runs(g, i, S, first, step)}
<1>1. 0 \in T
    <2> DEFINE g == [j \in 0..0 |-> first]
    <2>1. g \in [0..0 -> S] /\ g[0] = first
        OBVIOUS
    <2> HIDE DEF g
    <2>2. Runs(g, 0, S, first, step)
        BY <2>1 DEF Runs
    <2> QED
        BY <2>2
<1>2. ASSUME NEW i \in 0..n, i < n, i \in T PROVE i + 1 \in T
    <2>1. PICK g : Runs(g, i, S, first, step)
        BY <1>2
    <2>2. i \in Nat /\ i + 1 \in 1..n /\ i + 1 \in 0..n /\ i \in 0..i
        BY <1>2
    <2> DEFINE last == step[<<g[i], i + 1>>]
               more == [j \in 0..(i + 1) |-> IF j = i + 1 THEN last ELSE g[j]]
    <2>3. g[i] \in S /\ last \in S
        BY <2>1, <2>2 DEF Runs
    <2>4. more \in [0..(i + 1) -> S]
        <3>1. ASSUME NEW j \in 0..(i + 1) PROVE (IF j = i + 1 THEN last ELSE g[j]) \in S
            <4>1. j # i + 1 => j \in 0..i
                BY <2>2
            <4> QED
                BY <2>1, <2>3, <4>1 DEF Runs
        <3> QED
            BY <3>1
    <2>5. more[0] = first
        <3>1. 0 \in 0..(i + 1) /\ 0 # i + 1
            BY <2>2
        <3> QED
            BY <2>1, <3>1 DEF Runs
    <2>6. ASSUME NEW j \in 1..(i + 1) PROVE more[j] = step[<<more[j - 1], j>>]
        <3>1. j \in 0..(i + 1) /\ j - 1 \in 0..(i + 1) /\ j - 1 # i + 1
            BY <2>2
        <3>2. CASE j = i + 1
            <4>1. j - 1 = i
                BY <2>2, <3>2
            <4> QED
                BY <2>2, <3>1, <3>2, <4>1
        <3>3. CASE j # i + 1
            <4>1. j \in 1..i
                BY <2>2, <3>3
            <4>2. g[j] = step[<<g[j - 1], j>>]
                BY <2>1, <4>1 DEF Runs
            <4> QED
                BY <3>1, <3>3, <4>2
        <3> QED
            BY <3>2, <3>3
    <2> HIDE DEF more
    <2>7. Runs(more, i + 1, S, first, step)
        BY <2>4, <2>5, <2>6 DEF Runs
    <2> QED
        BY <2>2, <2>7
<1>3. \A i \in 0..n : i \in T
    <2> HIDE DEF T
    <2> QED
        BY <1>1, <1>2, InductionTo
<1>4. n \in 0..n
    OBVIOUS
<1> QED
    BY <1>3, <1>4

-----------------------------------------------------------------------------
(* What blocks cost together.                                              *)

LEMMA SumRuns ==
    ASSUME NEW costs \in Seq(Nat)
    PROVE  \E g : /\ g \in [0..Len(costs) -> Nat] /\ g[0] = 0
                  /\ \A k \in 1..Len(costs) : g[k] = g[k - 1] + costs[k]
                  /\ Sum(costs) = g[Len(costs)]
<1> DEFINE n == Len(costs)
           step == [x \in Nat \X (1..n) |-> x[1] + costs[x[2]]]
           Sums(g) == g = [k \in 0..n |-> IF k = 0 THEN 0 ELSE g[k - 1] + costs[k]]
           total == CHOOSE g : Sums(g)
<1>1. Sum(costs) = total[n]
    BY DEF Sum
<1>2. n \in Nat /\ \A k \in 1..n : costs[k] \in Nat
    OBVIOUS
<1>3. step \in [Nat \X (1..n) -> Nat]
    BY <1>2
<1>4. \A a \in Nat, k \in 1..n : step[<<a, k>>] = a + costs[k]
    OBVIOUS
<1> HIDE DEF step
<1>5. PICK g : Runs(g, n, Nat, 0, step)
    BY <1>2, <1>3, OneRuns
<1>6. /\ g \in [0..n -> Nat] /\ g[0] = 0
      /\ \A k \in 1..n : g[k] = g[k - 1] + costs[k]
    <2>1. ASSUME NEW k \in 1..n PROVE g[k] = g[k - 1] + costs[k]
        <3>1. k - 1 \in 0..n
            BY <1>2
        <3>2. g[k - 1] \in Nat
            BY <1>5, <3>1 DEF Runs
        <3> QED
            BY <1>4, <1>5, <3>2 DEF Runs
    <2> QED
        BY <1>5, <2>1 DEF Runs
<1>7. Sums(g)
    <2>1. ASSUME NEW k \in 0..n PROVE g[k] = IF k = 0 THEN 0 ELSE g[k - 1] + costs[k]
        <3>1. k # 0 => k \in 1..n
            BY <1>2
        <3> QED
            BY <1>6, <3>1
    <2>2. g = [k \in 0..n |-> g[k]]
        BY <1>6
    <2> QED
        BY <2>1, <2>2
<1>8. Sums(total)
    <2> HIDE DEF Sums
    <2> QED
        BY <1>7
<1> HIDE DEF total
<1>9. /\ DOMAIN total = 0..n
      /\ \A k \in 0..n : total[k] = IF k = 0 THEN 0 ELSE total[k - 1] + costs[k]
    BY <1>8
<1> DEFINE T == {i \in 0..n : total[i] = g[i]}
<1>10. 0 \in T
    BY <1>2, <1>6, <1>9
<1>11. ASSUME NEW i \in 0..n, i < n, i \in T PROVE i + 1 \in T
    <2>1. i + 1 \in 1..n /\ i + 1 \in 0..n /\ (i + 1) - 1 = i /\ i + 1 # 0
        BY <1>2, <1>11
    <2>2. total[i + 1] = total[i] + costs[i + 1] /\ g[i + 1] = g[i] + costs[i + 1]
        BY <1>6, <1>9, <2>1
    <2> QED
        BY <1>11, <2>1, <2>2
<1>12. \A i \in 0..n : i \in T
    <2> HIDE DEF T
    <2> QED
        BY <1>2, <1>10, <1>11, InductionTo
<1>13. total[n] = g[n]
    BY <1>2, <1>12
<1> QED
    BY <1>1, <1>6, <1>13

LEMMA SumOfNone == ASSUME NEW costs \in Seq(Nat), Len(costs) = 0 PROVE Sum(costs) = 0
    BY SumRuns

\* One block more costs that much more.
LEMMA SumOfMore ==
    ASSUME NEW costs \in Seq(Nat), NEW more \in Seq(Nat), Len(more) = Len(costs) + 1,
           \A k \in 1..Len(costs) : more[k] = costs[k]
    PROVE  Sum(costs) \in Nat /\ Sum(more) = Sum(costs) + more[Len(more)]
<1> DEFINE n == Len(costs)
<1>1. n \in Nat
    OBVIOUS
<1>2. PICK g : /\ g \in [0..n -> Nat] /\ g[0] = 0
               /\ \A k \in 1..n : g[k] = g[k - 1] + costs[k]
               /\ Sum(costs) = g[n]
    BY SumRuns
<1>3. PICK h : /\ h \in [0..Len(more) -> Nat] /\ h[0] = 0
               /\ \A k \in 1..Len(more) : h[k] = h[k - 1] + more[k]
               /\ Sum(more) = h[Len(more)]
    BY SumRuns
<1> DEFINE T == {i \in 0..n : h[i] = g[i]}
<1>4. 0 \in T
    BY <1>1, <1>2, <1>3
<1>5. ASSUME NEW i \in 0..n, i < n, i \in T PROVE i + 1 \in T
    <2>1. i + 1 \in 1..n /\ i + 1 \in 0..n /\ (i + 1) - 1 = i /\ i + 1 \in 1..Len(more)
        BY <1>1, <1>5
    <2>2. /\ g[i + 1] = g[i] + costs[i + 1] /\ h[i + 1] = h[i] + more[i + 1]
          /\ more[i + 1] = costs[i + 1]
        BY <1>2, <1>3, <2>1
    <2> QED
        BY <1>5, <2>1, <2>2
<1>6. \A i \in 0..n : i \in T
    <2> HIDE DEF T
    <2> QED
        BY <1>1, <1>4, <1>5, InductionTo
<1>7. h[n] = g[n] /\ n + 1 \in 1..Len(more) /\ (n + 1) - 1 = n /\ n \in 0..n
    BY <1>1, <1>6
<1>8. h[n + 1] = h[n] + more[n + 1]
    BY <1>3, <1>7
<1> QED
    BY <1>1, <1>2, <1>3, <1>7, <1>8

-----------------------------------------------------------------------------
(* A finite set in an order of its members: R holds the pairs <<a, b>>     *)
(* where a is ahead of b.                                                  *)

Orders(R, S) ==
    /\ \A a \in S : <<a, a>> \notin R
    /\ \A a, b, c \in S : <<a, b>> \in R /\ <<b, c>> \in R => <<a, c>> \in R
    /\ \A a, b \in S : a = b \/ <<a, b>> \in R \/ <<b, a>> \in R
AheadOf(R, S, c) == {d \in S : <<d, c>> \in R}

\* Whoever is behind another has more ahead.
LEMMA BehindHasMoreAhead ==
    ASSUME NEW S, IsFiniteSet(S), NEW R, Orders(R, S), NEW a \in S, NEW b \in S
    PROVE  /\ Cardinality(AheadOf(R, S, a)) \in 0..(Cardinality(S) - 1)
           /\ <<a, b>> \in R => Cardinality(AheadOf(R, S, a)) < Cardinality(AheadOf(R, S, b))
<1>1. /\ AheadOf(R, S, a) \subseteq S \ {a} /\ AheadOf(R, S, b) \subseteq S
      /\ IsFiniteSet(S \ {a}) /\ IsFiniteSet(AheadOf(R, S, b))
      /\ Cardinality(S \ {a}) = Cardinality(S) - 1 /\ Cardinality(S) \in Nat
    BY FS_RemoveElement, FS_Subset, FS_CardinalityType DEF AheadOf, Orders
<1>2. /\ IsFiniteSet(AheadOf(R, S, a)) /\ Cardinality(AheadOf(R, S, a)) \in Nat
      /\ Cardinality(AheadOf(R, S, a)) <= Cardinality(S \ {a})
    BY <1>1, FS_Subset, FS_CardinalityType
<1>3. ASSUME <<a, b>> \in R PROVE Cardinality(AheadOf(R, S, a)) < Cardinality(AheadOf(R, S, b))
    <2>1. /\ AheadOf(R, S, a) \subseteq AheadOf(R, S, b)
          /\ a \in AheadOf(R, S, b) /\ a \notin AheadOf(R, S, a)
        BY <1>3 DEF AheadOf, Orders
    <2>2. AheadOf(R, S, a) # AheadOf(R, S, b)
        BY <2>1
    <2>3. /\ Cardinality(AheadOf(R, S, a)) <= Cardinality(AheadOf(R, S, b))
          /\ Cardinality(AheadOf(R, S, a)) # Cardinality(AheadOf(R, S, b))
        BY <1>1, <2>1, <2>2, FS_Subset
    <2>4. Cardinality(AheadOf(R, S, b)) \in Nat
        BY <1>1, FS_CardinalityType
    <2> QED
        BY <1>2, <2>3, <2>4
<1> QED
    BY <1>1, <1>2, <1>3

\* No two of them hold the same place,
LEMMA NoPlaceIsShared ==
    ASSUME NEW S, IsFiniteSet(S), NEW R, Orders(R, S), NEW a \in S, NEW b \in S,
           Cardinality(AheadOf(R, S, a)) = Cardinality(AheadOf(R, S, b))
    PROVE  a = b
<1>1. /\ Cardinality(AheadOf(R, S, a)) \in 0..(Cardinality(S) - 1)
      /\ <<a, b>> \in R => Cardinality(AheadOf(R, S, a)) < Cardinality(AheadOf(R, S, b))
    BY BehindHasMoreAhead
<1>2. <<b, a>> \in R => Cardinality(AheadOf(R, S, b)) < Cardinality(AheadOf(R, S, a))
    BY BehindHasMoreAhead
<1>3. Cardinality(S) \in Nat
    BY FS_CardinalityType
<1>4. <<a, b>> \notin R /\ <<b, a>> \notin R
    BY <1>1, <1>2, <1>3
<1> QED
    BY <1>4 DEF Orders

\* and so every place is held.
LEMMA EveryPlaceIsHeld ==
    ASSUME NEW S, IsFiniteSet(S), NEW R, Orders(R, S), NEW k \in 1..Cardinality(S)
    PROVE  \E c \in S : Cardinality(AheadOf(R, S, c)) = k - 1
<1> DEFINE n == Cardinality(S)
           place == [c \in S |-> Cardinality(AheadOf(R, S, c)) + 1]
<1>1. n \in Nat /\ IsFiniteSet(1..n) /\ Cardinality(1..n) = n
    BY FS_CardinalityType, FS_Interval
<1>2. ASSUME NEW c \in S PROVE place[c] \in 1..n /\ place[c] = Cardinality(AheadOf(R, S, c)) + 1
                               /\ Cardinality(AheadOf(R, S, c)) \in Nat
    <2>1. Cardinality(AheadOf(R, S, c)) \in 0..(n - 1)
        BY BehindHasMoreAhead
    <2> QED
        BY <1>1, <2>1
<1>4. place \in Injection(S, 1..n)
    <2>1. place \in [S -> 1..n]
        BY <1>2
    <2>2. ASSUME NEW a \in S, NEW b \in S, place[a] = place[b] PROVE a = b
        BY <1>2, <2>2, NoPlaceIsShared
    <2> HIDE DEF place
    <2> QED
        BY <2>1, <2>2 DEF Injection, IsInjective
<1>5. place \in Surjection(S, 1..n)
    <2> HIDE DEF place
    <2> QED
        BY <1>1, <1>4, FS_Injection
<1>6. PICK c \in S : place[c] = k
    BY <1>5 DEF Surjection
<1>7. Cardinality(AheadOf(R, S, c)) = k - 1
    BY <1>2, <1>6
<1> QED
    BY <1>7

\* The chunks in order of their score are all there, each once, the better
\* ones first.
LEMMA SortedIsSorted ==
    ASSUME NEW S, IsFiniteSet(S), S \subseteq Nat, \A c \in S : best[c] \in Int
    PROVE  /\ Sorted(S) \in Seq(S) /\ Len(Sorted(S)) = Cardinality(S)
           /\ Listed(Sorted(S)) = S
           /\ \A i, j \in 1..Len(Sorted(S)) : Sorted(S)[i] = Sorted(S)[j] => i = j
           /\ \A i, j \in 1..Len(Sorted(S)) : i < j => best[Sorted(S)[i]] >= best[Sorted(S)[j]]
<1> DEFINE n == Cardinality(S)
           R == {cd \in S \X S : Ahead(cd[1], cd[2])}
           Nth(k) == CHOOSE c \in S : Cardinality({d \in S : Ahead(d, c)}) = k - 1
<1>1. n \in Nat
    BY FS_CardinalityType
<1>2. \A c, d \in S : <<c, d>> \in R <=> Ahead(c, d)
    OBVIOUS
<1> HIDE DEF R
<1>3. \A c \in S : AheadOf(R, S, c) = {d \in S : Ahead(d, c)}
    BY <1>2 DEF AheadOf
<1>4. Orders(R, S)
    <2>1. \A c \in S : best[c] \in Int /\ c \in Int
        OBVIOUS
    <2>2. \A a, b \in S : a = b \/ Ahead(a, b) \/ Ahead(b, a)
        BY <2>1 DEF Ahead
    <2>3. \A a \in S : ~Ahead(a, a)
        BY <2>1 DEF Ahead
    <2>4. \A a, b, c \in S : Ahead(a, b) /\ Ahead(b, c) => Ahead(a, c)
        BY <2>1 DEF Ahead
    <2> QED
        BY <1>2, <2>2, <2>3, <2>4 DEF Orders
<1>5. ASSUME NEW k \in 1..n PROVE Nth(k) \in S /\ Cardinality(AheadOf(R, S, Nth(k))) = k - 1
    <2>1. \E c \in S : Cardinality({d \in S : Ahead(d, c)}) = k - 1
        <3>1. PICK c \in S : Cardinality(AheadOf(R, S, c)) = k - 1
            BY <1>4, EveryPlaceIsHeld
        <3> QED
            BY <1>3, <3>1
    <2>2. Nth(k) \in S /\ Cardinality({d \in S : Ahead(d, Nth(k))}) = k - 1
        BY <2>1
    <2> HIDE DEF Nth
    <2> QED
        BY <1>3, <2>2
<1>6. Sorted(S) = [k \in 1..n |-> Nth(k)]
    BY DEF Sorted
<1> HIDE DEF Nth
<1>7. Sorted(S) \in Seq(S) /\ Len(Sorted(S)) = n /\ \A k \in 1..n : Sorted(S)[k] = Nth(k)
    BY <1>1, <1>5, <1>6
<1>8. ASSUME NEW i \in 1..n, NEW j \in 1..n, Nth(i) = Nth(j) PROVE i = j
    BY <1>5, <1>8
<1>9. ASSUME NEW i \in 1..n, NEW j \in 1..n, i < j PROVE best[Nth(i)] >= best[Nth(j)]
    <2>1. /\ Nth(i) \in S /\ Cardinality(AheadOf(R, S, Nth(i))) = i - 1
          /\ Nth(j) \in S /\ Cardinality(AheadOf(R, S, Nth(j))) = j - 1
        BY <1>5
    <2>2. <<Nth(j), Nth(i)>> \notin R
        <3>1. <<Nth(j), Nth(i)>> \in R => j - 1 < i - 1
            BY <1>4, <2>1, BehindHasMoreAhead
        <3> QED
            BY <1>9, <3>1
    <2>3. ~(best[Nth(j)] > best[Nth(i)])
        BY <1>2, <2>1, <2>2 DEF Ahead
    <2>4. best[Nth(i)] \in Int /\ best[Nth(j)] \in Int
        BY <2>1
    <2> QED
        BY <2>3, <2>4
<1>10. ASSUME NEW c \in S PROVE \E k \in 1..n : Nth(k) = c
    <2>1. Cardinality(AheadOf(R, S, c)) \in 0..(n - 1)
        BY <1>4, BehindHasMoreAhead
    <2> DEFINE k == Cardinality(AheadOf(R, S, c)) + 1
    <2>2. k \in 1..n /\ k - 1 = Cardinality(AheadOf(R, S, c))
        BY <1>1, <2>1
    <2>3. Nth(k) \in S /\ Cardinality(AheadOf(R, S, Nth(k))) = Cardinality(AheadOf(R, S, c))
        BY <1>5, <2>2
    <2> HIDE DEF k
    <2>4. Nth(k) = c
        BY <1>4, <2>3, NoPlaceIsShared
    <2> QED
        BY <2>2, <2>4
<1>11. Listed(Sorted(S)) = S
    BY <1>5, <1>7, <1>10 DEF Listed
<1>12. \A i, j \in 1..n : Sorted(S)[i] = Sorted(S)[j] => i = j
    BY <1>7, <1>8
<1>13. \A i, j \in 1..n : i < j => best[Sorted(S)[i]] >= best[Sorted(S)[j]]
    BY <1>7, <1>9
<1> QED
    BY <1>7, <1>11, <1>12, <1>13

-----------------------------------------------------------------------------
(***************************************************************************)
(* gather_context and build_prompt.                                        *)
(***************************************************************************)
Costs(chunks) == [k \in 1..Len(chunks) |-> CostOf(chunks[k]) + 2]

GatherInv ==
    /\ anchors \in Seq(Chunks)
    /\ \A i, j \in 1..Len(anchors) : anchors[i] = anchors[j] => i = j
    /\ DOMAIN best \subseteq Chunks /\ \A c \in DOMAIN best : best[c] \in Int
    /\ context \in Seq(Chunks)

PlanPcs == {"anchors", "searching", "planning", "diff", "too large", "context", "planned"}

NothingPlanned ==
    /\ used = 0 /\ shown = <<>> /\ full = TRUE /\ taken = 0
    /\ inPrompt = <<>> /\ looked = 0

\* What was found out of the files that are behind, and of the one at hand.
ShownAsTold(k) ==
    /\ shown[k].hunks \in 0..Len(parts[k].hunks)
    /\ parts[k].text =>
         shown[k].state = CASE shown[k].hunks = 0 -> "skipped"
                            [] shown[k].hunks = Len(parts[k].hunks) -> "full"
                            [] OTHER -> "partial"
    /\ full => shown[k].hunks = Len(parts[k].hunks)

DiffInv ==
    /\ parts \in ReviewedFiles /\ available \in Int /\ diffBudget \in Int /\ used \in Nat
    /\ diffBudget <= available /\ used <= diffBudget
    /\ (available - diffBudget) * 100 <= available * CONTEXT_SHARE
    /\ full \in BOOLEAN /\ taken \in Nat
    /\ shown \in Seq([hunks : Nat, state : {"full", "partial", "skipped", "heading"}])
    /\ Len(shown) <= Len(parts)
    /\ \A k \in 1..Len(shown) : ShownAsTold(k)
    /\ taken > 0 => full /\ Len(shown) < Len(parts)
    /\ Len(shown) < Len(parts) => taken <= Len(Part.hunks)
    \* Once a hunk was left out none is shown behind it.
    /\ ~full => \E c \in 1..Len(shown) :
                  /\ \A k \in 1..Len(shown) : k < c => shown[k].hunks = Len(parts[k].hunks)
                  /\ \A k \in 1..Len(shown) : c < k => shown[k].hunks = 0

ContextInv ==
    /\ Len(shown) = Len(parts)
    /\ inPrompt \in Seq(Chunks) /\ looked \in 0..Len(context)
    /\ room \in Nat /\ used + Sum(Costs(inPrompt)) + room = available

ReviewPlanInv ==
    /\ planPc \in PlanPcs /\ GatherInv
    /\ planPc \in {"anchors", "searching", "planning"} => NothingPlanned
    /\ planPc = "diff" => DiffInv /\ inPrompt = <<>> /\ looked = 0
    /\ planPc \in {"context", "planned"} => DiffInv /\ ContextInv

LEMMA PlanBeginsWhole == ReviewPlanInit => ReviewPlanInv
    BY DEF ReviewPlanInit, ReviewPlanInv, PlanPcs, GatherInv, NothingPlanned

LEMMA GatherInvStays ==
    ASSUME GatherInv, UNCHANGED gatherVars PROVE GatherInv'
    BY DEF GatherInv, gatherVars

LEMMA NothingPlannedStays ==
    ASSUME NothingPlanned, UNCHANGED <<diffVars, contextVars>> PROVE NothingPlanned'
    BY DEF NothingPlanned, diffVars, contextVars

LEMMA FindsAnchorsIsWhole == ReviewPlanInv /\ FindsAnchors => ReviewPlanInv'
<1> SUFFICES ASSUME ReviewPlanInv, FindsAnchors PROVE ReviewPlanInv'
    OBVIOUS
<1>1. /\ planPc = "anchors" /\ planPc' = "searching"
      /\ best' = best /\ context' = context /\ UNCHANGED <<diffVars, contextVars>>
      /\ GatherInv /\ NothingPlanned
    BY DEF ReviewPlanInv, FindsAnchors
<1>2. PICK n \in 0..ANCHOR_CHUNKS : anchors' \in [1..n -> Chunks] /\ Cardinality(Listed(anchors')) = n
    BY DEF FindsAnchors
<1> n \in Nat
    BY ReviewPlanAssumption
<1>3. anchors' \in Seq(Chunks) /\ Len(anchors') = n
    BY <1>2
<1>4. \A i, j \in 1..n : anchors'[i] = anchors'[j] => i = j
    <2> DEFINE at == [i \in 1..n |-> anchors'[i]]
    <2>1. Listed(anchors') = {anchors'[i] : i \in 1..n}
        BY <1>3 DEF Listed
    <2>2. at \in Surjection(1..n, Listed(anchors'))
        <3>1. at \in [1..n -> Listed(anchors')]
            BY <2>1
        <3>2. \A x \in Listed(anchors') : \E i \in 1..n : at[i] = x
            BY <2>1
        <3> HIDE DEF at
        <3> QED
            BY <3>1, <3>2 DEF Surjection
    <2>3. IsFiniteSet(1..n) /\ Cardinality(1..n) = n
        <3>1. n \in Int /\ 1 \in Int /\ n - 1 + 1 = n /\ (1 > n => n = 0)
            OBVIOUS
        <3> QED
            BY <3>1, FS_Interval
    <2>4. at \in Injection(1..n, Listed(anchors'))
        <3> HIDE DEF at
        <3> QED
            BY <1>2, <2>2, <2>3, FS_Surjection
    <2>5. \A i, j \in 1..n : at[i] = at[j] => i = j
        <3> HIDE DEF at
        <3> QED
            BY <2>4 DEF Injection, IsInjective
    <2> QED
        BY <2>5
<1>5. GatherInv'
    BY <1>1, <1>3, <1>4 DEF GatherInv
<1>6. NothingPlanned'
    BY <1>1, NothingPlannedStays
<1> QED
    BY <1>1, <1>5, <1>6 DEF ReviewPlanInv, PlanPcs

LEMMA SearchesIsWhole == ReviewPlanInv /\ Searches => ReviewPlanInv'
<1> SUFFICES ASSUME ReviewPlanInv, Searches PROVE ReviewPlanInv'
    OBVIOUS
<1>1. /\ planPc = "searching" /\ planPc' = "searching"
      /\ anchors' = anchors /\ context' = context /\ UNCHANGED <<diffVars, contextVars>>
      /\ GatherInv /\ NothingPlanned
    BY DEF ReviewPlanInv, Searches
<1>2. PICK hits \in SUBSET Chunks : \E found \in [hits -> Scores] : best' = Better(found)
    BY DEF Searches
<1>3. PICK found \in [hits -> Scores] : best' = Better(found)
    BY <1>2
<1>4. /\ DOMAIN best' = DOMAIN best \cup hits
      /\ \A c \in DOMAIN best' : best'[c] = CASE c \notin hits -> best[c]
                                              [] c \notin DOMAIN best -> found[c]
                                              [] OTHER -> IF found[c] > best[c] THEN found[c] ELSE best[c]
    BY <1>3 DEF Better
<1>5. /\ DOMAIN best \subseteq Chunks /\ \A c \in DOMAIN best : best[c] \in Int
      /\ \A c \in hits : found[c] \in Int
    BY <1>1, ReviewPlanAssumption DEF GatherInv
<1>6. ASSUME NEW c \in DOMAIN best' PROVE best'[c] \in Int
    BY <1>4, <1>5
<1>7. GatherInv'
    BY <1>1, <1>4, <1>5, <1>6 DEF GatherInv
<1>8. NothingPlanned'
    BY <1>1, NothingPlannedStays
<1> QED
    BY <1>1, <1>7, <1>8 DEF ReviewPlanInv, PlanPcs

\* What there is to rank.
LEMMA SimilarIsFinite ==
    ASSUME GatherInv
    PROVE  /\ IsFiniteSet(Similar) /\ Similar \subseteq Chunks /\ Similar \subseteq Nat
           /\ \A c \in Similar : best[c] \in Int
<1>1. Similar \subseteq Chunks /\ \A c \in Similar : best[c] \in Int
    BY DEF GatherInv, Similar
<1>2. IsFiniteSet(Similar)
    BY <1>1, ReviewPlanAssumption, FS_Subset
<1> QED
    BY <1>1, <1>2, ReviewPlanAssumption

\* The first n of a sequence.
LEMMA FirstIsFirst ==
    ASSUME NEW S, NEW seq \in Seq(S), NEW n \in Nat
    PROVE  /\ First(seq, n) \in Seq(S)
           /\ Len(First(seq, n)) = IF Len(seq) < n THEN Len(seq) ELSE n
           /\ \A i \in 1..Len(First(seq, n)) : First(seq, n)[i] = seq[i]
<1> DEFINE m == IF Len(seq) < n THEN Len(seq) ELSE n
<1>1. m \in Nat /\ m <= Len(seq) /\ Len(seq) \in Nat
    OBVIOUS
<1>2. First(seq, n) = SubSeq(seq, 1, m)
    BY DEF First
<1> HIDE DEF m
<1>3. \A i \in 1..m : seq[i] \in S
    BY <1>1, ElementOfSeq
<1>4. /\ SubSeq(seq, 1, m) \in Seq(S) /\ Len(SubSeq(seq, 1, m)) = IF 1 <= m THEN m - 1 + 1 ELSE 0
      /\ \A i \in 1..m - 1 + 1 : SubSeq(seq, 1, m)[i] = seq[1 + i - 1]
    BY <1>1, <1>3, SubSeqProperties
<1>5. Len(SubSeq(seq, 1, m)) = m
    BY <1>1, <1>4
<1>6. \A i \in 1..m : i \in 1..m - 1 + 1 /\ 1 + i - 1 = i
    BY <1>1
<1>7. \A i \in 1..m : SubSeq(seq, 1, m)[i] = seq[i]
    BY <1>4, <1>6
<1> QED
    BY <1>2, <1>4, <1>5, <1>7 DEF m

LEMMA RanksIsWhole == ReviewPlanInv /\ Ranks => ReviewPlanInv'
<1> SUFFICES ASSUME ReviewPlanInv, Ranks PROVE ReviewPlanInv'
    OBVIOUS
<1>1. /\ planPc = "searching" /\ planPc' = "planning"
      /\ anchors' = anchors /\ best' = best /\ UNCHANGED <<diffVars, contextVars>>
      /\ context' = First(anchors \o Sorted(Similar), CONTEXT_CHUNKS)
      /\ GatherInv /\ NothingPlanned
    BY DEF ReviewPlanInv, Ranks
<1>2. Sorted(Similar) \in Seq(Chunks)
    <2>1. Sorted(Similar) \in Seq(Similar)
        BY <1>1, SimilarIsFinite, SortedIsSorted
    <2> QED
        BY <1>1, <2>1, SimilarIsFinite, SeqMonotonic
<1>3. anchors \o Sorted(Similar) \in Seq(Chunks)
    BY <1>1, <1>2 DEF GatherInv
<1>4. context' \in Seq(Chunks)
    BY <1>1, <1>3, ReviewPlanAssumption, FirstIsFirst
<1>5. GatherInv'
    BY <1>1, <1>4 DEF GatherInv
<1>6. NothingPlanned'
    BY <1>1, NothingPlannedStays
<1> QED
    BY <1>1, <1>5, <1>6 DEF ReviewPlanInv, PlanPcs

\* The share kept for the context is part of what is available.
LEMMA ReserveIsAShare ==
    ASSUME GatherInv, NEW tokens \in Nat
    PROVE  /\ ReserveFor(tokens) \in 0..tokens
           /\ ReserveFor(tokens) * 100 <= tokens * CONTEXT_SHARE
<1> DEFINE wanted == Sum([k \in 1..Len(context) |-> CostOf(context[k])])
           product == tokens * CONTEXT_SHARE
           share == product \div 100
<1>1. wanted \in Nat
    <2> DEFINE costs == [k \in 1..Len(context) |-> CostOf(context[k])]
    <2>1. costs \in Seq(Nat)
        <3>1. Len(context) \in Nat /\ \A k \in 1..Len(context) : context[k] \in Chunks
            BY DEF GatherInv
        <3>2. \A k \in 1..Len(context) : CostOf(context[k]) \in Nat
            BY <3>1, ReviewPlanAssumption
        <3> QED
            BY <3>1, <3>2
    <2> HIDE DEF costs
    <2>2. PICK g : g \in [0..Len(costs) -> Nat] /\ Sum(costs) = g[Len(costs)]
        BY <2>1, SumRuns
    <2>3. Sum(costs) \in Nat
        BY <2>1, <2>2
    <2> QED
        BY <2>3 DEF costs
<1>2. product \in Nat /\ product <= tokens * 100
    BY ReviewPlanAssumption
<1>3. ReserveFor(tokens) = IF wanted < share THEN wanted ELSE share
    BY DEF ReserveFor
<1> HIDE DEF wanted, product
<1>4. share \in Nat /\ share * 100 <= product
    BY <1>2
<1>5. share <= tokens
    BY <1>2, <1>4
<1> HIDE DEF share
<1>6. ReserveFor(tokens) \in Nat /\ ReserveFor(tokens) <= share
    BY <1>1, <1>3, <1>4
<1> QED
    BY <1>2, <1>4, <1>5, <1>6 DEF product

LEMMA PlansIsWhole == ReviewPlanInv /\ Plans => ReviewPlanInv'
<1> SUFFICES ASSUME ReviewPlanInv, Plans PROVE ReviewPlanInv'
    OBVIOUS
<1>1. /\ planPc = "planning" /\ planPc' = IF available' <= 0 THEN "too large" ELSE "diff"
      /\ anchors' = <<>> /\ best' = [c \in {} |-> 0] /\ context' = context
      /\ parts' \in ReviewedFiles /\ available' \in Budgets
      /\ diffBudget' = available' - ReserveFor(available')
      /\ used' = used /\ shown' = shown /\ full' = full /\ taken' = taken
      /\ inPrompt' = inPrompt /\ looked' = looked
      /\ GatherInv /\ NothingPlanned
    BY DEF ReviewPlanInv, Plans, contextVars
<1>2. GatherInv'
    <2>1. anchors' \in Seq(Chunks) /\ Len(anchors') = 0
        <3>1. anchors' = <<>>
            BY <1>1
        <3> QED
            BY <3>1
    <2>2. DOMAIN best' = {}
        <3>1. best' = [c \in {} |-> 0]
            BY <1>1
        <3> QED
            BY <3>1
    <2>3. context' \in Seq(Chunks)
        BY <1>1 DEF GatherInv
    <2> QED
        BY <2>1, <2>2, <2>3 DEF GatherInv
<1>3. CASE available' <= 0
    BY <1>1, <1>2, <1>3 DEF ReviewPlanInv, PlanPcs
<1>4. CASE ~(available' <= 0)
    <2>1. available' \in Nat /\ available' > 0
        BY <1>1, <1>4, ReviewPlanAssumption
    <2>2. PICK reserve \in 0..available' : /\ reserve = ReserveFor(available')
                                           /\ reserve * 100 <= available' * CONTEXT_SHARE
        BY <1>1, <2>1, ReserveIsAShare
    <2>3. diffBudget' = available' - reserve
        BY <1>1, <2>2
    <2>4. /\ diffBudget' \in Int /\ 0 <= diffBudget' /\ diffBudget' <= available'
          /\ available' - diffBudget' = reserve
        <3>1. reserve \in Int /\ 0 <= reserve /\ reserve <= available' /\ available' \in Int
            BY <2>1, <2>2
        <3>2. \A a, b \in Int : 0 <= b /\ b <= a =>
                a - b \in Int /\ 0 <= a - b /\ a - b <= a /\ a - (a - b) = b
            OBVIOUS
        <3> QED
            BY <2>3, <3>1, <3>2, Zenon
    <2>5. /\ used' = 0 /\ shown' = <<>> /\ full' = TRUE /\ taken' = 0
          /\ inPrompt' = <<>> /\ looked' = 0 /\ Len(shown') = 0
        BY <1>1 DEF NothingPlanned
    <2>6. Len(parts') \in Nat /\ (0 < Len(parts') => parts'[1].hunks \in Seq(Nat))
        <3>1. parts' \in Seq({parts'[k] : k \in DOMAIN parts'})
            BY <1>1, ReviewPlanAssumption
        <3>2. Len(parts') \in Nat /\ DOMAIN parts' = 1..Len(parts')
            BY <3>1
        <3>3. \A k \in DOMAIN parts' : parts'[k].hunks \in Seq(Nat)
            BY <1>1, ReviewPlanAssumption
        <3> QED
            BY <3>2, <3>3
    <2>8. DiffInv'
        <3>1. /\ parts' \in ReviewedFiles /\ available' \in Int /\ diffBudget' \in Int /\ used' \in Nat
              /\ diffBudget' <= available' /\ used' <= diffBudget'
            <4>1. parts' \in ReviewedFiles
                BY <1>1
            <4> QED
                BY <4>1, <2>1, <2>4, <2>5
        <3>2. (available' - diffBudget') * 100 <= available' * CONTEXT_SHARE
            BY <2>2, <2>4
        <3>3. full' \in BOOLEAN /\ taken' \in Nat /\ ~(taken' > 0) /\ full'
            BY <2>5
        <3>4. /\ shown' \in Seq([hunks : Nat, state : {"full", "partial", "skipped", "heading"}])
              /\ Len(shown') <= Len(parts') /\ \A k \in 1..Len(shown') : FALSE
            BY <2>5, <2>6
        <3>5. Len(shown') < Len(parts') => taken' <= Len(Part'.hunks)
            <4>0. Len(shown') + 1 = 1 /\ Part' = parts'[Len(shown') + 1]
                BY <2>5 DEF Part
            <4>1. SUFFICES ASSUME 0 < Len(parts') PROVE 0 <= Len(parts'[1].hunks)
                BY <2>5, <4>0
            <4>2. parts'[1].hunks \in Seq(Nat)
                BY <2>6, <4>1
            <4> QED
                BY <4>2
        <3> QED
            BY <3>1, <3>2, <3>3, <3>4, <3>5 DEF DiffInv
    <2> QED
        BY <1>1, <1>2, <1>4, <2>5, <2>8 DEF ReviewPlanInv, PlanPcs
<1> QED
    BY <1>3, <1>4

\* The files of a diff, and what one of them is.
LEMMA PartsAreFiles ==
    ASSUME parts \in ReviewedFiles
    PROVE  /\ Len(parts) \in Nat
           /\ \A k \in 1..Len(parts) : /\ parts[k].cost \in Nat /\ parts[k].hunks \in Seq(Nat)
                                       /\ Len(parts[k].hunks) \in Nat
                                       /\ parts[k].text <=> Len(parts[k].hunks) > 0
<1>1. parts \in Seq({parts[k] : k \in DOMAIN parts})
    BY ReviewPlanAssumption
<1>2. Len(parts) \in Nat /\ DOMAIN parts = 1..Len(parts)
    BY <1>1
<1>3. \A k \in DOMAIN parts : /\ parts[k].cost \in Nat /\ parts[k].hunks \in Seq(Nat)
                              /\ parts[k].text <=> parts[k].hunks # <<>>
    BY ReviewPlanAssumption, Zenon
<1>4. \A hunks \in Seq(Nat) : Len(hunks) \in Nat /\ (hunks # <<>> <=> Len(hunks) > 0)
    BY EmptySeq
<1>5. ASSUME NEW k \in 1..Len(parts)
      PROVE  /\ parts[k].cost \in Nat /\ parts[k].hunks \in Seq(Nat)
             /\ Len(parts[k].hunks) \in Nat
             /\ parts[k].text <=> Len(parts[k].hunks) > 0
    BY <1>2, <1>3, <1>4
<1> QED
    BY <1>2, <1>5

\* One file more is told of.
LEMMA OneMoreIsShown ==
    ASSUME DiffInv, Len(shown) < Len(parts), NEW state \in {"full", "partial", "skipped", "heading"},
           Shows(state), Part.text => state = TextState,
           parts' = parts, available' = available, diffBudget' = diffBudget,
           used' \in Nat, used' <= diffBudget,
           full' \in BOOLEAN, full' => full /\ taken = Len(Part.hunks)
    PROVE  DiffInv'
<1> DEFINE n == Len(shown)
           told == [hunks |-> taken, state |-> state]
           Tellings == [hunks : Nat, state : {"full", "partial", "skipped", "heading"}]
<1>1. /\ Len(parts) \in Nat
      /\ \A k \in 1..Len(parts) : Len(parts[k].hunks) \in Nat /\ (parts[k].text <=> Len(parts[k].hunks) > 0)
    BY PartsAreFiles DEF DiffInv
<1>2. /\ shown \in Seq(Tellings) /\ n \in Nat /\ taken \in Nat /\ full \in BOOLEAN
      /\ n < Len(parts) /\ n + 1 \in 1..Len(parts) /\ n + 1 \in Nat
    BY <1>1 DEF DiffInv
<1>3. Part = parts[n + 1] /\ taken \in 0..Len(Part.hunks)
    BY <1>1, <1>2 DEF Part, DiffInv
<1>4. shown' = Append(shown, told) /\ taken' = 0 /\ told \in Tellings
    BY <1>2 DEF Shows
<1>5. /\ shown' \in Seq(Tellings) /\ Len(shown') = n + 1
      /\ \A k \in 1..n : shown'[k] = shown[k]
      /\ shown'[n + 1] = told
    <2> HIDE DEF told, Tellings
    <2> QED
        BY <1>2, <1>4
<1>6. told.hunks = taken /\ told.state = state
    OBVIOUS
<1> HIDE DEF told
<1>7. \A k \in 1..(n + 1) : k # n + 1 => k \in 1..n
    BY <1>2
<1>8. ASSUME NEW k \in 1..(n + 1) PROVE ShownAsTold(k)'
    <2>1. CASE k # n + 1
        <3>1. k \in 1..n /\ ShownAsTold(k) /\ shown'[k] = shown[k]
            BY <1>5, <1>7, <2>1 DEF DiffInv
        <3> QED
            BY <3>1 DEF ShownAsTold
    <2>2. CASE k = n + 1
        <3>1. shown'[k].hunks = taken /\ shown'[k].state = state /\ parts'[k] = Part
            BY <1>3, <1>5, <1>6, <2>2
        <3>2. TextState = CASE taken = 0 -> "skipped"
                            [] taken = Len(Part.hunks) -> "full"
                            [] OTHER -> "partial"
            BY DEF TextState
        <3>3. shown'[k].hunks \in 0..Len(parts'[k].hunks)
            BY <1>3, <3>1
        <3>4. full' => shown'[k].hunks = Len(parts'[k].hunks)
            BY <3>1
        <3>5. parts'[k].text =>
                 shown'[k].state = CASE shown'[k].hunks = 0 -> "skipped"
                                     [] shown'[k].hunks = Len(parts'[k].hunks) -> "full"
                                     [] OTHER -> "partial"
            BY <3>1, <3>2
        <3> QED
            BY <3>3, <3>4, <3>5 DEF ShownAsTold
    <2> QED
        BY <2>1, <2>2
<1>9. ASSUME ~full'
      PROVE  \E c \in 1..(n + 1) :
                /\ \A k \in 1..(n + 1) : k < c => shown'[k].hunks = Len(parts[k].hunks)
                /\ \A k \in 1..(n + 1) : c < k => shown'[k].hunks = 0
    <2>1. CASE full
        <3>1. \A k \in 1..(n + 1) : k < n + 1 => shown'[k].hunks = Len(parts[k].hunks)
            <4>1. ASSUME NEW k \in 1..n PROVE shown'[k].hunks = Len(parts[k].hunks)
                <5>1. ShownAsTold(k)
                    BY DEF DiffInv
                <5>2. shown[k].hunks = Len(parts[k].hunks)
                    BY <2>1, <5>1 DEF ShownAsTold
                <5> QED
                    BY <1>5, <5>2
            <4> QED
                BY <1>2, <1>7, <4>1
        <3>2. \A k \in 1..(n + 1) : ~(n + 1 < k)
            BY <1>2
        <3>3. n + 1 \in 1..(n + 1)
            BY <1>2
        <3> QED
            BY <3>1, <3>2, <3>3
    <2>2. CASE ~full
        <3>1. PICK c \in 1..n : /\ \A k \in 1..n : k < c => shown[k].hunks = Len(parts[k].hunks)
                                /\ \A k \in 1..n : c < k => shown[k].hunks = 0
            BY <2>2 DEF DiffInv
        <3>2. taken = 0
            BY <1>2, <2>2 DEF DiffInv
        <3>3. c \in 1..(n + 1) /\ c < n + 1
            BY <1>2
        <3>4. ASSUME NEW k \in 1..(n + 1), k < c PROVE shown'[k].hunks = Len(parts[k].hunks)
            <4>1. k \in 1..n
                BY <1>2, <1>7, <3>3, <3>4
            <4> QED
                BY <1>5, <3>1, <3>4, <4>1
        <3>5. ASSUME NEW k \in 1..(n + 1), c < k PROVE shown'[k].hunks = 0
            <4>1. CASE k = n + 1
                BY <1>5, <1>6, <3>2, <4>1
            <4>2. CASE k # n + 1
                BY <1>5, <1>7, <3>1, <3>5, <4>2
            <4> QED
                BY <4>1, <4>2
        <3> QED
            BY <3>3, <3>4, <3>5
    <2> QED
        BY <2>1, <2>2
<1>10. Len(shown') < Len(parts') => taken' <= Len(Part'.hunks)
    <2>1. SUFFICES ASSUME n + 1 < Len(parts) PROVE 0 <= Len(parts[n + 2].hunks)
        <3>1. Part' = parts[n + 1 + 1] /\ n + 1 + 1 = n + 2
            BY <1>2, <1>5 DEF Part
        <3> QED
            BY <1>4, <1>5, <3>1
    <2>2. n + 2 \in 1..Len(parts)
        BY <1>1, <1>2, <2>1
    <2> QED
        BY <1>1, <2>2
<1>11. /\ parts' \in ReviewedFiles /\ available' \in Int /\ diffBudget' \in Int
       /\ diffBudget' <= available' /\ (available' - diffBudget') * 100 <= available' * CONTEXT_SHARE
    BY DEF DiffInv
<1>12. ~(taken' > 0) /\ taken' \in Nat /\ Len(shown') <= Len(parts')
    BY <1>1, <1>2, <1>4, <1>5
<1>13. \A k \in 1..Len(shown') : ShownAsTold(k)'
    BY <1>5, <1>8
<1>14. ~full' => \E c \in 1..Len(shown') :
                   /\ \A k \in 1..Len(shown') : k < c => shown'[k].hunks = Len(parts'[k].hunks)
                   /\ \A k \in 1..Len(shown') : c < k => shown'[k].hunks = 0
    BY <1>5, <1>9
<1> QED
    BY <1>5, <1>10, <1>11, <1>12, <1>13, <1>14 DEF DiffInv

\* What a step of the diff's loop leaves alone.
LEMMA DiffGoesOn ==
    ASSUME ReviewPlanInv, planPc = "diff", planPc' = "diff", UNCHANGED <<gatherVars, contextVars>>, DiffInv'
    PROVE  ReviewPlanInv'
<1>1. GatherInv'
    BY GatherInvStays DEF ReviewPlanInv
<1>2. inPrompt' = <<>> /\ looked' = 0
    BY DEF ReviewPlanInv, contextVars
<1> QED
    BY <1>1, <1>2 DEF ReviewPlanInv, PlanPcs

LEMMA ShowsHeadingIsWhole == ReviewPlanInv /\ ShowsHeading => ReviewPlanInv'
<1> SUFFICES ASSUME ReviewPlanInv, ShowsHeading PROVE ReviewPlanInv'
    OBVIOUS
<1>1. /\ planPc = "diff" /\ planPc' = "diff" /\ UNCHANGED <<gatherVars, contextVars>>
      /\ Len(shown) < Len(parts) /\ ~Part.text /\ DiffInv
      /\ parts' = parts /\ available' = available /\ diffBudget' = diffBudget /\ full' = full
      /\ \/ Shows("heading") /\ used' = used + Part.cost /\ used + Part.cost <= diffBudget
         \/ Shows("skipped") /\ used' = used
    BY DEF ReviewPlanInv, ShowsHeading, InDiff
<1>2. /\ taken = 0 /\ Len(Part.hunks) = 0 /\ Part.cost \in Nat
    <2>1. Len(parts) \in Nat /\ Len(shown) + 1 \in 1..Len(parts)
        BY <1>1, PartsAreFiles DEF DiffInv
    <2>2. /\ Part.cost \in Nat /\ Len(Part.hunks) \in Nat /\ ~(Len(Part.hunks) > 0)
        BY <1>1, <2>1, PartsAreFiles DEF DiffInv, Part
    <2> QED
        BY <1>1, <2>2 DEF DiffInv
<1>3. /\ used \in Nat /\ used <= diffBudget /\ full \in BOOLEAN /\ diffBudget \in Int
    BY <1>1 DEF DiffInv
<1>4. used' \in Nat /\ used' <= diffBudget
    BY <1>1, <1>2, <1>3
<1>5. PICK state \in {"heading", "skipped"} : Shows(state)
    BY <1>1
<1>6. DiffInv'
    BY <1>1, <1>2, <1>3, <1>4, <1>5, OneMoreIsShown
<1> QED
    BY <1>1, <1>6, DiffGoesOn

LEMMA LeavesHunkIsWhole == ReviewPlanInv /\ (LeavesHunk \/ FileIsDone) => ReviewPlanInv'
<1> SUFFICES ASSUME ReviewPlanInv, LeavesHunk \/ FileIsDone PROVE ReviewPlanInv'
    OBVIOUS
<1>1. /\ planPc = "diff" /\ planPc' = "diff" /\ UNCHANGED <<gatherVars, contextVars>>
      /\ Len(shown) < Len(parts) /\ DiffInv
      /\ parts' = parts /\ available' = available /\ diffBudget' = diffBudget /\ used' = used
      /\ Shows(TextState)
      /\ \/ full' = FALSE
         \/ full' = full /\ (~full \/ taken = Len(Part.hunks))
    BY DEF ReviewPlanInv, LeavesHunk, FileIsDone, InDiff
<1>2. TextState \in {"full", "partial", "skipped", "heading"}
    BY DEF TextState
<1>3. used \in Nat /\ used <= diffBudget /\ full \in BOOLEAN
    BY <1>1 DEF DiffInv
<1>5. full' \in BOOLEAN /\ (full' => full /\ taken = Len(Part.hunks))
    <2>1. CASE full' = FALSE
        BY <2>1, Zenon
    <2>2. CASE full' = full /\ (~full \/ taken = Len(Part.hunks))
        BY <1>3, <2>2, Zenon
    <2> QED
        BY <1>1, <2>1, <2>2
<1>6. used' \in Nat /\ used' <= diffBudget
    BY <1>1, <1>3
<1>4. DiffInv'
    <2>1. /\ Shows(TextState) /\ (Part.text => TextState = TextState)
          /\ Len(shown) < Len(parts) /\ DiffInv
          /\ parts' = parts /\ available' = available /\ diffBudget' = diffBudget
        BY <1>1
    <2>2. PICK state \in {"full", "partial", "skipped", "heading"} : state = TextState
        BY <1>2
    <2> QED
        BY <1>5, <1>6, <2>1, <2>2, OneMoreIsShown
<1> QED
    BY <1>1, <1>4, DiffGoesOn

LEMMA TakesHunkIsWhole == ReviewPlanInv /\ TakesHunk => ReviewPlanInv'
<1> SUFFICES ASSUME ReviewPlanInv, TakesHunk PROVE ReviewPlanInv'
    OBVIOUS
<1>1. /\ planPc = "diff" /\ planPc' = "diff" /\ UNCHANGED <<gatherVars, contextVars>>
      /\ Len(shown) < Len(parts) /\ DiffInv /\ full /\ taken < Len(Part.hunks)
      /\ used + NextHunk <= diffBudget /\ taken' = taken + 1 /\ used' = used + NextHunk
      /\ parts' = parts /\ available' = available /\ diffBudget' = diffBudget
      /\ shown' = shown /\ full' = full
    BY DEF ReviewPlanInv, TakesHunk, InDiff
<1>2. Len(parts) \in Nat /\ Len(shown) + 1 \in 1..Len(parts) /\ taken \in Nat /\ used \in Nat
    BY <1>1, PartsAreFiles DEF DiffInv
<1>3. Part.hunks \in Seq(Nat) /\ Len(Part.hunks) \in Nat
    BY <1>1, <1>2, PartsAreFiles DEF DiffInv, Part
<1>4. taken + 1 \in 1..Len(Part.hunks)
    BY <1>1, <1>2, <1>3
<1>5. NextHunk \in Nat
    BY <1>3, <1>4 DEF NextHunk
<1>6. Part' = Part /\ \A k \in 1..Len(shown) : ShownAsTold(k)' <=> ShownAsTold(k)
    BY <1>1 DEF Part, ShownAsTold
<1>7. /\ used' \in Nat /\ used' <= diffBudget' /\ taken' \in Nat /\ taken' <= Len(Part'.hunks)
    BY <1>1, <1>2, <1>4, <1>5, <1>6
<1>8. DiffInv'
    BY <1>1, <1>6, <1>7 DEF DiffInv
<1> QED
    BY <1>1, <1>8, DiffGoesOn

LEMMA DiffIsDoneIsWhole == ReviewPlanInv /\ DiffIsDone => ReviewPlanInv'
<1> SUFFICES ASSUME ReviewPlanInv, DiffIsDone PROVE ReviewPlanInv'
    OBVIOUS
<1>1. /\ planPc = "diff" /\ UNCHANGED <<gatherVars, diffVars>> /\ Len(shown) = Len(parts)
      /\ inPrompt' = inPrompt /\ looked' = looked /\ DiffInv /\ inPrompt = <<>> /\ looked = 0
      /\ \/ room' = available - used /\ planPc' = "context"
         \/ planPc' = "too large"
    BY DEF ReviewPlanInv, DiffIsDone
<1>2. GatherInv'
    BY <1>1, GatherInvStays DEF ReviewPlanInv
<1>3. CASE planPc' = "too large"
    BY <1>2, <1>3 DEF ReviewPlanInv, PlanPcs
<1>4. CASE room' = available - used /\ planPc' = "context"
    <2>1. DiffInv'
        <3>1. /\ parts' = parts /\ available' = available /\ diffBudget' = diffBudget /\ used' = used
              /\ shown' = shown /\ full' = full /\ taken' = taken
            BY <1>1 DEF diffVars
        <3>2. Part' = Part /\ \A k \in 1..Len(shown) : ShownAsTold(k)' <=> ShownAsTold(k)
            BY <3>1 DEF Part, ShownAsTold
        <3> QED
            BY <1>1, <3>1, <3>2 DEF DiffInv
    <2>2. ContextInv'
        <3>1. /\ inPrompt' = <<>> /\ looked' = 0 /\ context' = context
              /\ used' = used /\ available' = available /\ shown' = shown /\ parts' = parts
            BY <1>1 DEF gatherVars, diffVars
        <3>2. Sum(Costs(inPrompt')) = 0
            <4>1. Costs(inPrompt') = [k \in 1..0 |-> CostOf(inPrompt'[k]) + 2]
                BY <3>1 DEF Costs
            <4>2. Costs(inPrompt') \in Seq(Nat) /\ Len(Costs(inPrompt')) = 0
                BY <4>1
            <4> QED
                BY <4>2, SumOfNone
        <3>3. /\ used \in Nat /\ available \in Int /\ diffBudget \in Int
              /\ used <= diffBudget /\ diffBudget <= available
            BY <1>1 DEF DiffInv
        <3>4. room' \in Nat /\ used + 0 + room' = available
            BY <1>4, <3>3
        <3>5. Len(context') \in Nat
            BY <1>2 DEF GatherInv
        <3>6. Costs(inPrompt)' = Costs(inPrompt')
            BY DEF Costs
        <3>7. Len(shown') = Len(parts') /\ inPrompt' \in Seq(Chunks) /\ looked' \in 0..Len(context')
            <4>1. Len(shown') = Len(parts')
                BY <1>1, <3>1
            <4>2. inPrompt' \in Seq(Chunks)
                <5>1. <<>> \in Seq(Chunks)
                    OBVIOUS
                <5> QED
                    BY <3>1, <5>1
            <4>3. looked' \in 0..Len(context')
                BY <3>1, <3>5
            <4> QED
                BY <4>1, <4>2, <4>3
        <3>8. used' + Sum(Costs(inPrompt)') + room' = available'
            BY <3>1, <3>2, <3>4, <3>6
        <3> QED
            BY <3>4, <3>7, <3>8 DEF ContextInv
    <2> QED
        BY <1>2, <1>4, <2>1, <2>2 DEF ReviewPlanInv, PlanPcs
<1> QED
    BY <1>1, <1>3, <1>4

\* A step of the context's loop leaves the diff alone.
LEMMA DiffInvStays ==
    ASSUME DiffInv, UNCHANGED diffVars PROVE DiffInv'
<1>1. /\ parts' = parts /\ available' = available /\ diffBudget' = diffBudget /\ used' = used
      /\ shown' = shown /\ full' = full /\ taken' = taken
    BY DEF diffVars
<1>2. Part' = Part /\ \A k \in 1..Len(shown) : ShownAsTold(k)' <=> ShownAsTold(k)
    BY <1>1 DEF Part, ShownAsTold
<1> QED
    BY <1>1, <1>2 DEF DiffInv

\* The costs of chunks are numbers.
LEMMA CostsAreNumbers ==
    ASSUME NEW chunks \in Seq(Chunks)
    PROVE  /\ Costs(chunks) \in Seq(Nat) /\ Len(Costs(chunks)) = Len(chunks)
           /\ \A k \in 1..Len(chunks) : Costs(chunks)[k] = CostOf(chunks[k]) + 2
<1>1. Len(chunks) \in Nat /\ \A k \in 1..Len(chunks) : chunks[k] \in Chunks
    OBVIOUS
<1>2. \A k \in 1..Len(chunks) : CostOf(chunks[k]) \in Nat
    BY <1>1, ReviewPlanAssumption
<1>3. \A k \in 1..Len(chunks) : CostOf(chunks[k]) + 2 \in Nat
    BY <1>2
<1> QED
    BY <1>1, <1>3 DEF Costs

LEMMA AddsBlockIsWhole == ReviewPlanInv /\ AddsBlock => ReviewPlanInv'
<1> SUFFICES ASSUME ReviewPlanInv, AddsBlock PROVE ReviewPlanInv'
    OBVIOUS
<1>1. /\ planPc = "context" /\ planPc' = "context" /\ looked < Len(context)
      /\ BlockCost <= room /\ inPrompt' = Append(inPrompt, context[looked + 1])
      /\ room' = room - BlockCost /\ looked' = looked + 1
      /\ UNCHANGED gatherVars /\ UNCHANGED diffVars
      /\ GatherInv /\ DiffInv /\ ContextInv
    BY DEF ReviewPlanInv, AddsBlock, InContext
<1>2. GatherInv' /\ DiffInv'
    BY <1>1, GatherInvStays, DiffInvStays
<1>3. context' = context /\ used' = used /\ available' = available /\ shown' = shown /\ parts' = parts
    BY <1>1 DEF gatherVars, diffVars
<1>4. /\ context \in Seq(Chunks) /\ inPrompt \in Seq(Chunks) /\ Len(context) \in Nat
      /\ looked \in Nat /\ looked + 1 \in 1..Len(context) /\ room \in Nat
      /\ Len(shown) = Len(parts) /\ used + Sum(Costs(inPrompt)) + room = available
    BY <1>1 DEF GatherInv, ContextInv
<1>5. PICK chunk \in Chunks : chunk = context[looked + 1]
    BY <1>4
<1>6. BlockCost = CostOf(chunk) + 2 /\ CostOf(chunk) \in Nat
    BY <1>5, ReviewPlanAssumption DEF BlockCost
<1>7. /\ inPrompt' \in Seq(Chunks) /\ Len(inPrompt') = Len(inPrompt) + 1
      /\ \A k \in 1..Len(inPrompt) : inPrompt'[k] = inPrompt[k]
      /\ inPrompt'[Len(inPrompt) + 1] = chunk /\ Len(inPrompt) \in Nat
    BY <1>1, <1>4, <1>5
<1>8. /\ Sum(Costs(inPrompt)) \in Nat
      /\ Sum(Costs(inPrompt')) = Sum(Costs(inPrompt)) + (CostOf(chunk) + 2)
    <2>1. /\ Costs(inPrompt) \in Seq(Nat) /\ Len(Costs(inPrompt)) = Len(inPrompt)
          /\ \A k \in 1..Len(inPrompt) : Costs(inPrompt)[k] = CostOf(inPrompt[k]) + 2
        BY <1>4, CostsAreNumbers
    <2>2. /\ Costs(inPrompt') \in Seq(Nat) /\ Len(Costs(inPrompt')) = Len(inPrompt')
          /\ \A k \in 1..Len(inPrompt') : Costs(inPrompt')[k] = CostOf(inPrompt'[k]) + 2
        BY <1>7, CostsAreNumbers
    <2>3. ASSUME NEW k \in 1..Len(inPrompt) PROVE Costs(inPrompt')[k] = Costs(inPrompt)[k]
        <3>1. k \in 1..Len(inPrompt')
            BY <1>7
        <3> QED
            BY <1>7, <2>1, <2>2, <3>1
    <2>4. Costs(inPrompt')[Len(inPrompt')] = CostOf(chunk) + 2
        <3>1. Len(inPrompt') \in 1..Len(inPrompt')
            BY <1>7
        <3> QED
            BY <1>7, <2>2, <3>1
    <2>5. /\ Sum(Costs(inPrompt)) \in Nat
          /\ Sum(Costs(inPrompt')) = Sum(Costs(inPrompt)) + Costs(inPrompt')[Len(Costs(inPrompt'))]
        <3>1. Len(Costs(inPrompt')) = Len(Costs(inPrompt)) + 1
            BY <1>7, <2>1, <2>2
        <3> QED
            BY <2>1, <2>2, <2>3, <3>1, SumOfMore
    <2> QED
        BY <2>2, <2>4, <2>5
<1>9. room' \in Nat /\ looked' \in 0..Len(context')
    <2>1. room' = room - (CostOf(chunk) + 2) /\ CostOf(chunk) + 2 <= room
        BY <1>1, <1>6
    <2> QED
        BY <1>1, <1>3, <1>4, <1>6, <2>1
<1>10. used' + Sum(Costs(inPrompt')) + room' = available'
    <2>1. room' = room - (CostOf(chunk) + 2) /\ used \in Nat /\ available \in Int
        BY <1>1, <1>6 DEF DiffInv
    <2>2. PICK sum \in Nat, cost \in Nat : /\ sum = Sum(Costs(inPrompt)) /\ cost = CostOf(chunk) + 2
                                          /\ Sum(Costs(inPrompt')) = sum + cost
        <3>1. CostOf(chunk) + 2 \in Nat
            BY <1>6
        <3> QED
            BY <1>8, <3>1
    <2>3. used + sum + room = available /\ room' = room - cost /\ room \in Nat
        BY <1>4, <2>1, <2>2
    <2>4. used + (sum + cost) + (room - cost) = available
        BY <2>1, <2>2, <2>3
    <2> QED
        BY <1>3, <2>2, <2>3, <2>4
<1>11. ContextInv'
    <2>1. Sum(Costs(inPrompt))' = Sum(Costs(inPrompt'))
        BY DEF Sum, Costs
    <2>2. Len(shown') = Len(parts')
        BY <1>3, <1>4
    <2> QED
        BY <1>7, <1>9, <1>10, <2>1, <2>2 DEF ContextInv
<1> QED
    BY <1>1, <1>2, <1>11 DEF ReviewPlanInv, PlanPcs

LEMMA PassesBlockIsWhole == ReviewPlanInv /\ PassesBlock => ReviewPlanInv'
<1> SUFFICES ASSUME ReviewPlanInv, PassesBlock PROVE ReviewPlanInv'
    OBVIOUS
<1>1. /\ planPc = "context" /\ planPc' = "context" /\ looked < Len(context)
      /\ inPrompt' = inPrompt /\ room' = room /\ looked' = looked + 1
      /\ UNCHANGED gatherVars /\ UNCHANGED diffVars
      /\ GatherInv /\ DiffInv /\ ContextInv
    BY DEF ReviewPlanInv, PassesBlock, InContext
<1>2. GatherInv' /\ DiffInv'
    BY <1>1, GatherInvStays, DiffInvStays
<1>3. context' = context /\ used' = used /\ available' = available /\ shown' = shown /\ parts' = parts
    BY <1>1 DEF gatherVars, diffVars
<1>4. looked' \in 0..Len(context')
    <2>1. looked \in 0..Len(context) /\ Len(context) \in Nat
        BY <1>1 DEF GatherInv, ContextInv
    <2> QED
        BY <1>1, <1>3, <2>1
<1>5. Sum(Costs(inPrompt))' = Sum(Costs(inPrompt))
    BY <1>1 DEF Sum, Costs
<1>6. ContextInv'
    BY <1>1, <1>3, <1>4, <1>5 DEF ContextInv
<1> QED
    BY <1>1, <1>2, <1>6 DEF ReviewPlanInv, PlanPcs

\* What leaves the context's loop alone.
LEMMA ContextInvStays ==
    ASSUME ContextInv, UNCHANGED <<gatherVars, diffVars, contextVars>> PROVE ContextInv'
<1>1. /\ context' = context /\ used' = used /\ available' = available /\ shown' = shown
      /\ parts' = parts /\ inPrompt' = inPrompt /\ room' = room /\ looked' = looked
    BY DEF gatherVars, diffVars, contextVars
<1>2. Sum(Costs(inPrompt))' = Sum(Costs(inPrompt))
    BY <1>1 DEF Sum, Costs
<1> QED
    BY <1>1, <1>2 DEF ContextInv

LEMMA PromptIsPlannedIsWhole == ReviewPlanInv /\ PromptIsPlanned => ReviewPlanInv'
<1> SUFFICES ASSUME ReviewPlanInv, PromptIsPlanned PROVE ReviewPlanInv'
    OBVIOUS
<1>1. /\ planPc' = "planned" /\ UNCHANGED <<gatherVars, diffVars, contextVars>>
      /\ GatherInv /\ DiffInv /\ ContextInv
    BY DEF ReviewPlanInv, PromptIsPlanned
<1> QED
    BY <1>1, GatherInvStays, DiffInvStays, ContextInvStays DEF ReviewPlanInv, PlanPcs

LEMMA NoPlanStep == ReviewPlanInv /\ UNCHANGED reviewPlanVars => ReviewPlanInv'
<1> SUFFICES ASSUME ReviewPlanInv, UNCHANGED reviewPlanVars PROVE ReviewPlanInv'
    OBVIOUS
<1>1. planPc' = planPc /\ UNCHANGED gatherVars /\ UNCHANGED diffVars /\ UNCHANGED contextVars
    BY DEF reviewPlanVars
<1>2. GatherInv'
    BY <1>1, GatherInvStays DEF ReviewPlanInv
<1>3. NothingPlanned => NothingPlanned'
    BY <1>1, NothingPlannedStays
<1>4. DiffInv => DiffInv'
    BY <1>1, DiffInvStays
<1>5. ContextInv => ContextInv'
    BY <1>1, ContextInvStays
<1>6. inPrompt' = inPrompt /\ looked' = looked
    BY <1>1 DEF contextVars
<1> QED
    BY <1>1, <1>2, <1>3, <1>4, <1>5, <1>6 DEF ReviewPlanInv

LEMMA ReviewPlanAlways == ReviewPlanSpec => []ReviewPlanInv
<1>1. ReviewPlanInit => ReviewPlanInv
    BY PlanBeginsWhole
<1>2. ReviewPlanInv /\ [ReviewPlanNext]_reviewPlanVars => ReviewPlanInv'
    BY FindsAnchorsIsWhole, SearchesIsWhole, RanksIsWhole, PlansIsWhole, ShowsHeadingIsWhole,
       TakesHunkIsWhole, LeavesHunkIsWhole, DiffIsDoneIsWhole, AddsBlockIsWhole,
       PassesBlockIsWhole, PromptIsPlannedIsWhole, NoPlanStep
       DEF ReviewPlanNext
<1> QED
    BY <1>1, <1>2, PTL DEF ReviewPlanSpec

-----------------------------------------------------------------------------
\* With the loop over the files behind, the hunks shown are the first ones.
LEMMA ShownAreTheFirst ==
    ASSUME DiffInv, Len(shown) = Len(parts), NEW f \in 1..Len(parts), NEW g \in 1..Len(parts),
           NEW h \in 1..Len(parts[f].hunks), NEW i \in 1..Len(parts[g].hunks),
           Before(<<f, h>>, <<g, i>>), InThePrompt(<<g, i>>)
    PROVE  InThePrompt(<<f, h>>)
<1>1. /\ (f < g \/ (f = g /\ h < i)) /\ i <= shown[g].hunks
      /\ f \in Nat /\ g \in Nat /\ h \in Nat /\ i \in Nat
    BY DEF Before, InThePrompt
<1>2. i <= shown[g].hunks
    BY DEF InThePrompt
<1>3. /\ shown[f].hunks \in 0..Len(parts[f].hunks) /\ shown[g].hunks \in 0..Len(parts[g].hunks)
      /\ Len(parts[f].hunks) \in Nat /\ Len(parts[g].hunks) \in Nat
      /\ full => shown[f].hunks = Len(parts[f].hunks)
    <2>1. ShownAsTold(f) /\ ShownAsTold(g)
        BY DEF DiffInv
    <2>2. Len(parts[f].hunks) \in Nat /\ Len(parts[g].hunks) \in Nat
        BY PartsAreFiles DEF DiffInv
    <2> QED
        BY <2>1, <2>2 DEF ShownAsTold
<1>4. h <= Len(parts[f].hunks)
    BY <1>3
<1>5. h <= shown[f].hunks
    <2>1. CASE f = g /\ h < i
        BY <1>1, <1>2, <1>3, <2>1
    <2>2. CASE full
        BY <1>3, <1>4, <2>2
    <2>3. CASE f < g /\ ~full
        <3>1. PICK c \in 1..Len(shown) :
                /\ \A k \in 1..Len(shown) : k < c => shown[k].hunks = Len(parts[k].hunks)
                /\ \A k \in 1..Len(shown) : c < k => shown[k].hunks = 0
            BY <2>3 DEF DiffInv
        <3>2. shown[g].hunks # 0
            BY <1>1, <1>2, <1>3
        <3>3. ~(c < g) /\ c \in Nat
            BY <3>1, <3>2
        <3>4. f < c
            BY <1>1, <2>3, <3>3
        <3>5. shown[f].hunks = Len(parts[f].hunks)
            BY <3>1, <3>4
        <3> QED
            BY <1>4, <3>5
    <2> QED
        BY <1>1, <2>1, <2>2, <2>3
<1> QED
    BY <1>5 DEF InThePrompt

\* A place in the diff is a file and one of its hunks.
LEMMA PlacesOfHunks ==
    ASSUME NEW a \in HunksIn
    PROVE  \E f \in 1..Len(parts) : \E h \in 1..Len(parts[f].hunks) : a = <<f, h>>
    BY DEF HunksIn

LEMMA NothingIsDropped == ReviewPlanInv => NothingDroppedSilently
<1> SUFFICES ASSUME ReviewPlanInv, planPc \in {"context", "planned"}
             PROVE  /\ \A a, b \in HunksIn : Before(a, b) /\ InThePrompt(b) => InThePrompt(a)
                    /\ \A a \in HunksIn : ~InThePrompt(a) => shown[a[1]].state \in {"partial", "skipped"}
                    /\ \A k \in 1..Len(parts) :
                         parts[k].text => (shown[k].state = "full" <=> \A h \in 1..Len(parts[k].hunks) :
                                                                      InThePrompt(<<k, h>>))
    BY DEF NothingDroppedSilently
<1>1. DiffInv /\ Len(shown) = Len(parts)
    BY DEF ReviewPlanInv, ContextInv
<1>2. ASSUME NEW a \in HunksIn, NEW b \in HunksIn, Before(a, b), InThePrompt(b) PROVE InThePrompt(a)
    <2>1. PICK f \in 1..Len(parts) : \E h \in 1..Len(parts[f].hunks) : a = <<f, h>>
        BY PlacesOfHunks
    <2>2. PICK h \in 1..Len(parts[f].hunks) : a = <<f, h>>
        BY <2>1
    <2>3. PICK g \in 1..Len(parts) : \E i \in 1..Len(parts[g].hunks) : b = <<g, i>>
        BY PlacesOfHunks
    <2>4. PICK i \in 1..Len(parts[g].hunks) : b = <<g, i>>
        BY <2>3
    <2> QED
        BY <1>1, <1>2, <2>2, <2>4, ShownAreTheFirst
<1>3. ASSUME NEW k \in 1..Len(parts)
      PROVE  /\ shown[k].hunks \in 0..Len(parts[k].hunks) /\ Len(parts[k].hunks) \in Nat
             /\ parts[k].text <=> Len(parts[k].hunks) > 0
             /\ parts[k].text =>
                  shown[k].state = CASE shown[k].hunks = 0 -> "skipped"
                                     [] shown[k].hunks = Len(parts[k].hunks) -> "full"
                                     [] OTHER -> "partial"
    <2>1. ShownAsTold(k)
        BY <1>1 DEF DiffInv
    <2>2. Len(parts[k].hunks) \in Nat /\ (parts[k].text <=> Len(parts[k].hunks) > 0)
        BY <1>1, PartsAreFiles DEF DiffInv
    <2> QED
        BY <2>1, <2>2 DEF ShownAsTold
<1>4. ASSUME NEW a \in HunksIn, ~InThePrompt(a) PROVE shown[a[1]].state \in {"partial", "skipped"}
    <2>1. PICK f \in 1..Len(parts) : \E h \in 1..Len(parts[f].hunks) : a = <<f, h>>
        BY PlacesOfHunks
    <2>2. PICK h \in 1..Len(parts[f].hunks) : a = <<f, h>>
        BY <2>1
    <2>3. /\ shown[f].hunks \in 0..Len(parts[f].hunks) /\ Len(parts[f].hunks) \in Nat
          /\ parts[f].text <=> Len(parts[f].hunks) > 0
          /\ parts[f].text =>
               shown[f].state = CASE shown[f].hunks = 0 -> "skipped"
                                  [] shown[f].hunks = Len(parts[f].hunks) -> "full"
                                  [] OTHER -> "partial"
        BY <1>3
    <2>4. a[1] = f /\ ~(h <= shown[f].hunks)
        BY <1>4, <2>2 DEF InThePrompt
    <2>5. parts[f].text /\ shown[f].hunks # Len(parts[f].hunks)
        BY <2>3, <2>4
    <2> QED
        BY <2>3, <2>4, <2>5
<1>5. ASSUME NEW k \in 1..Len(parts), parts[k].text
      PROVE  shown[k].state = "full" <=> \A h \in 1..Len(parts[k].hunks) : InThePrompt(<<k, h>>)
    <2>1. /\ shown[k].hunks \in 0..Len(parts[k].hunks) /\ Len(parts[k].hunks) \in Nat
          /\ Len(parts[k].hunks) > 0
          /\ shown[k].state = CASE shown[k].hunks = 0 -> "skipped"
                                [] shown[k].hunks = Len(parts[k].hunks) -> "full"
                                [] OTHER -> "partial"
        BY <1>3, <1>5
    <2>2. shown[k].state = "full" <=> shown[k].hunks = Len(parts[k].hunks)
        BY <2>1
    <2>3. \A h \in 1..Len(parts[k].hunks) : InThePrompt(<<k, h>>) <=> h <= shown[k].hunks
        BY DEF InThePrompt
    <2>4. ASSUME shown[k].hunks = Len(parts[k].hunks), NEW h \in 1..Len(parts[k].hunks)
          PROVE  h <= shown[k].hunks
        BY <2>1, <2>4
    <2>5. ASSUME \A h \in 1..Len(parts[k].hunks) : h <= shown[k].hunks
          PROVE  shown[k].hunks = Len(parts[k].hunks)
        <3>1. Len(parts[k].hunks) \in 1..Len(parts[k].hunks)
            BY <2>1
        <3> QED
            BY <2>1, <2>5, <3>1
    <2> QED
        BY <2>2, <2>3, <2>4, <2>5
<1> QED
    BY <1>2, <1>4, <1>5

LEMMA ThePromptFits == ReviewPlanInv => WithinAvailable
<1> SUFFICES ASSUME ReviewPlanInv, planPc = "planned" PROVE used + Sum(Costs(inPrompt)) <= available
    BY DEF WithinAvailable, Costs
<1>1. DiffInv /\ inPrompt \in Seq(Chunks) /\ room \in Nat /\ used + Sum(Costs(inPrompt)) + room = available
    BY DEF ReviewPlanInv, ContextInv
<1>2. used \in Nat /\ available \in Int
    BY <1>1 DEF DiffInv
<1>3. PICK sum \in Nat : sum = Sum(Costs(inPrompt))
    <2>1. Costs(inPrompt) \in Seq(Nat)
        BY <1>1, CostsAreNumbers
    <2>2. PICK g : g \in [0..Len(Costs(inPrompt)) -> Nat] /\ Sum(Costs(inPrompt)) = g[Len(Costs(inPrompt))]
        BY <2>1, SumRuns
    <2>3. Len(Costs(inPrompt)) \in 0..Len(Costs(inPrompt))
        BY <2>1
    <2> QED
        BY <2>2, <2>3
<1> QED
    BY <1>1, <1>2, <1>3

LEMMA TheDiffComesFirst ==
    ReviewPlanInv /\ LeavesHunk => (used + NextHunk) * 100 > available * (100 - CONTEXT_SHARE)
<1> SUFFICES ASSUME ReviewPlanInv, LeavesHunk
             PROVE  (used + NextHunk) * 100 > available * (100 - CONTEXT_SHARE)
    OBVIOUS
<1>1. /\ DiffInv /\ Len(shown) < Len(parts) /\ taken < Len(Part.hunks)
      /\ used + NextHunk > diffBudget
    BY DEF ReviewPlanInv, LeavesHunk, InDiff
<1>2. Len(parts) \in Nat /\ Len(shown) + 1 \in 1..Len(parts) /\ taken \in Nat
    BY <1>1, PartsAreFiles DEF DiffInv
<1>3. Part.hunks \in Seq(Nat) /\ Len(Part.hunks) \in Nat
    BY <1>1, <1>2, PartsAreFiles DEF DiffInv, Part
<1>4. taken + 1 \in 1..Len(Part.hunks)
    BY <1>1, <1>2, <1>3
<1>5. NextHunk \in Nat
    BY <1>3, <1>4 DEF NextHunk
<1>6. /\ available \in Int /\ diffBudget \in Int /\ used \in Nat /\ CONTEXT_SHARE \in Int
      /\ (available - diffBudget) * 100 <= available * CONTEXT_SHARE
    BY <1>1, ReviewPlanAssumption DEF DiffInv
<1>7. PICK product \in Int : /\ product = available * CONTEXT_SHARE
                             /\ available * (100 - CONTEXT_SHARE) = available * 100 - product
    BY <1>6
<1>8. (available - diffBudget) * 100 <= product
    BY <1>6, <1>7
<1>9. available * 100 - product < (used + NextHunk) * 100
    BY <1>1, <1>5, <1>6, <1>8
<1> QED
    BY <1>5, <1>6, <1>7, <1>9

\* A sequence without repetition has as many members as places.
LEMMA AsManyAsPlaces ==
    ASSUME NEW S, NEW seq \in Seq(S), \A i, j \in 1..Len(seq) : seq[i] = seq[j] => i = j
    PROVE  Cardinality(Listed(seq)) = Len(seq)
<1> DEFINE n == Len(seq)
           at == [i \in 1..n |-> seq[i]]
<1>1. n \in Nat /\ IsFiniteSet(1..n) /\ Cardinality(1..n) = n
    <2>1. n \in Int /\ 1 \in Int /\ n \in Nat /\ n - 1 + 1 = n /\ (1 > n => n = 0)
        OBVIOUS
    <2> QED
        BY <2>1, FS_Interval
<1>2. at \in [1..n -> Listed(seq)] /\ (\A x \in Listed(seq) : \E i \in 1..n : at[i] = x)
      /\ \A i, j \in 1..n : at[i] = at[j] => i = j
    BY DEF Listed
<1> HIDE DEF at
<1>3. at \in Surjection(1..n, Listed(seq)) /\ at \in Injection(1..n, Listed(seq))
    BY <1>2 DEF Surjection, Injection, IsInjective
<1> HIDE DEF n
<1>4. Cardinality(Listed(seq)) = Cardinality(1..n)
    BY <1>1, <1>3, FS_Surjection
<1> QED
    BY <1>1, <1>4 DEF n

LEMMA TheContextIsTheBest ==
    ReviewPlanInv /\ Ranks =>
        /\ First(context', Len(anchors)) = First(anchors, CONTEXT_CHUNKS)
        /\ Cardinality(Listed(context')) = Len(context')
        /\ \A c \in Listed(context') \ Listed(anchors), d \in DOMAIN best \ Listed(context') :
             d \notin Listed(anchors) => best[c] >= best[d]
<1> DEFINE sorted == Sorted(Similar)
           both == anchors \o sorted
           a == Len(anchors)
           s == Len(sorted)
           n == Len(context')
<1> SUFFICES ASSUME ReviewPlanInv, Ranks
             PROVE  /\ First(context', Len(anchors)) = First(anchors, CONTEXT_CHUNKS)
                    /\ Cardinality(Listed(context')) = Len(context')
                    /\ \A c \in Listed(context') \ Listed(anchors), d \in DOMAIN best \ Listed(context') :
                         d \notin Listed(anchors) => best[c] >= best[d]
    OBVIOUS
<1>1. /\ context' = First(both, CONTEXT_CHUNKS) /\ anchors \in Seq(Chunks)
      /\ \A i, j \in 1..a : anchors[i] = anchors[j] => i = j
    BY DEF ReviewPlanInv, GatherInv, Ranks
<1>2. /\ sorted \in Seq(Similar) /\ Listed(sorted) = Similar /\ Similar \subseteq Chunks
      /\ \A i, j \in 1..s : sorted[i] = sorted[j] => i = j
      /\ \A i, j \in 1..s : i < j => best[sorted[i]] >= best[sorted[j]]
      /\ \A c \in Similar : best[c] \in Int
    <2>1. GatherInv
        BY DEF ReviewPlanInv
    <2>2. IsFiniteSet(Similar) /\ Similar \subseteq Chunks /\ Similar \subseteq Nat
          /\ \A c \in Similar : best[c] \in Int
        BY <2>1, SimilarIsFinite
    <2> QED
        BY <2>2, SortedIsSorted
<1> HIDE DEF sorted
<1>3. sorted \in Seq(Chunks)
    BY <1>2, SeqMonotonic
<1>4. /\ both \in Seq(Chunks) /\ Len(both) = a + s /\ a \in Nat /\ s \in Nat
      /\ \A i \in 1..a : both[i] = anchors[i]
      /\ \A i \in (a + 1)..(a + s) : both[i] = sorted[i - a]
    <2>1. /\ a \in Nat /\ s \in Nat /\ both \in Seq(Chunks) /\ Len(both) = a + s
        BY <1>1, <1>3
    <2>2. \A i \in 1..(a + s) : both[i] = IF i <= a THEN anchors[i] ELSE sorted[i - a]
        BY <1>1, <1>3, ConcatProperties
    <2>3. ASSUME NEW i \in 1..a PROVE both[i] = anchors[i]
        <3>1. i \in 1..(a + s) /\ i <= a
            BY <2>1
        <3> QED
            BY <2>2, <3>1
    <2>4. ASSUME NEW i \in (a + 1)..(a + s) PROVE both[i] = sorted[i - a]
        <3>1. i \in 1..(a + s) /\ ~(i <= a)
            BY <2>1
        <3> QED
            BY <2>2, <3>1
    <2> QED
        BY <2>1, <2>3, <2>4
<1> HIDE DEF both
<1>5. CONTEXT_CHUNKS \in Nat
    BY ReviewPlanAssumption
<1>6. /\ context' \in Seq(Chunks) /\ n = IF a + s < CONTEXT_CHUNKS THEN a + s ELSE CONTEXT_CHUNKS
      /\ \A i \in 1..n : context'[i] = both[i]
    BY <1>1, <1>4, <1>5, FirstIsFirst
<1>7. n \in Nat /\ n <= a + s /\ (n < a + s => n = CONTEXT_CHUNKS) /\ n <= CONTEXT_CHUNKS
    BY <1>4, <1>5, <1>6
<1>8. ASSUME NEW i \in 1..n
      PROVE  \/ i \in 1..a /\ context'[i] = anchors[i]
             \/ i - a \in 1..s /\ i > a /\ context'[i] = sorted[i - a]
    <2>1. i \in 1..a \/ i \in (a + 1)..(a + s)
        BY <1>4, <1>7
    <2>2. i \in (a + 1)..(a + s) => i - a \in 1..s /\ i > a
        BY <1>4
    <2> QED
        BY <1>4, <1>6, <2>1, <2>2
<1> HIDE DEF n
<1>9. First(context', a) = First(anchors, CONTEXT_CHUNKS)
    <2>1. /\ First(context', a) \in Seq(Chunks)
          /\ Len(First(context', a)) = IF n < a THEN n ELSE a
          /\ \A i \in 1..Len(First(context', a)) : First(context', a)[i] = context'[i]
        BY <1>4, <1>6, FirstIsFirst DEF n
    <2>2. /\ First(anchors, CONTEXT_CHUNKS) \in Seq(Chunks)
          /\ Len(First(anchors, CONTEXT_CHUNKS)) = IF a < CONTEXT_CHUNKS THEN a ELSE CONTEXT_CHUNKS
          /\ \A i \in 1..Len(First(anchors, CONTEXT_CHUNKS)) :
               First(anchors, CONTEXT_CHUNKS)[i] = anchors[i]
        BY <1>1, <1>5, FirstIsFirst
    <2> DEFINE m == IF n < a THEN n ELSE a
    <2>3. m = (IF a < CONTEXT_CHUNKS THEN a ELSE CONTEXT_CHUNKS) /\ m \in Nat /\ m <= n /\ m <= a
        BY <1>4, <1>5, <1>7
    <2> HIDE DEF m
    <2>4. ASSUME NEW i \in 1..m PROVE First(context', a)[i] = First(anchors, CONTEXT_CHUNKS)[i]
        <3>1. i \in 1..n /\ ~(i > a)
            BY <1>4, <1>7, <2>3
        <3>2. context'[i] = anchors[i]
            BY <1>8, <3>1
        <3> QED
            BY <2>1, <2>2, <2>3, <3>2 DEF m
    <2>5. Len(First(context', a)) = m /\ Len(First(anchors, CONTEXT_CHUNKS)) = m
        BY <2>1, <2>2, <2>3 DEF m
    <2> QED
        BY <2>1, <2>2, <2>4, <2>5, SeqEqual
<1>10. ASSUME NEW i \in 1..n, NEW j \in 1..n, context'[i] = context'[j] PROVE i = j
    <2>1. \A k \in 1..s : sorted[k] \notin Listed(anchors)
        <3>1. \A k \in 1..s : sorted[k] \in Similar
            BY <1>2
        <3> QED
            BY <3>1 DEF Similar
    <2>2. \A k \in 1..a : anchors[k] \in Listed(anchors)
        BY DEF Listed
    <2>3. CASE i \in 1..a /\ context'[i] = anchors[i]
        <3>1. ~(j - a \in 1..s /\ context'[j] = sorted[j - a])
            BY <1>10, <2>1, <2>2, <2>3
        <3> QED
            BY <1>1, <1>8, <1>10, <2>3, <3>1
    <2>4. CASE i - a \in 1..s /\ i > a /\ context'[i] = sorted[i - a]
        <3>1. ~(j \in 1..a /\ context'[j] = anchors[j])
            BY <1>10, <2>1, <2>2, <2>4
        <3>2. j - a \in 1..s /\ context'[j] = sorted[j - a]
            BY <1>8, <3>1
        <3>3. i - a = j - a
            BY <1>2, <1>10, <2>4, <3>2
        <3> QED
            BY <1>4, <1>7, <3>3
    <2> QED
        BY <1>8, <2>3, <2>4
<1>11. Cardinality(Listed(context')) = n
    BY <1>6, <1>10, AsManyAsPlaces DEF n
<1>12. ASSUME NEW c \in Listed(context') \ Listed(anchors), NEW d \in DOMAIN best \ Listed(context'),
              d \notin Listed(anchors)
       PROVE  best[c] >= best[d]
    <2>1. PICK i \in 1..n : c = context'[i]
        BY DEF Listed, n
    <2>2. ~(i \in 1..a /\ context'[i] = anchors[i])
        BY <2>1 DEF Listed
    <2>3. i - a \in 1..s /\ i > a /\ c = sorted[i - a]
        BY <1>8, <2>1, <2>2
    <2>4. d \in Listed(sorted)
        BY <1>2, <1>12 DEF Similar
    <2>5. PICK j \in 1..s : d = sorted[j]
        BY <2>4 DEF Listed
    <2>6. ~(j + a \in 1..n)
        <3>1. SUFFICES ASSUME j + a \in 1..n PROVE FALSE
            OBVIOUS
        <3>2. j + a \in (a + 1)..(a + s) /\ (j + a) - a = j
            BY <1>4
        <3>3. context'[j + a] = d
            BY <1>4, <1>6, <2>5, <3>1, <3>2 DEF n
        <3>4. d \in Listed(context')
            BY <3>1, <3>3 DEF Listed, n
        <3> QED
            BY <3>4
    <2>7. i - a < j
        BY <1>4, <1>7, <2>6
    <2> QED
        BY <1>2, <2>3, <2>5, <2>7
<1> QED
    BY <1>9, <1>11, <1>12 DEF n

(***************************************************************************)
(* The prompt of a review: within its budget, no hunk left out unsaid, and *)
(* of the two that share the budget the diff first, then the best of the   *)
(* context.                                                                *)
(***************************************************************************)
THEOREM ThePromptIsFair == ReviewPlanSpec => PromptIsFair
<1>1. ReviewPlanSpec => []ReviewPlanInv
    BY ReviewPlanAlways
<1>2. ReviewPlanInv => NothingDroppedSilently /\ WithinAvailable
    BY NothingIsDropped, ThePromptFits
<1>3. ReviewPlanInv => [Ranks =>
        /\ First(context', Len(anchors)) = First(anchors, CONTEXT_CHUNKS)
        /\ Cardinality(Listed(context')) = Len(context')
        /\ \A c \in Listed(context') \ Listed(anchors), d \in DOMAIN best \ Listed(context') :
             d \notin Listed(anchors) => best[c] >= best[d]]_reviewPlanVars
    BY TheContextIsTheBest
<1>4. ReviewPlanInv => [LeavesHunk =>
        (used + NextHunk) * 100 > available * (100 - CONTEXT_SHARE)]_reviewPlanVars
    BY TheDiffComesFirst
<1> QED
    BY <1>1, <1>2, <1>3, <1>4, PTL DEF PromptIsFair, ContextIsBest, DiffComesFirst

-----------------------------------------------------------------------------
(***************************************************************************)
(* parse_diff and read_files.  Whatever is left to read is the rest of     *)
(* what was written from some stage of it on - a section's beginning, its  *)
(* headings, a hunk, a line of a hunk - and the files read are what was    *)
(* written before that stage (Stages).  A line counted as a hunk's is one, *)
(* since the counts of its header are those of its lines; where they are   *)
(* more, the next line is a "diff --git" line, or there is none.           *)
(***************************************************************************)

(* Sequences put together.                                                 *)
After(seq, k) == SubSeq(seq, k + 1, Len(seq))

\* One text behind another.
Join(a, b) == a \o b
LEMMA JoinIsText ==
    ASSUME NEW S, NEW a \in Seq(S), NEW b \in Seq(S)
    PROVE  Join(a, b) \in Seq(S)
    BY ConcatProperties DEF Join
LEMMA JoinRegrouped ==
    ASSUME NEW S, NEW a \in Seq(S), NEW b \in Seq(S), NEW c \in Seq(S)
    PROVE  Join(Join(a, b), c) = Join(a, Join(b, c))
    BY ConcatAssociative DEF Join

LEMMA FlatRuns ==
    ASSUME NEW S, NEW seqs \in Seq(Seq(S))
    PROVE  \E g : /\ g \in [0..Len(seqs) -> Seq(S)] /\ g[0] = <<>>
                  /\ \A k \in 1..Len(seqs) : g[k] = g[k - 1] \o seqs[k]
                  /\ Flat(seqs) = g[Len(seqs)]
<1> DEFINE n == Len(seqs)
           step == [x \in Seq(S) \X (1..n) |-> x[1] \o seqs[x[2]]]
           Fits(g) == g = [k \in 0..n |-> IF k = 0 THEN <<>> ELSE g[k - 1] \o seqs[k]]
           flat == CHOOSE g : Fits(g)
<1>1. Flat(seqs) = flat[n]
    BY DEF Flat
<1>2. n \in Nat /\ (\A k \in 1..n : seqs[k] \in Seq(S)) /\ <<>> \in Seq(S)
    OBVIOUS
<1>3. step \in [Seq(S) \X (1..n) -> Seq(S)]
    <2>1. ASSUME NEW x \in Seq(S) \X (1..n) PROVE x[1] \o seqs[x[2]] \in Seq(S)
        <3>1. x[1] \in Seq(S) /\ seqs[x[2]] \in Seq(S)
            BY <1>2
        <3> QED
            BY <3>1, ConcatProperties
    <2> QED
        BY <2>1
<1>4. \A a \in Seq(S), k \in 1..n : step[<<a, k>>] = a \o seqs[k]
    OBVIOUS
<1> HIDE DEF step
<1>5. PICK g : Runs(g, n, Seq(S), <<>>, step)
    BY <1>2, <1>3, OneRuns
<1>6. /\ g \in [0..n -> Seq(S)] /\ g[0] = <<>>
      /\ \A k \in 1..n : g[k] = g[k - 1] \o seqs[k]
    <2>1. ASSUME NEW k \in 1..n PROVE g[k] = g[k - 1] \o seqs[k]
        <3>1. k - 1 \in 0..n
            BY <1>2
        <3>2. g[k - 1] \in Seq(S)
            BY <1>5, <3>1 DEF Runs
        <3> QED
            BY <1>4, <1>5, <3>2 DEF Runs
    <2> QED
        BY <1>5, <2>1 DEF Runs
<1>7. Fits(g)
    <2>1. ASSUME NEW k \in 0..n PROVE g[k] = IF k = 0 THEN <<>> ELSE g[k - 1] \o seqs[k]
        <3>1. k # 0 => k \in 1..n
            BY <1>2
        <3> QED
            BY <1>6, <3>1
    <2>2. g = [k \in 0..n |-> g[k]]
        BY <1>6
    <2> QED
        BY <2>1, <2>2
<1>8. Fits(flat)
    <2> HIDE DEF Fits
    <2> QED
        BY <1>7
<1> HIDE DEF flat
<1>9. /\ DOMAIN flat = 0..n
      /\ \A k \in 0..n : flat[k] = IF k = 0 THEN <<>> ELSE flat[k - 1] \o seqs[k]
    BY <1>8
<1> DEFINE T == {i \in 0..n : flat[i] = g[i]}
<1>10. 0 \in T
    <2>1. 0 \in 0..n
        BY <1>2
    <2>2. flat[0] = <<>>
        BY <1>9, <2>1
    <2> QED
        BY <1>6, <2>1, <2>2
<1>11. ASSUME NEW i \in 0..n, i < n, i \in T PROVE i + 1 \in T
    <2>1. i + 1 \in 1..n /\ i + 1 \in 0..n /\ (i + 1) - 1 = i /\ i + 1 # 0
        BY <1>2, <1>11
    <2>2. flat[i + 1] = flat[i] \o seqs[i + 1] /\ g[i + 1] = g[i] \o seqs[i + 1]
        BY <1>6, <1>9, <2>1
    <2> QED
        BY <1>11, <2>1, <2>2
<1>12. \A i \in 0..n : i \in T
    <2> HIDE DEF T
    <2> QED
        BY <1>2, <1>10, <1>11, InductionTo
<1>13. flat[n] = g[n]
    BY <1>2, <1>12
<1> QED
    BY <1>1, <1>6, <1>13

LEMMA FlatIsSeq ==
    ASSUME NEW S, NEW seqs \in Seq(Seq(S))
    PROVE  Flat(seqs) \in Seq(S) /\ (Len(seqs) = 0 => Flat(seqs) = <<>>)
<1>1. PICK g : /\ g \in [0..Len(seqs) -> Seq(S)] /\ g[0] = <<>> /\ Flat(seqs) = g[Len(seqs)]
    BY FlatRuns
<1>2. Len(seqs) \in 0..Len(seqs)
    OBVIOUS
<1> QED
    BY <1>1, <1>2

LEMMA AfterIsSeq ==
    ASSUME NEW S, NEW seq \in Seq(S), NEW k \in 0..Len(seq)
    PROVE  /\ After(seq, k) \in Seq(S) /\ Len(After(seq, k)) = Len(seq) - k
           /\ \A i \in 1..(Len(seq) - k) : After(seq, k)[i] = seq[k + i]
           /\ k = Len(seq) => After(seq, k) = <<>>
           /\ k = 0 => After(seq, k) = seq
<1>1. Len(seq) \in Nat /\ k \in Nat /\ k + 1 \in Int
    OBVIOUS
<1>2. \A i \in (k + 1)..Len(seq) : seq[i] \in S
    BY <1>1, ElementOfSeq
<1>3. /\ After(seq, k) \in Seq(S)
      /\ Len(After(seq, k)) = IF k + 1 <= Len(seq) THEN Len(seq) - (k + 1) + 1 ELSE 0
      /\ \A i \in 1..(Len(seq) - (k + 1) + 1) : After(seq, k)[i] = seq[(k + 1) + i - 1]
    BY <1>1, <1>2, SubSeqProperties DEF After
<1>4. Len(After(seq, k)) = Len(seq) - k
    BY <1>1, <1>3
<1>5. ASSUME NEW i \in 1..(Len(seq) - k) PROVE After(seq, k)[i] = seq[k + i]
    <2>1. i \in 1..(Len(seq) - (k + 1) + 1) /\ (k + 1) + i - 1 = k + i
        BY <1>1
    <2> QED
        BY <1>3, <2>1
<1>6. k = Len(seq) => After(seq, k) = <<>>
    BY <1>1, SubSeqEmpty DEF After
<1>7. k = 0 => After(seq, k) = seq
    BY <1>1, SubSeqFull DEF After
<1> QED
    BY <1>3, <1>4, <1>5, <1>6, <1>7

\* The first of the sequences that are left, and the others.
LEMMA FlatAfter ==
    ASSUME NEW S, NEW seqs \in Seq(Seq(S)), NEW k \in 0..Len(seqs), k < Len(seqs)
    PROVE  Flat(After(seqs, k)) = seqs[k + 1] \o Flat(After(seqs, k + 1))
<1> DEFINE t == After(seqs, k)
           u == After(seqs, k + 1)
           n == Len(u)
<1>1. /\ t \in Seq(Seq(S)) /\ Len(t) = Len(seqs) - k
      /\ \A i \in 1..(Len(seqs) - k) : t[i] = seqs[k + i]
    BY AfterIsSeq
<1>2. /\ u \in Seq(Seq(S)) /\ Len(u) = Len(seqs) - (k + 1)
      /\ \A i \in 1..(Len(seqs) - (k + 1)) : u[i] = seqs[(k + 1) + i]
    <2>1. k + 1 \in 0..Len(seqs)
        OBVIOUS
    <2> HIDE DEF u
    <2> QED
        BY <2>1, AfterIsSeq DEF u
<1>3. k \in Nat /\ Len(seqs) \in Nat /\ k + 1 \in 1..Len(seqs)
    OBVIOUS
<1> HIDE DEF t, u
<1>4. PICK g : /\ g \in [0..Len(t) -> Seq(S)] /\ g[0] = <<>>
               /\ \A i \in 1..Len(t) : g[i] = g[i - 1] \o t[i]
               /\ Flat(t) = g[Len(t)]
    BY <1>1, FlatRuns
<1>5. PICK h : /\ h \in [0..n -> Seq(S)] /\ h[0] = <<>>
               /\ \A i \in 1..n : h[i] = h[i - 1] \o u[i]
               /\ Flat(u) = h[n]
    BY <1>2, FlatRuns
<1>6. n \in Nat /\ Len(t) = n + 1 /\ seqs[k + 1] \in Seq(S)
    BY <1>1, <1>2, <1>3
<1> DEFINE T == {i \in 0..n : g[i + 1] = seqs[k + 1] \o h[i]}
<1>7. 0 \in T
    <2>1. 1 \in 1..Len(t) /\ t[1] = seqs[k + 1] /\ 1 - 1 = 0
        BY <1>1, <1>3, <1>6
    <2>2. g[1] = <<>> \o seqs[k + 1]
        BY <1>4, <2>1
    <2>3. <<>> \o seqs[k + 1] = seqs[k + 1] /\ seqs[k + 1] \o <<>> = seqs[k + 1]
        BY <1>6, ConcatEmptySeq
    <2>4. 0 \in 0..n /\ 0 + 1 = 1
        BY <1>6
    <2>5. g[0 + 1] = seqs[k + 1] \o h[0]
        BY <1>5, <2>2, <2>3, <2>4
    <2> QED
        BY <2>4, <2>5
<1>8. ASSUME NEW i \in 0..n, i < n, i \in T PROVE i + 1 \in T
    <2>1. /\ i + 1 \in 1..n /\ i + 2 \in 1..Len(t) /\ (i + 2) - 1 = i + 1 /\ (i + 1) - 1 = i
          /\ i + 1 \in 0..n /\ i \in 0..n /\ (i + 1) + 1 = i + 2
        BY <1>6, <1>8
    <2>2. g[i + 2] = g[i + 1] \o t[i + 2] /\ h[i + 1] = h[i] \o u[i + 1]
        BY <1>4, <1>5, <2>1
    <2>3. t[i + 2] = u[i + 1] /\ u[i + 1] \in Seq(S)
        <3>1. i + 2 \in 1..(Len(seqs) - k) /\ i + 1 \in 1..(Len(seqs) - (k + 1)) /\ k + (i + 2) = (k + 1) + (i + 1)
            BY <1>1, <1>2, <1>3, <2>1
        <3>2. t[i + 2] = seqs[k + (i + 2)] /\ u[i + 1] = seqs[(k + 1) + (i + 1)]
            BY <1>1, <1>2, <3>1
        <3>3. u[i + 1] \in Seq(S)
            BY <1>2, <2>1
        <3> QED
            BY <3>1, <3>2, <3>3
    <2>4. g[i + 1] = seqs[k + 1] \o h[i] /\ h[i] \in Seq(S)
        BY <1>5, <1>8, <2>1
    <2>5. (seqs[k + 1] \o h[i]) \o u[i + 1] = seqs[k + 1] \o (h[i] \o u[i + 1])
        <3>1. PICK a, b, c : a = seqs[k + 1] /\ b = h[i] /\ c = u[i + 1]
            OBVIOUS
        <3>2. a \in Seq(S) /\ b \in Seq(S) /\ c \in Seq(S)
            BY <1>6, <2>3, <2>4, <3>1
        <3>3. Join(Join(a, b), c) = Join(a, Join(b, c))
            BY <3>2, JoinRegrouped
        <3>4. (a \o b) \o c = a \o (b \o c)
            BY <3>3, Zenon DEF Join
        <3> QED
            BY <3>1, <3>4
    <2>6. g[(i + 1) + 1] = seqs[k + 1] \o h[i + 1]
        BY <2>1, <2>2, <2>3, <2>4, <2>5
    <2> QED
        BY <2>1, <2>6
<1>9. \A i \in 0..n : i \in T
    <2> HIDE DEF T
    <2> QED
        BY <1>6, <1>7, <1>8, InductionTo
<1>10. g[n + 1] = seqs[k + 1] \o h[n]
    <2>1. n \in 0..n
        BY <1>6
    <2>2. n \in T
        BY <1>9, <2>1
    <2> QED
        BY <2>2
<1> QED
    BY <1>4, <1>5, <1>6, <1>10 DEF t, u

\* A line and what is behind it.
LEMMA OneLine ==
    ASSUME NEW S, NEW x \in S, NEW rest \in Seq(S)
    PROVE  /\ <<x>> \o rest \in Seq(S) /\ <<x>> \o rest # <<>>
           /\ (<<x>> \o rest)[1] = x /\ Tail(<<x>> \o rest) = rest
<1> DEFINE all == <<x>> \o rest
<1>1. <<x>> \in Seq(S) /\ Len(<<x>>) = 1 /\ <<x>>[1] = x /\ Len(rest) \in Nat
    OBVIOUS
<1>2. /\ all \in Seq(S) /\ Len(all) = 1 + Len(rest)
      /\ \A i \in 1..(1 + Len(rest)) : all[i] = IF i <= 1 THEN <<x>>[i] ELSE rest[i - 1]
    <2> HIDE DEF all
    <2> QED
        BY <1>1, ConcatProperties, Zenon DEF all
<1> HIDE DEF all
<1>3. all # <<>> /\ all[1] = x
    <2>1. 1 \in 1..(1 + Len(rest)) /\ Len(all) # 0
        BY <1>1, <1>2
    <2> QED
        BY <1>1, <1>2, <2>1
<1>4. Tail(all) \in Seq(S) /\ Len(Tail(all)) = Len(rest)
      /\ \A i \in 1..Len(Tail(all)) : Tail(all)[i] = all[i + 1]
    <2>1. Len(all) - 1 = Len(rest)
        BY <1>1, <1>2
    <2> QED
        BY <1>2, <1>3, <2>1, HeadTailProperties
<1>5. ASSUME NEW i \in 1..Len(rest) PROVE Tail(all)[i] = rest[i]
    <2>1. i + 1 \in 1..(1 + Len(rest)) /\ ~(i + 1 <= 1) /\ (i + 1) - 1 = i
        BY <1>1
    <2> QED
        BY <1>2, <1>4, <2>1
<1>6. Tail(all) = rest
    BY <1>4, <1>5, SeqEqual
<1> QED
    BY <1>2, <1>3, <1>6 DEF all

(* What a tool writes.                                                     *)
PathsIn(sections) ==
    {sections[k].path : k \in DOMAIN sections} \cup {sections[k].old : k \in DOMAIN sections}
AllPaths == {NoPath} \cup UNION {PathsIn(sections) : sections \in Diffs}
Kinds == {"diff", "new file", "deleted file", "rename from", "rename to", "binary",
          "---", "+++", "@@", "+", "-", " ", "\\"}
RawLine == [is : Kinds, path : AllPaths, old : Nat \X Nat, new : Nat \X Nat]

Known(s) == IsSection(s) /\ s.path \in AllPaths /\ s.old \in AllPaths

LEMMA SectionsAreKnown ==
    ASSUME NEW sections \in Diffs
    PROVE  /\ Len(sections) \in Nat
           /\ \A k \in 1..Len(sections) : Known(sections[k]) /\ sections[k].git = sections[1].git
<1>1. IsDiff(sections)
    BY DiffAssumption
<1>2. Len(sections) \in Nat /\ DOMAIN sections = 1..Len(sections)
    BY <1>1 DEF IsDiff
<1>3. ASSUME NEW k \in 1..Len(sections) PROVE sections[k].path \in AllPaths /\ sections[k].old \in AllPaths
    <2>1. sections[k].path \in PathsIn(sections) /\ sections[k].old \in PathsIn(sections)
        BY <1>2 DEF PathsIn
    <2>2. PathsIn(sections) \in {PathsIn(d) : d \in Diffs}
        OBVIOUS
    <2> QED
        BY <2>1, <2>2 DEF AllPaths
<1> QED
    BY <1>1, <1>2, <1>3 DEF IsDiff, Known

\* The hunks of a section.
LEMMA HunksOfSection ==
    ASSUME NEW s, IsSection(s)
    PROVE  /\ Len(s.hunks) \in Nat
           /\ \A h \in 1..Len(s.hunks) : /\ IsHunk(s.hunks[h])
                                         /\ s.hunks[h].short = 0 \/ (s.git /\ h = Len(s.hunks))
<1>1. Len(s.hunks) \in Nat /\ DOMAIN s.hunks = 1..Len(s.hunks)
    BY DEF IsSection
<1> QED
    BY <1>1 DEF IsSection

HunkLines == {Is(kind) : kind \in {"+", "-", " ", "+++", "---"}}
EndNote(h) == IF h.eof THEN <<Is("\\")>> ELSE <<>>
HunkHead(h) == [Is("@@") EXCEPT !.old = <<h.old, Count(h.lines, "+") + h.short>>,
                                !.new = <<h.new, Count(h.lines, "-") + h.short>>]

\* How many of the first j lines count.
LEMMA CountIsNatural ==
    ASSUME NEW S, NEW lines \in Seq(S), NEW j \in 0..Len(lines), NEW marker
    PROVE  /\ Count(SubSeq(lines, 1, j), marker) = Cardinality({k \in 1..j : Marker(lines[k]) # marker})
           /\ IsFiniteSet({k \in 1..j : Marker(lines[k]) # marker})
           /\ Count(SubSeq(lines, 1, j), marker) \in Nat
<1> DEFINE sub == SubSeq(lines, 1, j)
<1>1. j \in Nat /\ j <= Len(lines) /\ Len(lines) \in Nat
    OBVIOUS
<1>2. Len(sub) = j /\ \A k \in 1..j : sub[k] = lines[k]
    <2>1. \A i \in 1..j : lines[i] \in S
        BY <1>1, ElementOfSeq
    <2>2. /\ Len(sub) = IF 1 <= j THEN j - 1 + 1 ELSE 0
          /\ \A i \in 1..(j - 1 + 1) : sub[i] = lines[1 + i - 1]
        <3> HIDE DEF sub
        <3> QED
            BY <1>1, <2>1, SubSeqProperties DEF sub
    <2> HIDE DEF sub
    <2>3. Len(sub) = j
        BY <1>1, <2>2
    <2>4. \A i \in 1..j : i \in 1..(j - 1 + 1) /\ 1 + i - 1 = i
        BY <1>1
    <2> QED
        BY <2>2, <2>3, <2>4
<1> HIDE DEF sub
<1>3. {k \in 1..Len(sub) : Marker(sub[k]) # marker} = {k \in 1..j : Marker(lines[k]) # marker}
    BY <1>2
<1>4. IsFiniteSet(1..j)
    <2>1. 1 \in Int /\ j \in Int
        BY <1>1
    <2> QED
        BY <2>1, FS_Interval
<1>5. IsFiniteSet({k \in 1..j : Marker(lines[k]) # marker})
    BY <1>4, FS_Subset
<1> QED
    BY <1>3, <1>5, FS_CardinalityType DEF Count, sub

LEMMA CountGrows ==
    ASSUME NEW S, NEW lines \in Seq(S), NEW j \in 0..Len(lines), j < Len(lines), NEW marker
    PROVE  Count(SubSeq(lines, 1, j + 1), marker) =
               Count(SubSeq(lines, 1, j), marker) + (IF Marker(lines[j + 1]) = marker THEN 0 ELSE 1)
<1> DEFINE counted == {k \in 1..j : Marker(lines[k]) # marker}
           more == {k \in 1..(j + 1) : Marker(lines[k]) # marker}
<1>1. j \in Nat /\ j + 1 \in 0..Len(lines)
    OBVIOUS
<1>2. Count(SubSeq(lines, 1, j), marker) = Cardinality(counted) /\ IsFiniteSet(counted)
    BY CountIsNatural
<1>3. Count(SubSeq(lines, 1, j + 1), marker) = Cardinality(more)
    BY <1>1, CountIsNatural
<1>4. 1..(j + 1) = (1..j) \cup {j + 1} /\ j + 1 \notin 1..j
    BY <1>1
<1>5. CASE Marker(lines[j + 1]) = marker
    <2>1. more = counted
        BY <1>4, <1>5
    <2>2. Cardinality(counted) \in Nat
        BY <1>2, FS_CardinalityType
    <2> HIDE DEF more, counted
    <2>3. Cardinality(counted) + 0 = Cardinality(counted)
        BY <2>2
    <2> QED
        BY <1>2, <1>3, <1>5, <2>1, <2>3
<1>6. CASE Marker(lines[j + 1]) # marker
    <2>1. more = counted \cup {j + 1} /\ j + 1 \notin counted
        BY <1>4, <1>6
    <2> HIDE DEF more, counted
    <2>2. Cardinality(more) = Cardinality(counted) + 1
        BY <1>2, <2>1, FS_AddElement
    <2> QED
        BY <1>2, <1>3, <1>6, <2>2
<1> QED
    BY <1>5, <1>6

LEMMA CountIsPart ==
    ASSUME NEW S, NEW lines \in Seq(S), NEW j \in 0..Len(lines), NEW marker
    PROVE  /\ Count(lines, marker) \in Nat
           /\ Count(SubSeq(lines, 1, j), marker) <= Count(lines, marker)
           /\ Count(SubSeq(lines, 1, 0), marker) = 0
           /\ j = Len(lines) => Count(SubSeq(lines, 1, j), marker) = Count(lines, marker)
<1> DEFINE n == Len(lines)
           counted == {k \in 1..j : Marker(lines[k]) # marker}
           all == {k \in 1..n : Marker(lines[k]) # marker}
<1>1. n \in Nat /\ n \in 0..Len(lines) /\ 0 \in 0..Len(lines) /\ SubSeq(lines, 1, n) = lines
    <2>1. SubSeq(lines, 1, n) = lines
        BY SubSeqFull, Zenon
    <2> QED
        BY <2>1
<1>2. Count(lines, marker) = Cardinality(all) /\ IsFiniteSet(all) /\ Count(lines, marker) \in Nat
    <2>1. /\ Count(SubSeq(lines, 1, n), marker) = Cardinality(all) /\ IsFiniteSet(all)
          /\ Count(SubSeq(lines, 1, n), marker) \in Nat
        BY <1>1, CountIsNatural
    <2> HIDE DEF all
    <2> QED
        BY <1>1, <2>1
<1>3. Count(SubSeq(lines, 1, j), marker) = Cardinality(counted)
    BY CountIsNatural
<1>4. counted \subseteq all
    BY <1>1
<1>5. Cardinality(counted) <= Cardinality(all)
    <2> HIDE DEF counted, all
    <2> QED
        BY <1>2, <1>4, FS_Subset
<1>6. Count(SubSeq(lines, 1, 0), marker) = 0
    <2>1. Count(SubSeq(lines, 1, 0), marker) = Cardinality({k \in 1..0 : Marker(lines[k]) # marker})
        BY <1>1, CountIsNatural
    <2>2. {k \in 1..0 : Marker(lines[k]) # marker} = {}
        OBVIOUS
    <2> QED
        BY <2>1, <2>2, FS_EmptySet
<1> QED
    BY <1>1, <1>2, <1>3, <1>5, <1>6

LEMMA HunkTextIsText ==
    ASSUME NEW h, IsHunk(h)
    PROVE  /\ h.lines \in Seq(HunkLines) /\ h.lines \in Seq(RawLine) /\ EndNote(h) \in Seq(RawLine)
           /\ HunkHead(h) \in RawLine /\ HunkHead(h).is = "@@" /\ HunkHead(h).path = NoPath
           /\ HunkHead(h).old = <<h.old, Count(h.lines, "+") + h.short>>
           /\ HunkHead(h).new = <<h.new, Count(h.lines, "-") + h.short>>
           /\ HunkText(h) \in Seq(RawLine)
           /\ HunkText(h) = <<HunkHead(h)>> \o (h.lines \o EndNote(h))
<1>1. h.lines \in Seq(HunkLines) /\ h.old \in Nat /\ h.new \in Nat /\ h.short \in Nat
    BY DEF IsHunk, HunkLines
<1>2. NoPath \in AllPaths
    BY DEF AllPaths
<1>3. ASSUME NEW kind \in Kinds PROVE Is(kind) \in RawLine
    <2> DEFINE none == <<0, 0>>
    <2>1. none \in Nat \X Nat
        OBVIOUS
    <2>2. Is(kind) = [is |-> kind, path |-> NoPath, old |-> none, new |-> none]
        BY DEF Is
    <2> HIDE DEF none
    <2> QED
        BY <1>2, <2>1, <2>2 DEF RawLine
<1>4. HunkLines \subseteq RawLine
    <2>1. {"+", "-", " ", "+++", "---"} \subseteq Kinds
        BY DEF Kinds
    <2> QED
        BY <1>3, <2>1 DEF HunkLines
<1>5. h.lines \in Seq(RawLine)
    BY <1>1, <1>4, SeqMonotonic
<1>6. EndNote(h) \in Seq(RawLine)
    <2>1. "\\" \in Kinds
        BY DEF Kinds
    <2>2. Is("\\") \in RawLine
        BY <1>3, <2>1, Zenon
    <2> QED
        BY <2>2 DEF EndNote
<1>7. Count(h.lines, "+") \in Nat /\ Count(h.lines, "-") \in Nat
    <2>1. 0 \in 0..Len(h.lines)
        BY <1>5
    <2> QED
        BY <1>5, <2>1, CountIsPart
<1>8. /\ HunkHead(h).is = "@@" /\ HunkHead(h).path = NoPath
      /\ HunkHead(h).old = <<h.old, Count(h.lines, "+") + h.short>>
      /\ HunkHead(h).new = <<h.new, Count(h.lines, "-") + h.short>>
      /\ HunkHead(h) \in RawLine
    <2> DEFINE old == <<h.old, Count(h.lines, "+") + h.short>>
               new == <<h.new, Count(h.lines, "-") + h.short>>
    <2>1. old \in Nat \X Nat /\ new \in Nat \X Nat
        BY <1>1, <1>7
    <2>2. HunkHead(h) = [Is("@@") EXCEPT !.old = old, !.new = new]
        BY DEF HunkHead
    <2> HIDE DEF old, new
    <2>3. HunkHead(h) = [is |-> "@@", path |-> NoPath, old |-> old, new |-> new]
        BY <2>2 DEF Is
    <2>4. HunkHead(h) \in RawLine
        <3>1. "@@" \in Kinds
            BY DEF Kinds
        <3> QED
            BY <1>2, <2>1, <2>3, <3>1 DEF RawLine
    <2> QED
        BY <2>3, <2>4 DEF old, new
<1>9. HunkText(h) = (<<HunkHead(h)>> \o h.lines) \o EndNote(h)
    BY DEF HunkText, HunkHead, EndNote
<1>10. /\ HunkText(h) \in Seq(RawLine)
       /\ HunkText(h) = <<HunkHead(h)>> \o (h.lines \o EndNote(h))
    <2>1. <<HunkHead(h)>> \in Seq(RawLine)
        BY <1>8
    <2>2. <<HunkHead(h)>> \o h.lines \in Seq(RawLine)
        BY <1>5, <2>1, ConcatProperties
    <2>3. (<<HunkHead(h)>> \o h.lines) \o EndNote(h) \in Seq(RawLine)
        BY <1>6, <2>2, ConcatProperties
    <2>4. (<<HunkHead(h)>> \o h.lines) \o EndNote(h) = <<HunkHead(h)>> \o (h.lines \o EndNote(h))
        <3>1. PICK one : one = <<HunkHead(h)>>
            OBVIOUS
        <3>2. one \in Seq(RawLine)
            BY <2>1, <3>1
        <3>3. Join(Join(one, h.lines), EndNote(h)) = Join(one, Join(h.lines, EndNote(h)))
            BY <1>5, <1>6, <3>2, JoinRegrouped
        <3> QED
            BY <3>1, <3>3, Zenon DEF Join
    <2> QED
        BY <1>9, <2>3, <2>4
<1> QED
    BY <1>1, <1>5, <1>6, <1>8, <1>10

HunksAfter(s, h) == Flat(After(HunkTexts(s), h))
SectionTexts(d) == [k \in 1..Len(d) |-> SectionText(d[k])]
TextAfter(d, k) == Flat(After(SectionTexts(d), k))

LEMMA OneOrTwo ==
    ASSUME NEW S, NEW x \in S, NEW y \in S
    PROVE  /\ <<>> \in Seq(S) /\ <<x>> \in Seq(S) /\ <<x, y>> \in Seq(S)
           /\ <<x, y>> = <<x>> \o <<y>>
<1>1. <<>> \in Seq(S) /\ <<x>> \in Seq(S)
    OBVIOUS
<1>2. <<x, y>> \in Seq(S)
    OBVIOUS
<1>3. <<x, y>> = <<x>> \o <<y>>
    <2>1. <<y>> \in Seq(S) /\ Len(<<x>>) = 1 /\ Len(<<y>>) = 1 /\ Len(<<x, y>>) = 2
        OBVIOUS
    <2>2. /\ <<x>> \o <<y>> \in Seq(S) /\ Len(<<x>> \o <<y>>) = 2
          /\ (<<x>> \o <<y>>)[1] = x /\ (<<x>> \o <<y>>)[2] = y
        OBVIOUS
    <2>3. <<x, y>>[1] = x /\ <<x, y>>[2] = y
        OBVIOUS
    <2>4. \A i \in 1..2 : i = 1 \/ i = 2
        OBVIOUS
    <2> QED
        BY <1>2, <2>1, <2>2, <2>3, <2>4, SeqEqual
<1> QED
    BY <1>1, <1>2, <1>3

\* What a line names.
LEMMA NamesIsRaw ==
    ASSUME NEW kind \in Kinds, NEW path \in AllPaths
    PROVE  /\ Names(kind, path) \in RawLine
           /\ Names(kind, path).is = kind /\ Names(kind, path).path = path
<1> DEFINE none == <<0, 0>>
<1>1. none \in Nat \X Nat
    OBVIOUS
<1>2. Names(kind, path) = [is |-> kind, path |-> path, old |-> none, new |-> none]
    BY DEF Names, Is
<1> HIDE DEF none
<1> QED
    BY <1>1, <1>2 DEF RawLine

LEMMA IsIsRaw ==
    ASSUME NEW kind \in Kinds
    PROVE  Is(kind) \in RawLine /\ Is(kind).is = kind /\ Is(kind).path = NoPath
<1> DEFINE none == <<0, 0>>
<1>1. none \in Nat \X Nat /\ NoPath \in AllPaths
    BY DEF AllPaths
<1>2. Is(kind) = [is |-> kind, path |-> NoPath, old |-> none, new |-> none]
    BY DEF Is
<1> HIDE DEF none
<1> QED
    BY <1>1, <1>2 DEF RawLine

OldName(s) == IF s.status = "added" THEN NoPath ELSE s.old
NewName(s) == IF s.status = "removed" THEN NoPath ELSE s.path

LEMMA HeadLinesAreRaw ==
    ASSUME NEW s, Known(s)
    PROVE  /\ StatusLines(s) \in Seq(RawLine) /\ SideLines(s) \in Seq(RawLine)
           /\ OldName(s) \in AllPaths /\ NewName(s) \in AllPaths
           /\ Names("diff", s.path) \in RawLine /\ Names("rename to", s.path) \in RawLine
           /\ Names("rename from", s.old) \in RawLine
           /\ Names("---", OldName(s)) \in RawLine /\ Names("+++", NewName(s)) \in RawLine
           /\ Is("new file") \in RawLine /\ Is("deleted file") \in RawLine /\ Is("binary") \in RawLine
<1>1. {"diff", "new file", "deleted file", "rename from", "rename to", "binary", "---", "+++"} \subseteq Kinds
    BY DEF Kinds
<1>2. /\ s.path \in AllPaths /\ s.old \in AllPaths /\ NoPath \in AllPaths
      /\ OldName(s) \in AllPaths /\ NewName(s) \in AllPaths
    BY DEF Known, AllPaths, OldName, NewName
<1>3. Is("new file") \in RawLine /\ Is("deleted file") \in RawLine /\ Is("binary") \in RawLine
    BY <1>1, IsIsRaw
<1>4. /\ Names("diff", s.path) \in RawLine /\ Names("rename to", s.path) \in RawLine
      /\ Names("rename from", s.old) \in RawLine
      /\ Names("---", OldName(s)) \in RawLine /\ Names("+++", NewName(s)) \in RawLine
    BY <1>1, <1>2, NamesIsRaw
<1>5. StatusLines(s) \in Seq(RawLine)
    <2>1. /\ <<>> \in Seq(RawLine) /\ <<Is("new file")>> \in Seq(RawLine)
          /\ <<Is("deleted file")>> \in Seq(RawLine)
          /\ <<Names("rename from", s.old), Names("rename to", s.path)>> \in Seq(RawLine)
        BY <1>3, <1>4, OneOrTwo
    <2> QED
        BY <2>1 DEF StatusLines
<1>6. SideLines(s) \in Seq(RawLine)
    <2>1. /\ <<>> \in Seq(RawLine) /\ <<Is("binary")>> \in Seq(RawLine)
          /\ <<Names("---", OldName(s)), Names("+++", NewName(s))>> \in Seq(RawLine)
        BY <1>3, <1>4, OneOrTwo
    <2> QED
        BY <2>1 DEF SideLines, OldName, NewName
<1> QED
    BY <1>2, <1>3, <1>4, <1>5, <1>6

LEMMA HunksAfterAreText ==
    ASSUME NEW s, IsSection(s), NEW h \in 0..Len(s.hunks)
    PROVE  /\ HunksAfter(s, h) \in Seq(RawLine)
           /\ HunksAfter(s, 0) = Flat(HunkTexts(s))
           /\ h = Len(s.hunks) => HunksAfter(s, h) = <<>>
           /\ h < Len(s.hunks) =>
                /\ HunksAfter(s, h) = HunkText(s.hunks[h + 1]) \o HunksAfter(s, h + 1)
                /\ HunksAfter(s, h + 1) \in Seq(RawLine)
<1>1. /\ HunkTexts(s) \in Seq(Seq(RawLine)) /\ Len(HunkTexts(s)) = Len(s.hunks)
      /\ \A i \in 1..Len(s.hunks) : HunkTexts(s)[i] = HunkText(s.hunks[i])
    <2>1. Len(s.hunks) \in Nat
        BY HunksOfSection
    <2>2. ASSUME NEW i \in 1..Len(s.hunks) PROVE HunkText(s.hunks[i]) \in Seq(RawLine)
        BY HunksOfSection, HunkTextIsText
    <2> QED
        BY <2>1, <2>2 DEF HunkTexts
<1>2. Len(s.hunks) \in Nat
    BY HunksOfSection
<1>3. ASSUME NEW i \in 0..Len(s.hunks) PROVE HunksAfter(s, i) \in Seq(RawLine)
    <2>1. After(HunkTexts(s), i) \in Seq(Seq(RawLine))
        BY <1>1, AfterIsSeq
    <2> QED
        BY <2>1, FlatIsSeq DEF HunksAfter
<1>4. HunksAfter(s, 0) = Flat(HunkTexts(s))
    <2>1. 0 \in 0..Len(HunkTexts(s))
        BY <1>1, <1>2
    <2>2. After(HunkTexts(s), 0) = HunkTexts(s)
        BY <1>1, <2>1, AfterIsSeq
    <2> QED
        BY <2>2 DEF HunksAfter
<1>5. ASSUME h = Len(s.hunks) PROVE HunksAfter(s, h) = <<>>
    <2>1. After(HunkTexts(s), h) \in Seq(Seq(RawLine)) /\ Len(After(HunkTexts(s), h)) = 0
        BY <1>1, <1>2, <1>5, AfterIsSeq
    <2> QED
        BY <2>1, FlatIsSeq DEF HunksAfter
<1>6. ASSUME h < Len(s.hunks)
      PROVE  HunksAfter(s, h) = HunkText(s.hunks[h + 1]) \o HunksAfter(s, h + 1)
    <2>1. h + 1 \in 1..Len(s.hunks) /\ h < Len(HunkTexts(s)) /\ h \in 0..Len(HunkTexts(s))
        BY <1>1, <1>2, <1>6
    <2>2. Flat(After(HunkTexts(s), h)) = HunkTexts(s)[h + 1] \o Flat(After(HunkTexts(s), h + 1))
        BY <1>1, <2>1, FlatAfter
    <2> QED
        BY <1>1, <2>1, <2>2 DEF HunksAfter
<1>7. h < Len(s.hunks) => h + 1 \in 0..Len(s.hunks)
    BY <1>2
<1> QED
    BY <1>3, <1>4, <1>5, <1>6, <1>7

LEMMA SectionTextIsText ==
    ASSUME NEW s, Known(s)
    PROVE  /\ SectionText(s) \in Seq(RawLine)
           /\ StatusLines(s) \o SideLines(s) \in Seq(RawLine)
           /\ HunksAfter(s, 0) \in Seq(RawLine)
           /\ s.git => SectionText(s) =
                <<Names("diff", s.path)>> \o ((StatusLines(s) \o SideLines(s)) \o HunksAfter(s, 0))
           /\ ~s.git => SectionText(s) = SideLines(s) \o HunksAfter(s, 0)
<1>1. /\ StatusLines(s) \in Seq(RawLine) /\ SideLines(s) \in Seq(RawLine)
      /\ Names("diff", s.path) \in RawLine
    BY HeadLinesAreRaw
<1>2. HunksAfter(s, 0) \in Seq(RawLine) /\ HunksAfter(s, 0) = Flat(HunkTexts(s))
    <2>1. IsSection(s)
        BY DEF Known
    <2>2. 0 \in 0..Len(s.hunks)
        BY <2>1, HunksOfSection
    <2> QED
        BY <2>1, <2>2, HunksAfterAreText
<1>3. StatusLines(s) \o SideLines(s) \in Seq(RawLine)
    BY <1>1, ConcatProperties
<1>4. (StatusLines(s) \o SideLines(s)) \o HunksAfter(s, 0) = StatusLines(s) \o (SideLines(s) \o HunksAfter(s, 0))
    <2>1. Join(Join(StatusLines(s), SideLines(s)), HunksAfter(s, 0)) =
              Join(StatusLines(s), Join(SideLines(s), HunksAfter(s, 0)))
        BY <1>1, <1>2, JoinRegrouped
    <2> QED
        BY <2>1, Zenon DEF Join
<1>5. SideLines(s) \o HunksAfter(s, 0) \in Seq(RawLine)
    BY <1>1, <1>2, ConcatProperties
<1>6. (StatusLines(s) \o SideLines(s)) \o HunksAfter(s, 0) \in Seq(RawLine)
    BY <1>2, <1>3, ConcatProperties
<1>7. s.git => SectionText(s) =
                <<Names("diff", s.path)>> \o ((StatusLines(s) \o SideLines(s)) \o HunksAfter(s, 0))
    BY <1>2, <1>4 DEF SectionText
<1>8. ~s.git => SectionText(s) = SideLines(s) \o HunksAfter(s, 0)
    <2>1. SUFFICES ASSUME ~s.git PROVE SectionText(s) = SideLines(s) \o HunksAfter(s, 0)
        OBVIOUS
    <2>2. StatusLines(s) = <<>>
        BY <2>1 DEF StatusLines
    <2>3. SectionText(s) = <<>> \o (<<>> \o (SideLines(s) \o HunksAfter(s, 0)))
        BY <1>2, <2>1, <2>2 DEF SectionText
    <2>4. \A a \in Seq(RawLine) : <<>> \o a = a
        BY ConcatEmptySeq
    <2> QED
        BY <1>5, <2>3, <2>4
<1>9. SectionText(s) \in Seq(RawLine)
    <2>1. <<Names("diff", s.path)>> \in Seq(RawLine)
        BY <1>1
    <2>2. <<Names("diff", s.path)>> \o ((StatusLines(s) \o SideLines(s)) \o HunksAfter(s, 0)) \in Seq(RawLine)
        BY <1>6, <2>1, ConcatProperties
    <2> QED
        BY <1>5, <1>7, <1>8, <2>2
<1> QED
    BY <1>2, <1>3, <1>7, <1>8, <1>9

LEMMA TextAfterIsText ==
    ASSUME NEW d \in Diffs, NEW k \in 0..Len(d)
    PROVE  /\ TextAfter(d, k) \in Seq(RawLine)
           /\ k = 0 => TextAfter(d, k) = Written(d)
           /\ k = Len(d) => TextAfter(d, k) = <<>>
           /\ k < Len(d) => /\ TextAfter(d, k) = SectionText(d[k + 1]) \o TextAfter(d, k + 1)
                               /\ TextAfter(d, k + 1) \in Seq(RawLine)
<1>1. /\ SectionTexts(d) \in Seq(Seq(RawLine)) /\ Len(SectionTexts(d)) = Len(d) /\ Len(d) \in Nat
      /\ \A i \in 1..Len(d) : SectionTexts(d)[i] = SectionText(d[i])
    <2>1. Len(d) \in Nat
        BY SectionsAreKnown
    <2>2. ASSUME NEW i \in 1..Len(d) PROVE SectionText(d[i]) \in Seq(RawLine)
        BY SectionsAreKnown, SectionTextIsText
    <2> QED
        BY <2>1, <2>2 DEF SectionTexts
<1>2. ASSUME NEW i \in 0..Len(d) PROVE TextAfter(d, i) \in Seq(RawLine)
    <2>1. After(SectionTexts(d), i) \in Seq(Seq(RawLine))
        BY <1>1, AfterIsSeq
    <2> QED
        BY <2>1, FlatIsSeq DEF TextAfter
<1>3. ASSUME k = 0 PROVE TextAfter(d, k) = Written(d)
    <2>1. After(SectionTexts(d), k) = SectionTexts(d)
        BY <1>1, <1>3, AfterIsSeq
    <2> QED
        BY <2>1 DEF TextAfter, Written, SectionTexts
<1>4. ASSUME k = Len(d) PROVE TextAfter(d, k) = <<>>
    <2>1. After(SectionTexts(d), k) \in Seq(Seq(RawLine)) /\ Len(After(SectionTexts(d), k)) = 0
        BY <1>1, <1>4, AfterIsSeq
    <2> QED
        BY <2>1, FlatIsSeq DEF TextAfter
<1>5. ASSUME k < Len(d) PROVE TextAfter(d, k) = SectionText(d[k + 1]) \o TextAfter(d, k + 1)
    <2>1. k + 1 \in 1..Len(d) /\ k < Len(SectionTexts(d)) /\ k \in 0..Len(SectionTexts(d))
        BY <1>1, <1>5
    <2>2. Flat(After(SectionTexts(d), k)) = SectionTexts(d)[k + 1] \o Flat(After(SectionTexts(d), k + 1))
        BY <1>1, <2>1, FlatAfter
    <2> QED
        BY <1>1, <2>1, <2>2 DEF TextAfter
<1>6. k < Len(d) => k + 1 \in 0..Len(d)
    BY <1>1
<1> QED
    BY <1>2, <1>3, <1>4, <1>5, <1>6

\* What is behind the headings of section k.
Behind(d, k) == HunksAfter(d[k], 0) \o TextAfter(d, k)

LEMMA NextSection ==
    ASSUME NEW d \in Diffs, NEW k \in 0..Len(d), k < Len(d)
    PROVE  /\ Behind(d, k + 1) \in Seq(RawLine)
           /\ d[k + 1].git => TextAfter(d, k) =
                <<Names("diff", d[k + 1].path)>>
                    \o (StatusLines(d[k + 1]) \o (SideLines(d[k + 1]) \o Behind(d, k + 1)))
           /\ ~d[k + 1].git => TextAfter(d, k) =
                <<Names("---", OldName(d[k + 1]))>>
                    \o (<<Names("+++", NewName(d[k + 1]))>> \o Behind(d, k + 1))
<1>1. k + 1 \in 1..Len(d) /\ k + 1 \in 0..Len(d)
    BY SectionsAreKnown
<1>2. PICK s : s = d[k + 1]
    OBVIOUS
<1>3. Known(s)
    BY <1>1, <1>2, SectionsAreKnown
<1>4. PICK c : c = HunksAfter(s, 0)
    OBVIOUS
<1>5. PICK e : e = TextAfter(d, k + 1)
    OBVIOUS
<1>6. TextAfter(d, k) = SectionText(s) \o e /\ e \in Seq(RawLine)
    BY <1>2, <1>5, TextAfterIsText
<1>7. /\ c \in Seq(RawLine) /\ StatusLines(s) \o SideLines(s) \in Seq(RawLine)
      /\ s.git => SectionText(s) = <<Names("diff", s.path)>> \o ((StatusLines(s) \o SideLines(s)) \o c)
      /\ ~s.git => SectionText(s) = SideLines(s) \o c
    BY <1>3, <1>4, SectionTextIsText
<1>8. Behind(d, k + 1) = c \o e /\ Behind(d, k + 1) \in Seq(RawLine)
    <2>1. Behind(d, k + 1) = c \o e
        BY <1>2, <1>4, <1>5 DEF Behind
    <2> QED
        BY <1>6, <1>7, <2>1, ConcatProperties
<1>9. ASSUME s.git
      PROVE  TextAfter(d, k) =
                <<Names("diff", s.path)>> \o (StatusLines(s) \o (SideLines(s) \o Behind(d, k + 1)))
    <2>1. PICK a, b1, b2 : /\ a = <<Names("diff", s.path)>>
                           /\ b1 = StatusLines(s) /\ b2 = SideLines(s)
        OBVIOUS
    <2>2. a \in Seq(RawLine) /\ b1 \in Seq(RawLine) /\ b2 \in Seq(RawLine) /\ b1 \o b2 \in Seq(RawLine)
        BY <1>3, <1>7, <2>1, HeadLinesAreRaw, OneOrTwo
    <2>3. TextAfter(d, k) = (a \o ((b1 \o b2) \o c)) \o e
        BY <1>6, <1>7, <1>9, <2>1
    <2>4. PICK b : b = b1 \o b2 /\ b \in Seq(RawLine)
        BY <2>2
    <2>5. (a \o (b \o c)) \o e = a \o (b \o (c \o e))
        <3>1. c \in Seq(RawLine) /\ e \in Seq(RawLine) /\ a \in Seq(RawLine) /\ b \in Seq(RawLine)
            BY <1>6, <1>7, <2>2, <2>4
        <3>2. Join(Join(a, Join(b, c)), e) = Join(a, Join(b, Join(c, e)))
            BY <3>1, JoinIsText, JoinRegrouped
        <3> QED
            BY <3>2, Zenon DEF Join
    <2>6. (b1 \o b2) \o (c \o e) = b1 \o (b2 \o (c \o e))
        <3>1. c \in Seq(RawLine) /\ e \in Seq(RawLine)
            BY <1>6, <1>7
        <3>2. Join(Join(b1, b2), Join(c, e)) = Join(b1, Join(b2, Join(c, e)))
            BY <2>2, <3>1, JoinIsText, JoinRegrouped
        <3> QED
            BY <3>2, Zenon DEF Join
    <2>7. TextAfter(d, k) = a \o (b1 \o (b2 \o (c \o e)))
        BY <2>3, <2>4, <2>5, <2>6, Zenon
    <2> QED
        BY <1>8, <2>1, <2>7, Zenon
<1>10. ASSUME ~s.git
       PROVE  TextAfter(d, k) =
                <<Names("---", OldName(s))>> \o (<<Names("+++", NewName(s))>> \o Behind(d, k + 1))
    <2>1. PICK a, b : a = <<Names("---", OldName(s))>> /\ b = <<Names("+++", NewName(s))>>
        OBVIOUS
    <2>2. a \in Seq(RawLine) /\ b \in Seq(RawLine)
        BY <1>3, <2>1, HeadLinesAreRaw, OneOrTwo
    <2>3. ~s.binary /\ s.hunks # <<>>
        BY <1>3, <1>10 DEF Known, IsSection
    <2>4. SideLines(s) = a \o b
        <3>1. SideLines(s) = <<Names("---", OldName(s)), Names("+++", NewName(s))>>
            BY <2>3 DEF SideLines, OldName, NewName
        <3>2. Names("---", OldName(s)) \in RawLine /\ Names("+++", NewName(s)) \in RawLine
            BY <1>3, HeadLinesAreRaw
        <3> QED
            BY <2>1, <3>1, <3>2, OneOrTwo, Zenon
    <2>5. TextAfter(d, k) = ((a \o b) \o c) \o e
        BY <1>6, <1>7, <1>10, <2>4
    <2>6. ((a \o b) \o c) \o e = a \o (b \o (c \o e))
        <3>1. c \in Seq(RawLine) /\ e \in Seq(RawLine)
            BY <1>6, <1>7
        <3>2. Join(Join(Join(a, b), c), e) = Join(a, Join(b, Join(c, e)))
            BY <2>2, <3>1, JoinIsText, JoinRegrouped
        <3> QED
            BY <3>2, Zenon DEF Join
    <2> QED
        BY <1>8, <2>1, <2>5, <2>6, Zenon
<1> QED
    BY <1>2, <1>8, <1>9, <1>10

IsSeq(fs) == \E S : fs \in Seq(S)

LEMMA Appended ==
    ASSUME NEW fs, IsSeq(fs), NEW x
    PROVE  /\ IsSeq(Append(fs, x)) /\ Len(Append(fs, x)) = Len(fs) + 1
           /\ Append(fs, x)[Len(fs) + 1] = x
           /\ \A i \in 1..Len(fs) : Append(fs, x)[i] = fs[i]
           /\ Len(fs) \in Nat
<1>1. PICK S : fs \in Seq(S)
    BY DEF IsSeq
<1> DEFINE T == S \cup {x}
<1>2. fs \in Seq(T) /\ x \in T
    BY <1>1, SeqMonotonic
<1> HIDE DEF T
<1>3. /\ Append(fs, x) \in Seq(T) /\ Len(Append(fs, x)) = Len(fs) + 1
      /\ Append(fs, x)[Len(fs) + 1] = x
      /\ \A i \in 1..Len(fs) : Append(fs, x)[i] = fs[i]
    BY <1>2, AppendProperties
<1> QED
    BY <1>2, <1>3 DEF IsSeq

Put(fs, k, x) == [fs EXCEPT ![k] = x]

LEMMA Updated ==
    ASSUME NEW fs, IsSeq(fs), NEW k \in 1..Len(fs), NEW x
    PROVE  /\ IsSeq(Put(fs, k, x)) /\ Len(Put(fs, k, x)) = Len(fs)
           /\ Put(fs, k, x)[k] = x
           /\ \A i \in 1..Len(fs) : i # k => Put(fs, k, x)[i] = fs[i]
<1>1. PICK S : fs \in Seq(S)
    BY DEF IsSeq
<1> DEFINE T == S \cup {x}
<1>2. fs \in Seq(T) /\ x \in T
    BY <1>1, SeqMonotonic
<1> HIDE DEF T
<1>3. [fs EXCEPT ![k] = x] \in Seq(T) /\ Len([fs EXCEPT ![k] = x]) = Len(fs)
    BY <1>2, ExceptSeq
<1>4. DOMAIN fs = 1..Len(fs)
    BY <1>1
<1> QED
    BY <1>3, <1>4 DEF IsSeq, Put

FileFields == {"path", "old", "status", "binary", "hunks"}
StatusOf(file) ==
    IF file.status = "modified" /\ file.old \notin {NoPath, file.path} THEN "renamed" ELSE file.status

\* A file whose headings are read.
Named(file, s) ==
    /\ DOMAIN file = FileFields
    /\ file.path = s.path /\ StatusOf(file) = s.status /\ file.binary = s.binary

NumberedTo(the, j) == [i \in 1..j |-> NumberedHunk(the)[i]]
HunksTo(s, h, j) ==
    [i \in 1..h |-> IF i < h THEN NumberedHunk(s.hunks[i]) ELSE NumberedTo(s.hunks[h], j)]

SoFar(file, s, h) == Named(file, s) /\ file.hunks = [i \in 1..h |-> NumberedHunk(s.hunks[i])]
IsRead(file, s) == SoFar(file, s, Len(s.hunks))

\* File k is at hand, and those before it are read.
FilesTo(d, k) == IsSeq(files) /\ Len(files) = k /\ \A i \in 1..(k - 1) : IsRead(files[i], d[i])

LEMMA FileChanges ==
    ASSUME NEW d, NEW k \in Nat \ {0}, FilesTo(d, k), NEW file, CurrentIs(file)
    PROVE  FilesTo(d, k)' /\ files'[k] = file
<1>1. files' = Put(files, k, file) /\ IsSeq(files) /\ Len(files) = k /\ k \in 1..Len(files)
    BY DEF CurrentIs, FilesTo, Put
<1>2. /\ IsSeq(files') /\ Len(files') = k /\ files'[k] = file
      /\ \A i \in 1..k : i # k => files'[i] = files[i]
    BY <1>1, Updated
<1>3. ASSUME NEW i \in 1..(k - 1) PROVE IsRead(files'[i], d[i])
    <2>1. i \in 1..k /\ i # k
        OBVIOUS
    <2>2. files'[i] = files[i] /\ IsRead(files[i], d[i])
        BY <1>2, <2>1 DEF FilesTo
    <2> QED
        BY <2>2
<1> QED
    BY <1>2, <1>3 DEF FilesTo

LEMMA FileComes ==
    ASSUME NEW d, NEW k \in Nat, FilesTo(d, k), k > 0 => IsRead(files[k], d[k]),
           NEW file, files' = Append(files, file)
    PROVE  FilesTo(d, k + 1)' /\ files'[k + 1] = file
<1>1. /\ IsSeq(files') /\ Len(files') = k + 1 /\ files'[k + 1] = file
      /\ \A i \in 1..k : files'[i] = files[i]
    BY Appended DEF FilesTo
<1>2. ASSUME NEW i \in 1..((k + 1) - 1) PROVE IsRead(files'[i], d[i])
    <2>1. i \in 1..k /\ (i # k => i \in 1..(k - 1)) /\ (i = k => k > 0)
        OBVIOUS
    <2>2. files'[i] = files[i] /\ IsRead(files[i], d[i])
        BY <1>1, <2>1 DEF FilesTo
    <2> QED
        BY <2>2
<1> QED
    BY <1>1, <1>2 DEF FilesTo

LEMMA FilesRest ==
    ASSUME NEW d, NEW k, FilesTo(d, k), files' = files
    PROVE  FilesTo(d, k)'
BY DEF FilesTo

LEMMA HunksChange ==
    ASSUME NEW file, NEW s, Named(file, s), NEW hunks
    PROVE  /\ Named([file EXCEPT !.hunks = hunks], s)
           /\ [file EXCEPT !.hunks = hunks].hunks = hunks
<1>1. PICK new : new = [file EXCEPT !.hunks = hunks]
    OBVIOUS
<1>2. DOMAIN file = FileFields
    BY DEF Named
<1>3. /\ DOMAIN new = FileFields /\ new.path = file.path /\ new.old = file.old
      /\ new.status = file.status /\ new.binary = file.binary /\ new.hunks = hunks
    BY <1>1, <1>2 DEF FileFields
<1>4. StatusOf(new) = StatusOf(file)
    BY <1>3 DEF StatusOf
<1>5. Named(new, s)
    BY <1>3, <1>4 DEF Named
<1> QED
    BY <1>1, <1>3, <1>5

LEMMA LineIs ==
    ASSUME NEW x \in RawLine, NEW rest \in Seq(RawLine), raw = <<x>> \o rest
    PROVE  raw # <<>> /\ Line = x /\ Tail(raw) = rest
BY OneLine DEF Line

LineKinds == {"+", "-", " ", "+++", "---"}
Notes == {"new file", "deleted file", "rename from", "rename to", "binary"}

\* What is done with a line, and nothing else; or the diff is refused.
LEMMA WhatIsDone ==
    ASSUME readPc = "reading", raw # <<>>, ReaderNext
    PROVE  \/ readPc' = "refused" /\ diff' = diff
           \/ /\ readPc' = "reading" /\ diff' = diff /\ raw' = Tail(raw)
              /\ InHunk /\ Line.is = "\\" => SkipsNote
              /\ InHunk /\ Line.is \in LineKinds => ReadsLine
              /\ ~InHunk /\ Line.is = "diff" => DiffHeader
              /\ ~InHunk /\ Line.is = "---" => OldHeader
              /\ ~InHunk /\ Line.is = "+++" /\ files # <<>> => NewHeader
              /\ ~InHunk /\ Line.is \in Notes /\ files # <<>> => FileNote
              /\ ~InHunk /\ Line.is = "@@" /\ files # <<>> => HunkHeader
              /\ ~InHunk /\ Line.is = "\\" => Passed
<1>1. CASE Empty \/ UnsafeHeader
    BY <1>1 DEF Empty, UnsafeHeader, Refused
<1>2. CASE SkipsNote
    BY <1>2 DEF SkipsNote, NextLine, LineKinds
<1>3. CASE ReadsLine
    BY <1>3 DEF ReadsLine, NextLine
<1>4. CASE DiffHeader
    BY <1>4 DEF DiffHeader, NextLine, Header, LineKinds, Notes
<1>5. CASE OldHeader
    BY <1>5 DEF OldHeader, NextLine, Header, LineKinds, Notes
<1>6. CASE NewHeader
    BY <1>6 DEF NewHeader, NextLine, Header, LineKinds, Notes
<1>7. CASE FileNote
    BY <1>7 DEF FileNote, NextLine, Header, LineKinds, Notes
<1>8. CASE HunkHeader
    BY <1>8 DEF HunkHeader, NextLine, Header, LineKinds, Notes
<1>9. CASE Passed
    BY <1>9 DEF Passed, NextLine, Header, LineKinds, Notes
<1>10. CASE ReadFiles
    BY <1>10 DEF ReadFiles
<1> QED
    BY <1>1, <1>2, <1>3, <1>4, <1>5, <1>6, <1>7, <1>8, <1>9, <1>10 DEF ReaderNext

RestOf(d, k, h) == HunksAfter(d[k], h) \o TextAfter(d, k)
NumberAt(the, j) ==
    << the.old + Count(SubSeq(the.lines, 1, j), "+"), the.new + Count(SubSeq(the.lines, 1, j), "-") >>
LeftAt(the, j) ==
    << Count(the.lines, "+") + the.short - Count(SubSeq(the.lines, 1, j), "+"),
       Count(the.lines, "-") + the.short - Count(SubSeq(the.lines, 1, j), "-") >>
HunkRest(d, k, h, j) ==
    After(d[k].hunks[h].lines, j) \o (EndNote(d[k].hunks[h]) \o RestOf(d, k, h))

\* A file after "rename from" or its like, and after "---".
Marked(s) ==
    [path |-> s.path, old |-> IF s.status = "renamed" THEN s.old ELSE NoPath,
     status |-> s.status, binary |-> FALSE, hunks |-> <<>>]
OldSided(s) ==
    [path |-> IF s.git THEN s.path ELSE NoPath, old |-> OldName(s),
     status |-> IF s.git \/ s.status = "added" THEN s.status ELSE "modified",
     binary |-> FALSE, hunks |-> <<>>]

\* Nothing that is left belongs to the hunk that is open.
Settled == raw # <<>> => ~InHunk

AtSection(d, k) ==
    /\ FilesTo(d, k) /\ (k > 0 => IsRead(files[k], d[k]))
    /\ raw = TextAfter(d, k) /\ Settled
AtStatus(d, k) ==
    /\ FilesTo(d, k) /\ ~hunk /\ d[k].git /\ d[k].status # "modified"
    /\ files[k] = NewFile(d[k].path)
    /\ raw = StatusLines(d[k]) \o (SideLines(d[k]) \o Behind(d, k))
AtRename(d, k) ==
    /\ FilesTo(d, k) /\ ~hunk /\ d[k].git /\ d[k].status = "renamed"
    /\ files[k] = Marked(d[k])
    /\ raw = <<Names("rename to", d[k].path)>> \o (SideLines(d[k]) \o Behind(d, k))
AtSides(d, k) ==
    /\ FilesTo(d, k) /\ ~hunk /\ d[k].git
    /\ d[k].binary \/ d[k].hunks # <<>>
    /\ files[k] = Marked(d[k])
    /\ raw = SideLines(d[k]) \o Behind(d, k)
AtNewSide(d, k) ==
    /\ FilesTo(d, k) /\ ~hunk /\ ~d[k].binary /\ d[k].hunks # <<>>
    /\ files[k] = OldSided(d[k])
    /\ raw = <<Names("+++", NewName(d[k]))>> \o Behind(d, k)
AtHunk(d, k, h) ==
    /\ FilesTo(d, k) /\ SoFar(files[k], d[k], h) /\ h < Len(d[k].hunks)
    /\ raw = RestOf(d, k, h) /\ Settled
InLines(d, k, h, j) ==
    /\ FilesTo(d, k) /\ Named(files[k], d[k]) /\ files[k].hunks = HunksTo(d[k], h, j)
    /\ hunk
    /\ j < Len(d[k].hunks[h].lines) \/ d[k].hunks[h].eof
    /\ number = NumberAt(d[k].hunks[h], j) /\ left = LeftAt(d[k].hunks[h], j)
    /\ raw = HunkRest(d, k, h, j)

Stages(d) ==
    \/ \E k \in 0..Len(d) : AtSection(d, k)
    \/ \E k \in 1..Len(d) : AtStatus(d, k) \/ AtRename(d, k) \/ AtSides(d, k) \/ AtNewSide(d, k)
    \/ \E k \in 1..Len(d) : \E h \in 0..Len(d[k].hunks) : AtHunk(d, k, h)
    \/ \E k \in 1..Len(d) : \E h \in 1..Len(d[k].hunks) :
         \E j \in 0..Len(d[k].hunks[h].lines) : InLines(d, k, h, j)

-----------------------------------------------------------------------------
(* Where reading arrives.                                                  *)

LEMMA RestIsText ==
    ASSUME NEW d \in Diffs, NEW k \in 1..Len(d), NEW h \in 0..Len(d[k].hunks)
    PROVE  /\ RestOf(d, k, h) \in Seq(RawLine)
           /\ RestOf(d, k, 0) = Behind(d, k)
           /\ h = Len(d[k].hunks) => RestOf(d, k, h) = TextAfter(d, k)
           /\ Known(d[k]) /\ IsSection(d[k])
           /\ SideLines(d[k]) \in Seq(RawLine) /\ Behind(d, k) \in Seq(RawLine)
           /\ SideLines(d[k]) \o Behind(d, k) \in Seq(RawLine)
<1>1. Known(d[k]) /\ IsSection(d[k]) /\ k \in 0..Len(d)
    BY SectionsAreKnown DEF Known
<1>2. TextAfter(d, k) \in Seq(RawLine)
    BY <1>1, TextAfterIsText
<1>3. 0 \in 0..Len(d[k].hunks)
    BY <1>1, HunksOfSection
<1>4. HunksAfter(d[k], h) \in Seq(RawLine) /\ HunksAfter(d[k], 0) \in Seq(RawLine)
    BY <1>1, <1>3, HunksAfterAreText
<1>5. \A a, b \in Seq(RawLine) : a \o b \in Seq(RawLine)
    BY ConcatProperties
<1>6. RestOf(d, k, h) \in Seq(RawLine) /\ Behind(d, k) \in Seq(RawLine)
    BY <1>2, <1>4, <1>5 DEF RestOf, Behind
<1>7. ASSUME h = Len(d[k].hunks) PROVE RestOf(d, k, h) = TextAfter(d, k)
    <2>1. HunksAfter(d[k], h) = <<>>
        BY <1>1, <1>7, HunksAfterAreText
    <2>2. \A a \in Seq(RawLine) : <<>> \o a = a
        BY ConcatEmptySeq
    <2> QED
        BY <1>2, <2>1, <2>2 DEF RestOf
<1>8. SideLines(d[k]) \in Seq(RawLine)
    BY <1>1, HeadLinesAreRaw
<1>9. SideLines(d[k]) \o Behind(d, k) \in Seq(RawLine)
    BY <1>5, <1>6, <1>8
<1>10. RestOf(d, k, 0) = Behind(d, k)
    BY DEF RestOf, Behind
<1> QED
    BY <1>1, <1>6, <1>7, <1>8, <1>9, <1>10

\* A hunk is over, or the headings are.
LEMMA HunkIsOver ==
    ASSUME NEW d \in Diffs, NEW k \in 1..Len(d), NEW h \in 0..Len(d[k].hunks),
           FilesTo(d, k)', SoFar(files'[k], d[k], h), raw' = RestOf(d, k, h),
           hunk' => left' = <<0, 0>> \/ (d[k].git /\ h = Len(d[k].hunks))
    PROVE  Stages(d)'
<1>1. /\ Known(d[k]) /\ IsSection(d[k]) /\ Len(d[k].hunks) \in Nat /\ Len(d) \in Nat
      /\ h = Len(d[k].hunks) => raw' = TextAfter(d, k)
    BY RestIsText, HunksOfSection, SectionsAreKnown
<1>2. ASSUME ~(hunk' /\ left' # <<0, 0>>) PROVE Settled'
    <2>1. left' = <<0, 0>> => ~(left'[1] > 0) /\ ~(left'[2] > 0)
        OBVIOUS
    <2> QED
        BY <1>2, <2>1 DEF Settled, InHunk
<1>3. CASE h < Len(d[k].hunks)
    <2>1. Settled'
        BY <1>1, <1>2, <1>3
    <2>2. AtHunk(d, k, h)'
        BY <1>3, <2>1 DEF AtHunk
    <2> QED
        BY <2>2 DEF Stages
<1>4. CASE h = Len(d[k].hunks)
    <2>1. raw' = TextAfter(d, k) /\ IsRead(files'[k], d[k])
        BY <1>1, <1>4 DEF IsRead
    <2>2. ASSUME hunk', left' # <<0, 0>> PROVE Settled'
        <3>1. CASE k = Len(d)
            <4>1. k \in 0..Len(d)
                BY <1>1
            <4>2. raw' = <<>>
                BY <2>1, <3>1, <4>1, TextAfterIsText
            <4> QED
                BY <4>2 DEF Settled
        <3>2. CASE k # Len(d)
            <4>1. k \in 0..Len(d) /\ k < Len(d) /\ k + 1 \in 1..Len(d)
                BY <1>1, <3>2
            <4>2. d[k + 1].git
                BY <2>2, <4>1, SectionsAreKnown
            <4>3. PICK x, rest : /\ x = Names("diff", d[k + 1].path)
                                 /\ rest = StatusLines(d[k + 1]) \o (SideLines(d[k + 1]) \o Behind(d, k + 1))
                OBVIOUS
            <4>4. raw' = <<x>> \o rest
                BY <2>1, <4>1, <4>2, <4>3, NextSection
            <4>5. x \in RawLine /\ x.is = "diff" /\ rest \in Seq(RawLine)
                <5>1. Known(d[k + 1])
                    BY <4>1, SectionsAreKnown
                <5>2. x \in RawLine /\ StatusLines(d[k + 1]) \in Seq(RawLine)
                    BY <4>3, <5>1, HeadLinesAreRaw
                <5>3. x.is = "diff"
                    BY <4>3 DEF Names, Is
                <5>4. 0 \in 0..Len(d[k + 1].hunks)
                    BY <5>1, HunksOfSection DEF Known
                <5>5. SideLines(d[k + 1]) \o Behind(d, k + 1) \in Seq(RawLine)
                    BY <4>1, <5>4, RestIsText
                <5>6. \A a, b \in Seq(RawLine) : a \o b \in Seq(RawLine)
                    BY ConcatProperties
                <5> QED
                    BY <4>3, <5>2, <5>3, <5>5, <5>6
            <4>6. raw'[1] = x
                BY <4>4, <4>5, OneLine
            <4> QED
                BY <4>5, <4>6 DEF Settled, InHunk, Line
        <3> QED
            BY <3>1, <3>2
    <2>3. Settled'
        BY <1>2, <2>2
    <2>4. AtSection(d, k)'
        BY <2>1, <2>3 DEF AtSection
    <2>5. k \in 0..Len(d)
        BY <1>1
    <2> QED
        BY <2>4, <2>5 DEF Stages
<1> QED
    BY <1>1, <1>3, <1>4

\* The sides of a file of "git diff" come next, if it has any.
LEMMA SidesAreNext ==
    ASSUME NEW d \in Diffs, NEW k \in 1..Len(d), d[k].git,
           FilesTo(d, k)', files'[k] = Marked(d[k]), ~hunk',
           raw' = SideLines(d[k]) \o Behind(d, k)
    PROVE  Stages(d)'
<1>1. CASE d[k].binary \/ d[k].hunks # <<>>
    <2>1. AtSides(d, k)'
        BY <1>1 DEF AtSides
    <2> QED
        BY <2>1 DEF Stages
<1>2. CASE ~d[k].binary /\ d[k].hunks = <<>>
    <2>1. Len(d[k].hunks) = 0 /\ 0 \in 0..Len(d[k].hunks)
        BY <1>2
    <2>2. raw' = RestOf(d, k, 0)
        <3>1. SideLines(d[k]) = <<>>
            BY <1>2 DEF SideLines
        <3>2. \A a \in Seq(RawLine) : <<>> \o a = a
            BY ConcatEmptySeq
        <3> QED
            BY <2>1, <3>1, <3>2, RestIsText
    <2>3. SoFar(files'[k], d[k], 0)
        <3>1. IsSection(d[k])
            BY <2>1, RestIsText
        <3>2. PICK s : s = d[k]
            OBVIOUS
        <3>3. /\ s.path # NoPath /\ (s.status = "renamed" <=> s.old # s.path)
              /\ ~s.binary /\ s.binary \in BOOLEAN /\ s.old # NoPath
            BY <1>2, <3>1, <3>2 DEF IsSection
        <3>4. Named(Marked(s), s)
            <4>1. DOMAIN Marked(s) = FileFields /\ Marked(s).path = s.path
                BY DEF Marked, FileFields
            <4>2. Marked(s).binary = s.binary
                BY <3>3 DEF Marked
            <4>3. StatusOf(Marked(s)) = s.status
                BY <3>3 DEF Marked, StatusOf
            <4> QED
                BY <4>1, <4>2, <4>3 DEF Named
        <3>5. Marked(s).hunks = [i \in 1..0 |-> NumberedHunk(s.hunks[i])]
            BY DEF Marked
        <3> QED
            BY <3>2, <3>4, <3>5 DEF SoFar
    <2> QED
        BY <2>1, <2>2, <2>3, HunkIsOver
<1> QED
    BY <1>1, <1>2

\* There is a line, and it is read or the diff refused.
Moves(d) == raw # <<>> /\ diff' = d /\ (readPc' = "refused" \/ (readPc' = "reading" /\ Stages(d)'))

LEMMA FileAtHand ==
    ASSUME NEW d, NEW k \in Nat \ {0}, FilesTo(d, k)
    PROVE  files # <<>> /\ Current = files[k]
<1>1. Len(files) = k /\ Len(<<>>) = 0
    BY DEF FilesTo
<1> QED
    BY <1>1 DEF Current

\* What is behind a section's headings, and what the file at hand is.
LEMMA SectionIs ==
    ASSUME NEW s, IsSection(s)
    PROVE  /\ s.path # NoPath /\ s.old # NoPath
           /\ s.status \in {"modified", "added", "removed", "renamed"}
           /\ (s.status = "renamed" <=> s.old # s.path)
           /\ s.git \in BOOLEAN /\ s.binary \in BOOLEAN
           /\ s.binary => s.hunks = <<>>
           /\ ~s.git => s.hunks # <<>>
           /\ OldName(s) = (IF s.status = "added" THEN NoPath ELSE s.old)
           /\ NewName(s) = (IF s.status = "removed" THEN NoPath ELSE s.path)
BY DEF IsSection, OldName, NewName

LEMMA SectionMoves ==
    ASSUME NEW d \in Diffs, NEW k \in 0..Len(d), AtSection(d, k),
           diff = d, readPc = "reading", raw # <<>>, ReaderNext
    PROVE  Moves(d)
<1>1. k < Len(d) /\ Len(d) \in Nat /\ k \in Nat
    BY SectionsAreKnown, TextAfterIsText DEF AtSection
<1>2. k + 1 \in 1..Len(d) /\ k + 1 \in Nat \ {0}
    BY <1>1
<1>3. PICK s : s = d[k + 1]
    OBVIOUS
<1>4. Known(s) /\ IsSection(s)
    BY <1>2, <1>3, SectionsAreKnown DEF Known
<1>5. ~InHunk /\ FilesTo(d, k) /\ (k > 0 => IsRead(files[k], d[k])) /\ raw = TextAfter(d, k)
    BY DEF AtSection, Settled
<1>6. SUFFICES ASSUME readPc' # "refused" PROVE Moves(d)
    BY WhatIsDone DEF Moves
<1>7. PICK sides : sides = SideLines(s) \o Behind(d, k + 1)
    OBVIOUS
<1>8. sides \in Seq(RawLine) /\ Behind(d, k + 1) \in Seq(RawLine)
    <2>1. 0 \in 0..Len(d[k + 1].hunks)
        BY <1>3, <1>4, HunksOfSection
    <2> QED
        BY <1>2, <1>3, <1>7, <2>1, RestIsText
<1>9. CASE s.git
    <2>1. PICK x, rest : x = Names("diff", s.path) /\ rest = StatusLines(s) \o sides
        OBVIOUS
    <2>2. raw = <<x>> \o rest
        BY <1>1, <1>3, <1>5, <1>7, <1>9, <2>1, NextSection
    <2>3. x \in RawLine /\ rest \in Seq(RawLine) /\ x.is = "diff" /\ x.path = s.path
        <3>1. x \in RawLine /\ StatusLines(s) \in Seq(RawLine)
            BY <1>4, <2>1, HeadLinesAreRaw
        <3>2. \A a, b \in Seq(RawLine) : a \o b \in Seq(RawLine)
            BY ConcatProperties
        <3>3. x.is = "diff" /\ x.path = s.path
            BY <2>1 DEF Names, Is
        <3> QED
            BY <1>8, <2>1, <3>1, <3>2, <3>3
    <2>4. Line = x /\ Tail(raw) = rest
        BY <2>2, <2>3, LineIs
    <2>5. DiffHeader /\ raw' = rest /\ readPc' = "reading" /\ diff' = d
        BY <1>5, <1>6, <2>3, <2>4, WhatIsDone
    <2>6. files' = Append(files, NewFile(s.path)) /\ ~hunk'
        BY <2>3, <2>4, <2>5 DEF DiffHeader, Closes
    <2>7. FilesTo(d, k + 1)' /\ files'[k + 1] = NewFile(s.path)
        BY <1>1, <1>5, <2>6, FileComes
    <2>8. CASE s.status # "modified"
        <3>1. AtStatus(d, k + 1)'
            BY <1>3, <1>7, <1>9, <2>1, <2>5, <2>6, <2>7, <2>8 DEF AtStatus
        <3> QED
            BY <1>2, <2>5, <3>1 DEF Moves, Stages
    <2>9. CASE s.status = "modified"
        <3>1. StatusLines(s) = <<>>
            BY <2>9 DEF StatusLines
        <3>2. raw' = sides
            <4>1. \A a \in Seq(RawLine) : <<>> \o a = a
                BY ConcatEmptySeq
            <4> QED
                BY <1>8, <2>1, <2>5, <3>1, <4>1
        <3>3. NewFile(s.path) = Marked(s)
            BY <2>9 DEF NewFile, Marked
        <3>4. Stages(d)'
            BY <1>2, <1>3, <1>7, <1>9, <2>6, <2>7, <3>2, <3>3, SidesAreNext
        <3> QED
            BY <2>5, <3>4 DEF Moves
    <2> QED
        BY <2>8, <2>9
<1>10. CASE ~s.git
    <2>1. PICK x, rest : x = Names("---", OldName(s)) /\ rest = <<Names("+++", NewName(s))>> \o Behind(d, k + 1)
        OBVIOUS
    <2>2. raw = <<x>> \o rest
        BY <1>1, <1>3, <1>5, <1>10, <2>1, NextSection
    <2>3. x \in RawLine /\ rest \in Seq(RawLine) /\ x.is = "---" /\ x.path = OldName(s)
        <3>1. x \in RawLine /\ Names("+++", NewName(s)) \in RawLine
            BY <1>4, <2>1, HeadLinesAreRaw
        <3>2. x.is = "---" /\ x.path = OldName(s)
            BY <2>1 DEF Names, Is
        <3> QED
            BY <1>8, <2>1, <3>1, <3>2, OneLine
    <2>4. Line = x /\ Tail(raw) = rest
        BY <2>2, <2>3, LineIs
    <2>5. OldHeader /\ raw' = rest /\ readPc' = "reading" /\ diff' = d
        BY <1>5, <1>6, <2>3, <2>4, WhatIsDone
    <2>6. files = <<>> \/ Current.hunks # <<>>
        <3>1. CASE k = 0
            <4>1. IsSeq(files) /\ Len(files) = 0
                BY <1>5, <3>1 DEF FilesTo
            <4> QED
                BY <4>1, EmptySeq DEF IsSeq
        <3>2. CASE k # 0
            <4>1. k \in 1..Len(d) /\ k \in Nat \ {0}
                BY <1>1, <3>2
            <4>2. Known(d[k]) /\ ~d[k].git
                BY <1>2, <1>3, <1>10, <4>1, SectionsAreKnown
            <4>3. d[k].hunks # <<>> /\ Len(d[k].hunks) \in Nat
                BY <4>2, HunksOfSection DEF Known, IsSection
            <4>4. Len(d[k].hunks) # 0
                <5>1. d[k].hunks \in Seq({d[k].hunks[i] : i \in DOMAIN d[k].hunks})
                    BY <4>2 DEF Known, IsSection
                <5> QED
                    BY <4>3, <5>1, EmptySeq
            <4>5. Current = files[k] /\ IsRead(files[k], d[k])
                BY <1>1, <1>5, <4>1, FileAtHand
            <4>6. DOMAIN Current.hunks = 1..Len(d[k].hunks)
                BY <4>5 DEF IsRead, SoFar
            <4>7. 1 \in DOMAIN Current.hunks
                BY <4>3, <4>4, <4>6
            <4> QED
                BY <4>7
        <3> QED
            BY <3>1, <3>2
    <2>7. files' = Append(files, OldSide(NewFile(NoPath))) /\ ~hunk'
        BY <2>5, <2>6 DEF OldHeader, Closes
    <2>8. OldSide(NewFile(NoPath)) = OldSided(s)
        <3>1. /\ OldName(s) = (IF s.status = "added" THEN NoPath ELSE s.old) /\ s.old # NoPath
            BY <1>4, SectionIs
        <3>2. CASE s.status = "added"
            BY <1>10, <2>3, <2>4, <3>1, <3>2 DEF OldSide, NewFile, OldSided
        <3>3. CASE s.status # "added"
            BY <1>10, <2>3, <2>4, <3>1, <3>3 DEF OldSide, NewFile, OldSided
        <3> QED
            BY <3>2, <3>3
    <2>9. FilesTo(d, k + 1)' /\ files'[k + 1] = OldSided(s)
        BY <1>1, <1>5, <2>7, <2>8, FileComes
    <2>10. AtNewSide(d, k + 1)'
        <3>1. ~s.binary /\ s.hunks # <<>>
            BY <1>4, <1>10, SectionIs
        <3> QED
            BY <1>3, <2>1, <2>5, <2>7, <2>9, <3>1 DEF AtNewSide
    <2> QED
        BY <1>2, <2>5, <2>10 DEF Moves, Stages
<1>11. s.git \in BOOLEAN
    BY <1>4, SectionIs
<1> QED
    BY <1>9, <1>10, <1>11

LEMMA RenameMoves ==
    ASSUME NEW d \in Diffs, NEW k \in 1..Len(d), AtRename(d, k),
           diff = d, readPc = "reading", ReaderNext
    PROVE  Moves(d)
<1>1. PICK s : s = d[k]
    OBVIOUS
<1>2. Known(s) /\ IsSection(s) /\ k \in Nat \ {0} /\ Len(s.hunks) \in Nat
    BY <1>1, SectionsAreKnown, HunksOfSection DEF Known
<1>3. PICK x, rest : x = Names("rename to", s.path) /\ rest = SideLines(s) \o Behind(d, k)
    OBVIOUS
<1>4. raw = <<x>> \o rest /\ FilesTo(d, k) /\ ~hunk /\ s.git /\ s.status = "renamed" /\ files[k] = Marked(s)
    BY <1>1, <1>3 DEF AtRename
<1>5. x \in RawLine /\ rest \in Seq(RawLine) /\ x.is = "rename to" /\ x.path = s.path
    <2>1. 0 \in 0..Len(d[k].hunks)
        BY <1>1, <1>2
    <2>2. rest \in Seq(RawLine)
        BY <1>1, <1>3, <2>1, RestIsText
    <2>3. x.is = "rename to" /\ x.path = s.path
        BY <1>3 DEF Names, Is
    <2> QED
        BY <1>2, <1>3, <2>2, <2>3, HeadLinesAreRaw
<1>6. raw # <<>> /\ Line = x /\ Tail(raw) = rest
    BY <1>4, <1>5, LineIs
<1>7. files # <<>> /\ Current = Marked(s)
    BY <1>2, <1>4, FileAtHand
<1>8. SUFFICES ASSUME readPc' # "refused" PROVE Moves(d)
    BY <1>6, WhatIsDone DEF Moves
<1>9. FileNote /\ raw' = rest /\ readPc' = "reading" /\ diff' = d
    <2>1. ~InHunk /\ Line.is \in Notes
        BY <1>4, <1>5, <1>6 DEF InHunk, Notes
    <2> QED
        BY <1>6, <1>7, <1>8, <2>1, WhatIsDone
<1>10. CurrentIs(Marked(s)) /\ ~hunk'
    <2>1. WithNote(Marked(s)) = Marked(s)
        <3>1. WithNote(Marked(s)) = [Marked(s) EXCEPT !.path = s.path]
            BY <1>5, <1>6 DEF WithNote
        <3> QED
            BY <3>1 DEF Marked
    <2> QED
        BY <1>7, <1>9, <2>1 DEF FileNote, Closes
<1>11. FilesTo(d, k)' /\ files'[k] = Marked(s)
    BY <1>2, <1>4, <1>10, FileChanges
<1>12. Stages(d)'
    BY <1>1, <1>3, <1>4, <1>9, <1>10, <1>11, SidesAreNext
<1> QED
    BY <1>6, <1>9, <1>12 DEF Moves

LEMMA StatusMoves ==
    ASSUME NEW d \in Diffs, NEW k \in 1..Len(d), AtStatus(d, k),
           diff = d, readPc = "reading", ReaderNext
    PROVE  Moves(d)
<1>1. PICK s : s = d[k]
    OBVIOUS
<1>2. Known(s) /\ IsSection(s) /\ k \in Nat \ {0} /\ Len(s.hunks) \in Nat
    BY <1>1, SectionsAreKnown, HunksOfSection DEF Known
<1>3. PICK sides : sides = SideLines(s) \o Behind(d, k) /\ sides \in Seq(RawLine)
    <2>1. 0 \in 0..Len(d[k].hunks)
        BY <1>1, <1>2
    <2> QED
        BY <1>1, <2>1, RestIsText
<1>4. /\ raw = StatusLines(s) \o sides /\ FilesTo(d, k) /\ ~hunk /\ s.git /\ s.status # "modified"
      /\ files[k] = NewFile(s.path)
    BY <1>1, <1>3 DEF AtStatus
<1>5. files # <<>> /\ Current = NewFile(s.path)
    BY <1>2, <1>4, FileAtHand
<1>6. ASSUME NEW x \in RawLine, NEW rest \in Seq(RawLine), raw = <<x>> \o rest, x.is \in Notes,
             readPc' # "refused"
      PROVE  /\ raw # <<>> /\ FileNote /\ raw' = rest /\ readPc' = "reading" /\ diff' = d /\ Line = x
             /\ ~hunk' /\ FilesTo(d, k)' /\ files'[k] = WithNote(NewFile(s.path))
    <2>1. raw # <<>> /\ Line = x /\ Tail(raw) = rest
        BY <1>6, LineIs
    <2>2. FileNote /\ raw' = rest /\ readPc' = "reading" /\ diff' = d
        BY <1>4, <1>5, <1>6, <2>1, WhatIsDone DEF InHunk
    <2>3. CurrentIs(WithNote(NewFile(s.path))) /\ ~hunk'
        BY <1>5, <2>2 DEF FileNote, Closes
    <2>4. FilesTo(d, k)' /\ files'[k] = WithNote(NewFile(s.path))
        BY <1>2, <1>4, <2>3, FileChanges
    <2> QED
        BY <2>1, <2>2, <2>3, <2>4
<1>7. ASSUME NEW x \in RawLine, NEW rest \in Seq(RawLine), raw = <<x>> \o rest, readPc' = "refused"
      PROVE  Moves(d)
    <2>1. raw # <<>>
        BY <1>7, LineIs
    <2> QED
        BY <1>7, <2>1, WhatIsDone DEF Moves
<1>8. CASE s.status \in {"added", "removed"}
    <2>1. PICK x : x = Is(IF s.status = "added" THEN "new file" ELSE "deleted file")
        OBVIOUS
    <2>2. x \in RawLine /\ x.is = (IF s.status = "added" THEN "new file" ELSE "deleted file")
        BY <1>2, <2>1, HeadLinesAreRaw DEF Is
    <2>3. raw = <<x>> \o sides
        <3>1. StatusLines(s) = <<x>>
            BY <1>4, <1>8, <2>1 DEF StatusLines
        <3> QED
            BY <1>4, <3>1
    <2>4. x.is \in Notes
        BY <2>2 DEF Notes
    <2>5. SUFFICES ASSUME readPc' # "refused" PROVE Moves(d)
        BY <1>3, <1>7, <2>2, <2>3
    <2>6. /\ raw # <<>> /\ raw' = sides /\ readPc' = "reading" /\ diff' = d /\ Line = x
          /\ ~hunk' /\ FilesTo(d, k)' /\ files'[k] = WithNote(NewFile(s.path))
        BY <1>3, <1>6, <2>2, <2>3, <2>4, <2>5
    <2>7. WithNote(NewFile(s.path)) = Marked(s)
        <3>1. CASE s.status = "added"
            BY <2>2, <2>6, <3>1 DEF WithNote, NewFile, Marked
        <3>2. CASE s.status = "removed"
            BY <2>2, <2>6, <3>2 DEF WithNote, NewFile, Marked
        <3> QED
            BY <1>8, <3>1, <3>2
    <2>8. Stages(d)'
        BY <1>1, <1>3, <1>4, <2>6, <2>7, SidesAreNext
    <2> QED
        BY <2>6, <2>8 DEF Moves
<1>9. CASE s.status = "renamed"
    <2>1. PICK x, y : x = Names("rename from", s.old) /\ y = Names("rename to", s.path)
        OBVIOUS
    <2>2. x \in RawLine /\ y \in RawLine /\ x.is = "rename from" /\ x.path = s.old
        <3>1. x \in RawLine /\ y \in RawLine
            BY <1>2, <2>1, HeadLinesAreRaw
        <3> QED
            BY <2>1, <3>1 DEF Names, Is
    <2>3. <<y>> \o sides \in Seq(RawLine)
        BY <1>3, <2>2, OneLine
    <2>4. raw = <<x>> \o (<<y>> \o sides)
        <3>1. StatusLines(s) = <<x>> \o <<y>> /\ <<x>> \in Seq(RawLine) /\ <<y>> \in Seq(RawLine)
            <4>1. StatusLines(s) = <<x, y>>
                BY <1>4, <1>9, <2>1 DEF StatusLines
            <4> QED
                BY <2>2, <4>1, OneOrTwo
        <3>2. raw = (<<x>> \o <<y>>) \o sides
            BY <1>4, <3>1
        <3>3. PICK a, b : a = <<x>> /\ b = <<y>>
            OBVIOUS
        <3>4. a \in Seq(RawLine) /\ b \in Seq(RawLine) /\ sides \in Seq(RawLine)
            BY <1>3, <3>1, <3>3
        <3>5. Join(Join(a, b), sides) = Join(a, Join(b, sides))
            BY <3>4, JoinRegrouped
        <3> QED
            BY <3>2, <3>3, <3>5, Zenon DEF Join
    <2>5. x.is \in Notes
        BY <2>2 DEF Notes
    <2>6. SUFFICES ASSUME readPc' # "refused" PROVE Moves(d)
        BY <1>7, <2>2, <2>3, <2>4
    <2>7. /\ raw # <<>> /\ raw' = <<y>> \o sides /\ readPc' = "reading" /\ diff' = d /\ Line = x
          /\ ~hunk' /\ FilesTo(d, k)' /\ files'[k] = WithNote(NewFile(s.path))
        BY <1>6, <2>2, <2>3, <2>4, <2>5, <2>6
    <2>8. WithNote(NewFile(s.path)) = Marked(s)
        BY <1>9, <2>2, <2>7 DEF WithNote, NewFile, Marked
    <2>9. AtRename(d, k)'
        BY <1>1, <1>3, <1>4, <1>9, <2>1, <2>7, <2>8 DEF AtRename
    <2> QED
        BY <2>7, <2>9 DEF Moves, Stages
<1> QED
    BY <1>2, <1>4, <1>8, <1>9, SectionIs

\* The headings are read, of a file with nothing read of its hunks.
LEMMA HeadingsAreOver ==
    ASSUME NEW d \in Diffs, NEW k \in 1..Len(d), FilesTo(d, k)', Named(files'[k], d[k]),
           files'[k].hunks = <<>>, ~hunk', raw' = Behind(d, k)
    PROVE  Stages(d)'
<1>1. 0 \in 0..Len(d[k].hunks)
    BY SectionsAreKnown, HunksOfSection DEF Known
<1>2. SoFar(files'[k], d[k], 0)
    BY DEF SoFar
<1>3. raw' = RestOf(d, k, 0)
    BY <1>1, RestIsText
<1> QED
    BY <1>1, <1>2, <1>3, HunkIsOver

LEMMA SidesMoves ==
    ASSUME NEW d \in Diffs, NEW k \in 1..Len(d), AtSides(d, k),
           diff = d, readPc = "reading", ReaderNext
    PROVE  Moves(d)
<1>1. PICK s : s = d[k]
    OBVIOUS
<1>2. Known(s) /\ IsSection(s) /\ k \in Nat \ {0} /\ Len(s.hunks) \in Nat
    BY <1>1, SectionsAreKnown, HunksOfSection DEF Known
<1>3. Behind(d, k) \in Seq(RawLine)
    <2>1. 0 \in 0..Len(d[k].hunks)
        BY <1>1, <1>2
    <2> QED
        BY <2>1, RestIsText
<1>4. /\ raw = SideLines(s) \o Behind(d, k) /\ FilesTo(d, k) /\ ~hunk /\ s.git
      /\ s.binary \/ s.hunks # <<>>
      /\ files[k] = Marked(s)
    BY <1>1 DEF AtSides
<1>5. files # <<>> /\ Current = Marked(s)
    BY <1>2, <1>4, FileAtHand
<1>6. ASSUME NEW x \in RawLine, NEW rest \in Seq(RawLine), raw = <<x>> \o rest, readPc' = "refused"
      PROVE  Moves(d)
    <2>1. raw # <<>>
        BY <1>6, LineIs
    <2> QED
        BY <1>6, <2>1, WhatIsDone DEF Moves
<1>7. CASE s.binary
    <2>1. PICK x : x = Is("binary")
        OBVIOUS
    <2>2. x \in RawLine /\ x.is = "binary"
        BY <1>2, <2>1, HeadLinesAreRaw DEF Is
    <2>3. raw = <<x>> \o Behind(d, k)
        BY <1>4, <1>7, <2>1 DEF SideLines
    <2>4. SUFFICES ASSUME readPc' # "refused" PROVE Moves(d)
        BY <1>3, <1>6, <2>2, <2>3
    <2>5. raw # <<>> /\ Line = x /\ Tail(raw) = Behind(d, k)
        BY <1>3, <2>2, <2>3, LineIs
    <2>6. FileNote /\ raw' = Behind(d, k) /\ readPc' = "reading" /\ diff' = d
        BY <1>4, <1>5, <2>2, <2>4, <2>5, WhatIsDone DEF InHunk, Notes
    <2>7. CurrentIs(WithNote(Marked(s))) /\ ~hunk'
        BY <1>5, <2>6 DEF FileNote, Closes
    <2>8. FilesTo(d, k)' /\ files'[k] = WithNote(Marked(s))
        BY <1>2, <1>4, <2>7, FileChanges
    <2>9. Named(files'[k], s) /\ files'[k].hunks = <<>>
        <3>1. PICK new : new = WithNote(Marked(s))
            OBVIOUS
        <3>2. new = [path |-> s.path, old |-> IF s.status = "renamed" THEN s.old ELSE NoPath,
                     status |-> s.status, binary |-> TRUE, hunks |-> <<>>]
            BY <2>2, <2>5, <3>1 DEF WithNote, Marked
        <3>3. /\ DOMAIN new = FileFields /\ new.path = s.path /\ new.binary = TRUE /\ new.hunks = <<>>
              /\ new.status = s.status /\ new.old = (IF s.status = "renamed" THEN s.old ELSE NoPath)
            BY <3>2 DEF FileFields
        <3>4. StatusOf(new) = s.status
            BY <3>3 DEF StatusOf
        <3>5. new.binary = s.binary
            BY <1>2, <1>7, <3>3, SectionIs
        <3> QED
            BY <2>8, <3>1, <3>3, <3>4, <3>5 DEF Named
    <2>10. Stages(d)'
        BY <1>1, <2>6, <2>7, <2>8, <2>9, HeadingsAreOver
    <2> QED
        BY <2>5, <2>6, <2>10 DEF Moves
<1>8. CASE ~s.binary
    <2>1. PICK x, y : x = Names("---", OldName(s)) /\ y = Names("+++", NewName(s))
        OBVIOUS
    <2>2. x \in RawLine /\ y \in RawLine /\ x.is = "---" /\ x.path = OldName(s)
        <3>1. x \in RawLine /\ y \in RawLine
            BY <1>2, <2>1, HeadLinesAreRaw
        <3> QED
            BY <2>1, <3>1 DEF Names, Is
    <2>3. <<y>> \o Behind(d, k) \in Seq(RawLine)
        BY <1>3, <2>2, OneLine
    <2>4. raw = <<x>> \o (<<y>> \o Behind(d, k))
        <3>1. SideLines(s) = <<x>> \o <<y>> /\ <<x>> \in Seq(RawLine) /\ <<y>> \in Seq(RawLine)
            <4>1. SideLines(s) = <<x, y>>
                BY <1>4, <1>8, <2>1 DEF SideLines, OldName, NewName
            <4> QED
                BY <2>2, <4>1, OneOrTwo
        <3>2. raw = (<<x>> \o <<y>>) \o Behind(d, k)
            BY <1>4, <3>1
        <3>3. PICK a, b : a = <<x>> /\ b = <<y>>
            OBVIOUS
        <3>4. a \in Seq(RawLine) /\ b \in Seq(RawLine)
            BY <3>1, <3>3
        <3>5. Join(Join(a, b), Behind(d, k)) = Join(a, Join(b, Behind(d, k)))
            BY <1>3, <3>4, JoinRegrouped
        <3> QED
            BY <3>2, <3>3, <3>5, Zenon DEF Join
    <2>5. SUFFICES ASSUME readPc' # "refused" PROVE Moves(d)
        BY <1>6, <2>2, <2>3, <2>4
    <2>6. raw # <<>> /\ Line = x /\ Tail(raw) = <<y>> \o Behind(d, k)
        BY <2>2, <2>3, <2>4, LineIs
    <2>7. OldHeader /\ raw' = <<y>> \o Behind(d, k) /\ readPc' = "reading" /\ diff' = d
        BY <1>4, <2>2, <2>5, <2>6, WhatIsDone DEF InHunk
    <2>8. CurrentIs(OldSide(Marked(s))) /\ ~hunk'
        <3>1. Current.hunks = <<>>
            BY <1>5 DEF Marked
        <3>2. CurrentIs(OldSide(Current))
            BY <1>5, <2>7, <3>1 DEF OldHeader
        <3> QED
            BY <1>5, <2>7, <3>2 DEF OldHeader, Closes
    <2>9. OldSide(Marked(s)) = OldSided(s)
        <3>1. /\ OldName(s) = (IF s.status = "added" THEN NoPath ELSE s.old) /\ s.old # NoPath
            BY <1>2, SectionIs
        <3>2. CASE s.status = "added"
            BY <1>4, <2>2, <2>6, <3>1, <3>2 DEF OldSide, Marked, OldSided
        <3>3. CASE s.status # "added"
            BY <1>4, <2>2, <2>6, <3>1, <3>3 DEF OldSide, Marked, OldSided
        <3> QED
            BY <3>2, <3>3
    <2>10. FilesTo(d, k)' /\ files'[k] = OldSided(s)
        BY <1>2, <1>4, <2>8, <2>9, FileChanges
    <2>11. AtNewSide(d, k)'
        BY <1>1, <1>4, <1>8, <2>1, <2>7, <2>8, <2>10 DEF AtNewSide
    <2> QED
        BY <2>6, <2>7, <2>11 DEF Moves, Stages
<1> QED
    BY <1>7, <1>8

LEMMA NewSideMoves ==
    ASSUME NEW d \in Diffs, NEW k \in 1..Len(d), AtNewSide(d, k),
           diff = d, readPc = "reading", ReaderNext
    PROVE  Moves(d)
<1>1. PICK s : s = d[k]
    OBVIOUS
<1>2. Known(s) /\ IsSection(s) /\ k \in Nat \ {0} /\ Len(s.hunks) \in Nat
    BY <1>1, SectionsAreKnown, HunksOfSection DEF Known
<1>3. Behind(d, k) \in Seq(RawLine)
    <2>1. 0 \in 0..Len(d[k].hunks)
        BY <1>1, <1>2
    <2> QED
        BY <2>1, RestIsText
<1>4. PICK x : x = Names("+++", NewName(s))
    OBVIOUS
<1>5. x \in RawLine /\ x.is = "+++" /\ x.path = NewName(s)
    <2>1. x \in RawLine
        BY <1>2, <1>4, HeadLinesAreRaw
    <2> QED
        BY <1>4, <2>1 DEF Names, Is
<1>6. /\ raw = <<x>> \o Behind(d, k) /\ FilesTo(d, k) /\ ~hunk /\ ~s.binary /\ s.hunks # <<>>
      /\ files[k] = OldSided(s)
    BY <1>1, <1>4 DEF AtNewSide
<1>7. raw # <<>> /\ Line = x /\ Tail(raw) = Behind(d, k)
    BY <1>3, <1>5, <1>6, LineIs
<1>8. SUFFICES ASSUME readPc' # "refused" PROVE Moves(d)
    BY <1>7, WhatIsDone DEF Moves
<1>9. files # <<>> /\ Current = OldSided(s)
    BY <1>2, <1>6, FileAtHand
<1>10. NewHeader /\ raw' = Behind(d, k) /\ readPc' = "reading" /\ diff' = d
    BY <1>5, <1>6, <1>7, <1>8, <1>9, WhatIsDone DEF InHunk
<1>11. CurrentIs(NewSide(OldSided(s))) /\ ~hunk'
    BY <1>9, <1>10 DEF NewHeader, Closes
<1>12. FilesTo(d, k)' /\ files'[k] = NewSide(OldSided(s))
    BY <1>2, <1>6, <1>11, FileChanges
<1>13. Named(files'[k], s) /\ files'[k].hunks = <<>>
    <2>1. PICK file, new : file = OldSided(s) /\ new = NewSide(file)
        OBVIOUS
    <2>2. /\ s.path # NoPath /\ s.old # NoPath
          /\ s.status \in {"modified", "added", "removed", "renamed"}
          /\ (s.status = "renamed" <=> s.old # s.path)
          /\ s.binary = FALSE
          /\ OldName(s) = (IF s.status = "added" THEN NoPath ELSE s.old)
          /\ NewName(s) = (IF s.status = "removed" THEN NoPath ELSE s.path)
        BY <1>2, <1>6, SectionIs
    <2>3. /\ DOMAIN file = FileFields /\ file.path = (IF s.git THEN s.path ELSE NoPath)
          /\ file.old = OldName(s)
          /\ file.status = (IF s.git \/ s.status = "added" THEN s.status ELSE "modified")
          /\ file.binary = FALSE /\ file.hunks = <<>>
        BY <2>1 DEF OldSided, FileFields
    <2>4. CASE s.status = "removed"
        <3>1. new = [file EXCEPT !.status = "removed",
                                 !.path = IF file.old # NoPath THEN file.old ELSE file.path]
            BY <1>5, <1>7, <2>1, <2>2, <2>4 DEF NewSide
        <3>2. file.old = s.path /\ file.old # NoPath
            BY <2>2, <2>3, <2>4
        <3>3. /\ DOMAIN new = FileFields /\ new.path = s.path /\ new.status = "removed"
              /\ new.binary = FALSE /\ new.hunks = <<>>
            BY <2>3, <3>1, <3>2 DEF FileFields
        <3>4. StatusOf(new) = s.status
            BY <2>4, <3>3 DEF StatusOf
        <3> QED
            BY <1>12, <2>1, <2>2, <3>3, <3>4 DEF Named
    <2>5. CASE s.status # "removed"
        <3>1. new = [file EXCEPT !.path = s.path]
            BY <1>5, <1>7, <2>1, <2>2, <2>5 DEF NewSide
        <3>2. /\ DOMAIN new = FileFields /\ new.path = s.path /\ new.status = file.status
              /\ new.old = file.old /\ new.binary = FALSE /\ new.hunks = <<>>
            BY <2>3, <3>1 DEF FileFields
        <3>3. StatusOf(new) = s.status
            <4>1. new.status = "modified" => s.status # "added"
                BY <2>3, <3>2
            <4>2. CASE new.status = "modified"
                <5>1. new.old = s.old /\ s.status \in {"modified", "renamed"}
                    BY <2>2, <2>3, <2>5, <3>2, <4>1, <4>2
                <5> QED
                    BY <2>2, <3>2, <4>2, <5>1 DEF StatusOf
            <4>3. CASE new.status # "modified"
                <5>1. new.status = s.status
                    BY <2>3, <3>2, <4>3
                <5> QED
                    BY <4>3, <5>1 DEF StatusOf
            <4> QED
                BY <4>2, <4>3
        <3> QED
            BY <1>12, <2>1, <2>2, <3>2, <3>3 DEF Named
    <2> QED
        BY <2>4, <2>5
<1>14. Stages(d)'
    BY <1>1, <1>10, <1>11, <1>12, <1>13, HeadingsAreOver
<1> QED
    BY <1>7, <1>10, <1>14 DEF Moves

-----------------------------------------------------------------------------
(* Hunks.                                                                  *)

LEMMA HunkIs ==
    ASSUME NEW d \in Diffs, NEW k \in 1..Len(d), NEW h \in 1..Len(d[k].hunks)
    PROVE  /\ IsHunk(d[k].hunks[h])
           /\ d[k].hunks[h].lines \in Seq(HunkLines) /\ d[k].hunks[h].lines \in Seq(RawLine)
           /\ Len(d[k].hunks[h].lines) \in Nat
           /\ d[k].hunks[h].short = 0 \/ (d[k].git /\ h = Len(d[k].hunks))
           /\ d[k].hunks[h].short \in Nat /\ d[k].hunks[h].eof \in BOOLEAN
           /\ d[k].hunks[h].old \in Nat /\ d[k].hunks[h].new \in Nat
           /\ EndNote(d[k].hunks[h]) \in Seq(RawLine) /\ RestOf(d, k, h) \in Seq(RawLine)
           /\ EndNote(d[k].hunks[h]) \o RestOf(d, k, h) \in Seq(RawLine)
           /\ h \in 0..Len(d[k].hunks) /\ k \in Nat \ {0} /\ Len(d[k].hunks) \in Nat
<1>1. Known(d[k]) /\ IsSection(d[k]) /\ k \in Nat \ {0}
    BY SectionsAreKnown DEF Known
<1>2. PICK the : the = d[k].hunks[h]
    OBVIOUS
<1>3. /\ IsHunk(the)
      /\ the.short = 0 \/ (d[k].git /\ h = Len(d[k].hunks))
      /\ h \in 0..Len(d[k].hunks) /\ Len(d[k].hunks) \in Nat
    BY <1>1, <1>2, HunksOfSection
<1>4. the.short \in Nat /\ the.eof \in BOOLEAN /\ the.old \in Nat /\ the.new \in Nat
    BY <1>3 DEF IsHunk
<1>5. the.lines \in Seq(HunkLines) /\ the.lines \in Seq(RawLine) /\ EndNote(the) \in Seq(RawLine)
    BY <1>3, HunkTextIsText
<1>6. Len(the.lines) \in Nat
    BY <1>5
<1>7. RestOf(d, k, h) \in Seq(RawLine)
    BY <1>3, RestIsText
<1>8. EndNote(the) \o RestOf(d, k, h) \in Seq(RawLine)
    BY <1>5, <1>7, ConcatProperties
<1> QED
    BY <1>1, <1>2, <1>3, <1>4, <1>5, <1>6, <1>7, <1>8

LEMMA AllLinesRead ==
    ASSUME NEW s, NEW h \in Nat \ {0}
    PROVE  HunksTo(s, h, Len(s.hunks[h].lines)) = [i \in 1..h |-> NumberedHunk(s.hunks[i])]
<1>1. NumberedTo(s.hunks[h], Len(s.hunks[h].lines)) = NumberedHunk(s.hunks[h])
    BY DEF NumberedTo, NumberedHunk
<1>2. ASSUME NEW i \in 1..h
      PROVE  (IF i < h THEN NumberedHunk(s.hunks[i])
              ELSE NumberedTo(s.hunks[h], Len(s.hunks[h].lines))) = NumberedHunk(s.hunks[i])
    <2>1. i < h \/ i = h
        OBVIOUS
    <2>2. CASE i < h
        BY <2>2
    <2>3. CASE i = h
        BY <1>1, <2>3
    <2> QED
        BY <2>1, <2>2, <2>3
<1> QED
    BY <1>2 DEF HunksTo

\* A line of a hunk is read, and the next may come.
LEMMA LinesGoOn ==
    ASSUME NEW d \in Diffs, NEW k \in 1..Len(d), NEW h \in 1..Len(d[k].hunks),
           NEW j \in 0..Len(d[k].hunks[h].lines),
           FilesTo(d, k)', Named(files'[k], d[k]), files'[k].hunks = HunksTo(d[k], h, j), hunk',
           number' = NumberAt(d[k].hunks[h], j), left' = LeftAt(d[k].hunks[h], j),
           raw' = HunkRest(d, k, h, j)
    PROVE  Stages(d)'
<1>1. PICK the : the = d[k].hunks[h]
    OBVIOUS
<1>2. /\ the.lines \in Seq(RawLine) /\ Len(the.lines) \in Nat
      /\ the.short = 0 \/ (d[k].git /\ h = Len(d[k].hunks))
      /\ the.short \in Nat /\ the.eof \in BOOLEAN /\ h \in 0..Len(d[k].hunks)
      /\ RestOf(d, k, h) \in Seq(RawLine) /\ h \in Nat \ {0}
    BY <1>1, HunkIs
<1>3. CASE j < Len(the.lines) \/ the.eof
    <2>1. InLines(d, k, h, j)'
        BY <1>1, <1>3 DEF InLines
    <2> QED
        BY <2>1 DEF Stages
<1>4. CASE j = Len(the.lines) /\ ~the.eof
    <2>1. raw' = RestOf(d, k, h)
        <3>1. After(the.lines, j) = <<>> /\ EndNote(the) = <<>>
            BY <1>1, <1>2, <1>4, AfterIsSeq DEF EndNote
        <3>2. raw' = <<>> \o (<<>> \o RestOf(d, k, h))
            BY <1>1, <3>1 DEF HunkRest
        <3>3. \A a \in Seq(RawLine) : <<>> \o a = a
            BY ConcatEmptySeq
        <3> QED
            BY <1>2, <3>2, <3>3
    <2>2. SoFar(files'[k], d[k], h)
        BY <1>1, <1>2, <1>4, AllLinesRead DEF SoFar
    <2>3. left' = <<0, 0>> \/ (d[k].git /\ h = Len(d[k].hunks))
        <3>1. CASE the.short = 0
            <4>1. PICK a, b : a = Count(the.lines, "+") /\ b = Count(the.lines, "-")
                OBVIOUS
            <4>2. /\ a \in Nat /\ b \in Nat
                  /\ Count(SubSeq(the.lines, 1, j), "+") = a /\ Count(SubSeq(the.lines, 1, j), "-") = b
                BY <1>1, <1>2, <1>4, <4>1, CountIsPart
            <4>3. left' = <<a + 0 - a, b + 0 - b>>
                BY <1>1, <3>1, <4>1, <4>2 DEF LeftAt
            <4>4. a + 0 - a = 0 /\ b + 0 - b = 0
                BY <4>2
            <4> QED
                BY <4>3, <4>4
        <3> QED
            BY <1>2, <3>1
    <2> QED
        BY <1>2, <2>1, <2>2, <2>3, HunkIsOver
<1> QED
    BY <1>1, <1>2, <1>3, <1>4

LEMMA HunkMoves ==
    ASSUME NEW d \in Diffs, NEW k \in 1..Len(d), NEW g \in 0..Len(d[k].hunks), AtHunk(d, k, g),
           diff = d, readPc = "reading", ReaderNext
    PROVE  Moves(d)
<1>1. /\ FilesTo(d, k) /\ SoFar(files[k], d[k], g) /\ g < Len(d[k].hunks)
      /\ raw = RestOf(d, k, g) /\ Settled
    BY DEF AtHunk
<1>2. PICK h : h = g + 1 /\ h \in 1..Len(d[k].hunks) /\ h \in 0..Len(d[k].hunks) /\ h \in Nat \ {0} /\ g \in Nat
    <2>1. Len(d[k].hunks) \in Nat
        BY SectionsAreKnown, HunksOfSection DEF Known
    <2> QED
        BY <1>1, <2>1
<1>3. PICK the : the = d[k].hunks[h]
    OBVIOUS
<1>4. /\ IsHunk(the) /\ the.lines \in Seq(RawLine) /\ Len(the.lines) \in Nat
      /\ the.short \in Nat /\ the.old \in Nat /\ the.new \in Nat
      /\ EndNote(the) \in Seq(RawLine) /\ RestOf(d, k, h) \in Seq(RawLine)
      /\ EndNote(the) \o RestOf(d, k, h) \in Seq(RawLine) /\ k \in Nat \ {0}
    BY <1>2, <1>3, HunkIs
<1>5. PICK x : x = HunkHead(the)
    OBVIOUS
<1>6. /\ x \in RawLine /\ x.is = "@@"
      /\ x.old = <<the.old, Count(the.lines, "+") + the.short>>
      /\ x.new = <<the.new, Count(the.lines, "-") + the.short>>
      /\ HunkText(the) = <<x>> \o (the.lines \o EndNote(the))
    BY <1>4, <1>5, HunkTextIsText
<1>7. PICK rest : rest = HunkRest(d, k, h, 0)
    OBVIOUS
<1>8. rest = the.lines \o (EndNote(the) \o RestOf(d, k, h)) /\ rest \in Seq(RawLine)
    <2>1. 0 \in 0..Len(the.lines)
        BY <1>4
    <2>2. After(the.lines, 0) = the.lines
        BY <1>4, <2>1, AfterIsSeq
    <2>3. rest = the.lines \o (EndNote(the) \o RestOf(d, k, h))
        BY <1>3, <1>7, <2>2 DEF HunkRest
    <2> QED
        BY <1>4, <2>3, ConcatProperties
<1>9. raw = <<x>> \o rest
    <2>1. PICK hunks, t : hunks = HunksAfter(d[k], h) /\ t = TextAfter(d, k)
        OBVIOUS
    <2>2. hunks \in Seq(RawLine) /\ t \in Seq(RawLine)
        <3>1. IsSection(d[k]) /\ k \in 0..Len(d)
            BY SectionsAreKnown DEF Known
        <3> QED
            BY <1>2, <2>1, <3>1, HunksAfterAreText, TextAfterIsText
    <2>3. raw = (HunkText(the) \o hunks) \o t
        <3>1. HunksAfter(d[k], g) = HunkText(the) \o hunks
            <4>1. IsSection(d[k])
                BY SectionsAreKnown DEF Known
            <4> QED
                BY <1>1, <1>2, <1>3, <2>1, <4>1, HunksAfterAreText
        <3> QED
            BY <1>1, <2>1, <3>1 DEF RestOf
    <2>4. PICK a, b, c : a = <<x>> /\ b = the.lines /\ c = EndNote(the)
        OBVIOUS
    <2>5. a \in Seq(RawLine) /\ b \in Seq(RawLine) /\ c \in Seq(RawLine)
        BY <1>4, <1>6, <2>4, OneOrTwo
    <2>6. raw = ((a \o (b \o c)) \o hunks) \o t
        BY <1>6, <2>3, <2>4
    <2>7. Join(Join(Join(a, Join(b, c)), hunks), t) = Join(a, Join(b, Join(c, Join(hunks, t))))
        BY <2>2, <2>5, JoinIsText, JoinRegrouped
    <2>8. raw = a \o (b \o (c \o (hunks \o t)))
        BY <2>6, <2>7, Zenon DEF Join
    <2>9. hunks \o t = RestOf(d, k, h)
        BY <2>1 DEF RestOf
    <2> QED
        BY <1>8, <2>4, <2>8, <2>9, Zenon
<1>10. raw # <<>> /\ Line = x /\ Tail(raw) = rest
    BY <1>6, <1>8, <1>9, LineIs
<1>11. files # <<>> /\ Current = files[k]
    BY <1>1, <1>4, FileAtHand
<1>12. SUFFICES ASSUME readPc' # "refused" PROVE Moves(d)
    BY <1>10, WhatIsDone DEF Moves
<1>13. HunkHeader /\ raw' = rest /\ readPc' = "reading" /\ diff' = d
    BY <1>1, <1>6, <1>10, <1>11, <1>12, WhatIsDone DEF Settled
<1>14. /\ number' = <<x.old[1], x.new[1]>> /\ left' = <<x.old[2], x.new[2]>> /\ hunk'
       /\ CurrentIs([files[k] EXCEPT !.hunks = Append(files[k].hunks, <<>>)])
    BY <1>10, <1>11, <1>13 DEF HunkHeader
<1>15. PICK hunks : hunks = Append(files[k].hunks, <<>>)
    OBVIOUS
<1>16. PICK file : file = [files[k] EXCEPT !.hunks = hunks]
    OBVIOUS
<1>17. FilesTo(d, k)' /\ files'[k] = file
    BY <1>1, <1>4, <1>14, <1>15, <1>16, FileChanges
<1>18. Named(file, d[k]) /\ file.hunks = hunks
    BY <1>1, <1>16, HunksChange DEF SoFar
<1>19. hunks = HunksTo(d[k], h, 0)
    <2>1. PICK before : before = files[k].hunks
        OBVIOUS
    <2>2. before = [i \in 1..g |-> NumberedHunk(d[k].hunks[i])]
        BY <1>1, <2>1 DEF SoFar
    <2> DEFINE T == {NumberedHunk(d[k].hunks[i]) : i \in 1..g}
    <2>3. before \in Seq(T) /\ Len(before) = g
        BY <1>2, <2>2
    <2> HIDE DEF T
    <2>4. IsSeq(before)
        BY <2>3 DEF IsSeq
    <2>5. /\ IsSeq(hunks) /\ Len(hunks) = g + 1 /\ hunks[g + 1] = <<>>
          /\ \A i \in 1..g : hunks[i] = before[i]
        BY <1>15, <2>1, <2>3, <2>4, Appended
    <2>6. hunks = [i \in 1..h |-> hunks[i]]
        BY <1>2, <2>5 DEF IsSeq
    <2>7. ASSUME NEW i \in 1..h
          PROVE  hunks[i] = IF i < h THEN NumberedHunk(d[k].hunks[i]) ELSE NumberedTo(d[k].hunks[h], 0)
        <3>1. CASE i < h
            <4>1. i \in 1..g
                BY <1>2, <3>1
            <4> QED
                BY <2>2, <2>5, <3>1, <4>1
        <3>2. CASE ~(i < h)
            <4>1. i = g + 1
                BY <1>2, <3>2
            <4>2. NumberedTo(d[k].hunks[h], 0) = <<>>
                BY DEF NumberedTo
            <4> QED
                BY <2>5, <3>2, <4>1, <4>2
        <3> QED
            BY <3>1, <3>2
    <2> QED
        BY <2>6, <2>7 DEF HunksTo
<1>20. number' = NumberAt(the, 0) /\ left' = LeftAt(the, 0)
    <2>1. PICK a, b : a = Count(the.lines, "+") /\ b = Count(the.lines, "-")
        OBVIOUS
    <2>2. /\ a \in Nat /\ b \in Nat
          /\ Count(SubSeq(the.lines, 1, 0), "+") = 0 /\ Count(SubSeq(the.lines, 1, 0), "-") = 0
        <3>1. 0 \in 0..Len(the.lines)
            BY <1>4
        <3> QED
            BY <1>4, <2>1, <3>1, CountIsPart
    <2>3. /\ number' = <<the.old, the.new>> /\ left' = <<a + the.short, b + the.short>>
        BY <1>6, <1>14, <2>1
    <2>4. NumberAt(the, 0) = <<the.old + 0, the.new + 0>>
        BY <2>2 DEF NumberAt
    <2>5. LeftAt(the, 0) = <<a + the.short - 0, b + the.short - 0>>
        BY <2>1, <2>2 DEF LeftAt
    <2>6. /\ the.old + 0 = the.old /\ the.new + 0 = the.new
          /\ a + the.short - 0 = a + the.short /\ b + the.short - 0 = b + the.short
        BY <1>4, <2>2
    <2> QED
        BY <2>3, <2>4, <2>5, <2>6
<1>21. 0 \in 0..Len(d[k].hunks[h].lines)
    BY <1>3, <1>4
<1>22. Stages(d)'
    BY <1>2, <1>3, <1>7, <1>13, <1>14, <1>17, <1>18, <1>19, <1>20, <1>21, LinesGoOn
<1> QED
    BY <1>10, <1>13, <1>22 DEF Moves

\* The first of what is left, and what is behind it.
LEMMA AfterStep ==
    ASSUME NEW S, NEW seq \in Seq(S), NEW j \in 0..Len(seq), j < Len(seq)
    PROVE  After(seq, j) = <<seq[j + 1]>> \o After(seq, j + 1)
<1>1. j + 1 \in 1..Len(seq) /\ j + 1 \in 0..Len(seq) /\ j \in Nat /\ Len(seq) \in Nat
    OBVIOUS
<1>2. /\ After(seq, j) \in Seq(S) /\ Len(After(seq, j)) = Len(seq) - j
      /\ \A i \in 1..(Len(seq) - j) : After(seq, j)[i] = seq[j + i]
    BY AfterIsSeq
<1>3. PICK tail : tail = After(seq, j + 1)
    OBVIOUS
<1>4. /\ tail \in Seq(S) /\ Len(tail) = Len(seq) - (j + 1)
      /\ \A i \in 1..(Len(seq) - (j + 1)) : tail[i] = seq[(j + 1) + i]
    BY <1>1, <1>3, AfterIsSeq
<1>5. PICK one : one = <<seq[j + 1]>>
    OBVIOUS
<1>6. one \in Seq(S) /\ Len(one) = 1 /\ one[1] = seq[j + 1]
    BY <1>1, <1>5, ElementOfSeq
<1> DEFINE all == one \o tail
<1>7. /\ all \in Seq(S) /\ Len(all) = 1 + Len(tail)
      /\ \A i \in 1..(1 + Len(tail)) : all[i] = IF i <= 1 THEN one[i] ELSE tail[i - 1]
    <2>1. one \in Seq(S) /\ tail \in Seq(S) /\ Len(one) = 1
        BY <1>4, <1>6
    <2> HIDE DEF all
    <2>2. /\ all \in Seq(S) /\ Len(all) = Len(one) + Len(tail)
          /\ \A i \in 1..(Len(one) + Len(tail)) :
               all[i] = IF i <= Len(one) THEN one[i] ELSE tail[i - Len(one)]
        BY <2>1, ConcatProperties, Zenon DEF all
    <2> QED
        BY <2>1, <2>2
<1> HIDE DEF all
<1>8. Len(all) = Len(After(seq, j))
    BY <1>1, <1>2, <1>4, <1>7
<1>9. ASSUME NEW i \in 1..Len(all) PROVE all[i] = After(seq, j)[i]
    <2>1. i \in 1..(1 + Len(tail)) /\ i \in 1..(Len(seq) - j) /\ i \in Nat
        BY <1>1, <1>2, <1>4, <1>7, <1>8, <1>9
    <2>2. CASE i = 1
        <3>1. all[i] = seq[j + 1]
            BY <1>6, <1>7, <2>1, <2>2
        <3> QED
            BY <1>2, <2>1, <2>2, <3>1
    <2>3. CASE i # 1
        <3>1. i - 1 \in 1..(Len(seq) - (j + 1)) /\ (j + 1) + (i - 1) = j + i /\ ~(i <= 1)
            BY <1>1, <2>1, <2>3
        <3>2. all[i] = tail[i - 1]
            BY <1>7, <2>1, <3>1
        <3>3. tail[i - 1] = seq[(j + 1) + (i - 1)]
            BY <1>4, <3>1
        <3> QED
            BY <1>2, <2>1, <3>1, <3>2, <3>3
    <2> QED
        BY <2>2, <2>3
<1> QED
    <2>1. all = After(seq, j)
        BY <1>2, <1>7, <1>8, <1>9, SeqEqual
    <2> QED
        BY <1>3, <1>5, <2>1 DEF all

LEMMA OneLineMore ==
    ASSUME NEW s, NEW h \in Nat \ {0}, NEW j \in Nat, NEW line,
           line = NumberedHunk(s.hunks[h])[j + 1]
    PROVE  WithLine(HunksTo(s, h, j), line) = HunksTo(s, h, j + 1)
<1>1. PICK hunks : hunks = HunksTo(s, h, j)
    OBVIOUS
<1>2. /\ hunks = [i \in 1..h |-> hunks[i]] /\ Len(hunks) = h
      /\ \A i \in 1..h : hunks[i] = IF i < h THEN NumberedHunk(s.hunks[i]) ELSE NumberedTo(s.hunks[h], j)
    BY <1>1 DEF HunksTo
<1>3. PICK last, next : last = NumberedTo(s.hunks[h], j) /\ next = NumberedTo(s.hunks[h], j + 1)
    OBVIOUS
<1>4. next = Append(last, line)
    <2>1. last = [i \in 1..j |-> NumberedHunk(s.hunks[h])[i]]
        BY <1>3 DEF NumberedTo
    <2>2. next = [i \in 1..(j + 1) |-> NumberedHunk(s.hunks[h])[i]]
        BY <1>3 DEF NumberedTo
    <2> DEFINE T == {NumberedHunk(s.hunks[h])[i] : i \in 1..j}
    <2>3. last \in Seq(T) /\ Len(last) = j
        BY <2>1
    <2> HIDE DEF T
    <2>4. IsSeq(last)
        BY <2>3 DEF IsSeq
    <2>5. PICK more : more = Append(last, line)
        OBVIOUS
    <2>6. /\ IsSeq(more) /\ Len(more) = j + 1 /\ more[j + 1] = line
          /\ \A i \in 1..j : more[i] = last[i]
        BY <2>3, <2>5, <2>4, Appended
    <2>7. more = [i \in 1..(j + 1) |-> more[i]]
        BY <2>6 DEF IsSeq
    <2>8. ASSUME NEW i \in 1..(j + 1) PROVE more[i] = NumberedHunk(s.hunks[h])[i]
        <3>1. i = j + 1 \/ i \in 1..j
            OBVIOUS
        <3> QED
            BY <2>1, <2>6, <3>1
    <2> QED
        BY <2>2, <2>5, <2>7, <2>8
<1>5. WithLine(hunks, line) = [hunks EXCEPT ![h] = Append(hunks[h], line)]
    BY <1>2 DEF WithLine
<1>6. h \in 1..h /\ hunks[h] = last
    BY <1>2, <1>3
<1>7. PICK new : new = [hunks EXCEPT ![h] = next]
    OBVIOUS
<1>8. new = [i \in 1..h |-> IF i = h THEN next ELSE hunks[i]]
    BY <1>2, <1>7
<1>9. ASSUME NEW i \in 1..h
      PROVE  (IF i = h THEN next ELSE hunks[i])
                 = IF i < h THEN NumberedHunk(s.hunks[i]) ELSE NumberedTo(s.hunks[h], j + 1)
    <2>1. i < h \/ i = h
        OBVIOUS
    <2> QED
        BY <1>2, <1>3, <2>1
<1>10. new = HunksTo(s, h, j + 1)
    BY <1>8, <1>9 DEF HunksTo
<1> QED
    BY <1>1, <1>4, <1>5, <1>6, <1>7, <1>10

LEMMA LineOfHunk ==
    ASSUME NEW the, NEW j \in Nat, j + 1 \in 1..Len(the.lines)
    PROVE  NumberedHunk(the)[j + 1] =
             [kind |-> Marker(the.lines[j + 1]),
              old |-> IF Marker(the.lines[j + 1]) = "+" THEN 0
                      ELSE the.old + Count(SubSeq(the.lines, 1, j), "+"),
              new |-> IF Marker(the.lines[j + 1]) = "-" THEN 0
                      ELSE the.new + Count(SubSeq(the.lines, 1, j), "-")]
<1>1. (j + 1) - 1 = j
    OBVIOUS
<1> QED
    BY <1>1 DEF NumberedHunk

LEMMA HunkRestIs ==
    ASSUME NEW d \in Diffs, NEW k \in 1..Len(d), NEW h \in 1..Len(d[k].hunks),
           NEW j \in 0..Len(d[k].hunks[h].lines)
    PROVE  /\ HunkRest(d, k, h, j) \in Seq(RawLine)
           /\ j < Len(d[k].hunks[h].lines) =>
                HunkRest(d, k, h, j) = <<d[k].hunks[h].lines[j + 1]>> \o HunkRest(d, k, h, j + 1)
<1>1. PICK lines, rest : lines = d[k].hunks[h].lines /\ rest = EndNote(d[k].hunks[h]) \o RestOf(d, k, h)
    OBVIOUS
<1>2. lines \in Seq(RawLine) /\ rest \in Seq(RawLine) /\ Len(lines) \in Nat
    BY <1>1, HunkIs
<1>3. \A a, b \in Seq(RawLine) : a \o b \in Seq(RawLine)
    BY ConcatProperties
<1>4. After(lines, j) \in Seq(RawLine)
    BY <1>1, <1>2, AfterIsSeq
<1>5. HunkRest(d, k, h, j) = After(lines, j) \o rest
    BY <1>1 DEF HunkRest
<1>6. ASSUME j < Len(lines)
      PROVE  HunkRest(d, k, h, j) = <<lines[j + 1]>> \o HunkRest(d, k, h, j + 1)
    <2>1. j + 1 \in 0..Len(lines) /\ j + 1 \in 1..Len(lines)
        BY <1>1, <1>2, <1>6
    <2>2. PICK x, tail : x = <<lines[j + 1]>> /\ tail = After(lines, j + 1)
        OBVIOUS
    <2>3. x \in Seq(RawLine) /\ tail \in Seq(RawLine)
        <3>1. lines[j + 1] \in RawLine
            BY <1>2, <2>1, ElementOfSeq
        <3> QED
            BY <1>2, <2>1, <2>2, <3>1, AfterIsSeq, OneOrTwo
    <2>4. After(lines, j) = x \o tail
        BY <1>1, <1>2, <1>6, <2>2, AfterStep
    <2>5. (x \o tail) \o rest = x \o (tail \o rest)
        <3>1. Join(Join(x, tail), rest) = Join(x, Join(tail, rest))
            BY <1>2, <2>3, JoinRegrouped
        <3> QED
            BY <3>1, Zenon DEF Join
    <2>6. HunkRest(d, k, h, j + 1) = tail \o rest
        BY <1>1, <2>2 DEF HunkRest
    <2> QED
        BY <1>5, <2>2, <2>4, <2>5, <2>6
<1> QED
    BY <1>1, <1>2, <1>3, <1>4, <1>5, <1>6

\* What the next line adds to what is read of each side.
LEMMA SidesCount ==
    ASSUME NEW the, IsHunk(the), the.lines \in Seq(RawLine), NEW j \in 0..Len(the.lines), j < Len(the.lines)
    PROVE  LET m == Marker(the.lines[j + 1]) IN
           /\ (LeftAt(the, j)[1] > 0 \/ LeftAt(the, j)[2] > 0)
           /\ NumberAt(the, j + 1) =
                << NumberAt(the, j)[1] + StepOf(m)[1], NumberAt(the, j)[2] + StepOf(m)[2] >>
           /\ LeftAt(the, j + 1) =
                << LeftAt(the, j)[1] - StepOf(m)[1], LeftAt(the, j)[2] - StepOf(m)[2] >>
<1>1. PICK m : m = Marker(the.lines[j + 1])
    OBVIOUS
<1>2. PICK a, b, c, e :
        /\ a = Count(SubSeq(the.lines, 1, j), "+") /\ b = Count(SubSeq(the.lines, 1, j), "-")
        /\ c = Count(the.lines, "+") /\ e = Count(the.lines, "-")
    OBVIOUS
<1>3. PICK a1, b1 : /\ a1 = Count(SubSeq(the.lines, 1, j + 1), "+")
                    /\ b1 = Count(SubSeq(the.lines, 1, j + 1), "-")
    OBVIOUS
<1>4. j + 1 \in 0..Len(the.lines)
    OBVIOUS
<1>5. a \in Nat /\ b \in Nat /\ a1 \in Nat /\ b1 \in Nat
    BY <1>2, <1>3, <1>4, CountIsNatural
<1>6. c \in Nat /\ e \in Nat /\ a1 <= c /\ b1 <= e
    BY <1>2, <1>3, <1>4, CountIsPart
<1>7. a1 = a + (IF m = "+" THEN 0 ELSE 1) /\ b1 = b + (IF m = "-" THEN 0 ELSE 1)
    BY <1>1, <1>2, <1>3, CountGrows
<1>8. the.short \in Nat /\ the.old \in Nat /\ the.new \in Nat
    BY DEF IsHunk
<1>9. PICK o, n, sh : o = the.old /\ n = the.new /\ sh = the.short
    OBVIOUS
<1>10. /\ NumberAt(the, j) = <<o + a, n + b>> /\ NumberAt(the, j + 1) = <<o + a1, n + b1>>
       /\ LeftAt(the, j) = <<c + sh - a, e + sh - b>> /\ LeftAt(the, j + 1) = <<c + sh - a1, e + sh - b1>>
    BY <1>2, <1>3, <1>9 DEF NumberAt, LeftAt
<1>11. PICK p, q : p = (IF m = "+" THEN 0 ELSE 1) /\ q = (IF m = "-" THEN 0 ELSE 1) /\ p \in {0, 1} /\ q \in {0, 1}
    OBVIOUS
<1>12. StepOf(m) = <<p, q>> /\ (p = 1 \/ q = 1)
    BY <1>11 DEF StepOf
<1>13. a1 = a + p /\ b1 = b + q
    BY <1>7, <1>11
<1>14. p \in Nat /\ q \in Nat /\ o \in Nat /\ n \in Nat /\ sh \in Nat
    BY <1>8, <1>9, <1>11
<1>15. c + sh - a > 0 \/ e + sh - b > 0
    <2>1. CASE p = 1
        <3>1. a + 1 <= c
            BY <1>6, <1>13, <2>1
        <3> QED
            BY <1>5, <1>6, <1>14, <3>1
    <2>2. CASE q = 1
        <3>1. b + 1 <= e
            BY <1>6, <1>13, <2>2
        <3> QED
            BY <1>5, <1>6, <1>14, <3>1
    <2> QED
        BY <1>12, <2>1, <2>2
<1>16. o + a1 = (o + a) + p /\ n + b1 = (n + b) + q
    BY <1>5, <1>13, <1>14
<1>17. c + sh - a1 = (c + sh - a) - p /\ e + sh - b1 = (e + sh - b) - q
    BY <1>5, <1>6, <1>13, <1>14
<1>18. NumberAt(the, j + 1) = <<NumberAt(the, j)[1] + StepOf(m)[1], NumberAt(the, j)[2] + StepOf(m)[2]>>
    BY <1>10, <1>12, <1>16
<1>19. LeftAt(the, j + 1) = <<LeftAt(the, j)[1] - StepOf(m)[1], LeftAt(the, j)[2] - StepOf(m)[2]>>
    BY <1>10, <1>12, <1>17
<1>20. LeftAt(the, j)[1] > 0 \/ LeftAt(the, j)[2] > 0
    BY <1>10, <1>15
<1> QED
    BY <1>1, <1>18, <1>19, <1>20

LEMMA LineMoves ==
    ASSUME NEW d \in Diffs, NEW k \in 1..Len(d), NEW h \in 1..Len(d[k].hunks),
           NEW j \in 0..Len(d[k].hunks[h].lines), InLines(d, k, h, j),
           j < Len(d[k].hunks[h].lines),
           diff = d, readPc = "reading", ReaderNext
    PROVE  Moves(d)
<1>1. PICK the : the = d[k].hunks[h]
    OBVIOUS
<1>2. /\ IsHunk(the) /\ the.lines \in Seq(HunkLines) /\ the.lines \in Seq(RawLine)
      /\ Len(the.lines) \in Nat /\ k \in Nat \ {0} /\ h \in Nat \ {0}
    BY <1>1, HunkIs
<1>3. /\ FilesTo(d, k) /\ Named(files[k], d[k]) /\ files[k].hunks = HunksTo(d[k], h, j) /\ hunk
      /\ number = NumberAt(the, j) /\ left = LeftAt(the, j) /\ raw = HunkRest(d, k, h, j)
    BY <1>1 DEF InLines
<1>4. PICK n : n = j + 1 /\ n \in 1..Len(the.lines) /\ n \in 0..Len(the.lines) /\ j \in Nat
    BY <1>1, <1>2
<1>5. PICK x, rest : x = the.lines[n] /\ rest = HunkRest(d, k, h, n)
    OBVIOUS
<1>6. x \in RawLine /\ x.is \in LineKinds
    <2>1. x \in HunkLines /\ x \in RawLine
        BY <1>2, <1>4, <1>5, ElementOfSeq
    <2>2. PICK kind \in LineKinds : x = Is(kind)
        BY <2>1 DEF HunkLines, LineKinds
    <2>3. x.is = kind
        BY <2>2 DEF Is
    <2> QED
        BY <2>1, <2>3
<1>7. raw = <<x>> \o rest /\ rest \in Seq(RawLine)
    BY <1>1, <1>3, <1>4, <1>5, HunkRestIs
<1>8. raw # <<>> /\ Line = x /\ Tail(raw) = rest
    BY <1>6, <1>7, LineIs
<1>9. PICK m : m = Marker(x)
    OBVIOUS
<1>10. /\ left[1] > 0 \/ left[2] > 0
       /\ NumberAt(the, n) = <<number[1] + StepOf(m)[1], number[2] + StepOf(m)[2]>>
       /\ LeftAt(the, n) = <<left[1] - StepOf(m)[1], left[2] - StepOf(m)[2]>>
    BY <1>1, <1>2, <1>3, <1>4, <1>5, <1>9, SidesCount
<1>11. InHunk
    BY <1>3, <1>6, <1>8, <1>10 DEF InHunk, LineKinds
<1>12. SUFFICES ASSUME readPc' # "refused" PROVE Moves(d)
    BY <1>8, WhatIsDone DEF Moves
<1>13. ReadsLine /\ raw' = rest /\ readPc' = "reading" /\ diff' = d
    BY <1>6, <1>8, <1>11, <1>12, WhatIsDone
<1>14. files # <<>> /\ Current = files[k]
    BY <1>2, <1>3, FileAtHand
<1>15. PICK line, hunks : line = NumberedLine(m) /\ hunks = WithLine(files[k].hunks, line)
    OBVIOUS
<1>16. /\ CurrentIs([files[k] EXCEPT !.hunks = hunks])
       /\ number' = NumberAt(the, n) /\ left' = LeftAt(the, n) /\ hunk'
    BY <1>3, <1>8, <1>9, <1>10, <1>13, <1>14, <1>15 DEF ReadsLine
<1>17. PICK file : file = [files[k] EXCEPT !.hunks = hunks]
    OBVIOUS
<1>18. FilesTo(d, k)' /\ files'[k] = file
    BY <1>2, <1>3, <1>16, <1>17, FileChanges
<1>19. Named(file, d[k]) /\ file.hunks = hunks
    BY <1>3, <1>17, HunksChange
<1>20. hunks = HunksTo(d[k], h, n)
    <2>1. line = NumberedHunk(the)[j + 1]
        <3>1. /\ number[1] = the.old + Count(SubSeq(the.lines, 1, j), "+")
              /\ number[2] = the.new + Count(SubSeq(the.lines, 1, j), "-")
            BY <1>3 DEF NumberAt
        <3>2. line = [kind |-> m, old |-> IF m = "+" THEN 0 ELSE number[1],
                      new |-> IF m = "-" THEN 0 ELSE number[2]]
            BY <1>15 DEF NumberedLine
        <3> QED
            BY <1>4, <1>5, <1>9, <3>1, <3>2, LineOfHunk
    <2> QED
        BY <1>1, <1>2, <1>3, <1>4, <1>15, <2>1, OneLineMore
<1>21. Stages(d)'
    BY <1>1, <1>4, <1>5, <1>13, <1>16, <1>18, <1>19, <1>20, LinesGoOn
<1> QED
    BY <1>8, <1>13, <1>21 DEF Moves

\* "\ No newline at end of file" changes nothing.
LEMMA NoteMoves ==
    ASSUME NEW d \in Diffs, NEW k \in 1..Len(d), NEW h \in 1..Len(d[k].hunks),
           NEW j \in 0..Len(d[k].hunks[h].lines), InLines(d, k, h, j),
           j = Len(d[k].hunks[h].lines),
           diff = d, readPc = "reading", ReaderNext
    PROVE  Moves(d)
<1>1. PICK the : the = d[k].hunks[h]
    OBVIOUS
<1>2. /\ the.lines \in Seq(RawLine) /\ Len(the.lines) \in Nat /\ k \in Nat \ {0} /\ h \in Nat \ {0}
      /\ the.short = 0 \/ (d[k].git /\ h = Len(d[k].hunks))
      /\ RestOf(d, k, h) \in Seq(RawLine) /\ h \in 0..Len(d[k].hunks) /\ the.short \in Nat
    BY <1>1, HunkIs
<1>3. /\ FilesTo(d, k) /\ Named(files[k], d[k]) /\ files[k].hunks = HunksTo(d[k], h, j) /\ hunk
      /\ the.eof /\ left = LeftAt(the, j) /\ raw = HunkRest(d, k, h, j)
    BY <1>1, <1>2 DEF InLines
<1>4. PICK x : x = Is("\\")
    OBVIOUS
<1>5. x \in RawLine /\ x.is = "\\" /\ x.path = NoPath
    <2>1. "\\" \in Kinds
        BY DEF Kinds
    <2> QED
        BY <1>4, <2>1, IsIsRaw
<1>6. raw = <<x>> \o RestOf(d, k, h)
    <2>1. After(the.lines, j) = <<>> /\ EndNote(the) = <<x>>
        BY <1>1, <1>2, <1>3, <1>4, AfterIsSeq DEF EndNote
    <2>2. raw = <<>> \o (<<x>> \o RestOf(d, k, h))
        BY <1>1, <1>3, <2>1 DEF HunkRest
    <2>3. <<x>> \o RestOf(d, k, h) \in Seq(RawLine)
        BY <1>2, <1>5, OneLine
    <2>4. \A a \in Seq(RawLine) : <<>> \o a = a
        BY ConcatEmptySeq
    <2> QED
        BY <2>2, <2>3, <2>4
<1>7. raw # <<>> /\ Line = x /\ Tail(raw) = RestOf(d, k, h)
    BY <1>2, <1>5, <1>6, LineIs
<1>8. SUFFICES ASSUME readPc' # "refused" PROVE Moves(d)
    BY <1>7, WhatIsDone DEF Moves
<1>9. /\ InHunk => SkipsNote
      /\ ~InHunk => Passed
      /\ raw' = RestOf(d, k, h) /\ readPc' = "reading" /\ diff' = d
    BY <1>5, <1>7, <1>8, WhatIsDone
<1>10. files' = files /\ (hunk' => left' = left)
    BY <1>9 DEF SkipsNote, Passed, Closes
<1>11. FilesTo(d, k)' /\ files'[k] = files[k]
    BY <1>3, <1>10, FilesRest
<1>12. SoFar(files[k], d[k], h)
    BY <1>1, <1>2, <1>3, AllLinesRead DEF SoFar
<1>13. hunk' => left' = <<0, 0>> \/ (d[k].git /\ h = Len(d[k].hunks))
    <2>1. CASE the.short = 0
        <3>1. PICK a, b : a = Count(the.lines, "+") /\ b = Count(the.lines, "-")
            OBVIOUS
        <3>2. /\ a \in Nat /\ b \in Nat
              /\ Count(SubSeq(the.lines, 1, j), "+") = a /\ Count(SubSeq(the.lines, 1, j), "-") = b
            BY <1>1, <1>2, <3>1, CountIsPart
        <3>3. left = <<a + 0 - a, b + 0 - b>>
            BY <1>3, <2>1, <3>1, <3>2 DEF LeftAt
        <3>4. a + 0 - a = 0 /\ b + 0 - b = 0
            BY <3>2
        <3> QED
            BY <1>10, <3>3, <3>4
    <2> QED
        BY <1>2, <2>1
<1>14. Stages(d)'
    BY <1>2, <1>9, <1>11, <1>12, <1>13, HunkIsOver
<1> QED
    BY <1>7, <1>9, <1>14 DEF Moves

-----------------------------------------------------------------------------
(* The end.                                                                *)

LEMMA AllAreKept ==
    ASSUME IsSeq(files), \A i \in 1..Len(files) : files[i].path # NoPath
    PROVE  KeptFiles = [i \in 1..Len(files) |-> Moved(files[i])]
<1>1. PICK n : n = Len(files) /\ n \in Nat
    BY DEF IsSeq
<1> DEFINE Fits(g) ==
        g = [k \in 0..n |-> CASE k = 0 -> <<>>
                              [] k > 0 /\ files[k].path = NoPath -> g[k - 1]
                              [] OTHER -> Append(g[k - 1], Moved(files[k]))]
           kept == CHOOSE g : Fits(g)
           upTo == [k \in 0..n |-> [i \in 1..k |-> Moved(files[i])]]
<1>2. KeptFiles = kept[n]
    BY <1>1 DEF KeptFiles
<1>3. /\ upTo[0] = <<>>
      /\ \A k \in 1..n : upTo[k] = Append(upTo[k - 1], Moved(files[k]))
    <2>1. 0 \in 0..n
        BY <1>1
    <2>2. upTo[0] = <<>>
        BY <2>1
    <2>3. ASSUME NEW k \in 1..n PROVE upTo[k] = Append(upTo[k - 1], Moved(files[k]))
        <3>1. k - 1 \in 0..n /\ k \in 0..n /\ k - 1 \in Nat /\ (k - 1) + 1 = k
            BY <1>1
        <3>2. PICK before, all : /\ before = [i \in 1..(k - 1) |-> Moved(files[i])]
                                 /\ all = [i \in 1..k |-> Moved(files[i])]
            OBVIOUS
        <3>3. upTo[k - 1] = before /\ upTo[k] = all
            BY <3>1, <3>2
        <3> DEFINE T == {Moved(files[i]) : i \in 1..(k - 1)}
        <3>4. before \in Seq(T) /\ Len(before) = k - 1
            BY <3>1, <3>2
        <3> HIDE DEF T
        <3>5. IsSeq(before)
            BY <3>4 DEF IsSeq
        <3>6. PICK more : more = Append(before, Moved(files[k]))
            OBVIOUS
        <3>7. /\ IsSeq(more) /\ Len(more) = k /\ more[k] = Moved(files[k])
              /\ \A i \in 1..(k - 1) : more[i] = before[i]
            BY <3>1, <3>4, <3>6, <3>5, Appended
        <3>8. more = [i \in 1..k |-> more[i]]
            BY <3>7 DEF IsSeq
        <3>9. ASSUME NEW i \in 1..k PROVE more[i] = Moved(files[i])
            <4>1. i = k \/ i \in 1..(k - 1)
                BY <3>1
            <4> QED
                BY <3>2, <3>7, <4>1
        <3> HIDE DEF upTo
        <3> QED
            BY <3>2, <3>3, <3>6, <3>8, <3>9
    <2> QED
        BY <2>2, <2>3
<1>4. DOMAIN upTo = 0..n /\ upTo = [k \in 0..n |-> upTo[k]]
    OBVIOUS
<1> HIDE DEF upTo
<1>5. ASSUME NEW k \in 0..n
      PROVE  upTo[k] = CASE k = 0 -> <<>>
                         [] k > 0 /\ files[k].path = NoPath -> upTo[k - 1]
                         [] OTHER -> Append(upTo[k - 1], Moved(files[k]))
    <2>1. k = 0 \/ (k \in 1..n /\ k # 0)
        BY <1>1
    <2>2. CASE k = 0
        BY <1>3, <2>2
    <2>3. CASE k \in 1..n /\ k # 0
        <3>1. files[k].path # NoPath /\ upTo[k] = Append(upTo[k - 1], Moved(files[k]))
            BY <1>1, <1>3, <2>3
        <3> QED
            BY <2>3, <3>1
    <2> QED
        BY <2>1, <2>2, <2>3
<1>6. Fits(upTo)
    BY <1>4, <1>5
<1>7. Fits(kept)
    <2> HIDE DEF Fits
    <2> QED
        BY <1>6
<1> HIDE DEF kept
<1>8. /\ kept[0] = <<>>
      /\ \A k \in 1..n : kept[k] = Append(kept[k - 1], Moved(files[k]))
    <2>1. \A k \in 0..n : kept[k] = CASE k = 0 -> <<>>
                              [] k > 0 /\ files[k].path = NoPath -> kept[k - 1]
                              [] OTHER -> Append(kept[k - 1], Moved(files[k]))
        BY <1>7
    <2>2. 0 \in 0..n
        BY <1>1
    <2>3. kept[0] = <<>>
        BY <2>1, <2>2
    <2>4. ASSUME NEW k \in 1..n PROVE kept[k] = Append(kept[k - 1], Moved(files[k]))
        <3>1. k \in 0..n /\ k # 0 /\ files[k].path # NoPath
            BY <1>1
        <3> QED
            BY <2>1, <3>1
    <2> QED
        BY <2>3, <2>4
<1> DEFINE T == {i \in 0..n : kept[i] = upTo[i]}
<1>9. 0 \in T
    BY <1>1, <1>3, <1>8
<1>10. ASSUME NEW i \in 0..n, i < n, i \in T PROVE i + 1 \in T
    <2>1. i + 1 \in 1..n /\ i + 1 \in 0..n /\ (i + 1) - 1 = i
        BY <1>1, <1>10
    <2>2. kept[i + 1] = Append(kept[i], Moved(files[i + 1])) /\ upTo[i + 1] = Append(upTo[i], Moved(files[i + 1]))
        BY <1>3, <1>8, <2>1
    <2> QED
        BY <1>10, <2>1, <2>2
<1>11. \A i \in 0..n : i \in T
    <2> HIDE DEF T
    <2> QED
        BY <1>1, <1>9, <1>10, InductionTo
<1>12. kept[n] = upTo[n]
    BY <1>1, <1>11
<1> QED
    BY <1>1, <1>2, <1>12 DEF upTo

ReaderInv ==
    /\ diff \in Diffs /\ readPc \in {"reading", "read", "refused"}
    /\ readPc = "reading" => Stages(diff)
    /\ ReadAsWritten

LEMMA ReadingBegins == ReaderInit => ReaderInv
<1> SUFFICES ASSUME ReaderInit PROVE ReaderInv
    OBVIOUS
<1>1. /\ diff \in Diffs /\ raw = Written(diff) /\ files = <<>> /\ hunk = FALSE /\ readPc = "reading"
    BY DEF ReaderInit
<1>2. Len(diff) \in Nat /\ 0 \in 0..Len(diff)
    BY <1>1, SectionsAreKnown
<1>3. raw = TextAfter(diff, 0)
    BY <1>1, <1>2, TextAfterIsText
<1>4. FilesTo(diff, 0)
    <2>1. files \in Seq({}) /\ Len(files) = 0
        BY <1>1
    <2> QED
        BY <2>1 DEF FilesTo, IsSeq
<1>5. AtSection(diff, 0)
    BY <1>1, <1>3, <1>4 DEF AtSection, Settled, InHunk
<1>6. Stages(diff)
    BY <1>2, <1>5 DEF Stages
<1>7. ReadAsWritten
    BY <1>1 DEF ReadAsWritten
<1> QED
    BY <1>1, <1>6, <1>7 DEF ReaderInv

\* In the middle of a section there is a line, and it leads on.
LEMMA StagesMove ==
    ASSUME NEW d \in Diffs, diff = d, Stages(d), readPc = "reading", ReaderNext,
           ~ \E k \in 0..Len(d) : AtSection(d, k)
    PROVE  Moves(d)
<1>1. ASSUME NEW k \in 1..Len(d), AtStatus(d, k) \/ AtRename(d, k) \/ AtSides(d, k) \/ AtNewSide(d, k)
      PROVE  Moves(d)
    BY <1>1, StatusMoves, RenameMoves, SidesMoves, NewSideMoves
<1>2. ASSUME NEW k \in 1..Len(d), NEW h \in 0..Len(d[k].hunks), AtHunk(d, k, h) PROVE Moves(d)
    BY <1>2, HunkMoves
<1>3. ASSUME NEW k \in 1..Len(d), NEW h \in 1..Len(d[k].hunks),
             NEW j \in 0..Len(d[k].hunks[h].lines), InLines(d, k, h, j)
      PROVE  Moves(d)
    <2>1. Len(d[k].hunks[h].lines) \in Nat
        BY HunkIs
    <2>2. j < Len(d[k].hunks[h].lines) \/ j = Len(d[k].hunks[h].lines)
        BY <2>1
    <2> QED
        BY <1>3, <2>2, LineMoves, NoteMoves
<1> QED
    BY <1>1, <1>2, <1>3 DEF Stages

\* Where a section would begin and nothing is left, every section is read.
LEMMA ReadingEnds ==
    ASSUME NEW d \in Diffs, diff = d, NEW k \in 0..Len(d), AtSection(d, k), raw = <<>>, ReadFiles
    PROVE  diff' = d /\ readPc' \in {"read", "refused"} /\ ReadAsWritten'
<1>1. diff' = d /\ readPc' \in {"read", "refused"} /\ files' = KeptFiles
    BY DEF ReadFiles
<1>2. Len(d) \in Nat /\ \A i \in 1..Len(d) : Known(d[i])
    BY SectionsAreKnown
<1>3. k = Len(d)
    <2>1. CASE k < Len(d)
        <3>1. PICK s, x, rest : /\ s = d[k + 1]
                                /\ x = (IF s.git THEN Names("diff", s.path) ELSE Names("---", OldName(s)))
                                /\ rest = (IF s.git THEN StatusLines(s) \o (SideLines(s) \o Behind(d, k + 1))
                                           ELSE <<Names("+++", NewName(s))>> \o Behind(d, k + 1))
            OBVIOUS
        <3>2. k + 1 \in 1..Len(d) /\ Known(s) /\ IsSection(s)
            BY <1>2, <2>1, <3>1 DEF Known
        <3>3. 0 \in 0..Len(d[k + 1].hunks)
            BY <3>1, <3>2, HunksOfSection
        <3>4. SideLines(s) \o Behind(d, k + 1) \in Seq(RawLine) /\ Behind(d, k + 1) \in Seq(RawLine)
            BY <3>1, <3>2, <3>3, RestIsText
        <3>5. x \in RawLine /\ Names("+++", NewName(s)) \in RawLine /\ StatusLines(s) \in Seq(RawLine)
            BY <3>1, <3>2, HeadLinesAreRaw
        <3>6. <<Names("+++", NewName(s))>> \o Behind(d, k + 1) \in Seq(RawLine)
            BY <3>4, <3>5, OneLine
        <3>7. StatusLines(s) \o (SideLines(s) \o Behind(d, k + 1)) \in Seq(RawLine)
            BY <3>4, <3>5, ConcatProperties
        <3>8. rest \in Seq(RawLine)
            BY <3>1, <3>6, <3>7
        <3>9. TextAfter(d, k) = <<x>> \o rest
            BY <2>1, <3>1, NextSection
        <3>10. raw # <<>>
            BY <3>5, <3>8, <3>9, OneLine DEF AtSection
        <3> QED
            BY <3>10
    <2> QED
        BY <1>2, <2>1
<1>4. IsSeq(files) /\ Len(files) = k /\ \A i \in 1..k : IsRead(files[i], d[i])
    <2>1. FilesTo(d, k) /\ (k > 0 => IsRead(files[k], d[k]))
        BY DEF AtSection
    <2>2. \A i \in 1..k : i = k \/ i \in 1..(k - 1)
        BY <1>2, <1>3
    <2> QED
        BY <1>2, <1>3, <2>1, <2>2 DEF FilesTo
<1>5. ASSUME NEW i \in 1..k
      PROVE  /\ files[i].path # NoPath
             /\ Moved(files[i]).path = d[i].path /\ Moved(files[i]).status = d[i].status
             /\ Moved(files[i]).binary = d[i].binary
             /\ Moved(files[i]).hunks = [h \in 1..Len(d[i].hunks) |-> NumberedHunk(d[i].hunks[h])]
    <2>1. PICK file, s : file = files[i] /\ s = d[i]
        OBVIOUS
    <2>2. Named(file, s) /\ file.hunks = [h \in 1..Len(s.hunks) |-> NumberedHunk(s.hunks[h])]
        BY <1>4, <2>1 DEF IsRead, SoFar
    <2>3. s.path # NoPath
        BY <1>2, <1>3, <2>1, SectionIs DEF Known
    <2>4. PICK new : new = Moved(file)
        OBVIOUS
    <2>5. /\ new.path = file.path /\ new.status = StatusOf(file)
          /\ new.binary = file.binary /\ new.hunks = file.hunks
        <3>1. DOMAIN file = FileFields
            BY <2>2 DEF Named
        <3>2. CASE file.status = "modified" /\ file.old \notin {NoPath, file.path}
            <4>1. new = [file EXCEPT !.status = "renamed"] /\ StatusOf(file) = "renamed"
                BY <2>4, <3>2 DEF Moved, StatusOf
            <4> QED
                BY <3>1, <4>1 DEF FileFields
        <3>3. CASE ~(file.status = "modified" /\ file.old \notin {NoPath, file.path})
            BY <2>4, <3>3 DEF Moved, StatusOf
        <3> QED
            BY <3>2, <3>3
    <2> QED
        BY <2>1, <2>2, <2>3, <2>4, <2>5 DEF Named
<1>6. files' = [i \in 1..k |-> Moved(files[i])]
    BY <1>1, <1>4, <1>5, AllAreKept
<1>7. Len(files') = k /\ \A i \in 1..k : files'[i] = Moved(files[i])
    BY <1>2, <1>3, <1>6
<1>8. ASSUME NEW i \in 1..Len(d)
      PROVE  /\ files'[i].path = d[i].path /\ files'[i].status = d[i].status
             /\ files'[i].binary = d[i].binary
             /\ files'[i].hunks = [h \in 1..Len(d[i].hunks) |-> NumberedHunk(d[i].hunks[h])]
    BY <1>3, <1>5, <1>7
<1> QED
    BY <1>1, <1>3, <1>7, <1>8 DEF ReadAsWritten

LEMMA ReadingGoesOn == ReaderInv /\ [ReaderNext]_readerVars => ReaderInv'
<1> SUFFICES ASSUME ReaderInv, [ReaderNext]_readerVars PROVE ReaderInv'
    OBVIOUS
<1>1. CASE UNCHANGED readerVars
    <2>1. /\ diff' = diff /\ raw' = raw /\ files' = files /\ hunk' = hunk /\ left' = left
          /\ number' = number /\ readPc' = readPc
        BY <1>1 DEF readerVars
    <2>2. ReadAsWritten'
        BY <2>1 DEF ReaderInv, ReadAsWritten
    <2>3. readPc = "reading" => Stages(diff)'
        <3>1. PICK d : d = diff
            OBVIOUS
        <3>2. Stages(d) => Stages(d)'
            BY <2>1 DEF Stages, AtSection, AtStatus, AtRename, AtSides, AtNewSide, AtHunk, InLines,
                        FilesTo, Settled, InHunk, Line
        <3> QED
            BY <2>1, <3>1, <3>2 DEF ReaderInv
    <2> QED
        BY <2>1, <2>2, <2>3 DEF ReaderInv
<1>2. CASE ReaderNext
    <2>1. readPc = "reading" /\ diff \in Diffs /\ Stages(diff)
        BY <1>2 DEF ReaderInv, ReaderNext, Empty, SkipsNote, ReadsLine, UnsafeHeader, DiffHeader, OldHeader,
                    NewHeader, FileNote, HunkHeader, Passed, ReadFiles, More, Header
    <2>2. PICK d \in Diffs : d = diff
        BY <2>1
    <2>3. ASSUME Moves(d) PROVE ReaderInv'
        <3>1. ReadAsWritten'
            BY <2>3 DEF Moves, ReadAsWritten
        <3> QED
            BY <2>2, <2>3, <3>1 DEF Moves, ReaderInv
    <2>4. ASSUME ~Moves(d) PROVE ReaderInv'
        <3>1. PICK k \in 0..Len(d) : AtSection(d, k)
            BY <1>2, <2>1, <2>2, <2>4, StagesMove
        <3>2. raw = <<>>
            BY <1>2, <2>1, <2>2, <2>4, <3>1, SectionMoves
        <3>3. Empty \/ ReadFiles
            BY <1>2, <3>2 DEF ReaderNext, SkipsNote, ReadsLine, UnsafeHeader, DiffHeader, OldHeader,
                              NewHeader, FileNote, HunkHeader, Passed, More, Header
        <3>4. CASE Empty
            BY <2>1, <3>4 DEF Empty, Refused, ReaderInv, ReadAsWritten
        <3>5. CASE ReadFiles
            <4>1. diff' = d /\ readPc' \in {"read", "refused"} /\ ReadAsWritten'
                BY <2>2, <3>1, <3>2, <3>5, ReadingEnds
            <4> QED
                BY <4>1 DEF ReaderInv
        <3> QED
            BY <3>3, <3>4, <3>5
    <2> QED
        BY <2>3, <2>4
<1> QED
    BY <1>1, <1>2

(***************************************************************************)
(* For every diff that a tool writes: the files of parse_diff and          *)
(* read_files are its sections, with every changed line in its file's      *)
(* hunk, with the numbers it has in the old file and in the new one,       *)
(* whatever it looks like, and however the last hunk of a section breaks   *)
(* off.                                                                    *)
(***************************************************************************)
THEOREM TheDiffIsRead == ReaderSpec => []ReadAsWritten
<1>1. ReaderInv => ReadAsWritten
    BY DEF ReaderInv
<1> QED
    BY <1>1, ReadingBegins, ReadingGoesOn, PTL DEF ReaderSpec

=============================================================================
