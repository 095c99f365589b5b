---------------------------- MODULE Release_proofs ----------------------------
(* For any repository, any checks and artifacts, and any number of         *)
(* preparations, people and failures: the verdict is earned, the records   *)
(* are true and nothing but a late file is written over.                   *)
EXTENDS Release, FiniteSetTheorems, SequenceTheorems, WellFoundedInduction, TLAPS

-----------------------------------------------------------------------------
(* The batches.                                                            *)

\* Division by the size of a batch.
LEMMA DivisionBounds ==
    ASSUME NEW a \in Nat, NEW b \in Nat \ {0}
    PROVE  /\ a \div b \in Nat
           /\ (a \div b) * b <= a /\ a < (a \div b) * b + b
<1>1. a \div b \in Int
    BY Z3
<1>2. (a \div b) * b <= a /\ a < (a \div b) * b + b
    BY Z3
<1>3. a \div b \in Nat
    BY <1>1, <1>2
<1> QED
    BY <1>2, <1>3

LEMMA ProductGrows ==
    ASSUME NEW a \in Int, NEW c \in Int, NEW b \in Nat, a <= c
    PROVE  a * b <= c * b
OBVIOUS

\* The order make_batches takes the files in has each of them once.
LEMMA OrderIsOfAll ==
    ASSUME NEW files, IsFiniteSet(files)
    PROVE  LET order == SetToSeq(files) IN
           /\ Cardinality(files) \in Nat
           /\ order \in [1..Cardinality(files) -> files]
           /\ \A i, j \in 1..Cardinality(files) : order[i] = order[j] => i = j
           /\ \A f \in files : \E i \in 1..Cardinality(files) : order[i] = f
<1> DEFINE n == Cardinality(files)
           order == SetToSeq(files)
<1>1. n \in Nat /\ ExistsBijection(1..n, files)
    BY FS_CardinalityType
<1>2. \E f \in [1..n -> files] : IsInjective(f)
    BY <1>1 DEF ExistsBijection, Bijection, Injection
<1>3. order \in [1..n -> files] /\ IsInjective(order)
    BY <1>2 DEF SetToSeq
<1>4. order \in Injection(1..n, files)
    BY <1>3 DEF Injection
<1>5. IsFiniteSet(1..n) /\ Cardinality(1..n) = n
    BY <1>1, FS_Interval
<1>6. order \in Surjection(1..n, files)
    <2> HIDE DEF order
    <2> QED
        BY <1>4, <1>5, FS_Injection
<1>7. \A f \in files : \E i \in 1..n : order[i] = f
    BY <1>6 DEF Surjection
<1>8. \A i, j \in 1..n : order[i] = order[j] => i = j
    BY <1>3 DEF IsInjective
<1> QED
    BY <1>1, <1>3, <1>7, <1>8

\* The batches hold every file once, and none of them is empty.
Partition(batches, files) ==
    /\ batches \in Seq(SUBSET files)
    /\ \A k \in 1..Len(batches) : batches[k] # {}
    /\ \A k, l \in 1..Len(batches) : k # l => batches[k] \cap batches[l] = {}
    /\ \A f \in files : \E k \in 1..Len(batches) : f \in batches[k]

LEMMA BatchedIsPartition ==
    ASSUME NEW files, IsFiniteSet(files)
    PROVE  Partition(Batched(files), files)
<1> DEFINE m == Cardinality(files)
           order == SetToSeq(files)
           B == BatchFiles
           n == (m + B - 1) \div B
           last(k) == IF k = n THEN m ELSE k * B
           batch(k) == {order[j] : j \in ((k - 1) * B + 1)..last(k)}
<1>1. /\ m \in Nat /\ order \in [1..m -> files]
      /\ \A i, j \in 1..m : order[i] = order[j] => i = j
      /\ \A f \in files : \E i \in 1..m : order[i] = f
    BY OrderIsOfAll
<1>2. Len(order) = m
    BY <1>1
<1>3. Batched(files) = [k \in 1..n |-> batch(k)]
    BY <1>2 DEF Batched
<1>4. B \in Nat \ {0}
    BY ReleaseAssumption
<1> HIDE DEF m, order, B
<1>5. m + B - 1 \in Nat
    BY <1>1, <1>4
<1>6. n \in Nat /\ n * B <= m + B - 1 /\ m + B - 1 < n * B + B
    <2>1. \A a \in Nat : a \div B \in Nat /\ (a \div B) * B <= a /\ a < (a \div B) * B + B
        BY <1>4, DivisionBounds
    <2> QED
        BY <1>5, <2>1
<1> HIDE DEF n
<1>7. ASSUME NEW k \in 1..n
      PROVE  /\ (k - 1) * B \in Nat /\ (k - 1) * B + 1 <= last(k) /\ last(k) <= m
             /\ last(k) \in Nat /\ last(k) <= k * B
    <2>1. k * B \in Nat /\ (k - 1) * B \in Nat /\ k * B = (k - 1) * B + B /\ n * B \in Nat
        BY <1>4, <1>6
    <2>2. CASE k = n
        BY <1>1, <1>4, <1>6, <2>1, <2>2
    <2>3. CASE k # n
        <3>1. k + 1 <= n /\ k + 1 \in Int /\ n \in Int
            BY <1>6, <2>3
        <3>2. (k + 1) * B <= n * B
            BY <1>4, <3>1, ProductGrows
        <3>3. (k + 1) * B = k * B + B
            BY <1>4, <2>1
        <3> QED
            BY <1>1, <1>4, <1>6, <2>1, <2>3, <3>2, <3>3
    <2> QED
        BY <2>2, <2>3
<1> HIDE DEF last
<1>8. ASSUME NEW k \in 1..n
      PROVE  ((k - 1) * B + 1)..last(k) \subseteq 1..m
    BY <1>1, <1>7
<1>9. \A k \in 1..n : batch(k) \in SUBSET files /\ batch(k) # {}
    <2> SUFFICES ASSUME NEW k \in 1..n PROVE batch(k) \in SUBSET files /\ batch(k) # {}
        OBVIOUS
    <2>1. ((k - 1) * B + 1)..last(k) \subseteq 1..m
        BY <1>8
    <2>2. (k - 1) * B + 1 \in ((k - 1) * B + 1)..last(k)
        BY <1>7
    <2> QED
        BY <1>1, <2>1, <2>2
<1>10. ASSUME NEW k \in 1..n, NEW l \in 1..n, k < l
       PROVE  batch(k) \cap batch(l) = {}
    <2>1. k * B <= (l - 1) * B
        BY <1>4, <1>6, <1>10, ProductGrows
    <2>2. last(k) <= k * B /\ (l - 1) * B \in Nat /\ last(k) \in Nat /\ k * B \in Nat
        BY <1>4, <1>7
    <2>3. ASSUME NEW i \in ((k - 1) * B + 1)..last(k), NEW j \in ((l - 1) * B + 1)..last(l)
          PROVE  order[i] # order[j]
        <3>1. i \in 1..m /\ j \in 1..m
            BY <1>8
        <3>2. i <= last(k) /\ (l - 1) * B + 1 <= j
            BY <1>7
        <3>3. i < j
            BY <2>1, <2>2, <3>1, <3>2
        <3> QED
            BY <1>1, <3>1, <3>3
    <2> QED
        BY <2>3
<1>11. ASSUME NEW f \in files PROVE \E k \in 1..n : f \in batch(k)
    <2>1. PICK i \in 1..m : order[i] = f
        BY <1>1
    <2> DEFINE k == ((i - 1) \div B) + 1
    <2>2. (i - 1) \div B \in Nat /\ k - 1 \in Nat /\ (k - 1) * B <= i - 1 /\ i - 1 < (k - 1) * B + B
        <3>1. i - 1 \in Nat
            BY <2>1
        <3>2. (i - 1) \div B \in Nat /\ ((i - 1) \div B) * B <= i - 1 /\ i - 1 < ((i - 1) \div B) * B + B
            BY <1>4, <3>1, DivisionBounds
        <3> QED
            BY <3>2
    <2> HIDE DEF k
    <2>3. k \in Nat \ {0} /\ k * B = (k - 1) * B + B
        <3>1. k \in Nat \ {0}
            BY <2>2 DEF k
        <3> QED
            BY <1>4, <3>1
    <2>4. k <= n
        <3>1. SUFFICES ASSUME n <= k - 1 PROVE FALSE
            BY <1>6, <2>3
        <3>2. n * B <= (k - 1) * B
            BY <1>4, <1>6, <2>3, <3>1, ProductGrows
        <3>3. n * B \in Int /\ (k - 1) * B \in Int
            BY <1>4, <1>6, <2>3
        <3>4. m - 1 < n * B
            BY <1>1, <1>4, <1>6, <3>3
        <3>5. (k - 1) * B <= m - 1
            <4>1. i - 1 <= m - 1 /\ i - 1 \in Int /\ m - 1 \in Int
                BY <1>1, <2>1
            <4> QED
                BY <2>2, <3>3, <4>1
        <3>6. m - 1 \in Int
            BY <1>1
        <3> QED
            BY <3>2, <3>3, <3>4, <3>5, <3>6
    <2>5. i <= last(k)
        <3>1. k * B \in Int /\ (k - 1) * B \in Int
            BY <1>4, <2>3
        <3> QED
            BY <1>4, <2>1, <2>2, <2>3, <3>1 DEF last
    <2>6. i \in ((k - 1) * B + 1)..last(k)
        <3>1. (k - 1) * B \in Int /\ last(k) \in Int
            BY <1>7, <2>3, <2>4
        <3> QED
            BY <2>1, <2>2, <2>5, <3>1
    <2> QED
        BY <2>1, <2>3, <2>4, <2>6
<1> HIDE DEF batch
<1>12. Batched(files) \in Seq(SUBSET files) /\ Len(Batched(files)) = n
    BY <1>3, <1>6, <1>9
<1>13. \A k, l \in 1..n : k # l => batch(k) \cap batch(l) = {}
    <2> SUFFICES ASSUME NEW k \in 1..n, NEW l \in 1..n, k # l
                 PROVE  batch(k) \cap batch(l) = {}
        OBVIOUS
    <2>1. CASE k < l
        BY <1>10, <2>1
    <2>2. CASE l < k
        BY <1>10, <2>2
    <2> QED
        BY <1>6, <2>1, <2>2
<1>14. \A k \in 1..n : Batched(files)[k] = batch(k)
    BY <1>3
<1> DEFINE batches == Batched(files)
<1>15. /\ batches \in Seq(SUBSET files) /\ Len(batches) = n
       /\ \A k \in 1..n : batches[k] = batch(k)
    BY <1>12, <1>14
<1> HIDE DEF batches
<1>16. Partition(batches, files)
    BY <1>9, <1>11, <1>13, <1>15 DEF Partition
<1> QED
    BY <1>16 DEF batches

-----------------------------------------------------------------------------
(* The invariant.                                                          *)

Steps == {"none", "inspect", "collect", "diff", "documents", "review", "checks",
          "draft", "conclude", "probe", "save", "answer"}
Results == {"not_run", "passed", "failed", "could_not_run"}
Statuses == {"none", "failed", "no_changes", "partial", "completed"}
Verdicts == {"none", "blocked", "not_verified", "nothing_to_release", "ready_with_warnings", "ready"}
Trees == [committed : SUBSET Files, modified : SUBSET Files, version : 0..MaxChanges]
RunsOf == [
    step : Steps, base : BOOLEAN, include : BOOLEAN, checks : SUBSET Range(Checks),
    start : SUBSET Files, startVersion : 0..MaxChanges,
    scope : SUBSET Files, withheld : SUBSET Files, batches : Seq(SUBSET Files),
    given : SUBSET Files, partly : SUBSET Files, unseen : SUBSET Files, notReviewed : SUBSET Files,
    broken : BOOLEAN, draft : {"none", "skipped", "generated", "failed"},
    results : [Range(Checks) -> Results],
    executed : BOOLEAN, compared : BOOLEAN, treeChanged : BOOLEAN,
    versions : SUBSET (0..MaxChanges), onlyEdits : BOOLEAN, defect : BOOLEAN, remark : BOOLEAN,
    status : Statuses, verdict : Verdicts, tried : 0..MaxIdTries,
    id : Ids \cup {"none"}, folder : Ids \cup {"none"},
    since : SUBSET Range(Names), saved : SUBSET Range(Names), missed : SUBSET Range(Names)]

Typed ==
    /\ tree \in Trees /\ run \in RunsOf
    /\ runs \in Nat /\ others \in Nat /\ failures \in Nat

Looked == {"diff", "documents", "review", "checks", "draft", "conclude"}
Began == {"collect"} \cup Looked

\* What the tree can have become since the preparation began, as long as it
\* was only edited.
TreeSince(t, r) ==
    /\ r.step \in Began => r.startVersion <= t.version
    /\ r.step \in Began /\ r.onlyEdits =>
         r.start \subseteq t.modified /\ (t.modified = {} => t.version = r.startVersion)
    /\ r.versions \subseteq r.startVersion..t.version
    /\ r.step \in Looked /\ ~r.remark /\ r.onlyEdits => r.start = {}
    /\ r.compared /\ ~r.treeChanged /\ ~r.remark /\ r.onlyEdits => r.versions = {r.startVersion}

\* What has not been done before a step.
InOrderOf(r) ==
    /\ r.step \in {"none", "inspect", "collect", "diff", "documents", "review"} =>
         ~r.executed /\ r.draft = "none" /\ r.versions = {}
    /\ r.step \in {"none", "inspect", "collect", "diff", "documents", "review", "checks"} => ~r.compared
    /\ r.step \in {"none", "inspect", "collect", "diff"} =>
         r.given = {} /\ r.notReviewed = {} /\ r.withheld = {}
    /\ r.draft = "skipped" /\ Shown(r) = {} => r.step = "conclude" /\ ~r.executed

\* Of the files given to the model some are read in part, or not at all; but
\* not none of them.
Parted(r) ==
    /\ r.partly \cup r.unseen \subseteq r.given /\ r.partly \cap r.unseen = {}
    /\ r.given # {} => Shown(r) # {}

\* Every file to analyze is given to the model, told of as not reviewed, or in a batch.
Accounted(r) ==
    /\ r.withheld \subseteq r.scope
    /\ r.given \cup r.notReviewed \subseteq Analyzed(r)
    /\ r.given \cap r.notReviewed = {} /\ Parted(r)
    /\ r.step \in {"documents", "review"} =>
         /\ \A k \in 1..Len(r.batches) :
              /\ r.batches[k] # {} /\ r.batches[k] \subseteq Analyzed(r)
              /\ r.batches[k] \cap (r.given \cup r.notReviewed) = {}
         /\ \A k, l \in 1..Len(r.batches) : k # l => r.batches[k] \cap r.batches[l] = {}
         /\ \A f \in Analyzed(r) \ (r.given \cup r.notReviewed) : \E k \in 1..Len(r.batches) : f \in r.batches[k]
    /\ r.step \in {"checks", "draft", "conclude"} /\ r.notReviewed = {} => r.given = Analyzed(r)

\* The folder is a run's own, and nothing is put there before it is found.
Kept(r) ==
    /\ r.saved \cap r.missed = {}
    /\ r.step \notin {"save", "answer"} => r.saved = {} /\ r.missed = {}
    /\ (r.step = "probe" => r.id \in Ids) /\ (r.step = "save" => r.folder \in Ids)

Holds(t, r) == TreeSince(t, r) /\ InOrderOf(r) /\ Accounted(r) /\ Kept(r)

VerdictInv == Typed /\ Holds(tree, run)

\* What a step leaves as it was: of the tree that was looked at, of the files,
\* of the artifacts.
SameLook(r, new) ==
    /\ new.start = r.start /\ new.startVersion = r.startVersion /\ new.versions = r.versions
    /\ new.compared = r.compared /\ new.treeChanged = r.treeChanged /\ new.onlyEdits = r.onlyEdits
SameParts(r, new) == new.given = r.given /\ new.partly = r.partly /\ new.unseen = r.unseen
SameFiles(r, new) ==
    /\ new.scope = r.scope /\ new.withheld = r.withheld /\ new.batches = r.batches
    /\ new.notReviewed = r.notReviewed /\ SameParts(r, new)
SameArtifacts(r, new) == new.saved = r.saved /\ new.missed = r.missed

LEMMA TreeSinceStays ==
    ASSUME NEW t, NEW r, NEW new, TreeSince(t, r), SameLook(r, new),
           new.remark \in BOOLEAN, r.remark \in BOOLEAN, r.remark => new.remark,
           new.step \in Began => r.step \in Looked
    PROVE  TreeSince(t, new)
BY DEF TreeSince, Looked, Began, SameLook, Looked, Began

\* A run that looked at nothing holds everything.
LEMMA FreshHolds ==
    ASSUME Typed, Holds(tree, run), NEW new, new.step \in {"none", "inspect", "probe"},
           SameLook(NoRun, new), SameFiles(NoRun, new), SameArtifacts(NoRun, new),
           ~new.executed, new.draft = "none", new.step = "probe" => new.id \in Ids
    PROVE  Holds(tree, new)
<1>1. TreeSince(tree, new)
    BY DEF Holds, TreeSince, Looked, Began, SameLook, NoRun
<1>2. InOrderOf(new) /\ Accounted(new) /\ Kept(new)
    BY DEF InOrderOf, Accounted, Parted, Shown, Kept, Analyzed, SameLook, SameFiles, SameParts, SameArtifacts, NoRun
<1> QED
    BY <1>1, <1>2 DEF Holds

LEMMA NoRunIsTyped == NoRun \in RunsOf
<1>1. {} \in SUBSET Files /\ <<>> \in Seq(SUBSET Files)
    OBVIOUS
<1>2. [c \in Range(Checks) |-> "not_run"] \in [Range(Checks) -> Results]
    BY DEF Results
<1>3. MaxChanges \in Nat /\ MaxIdTries \in Nat
    BY ReleaseAssumption
<1> QED
    BY <1>1, <1>2, <1>3 DEF NoRun, RunsOf, Steps, Statuses, Verdicts

\* The run alone changes.
LEMMA RunKeeps ==
    ASSUME VerdictInv, NEW new \in RunsOf, run' = new, tree' = tree,
           runs' \in Nat, others' \in Nat, failures' \in Nat, Holds(tree, new)
    PROVE  VerdictInv'
<1>1. Typed'
    BY DEF VerdictInv, Typed
<1>2. Holds(tree, run)'
    BY DEF Holds, TreeSince, Looked, Began, InOrderOf, Accounted, Parted, Shown, Kept, Analyzed
<1> QED
    BY <1>1, <1>2 DEF VerdictInv

LEMMA RunBecomes ==
    ASSUME VerdictInv, NEW new \in RunsOf, Becomes(new), Holds(tree, new)
    PROVE  VerdictInv'
<1>1. run' = new /\ tree' = tree /\ runs' = runs /\ others' = others /\ failures' = failures
    BY DEF Becomes, counts
<1>2. runs' \in Nat /\ others' \in Nat /\ failures' \in Nat
    BY <1>1 DEF VerdictInv, Typed
<1> QED
    BY <1>1, <1>2, RunKeeps

LEMMA RunFails ==
    ASSUME VerdictInv, NEW new \in RunsOf, Fails, run' = new, Holds(tree, new),
           tree' = tree, runs' = runs, others' = others
    PROVE  VerdictInv'
<1>1. runs' \in Nat /\ others' \in Nat /\ failures' \in Nat
    BY DEF Fails, VerdictInv, Typed
<1> QED
    BY <1>1, RunKeeps

-----------------------------------------------------------------------------
(* The steps up to the review.                                             *)

LEMMA PreparesKeeps == ASSUME VerdictInv, Prepares PROVE VerdictInv'
<1>1. PICK base \in BOOLEAN, include \in BOOLEAN, selected \in Selections :
        run' = [NoRun EXCEPT !.step = "inspect", !.base = base, !.include = base /\ include,
                             !.checks = selected]
    BY DEF Prepares
<1> DEFINE both == base /\ include
           new == [NoRun EXCEPT !.step = "inspect", !.base = base, !.include = both, !.checks = selected]
<1>2. selected \in SUBSET Range(Checks) /\ both \in BOOLEAN
    BY DEF Selections
<1> HIDE DEF both
<1>3. /\ new \in RunsOf /\ new.step = "inspect"
      /\ SameLook(NoRun, new) /\ SameFiles(NoRun, new) /\ SameArtifacts(NoRun, new)
      /\ new.executed = NoRun.executed /\ new.draft = NoRun.draft
    <2>1. NoRun \in RunsOf
        BY NoRunIsTyped
    <2>2. new \in RunsOf
        BY <1>2, <2>1 DEF RunsOf, Steps
    <2>3. /\ SameLook(NoRun, new) /\ SameFiles(NoRun, new) /\ SameArtifacts(NoRun, new)
          /\ new.step = "inspect" /\ new.executed = NoRun.executed /\ new.draft = NoRun.draft
        BY <2>1 DEF RunsOf, SameLook, SameFiles, SameParts, SameArtifacts
    <2> QED
        BY <2>2, <2>3
<1>4. run' = new /\ tree' = tree /\ runs' = runs + 1 /\ others' = others /\ failures' = failures
    BY <1>1 DEF Prepares, both
<1> HIDE DEF new
<1>5. ~new.executed /\ new.draft = "none"
    BY <1>3 DEF NoRun
<1>6. Typed /\ Holds(tree, run)
    BY DEF VerdictInv
<1>7. Holds(tree, new)
    BY <1>3, <1>5, <1>6, FreshHolds
<1>8. runs' \in Nat /\ others' \in Nat /\ failures' \in Nat
    BY <1>4, <1>6 DEF Typed
<1> QED
    BY <1>3, <1>4, <1>7, <1>8, RunKeeps

LEMMA NoRunHolds == ASSUME VerdictInv PROVE Holds(tree, NoRun)
<1>1. /\ SameLook(NoRun, NoRun) /\ SameFiles(NoRun, NoRun) /\ SameArtifacts(NoRun, NoRun)
    BY DEF SameLook, SameFiles, SameParts, SameArtifacts
<1>2. NoRun.step = "none" /\ ~NoRun.executed /\ NoRun.draft = "none"
    BY DEF NoRun
<1> QED
    BY <1>1, <1>2, FreshHolds DEF VerdictInv

LEMMA RefusesKeeps == ASSUME VerdictInv, Refuses PROVE VerdictInv'
<1>1. Fails /\ run' = NoRun /\ tree' = tree /\ runs' = runs /\ others' = others
    BY DEF Refuses
<1> QED
    BY <1>1, NoRunHolds, NoRunIsTyped, RunFails

LEMMA AnswersKeeps == ASSUME VerdictInv, Answers PROVE VerdictInv'
<1>1. Becomes(NoRun)
    BY DEF Answers
<1> QED
    BY <1>1, NoRunHolds, NoRunIsTyped, RunBecomes

\* The signature of the tree, and its version.
LEMMA InspectsKeeps == ASSUME VerdictInv, Inspects PROVE VerdictInv'
<1>1. PICK conflicted \in BOOLEAN :
        Becomes([Goes(run, "collect") EXCEPT !.start = tree.modified, !.startVersion = tree.version,
                                             !.defect = conflicted])
    BY DEF Inspects
<1> DEFINE new == [Goes(run, "collect") EXCEPT !.start = tree.modified, !.startVersion = tree.version,
                                               !.defect = conflicted]
<1>2. run \in RunsOf /\ run.step = "inspect" /\ tree \in Trees /\ Holds(tree, run)
    BY DEF VerdictInv, Typed, Inspects, At
<1>3. tree.modified \in SUBSET Files /\ tree.version \in 0..MaxChanges
    BY <1>2 DEF Trees
<1>4. /\ new \in RunsOf /\ new.step = "collect"
      /\ SameFiles(run, new) /\ SameArtifacts(run, new)
      /\ new.start = tree.modified /\ new.startVersion = tree.version /\ new.versions = run.versions
      /\ new.compared = run.compared /\ new.onlyEdits = run.onlyEdits /\ new.executed = run.executed /\ new.draft = run.draft
    BY <1>2, <1>3 DEF RunsOf, Steps, Goes, SameFiles, SameParts, SameArtifacts
<1>5. Becomes(new)
    BY <1>1
<1> HIDE DEF new
<1>6. InOrderOf(run) /\ TreeSince(tree, run) /\ Accounted(run) /\ Kept(run)
    BY <1>2 DEF Holds
<1>7. TreeSince(tree, new)
    <2>1. run.versions = {} /\ ~run.compared
        BY <1>2, <1>6 DEF InOrderOf
    <2> QED
        BY <1>2, <1>3, <1>4, <2>1 DEF TreeSince, Looked, Began
<1>8. InOrderOf(new)
    BY <1>2, <1>4, <1>6 DEF InOrderOf, Shown, SameFiles, SameParts
<1>9. Accounted(new) /\ Kept(new)
    BY <1>2, <1>4, <1>6 DEF Accounted, Parted, Shown, Kept, Analyzed, SameFiles, SameParts, SameArtifacts
<1> QED
    BY <1>4, <1>5, <1>7, <1>8, <1>9, RunBecomes DEF Holds

\* What is left out of the analysis is remarked; without a remark the tree was
\* as the last commit left it when the preparation began.
LEMMA CollectsKeeps == ASSUME VerdictInv, Collects PROVE VerdictInv'
<1>1. PICK untracked \in BOOLEAN :
        LET r == [run EXCEPT !.scope = InScope(run),
                             !.remark = AnalyzesLess(run) \/ untracked]
        IN  Becomes(Goes(r, IF r.scope = {} THEN "conclude" ELSE "diff"))
    BY DEF Collects
<1>2. run \in RunsOf /\ run.step = "collect" /\ tree \in Trees /\ Holds(tree, run)
    BY DEF VerdictInv, Typed, Collects, At
<1> DEFINE scope == InScope(run)
           remark == AnalyzesLess(run) \/ untracked
           r == [run EXCEPT !.scope = scope, !.remark = remark]
           step == IF r.scope = {} THEN "conclude" ELSE "diff"
           new == [r EXCEPT !.step = step]
<1>3. scope \in SUBSET Files /\ remark \in BOOLEAN
    BY <1>2 DEF InScope, Trees, AnalyzesLess, RunsOf
<1>4. remark = FALSE => tree.modified = {}
    BY <1>2 DEF AnalyzesLess, RunsOf
<1>5. Becomes(new)
    BY <1>1 DEF Goes
<1> HIDE DEF scope, remark
<1>6. step \in {"conclude", "diff"}
    OBVIOUS
<1> HIDE DEF step
<1>7. /\ new \in RunsOf /\ new.step = step /\ new.scope = scope /\ new.remark = remark
      /\ SameLook(run, new) /\ SameArtifacts(run, new)
      /\ new.withheld = run.withheld /\ new.batches = run.batches
      /\ SameParts(run, new) /\ new.notReviewed = run.notReviewed
      /\ new.executed = run.executed /\ new.draft = run.draft
    BY <1>2, <1>3, <1>6 DEF RunsOf, Steps, SameLook, SameArtifacts, SameParts
<1>8. step = "conclude" <=> scope = {}
    BY <1>2 DEF step, RunsOf
<1> HIDE DEF new, r
<1>9. InOrderOf(run) /\ TreeSince(tree, run) /\ Accounted(run) /\ Kept(run)
    BY <1>2 DEF Holds
<1>10. TreeSince(tree, new)
    <2>1. ~run.compared
        BY <1>2, <1>9 DEF InOrderOf
    <2>2. /\ run.startVersion <= tree.version /\ run.versions \subseteq run.startVersion..tree.version
          /\ run.onlyEdits => run.start \subseteq tree.modified
                             /\ (tree.modified = {} => tree.version = run.startVersion)
        BY <1>2, <1>9 DEF TreeSince, Began
    <2>3. ~remark /\ run.onlyEdits => run.start = {}
        BY <1>3, <1>4, <2>2
    <2> QED
        BY <1>3, <1>7, <2>1, <2>2, <2>3 DEF TreeSince, SameLook
<1>11. InOrderOf(new)
    BY <1>2, <1>6, <1>7, <1>9 DEF InOrderOf, Shown, SameLook, SameParts
<1>12. run.withheld = {} /\ run.given = {} /\ run.notReviewed = {}
    BY <1>2, <1>9 DEF InOrderOf, Shown
<1>13. Accounted(new) /\ Kept(new)
    BY <1>2, <1>6, <1>7, <1>8, <1>9, <1>12 DEF Accounted, Parted, Shown, Kept, Analyzed, InOrderOf, SameArtifacts, SameParts
<1> QED
    BY <1>5, <1>7, <1>10, <1>11, <1>13, RunBecomes DEF Holds

\* What the plan puts into the batches to review, and what over them.
Planned(r, p) ==
    /\ p.batches \in Seq(SUBSET Analyzed(r)) /\ p.notReviewed \in SUBSET Analyzed(r)
    /\ \A k \in 1..Len(p.batches) : p.batches[k] # {} /\ p.batches[k] \cap p.notReviewed = {}
    /\ \A k, l \in 1..Len(p.batches) : k # l => p.batches[k] \cap p.batches[l] = {}
    /\ \A f \in Analyzed(r) \ p.notReviewed : \E k \in 1..Len(p.batches) : f \in p.batches[k]

LEMMA PlanIsAll ==
    ASSUME NEW r \in RunsOf, r.notReviewed = {}
    PROVE  LET p == Plan(r) IN
           /\ p \in RunsOf /\ Planned(r, p)
           /\ SameLook(r, p) /\ SameArtifacts(r, p) /\ p.remark = r.remark
           /\ p.executed = r.executed /\ p.draft = r.draft /\ p.step = r.step
           /\ p.scope = r.scope /\ p.withheld = r.withheld /\ SameParts(r, p)
<1> DEFINE A == Analyzed(r)
           all == Batched(A)
           p == Plan(r)
<1>1. A \in SUBSET Files
    BY DEF Analyzed, RunsOf
<1>2. IsFiniteSet(A)
    BY <1>1, ReleaseAssumption, FS_Subset
<1>3. Partition(all, A)
    BY <1>2, BatchedIsPartition
<1>4. p = IF Len(all) <= MaxBatches THEN [r EXCEPT !.batches = all]
                ELSE [r EXCEPT !.batches = SubSeq(all, 1, MaxBatches),
                               !.notReviewed = UNION {all[k] : k \in (MaxBatches + 1)..Len(all)}]
    BY DEF Plan
<1> HIDE DEF A, all, p
<1>5. /\ all \in Seq(SUBSET A) /\ Len(all) \in Nat
      /\ \A k \in 1..Len(all) : all[k] # {} /\ all[k] \in SUBSET A
    BY <1>3 DEF Partition
<1>6. MaxBatches \in Nat \ {0}
    BY ReleaseAssumption
<1> DEFINE Rest == /\ SameLook(r, p) /\ SameArtifacts(r, p) /\ p.remark = r.remark
                   /\ p.executed = r.executed /\ p.draft = r.draft /\ p.step = r.step
                   /\ p.scope = r.scope /\ p.withheld = r.withheld /\ SameParts(r, p)
<1>7. CASE Len(all) <= MaxBatches
    <2>1. p = [r EXCEPT !.batches = all]
        BY <1>4, <1>7
    <2>2. all \in Seq(SUBSET Files)
        BY <1>1, <1>5
    <2>3. p \in RunsOf
        BY <2>1, <2>2 DEF RunsOf
    <2>4. p.batches = all /\ p.notReviewed = {} /\ Rest
        BY <2>1 DEF RunsOf, SameLook, SameArtifacts, SameParts
    <2>5. \A k \in 1..Len(all) : all[k] \cap {} = {}
        OBVIOUS
    <2>6. Planned(r, p)
        BY <1>3, <2>4, <2>5 DEF Planned, Partition, A
    <2> QED
        BY <2>3, <2>4, <2>6 DEF p
<1>8. CASE ~(Len(all) <= MaxBatches)
    <2> DEFINE batches == SubSeq(all, 1, MaxBatches)
               over == UNION {all[k] : k \in (MaxBatches + 1)..Len(all)}
    <2>1. p = [r EXCEPT !.batches = batches, !.notReviewed = over]
        BY <1>4, <1>8
    <2>2. /\ batches \in Seq(SUBSET A) /\ Len(batches) = MaxBatches
          /\ \A k \in 1..MaxBatches : batches[k] = all[k] /\ k \in 1..Len(all)
        BY <1>5, <1>6, <1>8
    <2>3. \A k \in (MaxBatches + 1)..Len(all) : k \in 1..Len(all) /\ k \notin 1..MaxBatches
        BY <1>5, <1>6
    <2>4. over \in SUBSET A
        BY <1>5, <2>3
    <2> HIDE DEF batches
    <2>5. ASSUME NEW k \in 1..MaxBatches PROVE batches[k] # {} /\ batches[k] \cap over = {}
        <3>1. ASSUME NEW l \in (MaxBatches + 1)..Len(all) PROVE all[k] \cap all[l] = {}
            BY <1>3, <2>2, <2>3 DEF Partition
        <3>2. batches[k] = all[k] /\ all[k] # {}
            BY <1>5, <2>2
        <3> QED
            BY <3>1, <3>2
    <2>6. \A k, l \in 1..MaxBatches : k # l => batches[k] \cap batches[l] = {}
        BY <1>3, <2>2 DEF Partition
    <2>7. ASSUME NEW f \in A \ over PROVE \E k \in 1..MaxBatches : f \in batches[k]
        <3>1. PICK k \in 1..Len(all) : f \in all[k]
            BY <1>3 DEF Partition
        <3>2. k \notin (MaxBatches + 1)..Len(all)
            BY <3>1
        <3>3. k \in 1..MaxBatches
            BY <1>5, <1>6, <3>2
        <3> QED
            BY <2>2, <3>1, <3>3
    <2> HIDE DEF over
    <2>8. batches \in Seq(SUBSET Files) /\ over \in SUBSET Files
        BY <1>1, <2>2, <2>4
    <2>9. p \in RunsOf
        BY <2>1, <2>8 DEF RunsOf
    <2>10. p.batches = batches /\ p.notReviewed = over /\ Rest
        BY <2>1 DEF RunsOf, SameLook, SameArtifacts, SameParts
    <2>11. Planned(r, p)
        BY <2>2, <2>4, <2>5, <2>6, <2>7, <2>10 DEF Planned, A
    <2> QED
        BY <2>9, <2>10, <2>11 DEF p
<1> QED
    BY <1>7, <1>8

\* The diff: the scope as it is by now, and the plan of its review.
LEMMA ReadsDiffKeeps == ASSUME VerdictInv, ReadsDiff PROVE VerdictInv'
<1>1. PICK withheld \in SUBSET InScope(run) :
        LET r == [run EXCEPT !.scope = InScope(run), !.withheld = withheld,
                             !.base = FALSE, !.include = FALSE]
        IN  Becomes(IF Analyzed(r) = {} THEN Goes(r, "conclude") ELSE Goes(Plan(r), "documents"))
    BY DEF ReadsDiff
<1>2. run \in RunsOf /\ run.step = "diff" /\ tree \in Trees /\ Holds(tree, run)
    BY DEF VerdictInv, Typed, ReadsDiff, At
<1> DEFINE scope == InScope(run)
           r == [run EXCEPT !.scope = scope, !.withheld = withheld, !.base = FALSE, !.include = FALSE]
<1>3. scope \in SUBSET Files /\ withheld \in SUBSET scope
    BY <1>2 DEF InScope, Trees, RunsOf
<1>4. Becomes(IF Analyzed(r) = {} THEN Goes(r, "conclude") ELSE Goes(Plan(r), "documents"))
    BY <1>1
<1> HIDE DEF scope
<1>5. /\ r \in RunsOf /\ r.step = run.step /\ r.scope = scope /\ r.withheld = withheld
      /\ SameLook(run, r) /\ SameArtifacts(run, r) /\ r.remark = run.remark
      /\ SameParts(run, r) /\ r.notReviewed = run.notReviewed
      /\ r.executed = run.executed /\ r.draft = run.draft
    BY <1>2, <1>3 DEF RunsOf, SameLook, SameArtifacts, SameParts
<1> HIDE DEF r
<1>6. InOrderOf(run) /\ TreeSince(tree, run) /\ Accounted(run) /\ Kept(run)
    BY <1>2 DEF Holds
<1>7. r.given = {} /\ r.notReviewed = {} /\ ~r.executed /\ r.draft = "none" /\ ~r.compared
      /\ r.versions = {}
    BY <1>2, <1>5, <1>6 DEF InOrderOf, SameLook, SameParts
<1>8. CASE Analyzed(r) = {}
    <2> DEFINE new == [r EXCEPT !.step = "conclude"]
    <2>1. Becomes(new)
        BY <1>4, <1>8 DEF Goes
    <2>2. /\ new \in RunsOf /\ new.step = "conclude" /\ SameFiles(r, new) /\ SameLook(r, new)
          /\ SameArtifacts(r, new) /\ new.remark = r.remark /\ new.executed = r.executed /\ new.draft = r.draft
        BY <1>5 DEF RunsOf, Steps, SameLook, SameFiles, SameParts, SameArtifacts
    <2> HIDE DEF new
    <2>3. TreeSince(tree, new)
        BY <1>2, <1>5, <1>6, <2>2 DEF TreeSince, Looked, Began, SameLook
    <2>4. InOrderOf(new)
        BY <1>7, <2>2 DEF InOrderOf, Shown, SameLook, SameFiles, SameParts
    <2>5. Accounted(new) /\ Kept(new)
        BY <1>2, <1>3, <1>5, <1>6, <1>7, <1>8, <2>2 DEF Accounted, Parted, Shown, Kept, Analyzed, SameFiles, SameParts, SameArtifacts
    <2> QED
        BY <2>1, <2>2, <2>3, <2>4, <2>5, RunBecomes DEF Holds
<1>9. CASE Analyzed(r) # {}
    <2> DEFINE p == Plan(r)
               new == [p EXCEPT !.step = "documents"]
    <2>1. /\ p \in RunsOf /\ Planned(r, p)
          /\ SameLook(r, p) /\ SameArtifacts(r, p) /\ p.remark = r.remark
          /\ p.executed = r.executed /\ p.draft = r.draft /\ p.step = r.step
          /\ p.scope = r.scope /\ p.withheld = r.withheld /\ SameParts(r, p)
        BY <1>5, <1>7, PlanIsAll
    <2>2. Becomes(new)
        BY <1>4, <1>9 DEF Goes
    <2> HIDE DEF p
    <2>3. /\ new \in RunsOf /\ new.step = "documents" /\ SameFiles(p, new) /\ SameLook(p, new)
          /\ SameArtifacts(p, new) /\ new.remark = p.remark /\ new.executed = p.executed /\ new.draft = p.draft
        BY <2>1 DEF RunsOf, Steps, SameLook, SameFiles, SameParts, SameArtifacts
    <2> HIDE DEF new
    <2>4. TreeSince(tree, new)
        <3>1. SameLook(run, new) /\ new.remark = run.remark
            BY <1>5, <2>1, <2>3 DEF SameLook
        <3>2. run.remark \in BOOLEAN
            BY <1>2 DEF RunsOf
        <3> QED
            BY <1>2, <1>6, <3>1, <3>2, TreeSinceStays DEF Looked
    <2>5. InOrderOf(new)
        BY <1>7, <2>1, <2>3 DEF InOrderOf, Shown, SameLook, SameFiles, SameParts
    <2>6. Analyzed(new) = Analyzed(r)
        BY <2>1, <2>3 DEF Analyzed, SameFiles, SameParts
    <2>7. \A k \in 1..Len(p.batches) : p.batches[k] \subseteq Analyzed(r)
        BY <2>1 DEF Planned
    <2>8. /\ new.withheld \subseteq new.scope /\ new.step = "documents" /\ new.batches = p.batches
          /\ new.given = {} /\ new.notReviewed = p.notReviewed
        BY <1>3, <1>5, <1>7, <2>1, <2>3 DEF SameFiles, SameParts
    <2>11. Parted(new)
        <3>1. SameParts(run, new)
            BY <1>5, <2>1, <2>3 DEF SameFiles, SameParts
        <3> QED
            BY <1>6, <3>1 DEF Accounted, Parted, Shown, SameParts
    <2>9. Accounted(new)
        BY <2>1, <2>6, <2>7, <2>8, <2>11 DEF Accounted, Planned
    <2>10. Kept(new)
        BY <1>2, <1>5, <1>6, <2>1, <2>3 DEF Kept, SameArtifacts
    <2> QED
        BY <2>2, <2>3, <2>4, <2>5, <2>9, <2>10, RunBecomes DEF Holds
<1> QED
    BY <1>8, <1>9

\* Documents that mention what changed are remarked.
LEMMA DocumentsKeeps == ASSUME VerdictInv, Documents PROVE VerdictInv'
<1>1. PICK flagged \in BOOLEAN : Becomes([Goes(run, "review") EXCEPT !.remark = @ \/ flagged])
    BY DEF Documents
<1>2. run \in RunsOf /\ run.step = "documents" /\ Holds(tree, run)
    BY DEF VerdictInv, Typed, Documents, At
<1> DEFINE remark == run.remark \/ flagged
           new == [run EXCEPT !.step = "review", !.remark = remark]
<1>3. Becomes(new)
    <2>1. [Goes(run, "review") EXCEPT !.remark = @ \/ flagged] = new
        BY <1>2 DEF Goes, RunsOf
    <2> HIDE DEF new
    <2> QED
        BY <1>1, <2>1
<1>4. remark \in BOOLEAN /\ (run.remark => remark) /\ run.remark \in BOOLEAN
    BY <1>2 DEF RunsOf
<1> HIDE DEF remark
<1>5. /\ new \in RunsOf /\ new.step = "review" /\ SameFiles(run, new) /\ SameLook(run, new)
      /\ SameArtifacts(run, new) /\ new.remark = remark /\ new.executed = run.executed /\ new.draft = run.draft
    BY <1>2, <1>4 DEF RunsOf, Steps, SameLook, SameFiles, SameParts, SameArtifacts
<1> HIDE DEF new
<1>6. InOrderOf(run) /\ TreeSince(tree, run) /\ Accounted(run) /\ Kept(run)
    BY <1>2 DEF Holds
<1>7. TreeSince(tree, new)
    BY <1>2, <1>4, <1>5, <1>6, TreeSinceStays DEF Looked, Began
<1>8. InOrderOf(new)
    BY <1>2, <1>5, <1>6 DEF InOrderOf, Shown, SameLook, SameFiles, SameParts
<1>9. Accounted(new) /\ Kept(new)
    BY <1>2, <1>5, <1>6 DEF Accounted, Parted, Shown, Kept, Analyzed, SameFiles, SameParts, SameArtifacts
<1> QED
    BY <1>3, <1>5, <1>7, <1>8, <1>9, RunBecomes DEF Holds

-----------------------------------------------------------------------------
(* The review.                                                             *)

\* The batch under review, and those after it.
LEMMA BatchIsOfFiles ==
    ASSUME run \in RunsOf, run.step = "review", Accounted(run), run.batches # <<>>
    PROVE  LET rest == Tail(run.batches) IN
           /\ Batch \in SUBSET Files /\ Batch # {} /\ Batch \subseteq Analyzed(run)
           /\ Batch \cap (run.given \cup run.notReviewed) = {}
           /\ rest \in Seq(SUBSET Files)
           /\ \A k \in 1..Len(rest) :
                /\ rest[k] # {} /\ rest[k] \subseteq Analyzed(run)
                /\ rest[k] \cap (run.given \cup run.notReviewed \cup Batch) = {}
           /\ \A k, l \in 1..Len(rest) : k # l => rest[k] \cap rest[l] = {}
           /\ \A f \in Analyzed(run) \ (run.given \cup run.notReviewed \cup Batch) :
                \E k \in 1..Len(rest) : f \in rest[k]
<1> DEFINE all == run.batches
           rest == Tail(run.batches)
           done == run.given \cup run.notReviewed
           A == Analyzed(run)
<1>1. all \in Seq(SUBSET Files) /\ all # <<>>
    BY DEF RunsOf
<1>2. /\ \A k \in 1..Len(all) : all[k] # {} /\ all[k] \subseteq A /\ all[k] \cap done = {}
      /\ \A k, l \in 1..Len(all) : k # l => all[k] \cap all[l] = {}
      /\ \A f \in A \ done : \E k \in 1..Len(all) : f \in all[k]
    BY DEF Accounted, Parted, Shown
<1>3. Batch = all[1]
    BY <1>1 DEF Batch
<1> HIDE DEF all, done, A
<1>4. Len(all) \in Nat /\ 1 \in 1..Len(all)
    BY <1>1
<1>5. /\ Tail(all) \in Seq(SUBSET Files) /\ Len(Tail(all)) = Len(all) - 1
      /\ \A k \in 1..(Len(all) - 1) : Tail(all)[k] = all[k + 1]
    BY <1>1
<1>6. rest = Tail(all)
    BY DEF all
<1> HIDE DEF rest
<1>7. \A k \in 1..Len(rest) : rest[k] = all[k + 1] /\ k + 1 \in 1..Len(all) /\ k + 1 # 1
    BY <1>4, <1>5, <1>6
<1>8. all[1] \in SUBSET Files
    BY <1>1, <1>4
<1>9. \A k \in 1..Len(rest) : rest[k] # {} /\ rest[k] \subseteq A /\ rest[k] \cap (done \cup all[1]) = {}
    BY <1>2, <1>4, <1>7
<1>10. \A k, l \in 1..Len(rest) : k # l => rest[k] \cap rest[l] = {}
    <2> SUFFICES ASSUME NEW k \in 1..Len(rest), NEW l \in 1..Len(rest), k # l
                 PROVE  rest[k] \cap rest[l] = {}
        OBVIOUS
    <2>1. k + 1 # l + 1
        OBVIOUS
    <2>2. rest[k] = all[k + 1] /\ rest[l] = all[l + 1] /\ k + 1 \in 1..Len(all) /\ l + 1 \in 1..Len(all)
        BY <1>7
    <2>3. all[k + 1] \cap all[l + 1] = {}
        BY <1>2, <2>1, <2>2
    <2> QED
        BY <2>2, <2>3
<1>11. ASSUME NEW f \in A \ (done \cup all[1]) PROVE \E k \in 1..Len(rest) : f \in rest[k]
    <2>1. PICK k \in 1..Len(all) : f \in all[k]
        BY <1>2
    <2>2. k # 1
        BY <2>1
    <2>3. k - 1 \in 1..Len(rest) /\ (k - 1) + 1 = k
        BY <1>4, <1>5, <1>6, <2>1, <2>2
    <2> QED
        BY <1>7, <2>1, <2>3
<1>12. all[1] # {} /\ all[1] \subseteq A /\ all[1] \cap done = {}
    BY <1>2, <1>4
<1>13. rest \in Seq(SUBSET Files)
    BY <1>5, <1>6
<1>14. \A k \in 1..Len(rest) : rest[k] # {} /\ rest[k] \subseteq A /\ rest[k] \cap (done \cup Batch) = {}
    BY <1>3, <1>9
<1>15. \A f \in A \ (done \cup Batch) : \E k \in 1..Len(rest) : f \in rest[k]
    BY <1>3, <1>11
<1> QED
    BY <1>3, <1>8, <1>10, <1>12, <1>13, <1>14, <1>15 DEF rest, done, A

\* A batch goes to those reviewed, or to those told of.
LEMMA BatchDone ==
    ASSUME run \in RunsOf, run.step = "review", Holds(tree, run), run.batches # <<>>,
           NEW new, new.step = "review", new.batches = Tail(run.batches), SameLook(run, new),
           SameArtifacts(run, new), new.scope = run.scope, new.withheld = run.withheld,
           \/ /\ new.given = run.given \cup Batch /\ new.notReviewed = run.notReviewed
              /\ \E unseen \in (SUBSET Batch) \ {Batch} : \E partly \in SUBSET (Batch \ unseen) :
                   new.partly = run.partly \cup partly /\ new.unseen = run.unseen \cup unseen
           \/ SameParts(run, new) /\ new.notReviewed = run.notReviewed \cup Batch,
           new.remark \in BOOLEAN, run.remark => new.remark,
           new.executed = run.executed, new.draft = run.draft
    PROVE  Holds(tree, new)
<1>1. InOrderOf(run) /\ TreeSince(tree, run) /\ Accounted(run) /\ Kept(run) /\ run.remark \in BOOLEAN
    BY DEF Holds, RunsOf
<1>2. TreeSince(tree, new)
    BY <1>1, TreeSinceStays DEF Looked, Began
<1>3. InOrderOf(new)
    BY <1>1 DEF InOrderOf, Shown, SameLook
<1>4. Analyzed(new) = Analyzed(run)
    BY DEF Analyzed
<1> DEFINE rest == Tail(run.batches)
<1>5. /\ Batch \in SUBSET Files /\ Batch # {} /\ Batch \subseteq Analyzed(run)
      /\ Batch \cap (run.given \cup run.notReviewed) = {}
      /\ \A k \in 1..Len(rest) :
           /\ rest[k] # {} /\ rest[k] \subseteq Analyzed(run)
           /\ rest[k] \cap (run.given \cup run.notReviewed \cup Batch) = {}
      /\ \A k, l \in 1..Len(rest) : k # l => rest[k] \cap rest[l] = {}
      /\ \A f \in Analyzed(run) \ (run.given \cup run.notReviewed \cup Batch) :
           \E k \in 1..Len(rest) : f \in rest[k]
    BY <1>1, BatchIsOfFiles
<1>6. new.batches = rest
    OBVIOUS
<1> HIDE DEF rest
<1>7. new.given \cup new.notReviewed = run.given \cup run.notReviewed \cup Batch
    BY DEF SameParts
<1>12. Parted(new)
    <2>1. CASE SameParts(run, new)
        BY <1>1, <2>1 DEF Accounted, Parted, Shown, SameParts
    <2>2. CASE /\ new.given = run.given \cup Batch
               /\ \E unseen \in (SUBSET Batch) \ {Batch} : \E partly \in SUBSET (Batch \ unseen) :
                    new.partly = run.partly \cup partly /\ new.unseen = run.unseen \cup unseen
        <3>7. PICK unseen \in (SUBSET Batch) \ {Batch} : \E partly \in SUBSET (Batch \ unseen) :
                new.partly = run.partly \cup partly /\ new.unseen = run.unseen \cup unseen
            BY <2>2
        <3>1. PICK partly \in SUBSET (Batch \ unseen) :
                new.partly = run.partly \cup partly /\ new.unseen = run.unseen \cup unseen
            BY <3>7
        <3>2. run.partly \cup run.unseen \subseteq run.given /\ run.partly \cap run.unseen = {}
            BY <1>1 DEF Accounted, Parted
        <3>3. run.given \cap Batch = {}
            BY <1>5
        <3>4. new.partly \cup new.unseen \subseteq new.given /\ new.partly \cap new.unseen = {}
            <4>1. partly \subseteq Batch /\ unseen \subseteq Batch /\ partly \cap unseen = {}
                BY <3>7
            <4> QED
                BY <2>2, <3>1, <3>2, <3>3, <4>1
        <3>5. PICK f \in Batch : f \notin unseen
            BY <3>7
        <3>6. f \in Shown(new)
            BY <2>2, <3>1, <3>2, <3>3, <3>5 DEF Shown
        <3> QED
            BY <3>4, <3>6 DEF Parted
    <2> QED
        BY <2>1, <2>2
<1>8. new.given \cap new.notReviewed = {}
    BY <1>1, <1>5 DEF Accounted, SameParts
<1>9. new.given \cup new.notReviewed \subseteq Analyzed(new) /\ new.withheld \subseteq new.scope
    BY <1>1, <1>4, <1>5, <1>7 DEF Accounted
<1>10. Accounted(new)
    BY <1>4, <1>5, <1>6, <1>7, <1>8, <1>9, <1>12 DEF Accounted
<1>11. Kept(new)
    BY <1>1 DEF Kept, SameArtifacts
<1> QED
    BY <1>2, <1>3, <1>10, <1>11 DEF Holds

LEMMA ReviewsBatchKeeps == ASSUME VerdictInv, ReviewsBatch PROVE VerdictInv'
<1>1. PICK unseen \in (SUBSET Batch) \ {Batch}, finding \in {"none", "remark", "defect"} :
      \E partly \in {{}} \cup {{f} : f \in Batch \ unseen} :
        Becomes([NextBatch(run) EXCEPT !.given = @ \cup Batch,
                                       !.partly = @ \cup partly, !.unseen = @ \cup unseen,
                                       !.remark = @ \/ finding = "remark",
                                       !.defect = @ \/ finding = "defect"])
    BY DEF ReviewsBatch
<1>2. PICK partly \in SUBSET (Batch \ unseen) :
        Becomes([NextBatch(run) EXCEPT !.given = @ \cup Batch,
                                       !.partly = @ \cup partly, !.unseen = @ \cup unseen,
                                       !.remark = @ \/ finding = "remark",
                                       !.defect = @ \/ finding = "defect"])
    <2>1. {{}} \cup {{f} : f \in Batch \ unseen} \subseteq SUBSET (Batch \ unseen)
        OBVIOUS
    <2> QED
        BY <1>1, <2>1
<1>3. run \in RunsOf /\ run.step = "review" /\ Holds(tree, run) /\ run.batches # <<>>
    BY DEF VerdictInv, Typed, ReviewsBatch, At
<1>4. Batch \in SUBSET Files /\ Tail(run.batches) \in Seq(SUBSET Files)
    BY <1>3, BatchIsOfFiles DEF Holds
<1> DEFINE rest == Tail(run.batches)
           given == run.given \cup Batch
           inPart == run.partly \cup partly
           notSeen == run.unseen \cup unseen
           remark == run.remark \/ finding = "remark"
           defect == run.defect \/ finding = "defect"
           new == [run EXCEPT !.batches = rest, !.given = given, !.partly = inPart, !.unseen = notSeen,
                              !.remark = remark, !.defect = defect]
<1>5. Becomes(new)
    <2>1. [NextBatch(run) EXCEPT !.given = @ \cup Batch, !.partly = @ \cup partly, !.unseen = @ \cup unseen,
                                 !.remark = @ \/ finding = "remark",
                                 !.defect = @ \/ finding = "defect"] = new
        BY <1>3 DEF NextBatch, RunsOf
    <2> HIDE DEF new
    <2> QED
        BY <1>2, <2>1
<1>6. /\ rest \in Seq(SUBSET Files) /\ given \in SUBSET Files
      /\ inPart \in SUBSET Files /\ notSeen \in SUBSET Files
      /\ remark \in BOOLEAN /\ defect \in BOOLEAN /\ (run.remark => remark)
    BY <1>1, <1>2, <1>3, <1>4 DEF RunsOf
<1>7. /\ rest = Tail(run.batches) /\ given = run.given \cup Batch
      /\ inPart = run.partly \cup partly /\ notSeen = run.unseen \cup unseen
    OBVIOUS
<1> HIDE DEF rest, given, inPart, notSeen, remark, defect
<1>8. /\ new \in RunsOf /\ new.step = run.step /\ new.batches = rest /\ SameLook(run, new)
      /\ SameArtifacts(run, new) /\ new.scope = run.scope /\ new.withheld = run.withheld
      /\ new.given = given /\ new.partly = inPart /\ new.unseen = notSeen
      /\ new.notReviewed = run.notReviewed
      /\ new.remark = remark /\ new.executed = run.executed /\ new.draft = run.draft
    <2>1. new \in RunsOf
        BY <1>3, <1>6 DEF RunsOf
    <2>2. /\ new.step = run.step /\ new.batches = rest /\ SameLook(run, new) /\ SameArtifacts(run, new)
          /\ new.scope = run.scope /\ new.withheld = run.withheld
        BY <1>3 DEF RunsOf, SameLook, SameArtifacts
    <2>3. /\ new.given = given /\ new.partly = inPart /\ new.unseen = notSeen
          /\ new.notReviewed = run.notReviewed
          /\ new.remark = remark /\ new.executed = run.executed /\ new.draft = run.draft
        BY <1>3 DEF RunsOf
    <2> QED
        BY <2>1, <2>2, <2>3
<1> HIDE DEF new
<1>9. Holds(tree, new)
    BY <1>1, <1>2, <1>3, <1>6, <1>7, <1>8, BatchDone
<1> QED
    BY <1>5, <1>8, <1>9, RunBecomes

LEMMA SkipsBatchKeeps == ASSUME VerdictInv, SkipsBatch PROVE VerdictInv'
<1>1. run \in RunsOf /\ run.step = "review" /\ Holds(tree, run) /\ run.batches # <<>>
    BY DEF VerdictInv, Typed, SkipsBatch, At
<1>2. Batch \in SUBSET Files /\ Tail(run.batches) \in Seq(SUBSET Files)
    BY <1>1, BatchIsOfFiles DEF Holds
<1> DEFINE rest == Tail(run.batches)
           told == run.notReviewed \cup Batch
           new == [run EXCEPT !.batches = rest, !.notReviewed = told]
<1>3. Becomes(new)
    <2>1. [NextBatch(run) EXCEPT !.notReviewed = @ \cup Batch] = new
        BY <1>1 DEF NextBatch, RunsOf
    <2> HIDE DEF new
    <2> QED
        BY <2>1 DEF SkipsBatch
<1>4. rest \in Seq(SUBSET Files) /\ told \in SUBSET Files
    BY <1>1, <1>2 DEF RunsOf
<1>5. rest = Tail(run.batches) /\ told = run.notReviewed \cup Batch
    OBVIOUS
<1> HIDE DEF rest, told
<1>6. /\ new \in RunsOf /\ new.step = run.step /\ new.batches = rest /\ SameLook(run, new)
      /\ SameArtifacts(run, new) /\ new.scope = run.scope /\ new.withheld = run.withheld
      /\ SameParts(run, new) /\ new.notReviewed = told
      /\ new.remark = run.remark /\ new.executed = run.executed /\ new.draft = run.draft
    BY <1>1, <1>4 DEF RunsOf, SameLook, SameArtifacts, SameParts
<1> HIDE DEF new
<1>7. new.remark \in BOOLEAN
    BY <1>1, <1>6 DEF RunsOf
<1>8. Holds(tree, new)
    BY <1>1, <1>5, <1>6, <1>7, BatchDone
<1> QED
    BY <1>3, <1>6, <1>8, RunBecomes

LEMMA BatchFailsKeeps == ASSUME VerdictInv, BatchFails PROVE VerdictInv'
<1>1. run \in RunsOf /\ run.step = "review" /\ Holds(tree, run) /\ run.batches # <<>>
    BY DEF VerdictInv, Typed, BatchFails, At
<1>2. Batch \in SUBSET Files /\ Tail(run.batches) \in Seq(SUBSET Files)
    BY <1>1, BatchIsOfFiles DEF Holds
<1> DEFINE rest == Tail(run.batches)
           told == run.notReviewed \cup Batch
           new == [run EXCEPT !.batches = rest, !.notReviewed = told, !.broken = TRUE]
<1>3. run' = new
    <2>1. [NextBatch(run) EXCEPT !.notReviewed = @ \cup Batch, !.broken = TRUE] = new
        BY <1>1 DEF NextBatch, RunsOf
    <2> HIDE DEF new
    <2> QED
        BY <2>1 DEF BatchFails
<1>4. rest \in Seq(SUBSET Files) /\ told \in SUBSET Files
    BY <1>1, <1>2 DEF RunsOf
<1>5. rest = Tail(run.batches) /\ told = run.notReviewed \cup Batch
    OBVIOUS
<1> HIDE DEF rest, told
<1>6. /\ new \in RunsOf /\ new.step = run.step /\ new.batches = rest /\ SameLook(run, new)
      /\ SameArtifacts(run, new) /\ new.scope = run.scope /\ new.withheld = run.withheld
      /\ SameParts(run, new) /\ new.notReviewed = told
      /\ new.remark = run.remark /\ new.executed = run.executed /\ new.draft = run.draft
    BY <1>1, <1>4 DEF RunsOf, SameLook, SameArtifacts, SameParts
<1> HIDE DEF new
<1>7. new.remark \in BOOLEAN
    BY <1>1, <1>6 DEF RunsOf
<1>8. Holds(tree, new)
    BY <1>1, <1>5, <1>6, <1>7, BatchDone
<1>9. Fails /\ tree' = tree /\ runs' = runs /\ others' = others
    BY DEF BatchFails
<1> QED
    BY <1>3, <1>6, <1>8, <1>9, RunFails

\* The model is gone: the batch is told of, and so nothing of what follows
\* counts as a whole review.
LEMMA ModelGoesKeeps == ASSUME VerdictInv, ModelGoes PROVE VerdictInv'
<1>1. run \in RunsOf /\ run.step = "review" /\ Holds(tree, run) /\ run.batches # <<>>
    BY DEF VerdictInv, Typed, ModelGoes, At
<1>2. InOrderOf(run) /\ TreeSince(tree, run) /\ Accounted(run) /\ Kept(run) /\ run.remark \in BOOLEAN
    BY <1>1 DEF Holds, RunsOf
<1>3. /\ Batch \in SUBSET Files /\ Batch # {} /\ Batch \subseteq Analyzed(run)
      /\ Batch \cap (run.given \cup run.notReviewed) = {}
    BY <1>1, <1>2, BatchIsOfFiles
<1> DEFINE told == run.notReviewed \cup Batch
           step == IF Shown(run) = {} THEN "conclude" ELSE "checks"
           new == [run EXCEPT !.step = step, !.notReviewed = told, !.broken = TRUE, !.draft = "skipped"]
<1>4. run' = new
    <2>1. [Goes(run, step) EXCEPT !.notReviewed = @ \cup Batch, !.broken = TRUE, !.draft = "skipped"] = new
        BY <1>1 DEF Goes, RunsOf
    <2> HIDE DEF new
    <2> QED
        BY <2>1 DEF ModelGoes
<1>5. told \in SUBSET Files /\ step \in {"conclude", "checks"} /\ (step = "conclude" <=> Shown(run) = {})
    BY <1>1, <1>3 DEF RunsOf
<1>6. told = run.notReviewed \cup Batch
    OBVIOUS
<1> HIDE DEF told, step
<1>7. /\ new \in RunsOf /\ new.step = step /\ SameLook(run, new)
      /\ SameArtifacts(run, new) /\ new.scope = run.scope /\ new.withheld = run.withheld
      /\ SameParts(run, new) /\ new.notReviewed = told
      /\ new.remark = run.remark /\ new.executed = run.executed /\ new.draft = "skipped"
    BY <1>1, <1>5 DEF RunsOf, Steps, SameLook, SameArtifacts, SameParts
<1> HIDE DEF new
<1>8. TreeSince(tree, new)
    BY <1>1, <1>2, <1>5, <1>7, TreeSinceStays DEF Looked, Began
<1>9. InOrderOf(new)
    BY <1>1, <1>2, <1>5, <1>7 DEF InOrderOf, Shown, SameLook, SameParts
<1>10. Analyzed(new) = Analyzed(run) /\ new.notReviewed # {}
    BY <1>3, <1>6, <1>7 DEF Analyzed
<1>11. Accounted(new)
    <2>1. Parted(new)
        BY <1>2, <1>7 DEF Accounted, Parted, Shown, SameParts
    <2> QED
        BY <1>2, <1>3, <1>5, <1>6, <1>7, <1>10, <2>1 DEF Accounted, SameParts
<1>12. Kept(new)
    BY <1>1, <1>2, <1>5, <1>7 DEF Kept, SameArtifacts
<1>13. Fails /\ tree' = tree /\ runs' = runs /\ others' = others
    BY DEF ModelGoes
<1> QED
    BY <1>4, <1>7, <1>8, <1>9, <1>11, <1>12, <1>13, RunFails DEF Holds

\* No batch is left: what was not told of was reviewed.
LEMMA ReviewedKeeps == ASSUME VerdictInv, Reviewed PROVE VerdictInv'
<1> DEFINE new == [run EXCEPT !.step = "checks"]
<1>1. Becomes(new)
    BY DEF Reviewed, Goes
<1>2. run \in RunsOf /\ run.step = "review" /\ Holds(tree, run) /\ run.batches = <<>>
    BY DEF VerdictInv, Typed, Reviewed, At
<1>3. InOrderOf(run) /\ TreeSince(tree, run) /\ Accounted(run) /\ Kept(run) /\ run.remark \in BOOLEAN
    BY <1>2 DEF Holds, RunsOf
<1>4. /\ new \in RunsOf /\ new.step = "checks" /\ SameFiles(run, new) /\ SameLook(run, new)
      /\ SameArtifacts(run, new) /\ new.remark = run.remark /\ new.executed = run.executed /\ new.draft = run.draft
    BY <1>2 DEF RunsOf, Steps, SameLook, SameFiles, SameParts, SameArtifacts
<1> HIDE DEF new
<1>5. TreeSince(tree, new)
    BY <1>2, <1>3, <1>4, TreeSinceStays DEF Looked, Began
<1>6. InOrderOf(new)
    BY <1>2, <1>3, <1>4 DEF InOrderOf, Shown, SameLook
<1>7. Analyzed(run) \subseteq run.given \cup run.notReviewed
    <2>1. Len(run.batches) = 0
        BY <1>2
    <2>2. \A f \in Analyzed(run) \ (run.given \cup run.notReviewed) :
            \E k \in 1..Len(run.batches) : f \in run.batches[k]
        BY <1>2, <1>3 DEF Accounted, Parted, Shown
    <2>3. 1..0 = {}
        OBVIOUS
    <2> QED
        BY <2>1, <2>2, <2>3
<1>8. Accounted(new) /\ Kept(new)
    BY <1>2, <1>3, <1>4, <1>7 DEF Accounted, Parted, Shown, Kept, Analyzed, SameFiles, SameParts, SameArtifacts
<1> QED
    BY <1>1, <1>4, <1>5, <1>6, <1>8, RunBecomes DEF Holds

-----------------------------------------------------------------------------
(* The checks, the draft and the verdict.                                  *)

LEMMA RunsCheckKeeps == ASSUME VerdictInv, RunsCheck PROVE VerdictInv'
<1>1. PICK result \in {"passed", "failed", "could_not_run"} :
        Becomes([run EXCEPT !.results[FirstOf(Checks, ToDo)] = result, !.executed = TRUE,
                            !.versions = @ \cup {tree.version}])
    BY DEF RunsCheck
<1>2. run \in RunsOf /\ run.step = "checks" /\ tree \in Trees /\ Holds(tree, run)
    BY DEF VerdictInv, Typed, RunsCheck, At
<1> DEFINE results == [run.results EXCEPT ![FirstOf(Checks, ToDo)] = result]
           versions == run.versions \cup {tree.version}
           new == [run EXCEPT !.results = results, !.executed = TRUE, !.versions = versions]
<1>3. Becomes(new)
    <2>1. [run EXCEPT !.results[FirstOf(Checks, ToDo)] = result, !.executed = TRUE,
                      !.versions = @ \cup {tree.version}] = new
        BY <1>2 DEF RunsOf
    <2> HIDE DEF new
    <2> QED
        BY <1>1, <2>1
<1>4. results \in [Range(Checks) -> Results]
    BY <1>2 DEF RunsOf, Results
<1>5. versions \in SUBSET (0..MaxChanges) /\ versions \subseteq run.versions \cup {tree.version}
      /\ (run.startVersion <= tree.version => tree.version \in run.startVersion..tree.version)
    BY <1>2, ReleaseAssumption DEF RunsOf, Trees
<1> HIDE DEF results, versions
<1>6. /\ new \in RunsOf /\ new.step = "checks" /\ SameFiles(run, new) /\ SameArtifacts(run, new)
      /\ new.start = run.start /\ new.startVersion = run.startVersion /\ new.versions = versions
      /\ new.compared = run.compared /\ new.treeChanged = run.treeChanged
      /\ new.onlyEdits = run.onlyEdits
      /\ new.remark = run.remark /\ new.draft = run.draft
    BY <1>2, <1>4, <1>5 DEF RunsOf, SameFiles, SameParts, SameArtifacts
<1> HIDE DEF new
<1>7. InOrderOf(run) /\ TreeSince(tree, run) /\ Accounted(run) /\ Kept(run)
    BY <1>2 DEF Holds
<1>8. TreeSince(tree, new)
    BY <1>2, <1>5, <1>6, <1>7 DEF TreeSince, Looked, Began, InOrderOf, Shown
<1>9. InOrderOf(new)
    BY <1>2, <1>6, <1>7 DEF InOrderOf, Shown, SameFiles, SameParts
<1>10. Accounted(new) /\ Kept(new)
    BY <1>2, <1>6, <1>7 DEF Accounted, Parted, Shown, Kept, Analyzed, SameFiles, SameParts, SameArtifacts
<1> QED
    BY <1>3, <1>6, <1>8, <1>9, <1>10, RunBecomes DEF Holds

\* The comparison: an equal signature, when nothing was modified at the start
\* and HEAD stayed, is that of the one version there has been.
LEMMA ComparesTreeKeeps == ASSUME VerdictInv, ComparesTree PROVE VerdictInv'
<1>1. run \in RunsOf /\ run.step = "checks" /\ tree \in Trees /\ Holds(tree, run)
    BY DEF VerdictInv, Typed, ComparesTree, At
<1> DEFINE changed == run.executed /\ tree.modified # run.start
           versions == IF run.executed THEN run.versions \cup {tree.version} ELSE run.versions
           compared == run.executed
           new == [run EXCEPT !.step = "draft", !.compared = compared, !.treeChanged = changed,
                              !.versions = versions]
<1>2. Becomes(new)
    <2>1. [Goes(run, "draft") EXCEPT
             !.compared = run.executed, !.treeChanged = run.executed /\ tree.modified # run.start,
             !.versions = IF run.executed THEN @ \cup {tree.version} ELSE @] = new
        BY <1>1 DEF Goes, RunsOf
    <2> HIDE DEF new
    <2> QED
        BY <2>1 DEF ComparesTree
<1>3. /\ changed \in BOOLEAN /\ compared \in BOOLEAN
      /\ compared /\ ~changed => tree.modified = run.start /\ tree.version \in versions
    BY <1>1 DEF RunsOf
<1>4. versions \in SUBSET (0..MaxChanges) /\ versions \subseteq run.versions \cup {tree.version}
      /\ (run.startVersion <= tree.version => tree.version \in run.startVersion..tree.version)
    BY <1>1, ReleaseAssumption DEF RunsOf, Trees
<1> HIDE DEF changed, versions, compared
<1>5. /\ new \in RunsOf /\ new.step = "draft" /\ SameFiles(run, new) /\ SameArtifacts(run, new)
      /\ new.start = run.start /\ new.startVersion = run.startVersion /\ new.versions = versions
      /\ new.compared = compared /\ new.treeChanged = changed
      /\ new.onlyEdits = run.onlyEdits
      /\ new.remark = run.remark /\ new.draft = run.draft /\ new.executed = run.executed
    <2>1. new \in RunsOf
        BY <1>1, <1>3, <1>4 DEF RunsOf, Steps
    <2> QED
        BY <1>1, <2>1 DEF RunsOf, SameFiles, SameParts, SameArtifacts
<1> HIDE DEF new
<1>6. InOrderOf(run) /\ TreeSince(tree, run) /\ Accounted(run) /\ Kept(run)
    BY <1>1 DEF Holds
<1>7. versions \subseteq run.startVersion..tree.version
    BY <1>1, <1>4, <1>6 DEF TreeSince, Looked, Began
<1>8. ASSUME compared, ~changed, ~run.remark, run.onlyEdits PROVE versions = {run.startVersion}
    <2>1. tree.modified = {} /\ tree.version \in versions
        BY <1>1, <1>3, <1>6, <1>8 DEF TreeSince, Looked, Began
    <2>2. tree.version = run.startVersion
        BY <1>1, <1>6, <1>8, <2>1 DEF TreeSince, Looked, Began
    <2>3. run.startVersion \in Nat
        BY <1>1, ReleaseAssumption DEF RunsOf
    <2>4. tree.version..tree.version = {run.startVersion}
        BY <2>2, <2>3
    <2> QED
        BY <1>7, <2>1, <2>2, <2>4
<1>9. TreeSince(tree, new)
    BY <1>1, <1>5, <1>6, <1>7, <1>8 DEF TreeSince, Looked, Began
<1>10. InOrderOf(new)
    BY <1>1, <1>5, <1>6 DEF InOrderOf, Shown, SameFiles, SameParts
<1>11. Accounted(new) /\ Kept(new)
    BY <1>1, <1>5, <1>6 DEF Accounted, Parted, Shown, Kept, Analyzed, SameFiles, SameParts, SameArtifacts
<1> QED
    BY <1>2, <1>5, <1>9, <1>10, <1>11, RunBecomes DEF Holds

LEMMA CannotCompareKeeps == ASSUME VerdictInv, CannotCompare PROVE VerdictInv'
<1>1. run \in RunsOf /\ run.step = "checks" /\ tree \in Trees /\ Holds(tree, run)
    BY DEF VerdictInv, Typed, CannotCompare, At
<1> DEFINE versions == run.versions \cup {tree.version}
           new == [run EXCEPT !.step = "draft", !.versions = versions]
<1>2. run' = new
    <2>1. [Goes(run, "draft") EXCEPT !.versions = @ \cup {tree.version}] = new
        BY <1>1 DEF Goes, RunsOf
    <2> HIDE DEF new
    <2> QED
        BY <2>1 DEF CannotCompare
<1>3. versions \in SUBSET (0..MaxChanges) /\ versions \subseteq run.versions \cup {tree.version}
      /\ (run.startVersion <= tree.version => tree.version \in run.startVersion..tree.version)
    BY <1>1, ReleaseAssumption DEF RunsOf, Trees
<1> HIDE DEF versions
<1>4. /\ new \in RunsOf /\ new.step = "draft" /\ SameFiles(run, new) /\ SameArtifacts(run, new)
      /\ new.start = run.start /\ new.startVersion = run.startVersion /\ new.versions = versions
      /\ new.compared = run.compared /\ new.treeChanged = run.treeChanged
      /\ new.onlyEdits = run.onlyEdits
      /\ new.remark = run.remark /\ new.draft = run.draft /\ new.executed = run.executed
    BY <1>1, <1>3 DEF RunsOf, Steps, SameFiles, SameParts, SameArtifacts
<1> HIDE DEF new
<1>5. InOrderOf(run) /\ TreeSince(tree, run) /\ Accounted(run) /\ Kept(run)
    BY <1>1 DEF Holds
<1>6. TreeSince(tree, new)
    BY <1>1, <1>3, <1>4, <1>5 DEF TreeSince, Looked, Began, InOrderOf, Shown
<1>7. InOrderOf(new)
    BY <1>1, <1>4, <1>5 DEF InOrderOf, Shown, SameFiles, SameParts
<1>8. Accounted(new) /\ Kept(new)
    BY <1>1, <1>4, <1>5 DEF Accounted, Parted, Shown, Kept, Analyzed, SameFiles, SameParts, SameArtifacts
<1>9. Fails /\ tree' = tree /\ runs' = runs /\ others' = others
    BY DEF CannotCompare
<1> QED
    BY <1>2, <1>4, <1>6, <1>7, <1>8, <1>9, RunFails DEF Holds

\* A draft that was not skipped is none the worse for what it becomes.
LEMMA DraftHolds ==
    ASSUME run \in RunsOf, run.step = "draft", Holds(tree, run),
           NEW draft \in {"none", "skipped", "generated", "failed"},
           draft = "skipped" => run.draft = "skipped"
    PROVE  LET new == [run EXCEPT !.step = "conclude", !.draft = draft] IN
           new \in RunsOf /\ Holds(tree, new)
<1> DEFINE new == [run EXCEPT !.step = "conclude", !.draft = draft]
<1>1. /\ new \in RunsOf /\ new.step = "conclude" /\ SameFiles(run, new) /\ SameArtifacts(run, new)
      /\ SameLook(run, new) /\ new.remark = run.remark /\ new.draft = draft /\ new.executed = run.executed
    BY DEF RunsOf, Steps, SameFiles, SameParts, SameArtifacts, SameLook
<1> HIDE DEF new
<1>2. InOrderOf(run) /\ TreeSince(tree, run) /\ Accounted(run) /\ Kept(run) /\ run.remark \in BOOLEAN
    BY DEF Holds, RunsOf
<1>3. TreeSince(tree, new)
    BY <1>1, <1>2, TreeSinceStays DEF Looked, Began
<1>4. InOrderOf(new)
    BY <1>1, <1>2 DEF InOrderOf, Shown, SameFiles, SameParts, SameLook
<1>5. Accounted(new) /\ Kept(new)
    BY <1>1, <1>2 DEF Accounted, Parted, Shown, Kept, Analyzed, SameFiles, SameParts, SameArtifacts
<1> QED
    BY <1>1, <1>3, <1>4, <1>5 DEF Holds, new

LEMMA DraftsKeeps == ASSUME VerdictInv, Drafts PROVE VerdictInv'
<1>1. run \in RunsOf /\ run.step = "draft" /\ Holds(tree, run)
    BY DEF VerdictInv, Typed, Drafts, At
<1> DEFINE draft == IF run.draft = "skipped" THEN run.draft ELSE "generated"
           new == [run EXCEPT !.step = "conclude", !.draft = draft]
<1>2. Becomes(new)
    <2>1. [Goes(run, "conclude") EXCEPT !.draft = IF run.draft = "skipped" THEN @ ELSE "generated"] = new
        BY <1>1 DEF Goes, RunsOf
    <2> HIDE DEF new
    <2> QED
        BY <2>1 DEF Drafts
<1>3. /\ draft \in {"none", "skipped", "generated", "failed"}
      /\ draft = "skipped" => run.draft = "skipped"
    OBVIOUS
<1> HIDE DEF draft
<1>4. new \in RunsOf /\ Holds(tree, new)
    BY <1>1, <1>3, DraftHolds
<1> HIDE DEF new
<1> QED
    BY <1>2, <1>4, RunBecomes

LEMMA DraftFailsKeeps == ASSUME VerdictInv, DraftFails PROVE VerdictInv'
<1>1. run \in RunsOf /\ run.step = "draft" /\ Holds(tree, run)
    BY DEF VerdictInv, Typed, DraftFails, At
<1> DEFINE new == [run EXCEPT !.step = "conclude", !.draft = "failed"]
<1>2. run' = new
    <2>1. [Goes(run, "conclude") EXCEPT !.draft = "failed"] = new
        BY <1>1 DEF Goes, RunsOf
    <2> HIDE DEF new
    <2> QED
        BY <2>1 DEF DraftFails
<1>3. new \in RunsOf /\ Holds(tree, new)
    BY <1>1, DraftHolds
<1> HIDE DEF new
<1>4. Fails /\ tree' = tree /\ runs' = runs /\ others' = others
    BY DEF DraftFails
<1> QED
    BY <1>2, <1>3, <1>4, RunFails

LEMMA StatusIsTyped == ASSUME NEW r PROVE StatusOf(r) \in Statuses /\ Verdict(r) \in Verdicts
<1>1. StatusOf(r) \in Statuses
    BY DEF StatusOf, Statuses
<1>2. Verdict(r) \in Verdicts
    BY Zenon DEF Verdict, Verdicts
<1> QED
    BY <1>1, <1>2

LEMMA ConcludesKeeps == ASSUME VerdictInv, Concludes PROVE VerdictInv'
<1> DEFINE status == StatusOf(run)
           verdict == Verdict(run)
<1>1. PICK id \in Ids : Becomes([NoRun EXCEPT !.step = "probe", !.id = id, !.status = status,
                                              !.verdict = verdict])
    BY DEF Concludes
<1> DEFINE new == [NoRun EXCEPT !.step = "probe", !.id = id, !.status = status, !.verdict = verdict]
<1>2. status \in Statuses /\ verdict \in Verdicts
    BY StatusIsTyped
<1> HIDE DEF status, verdict
<1>3. NoRun \in RunsOf
    BY NoRunIsTyped
<1>4. new \in RunsOf
    BY <1>2, <1>3 DEF RunsOf, Steps
<1>5. /\ SameLook(NoRun, new) /\ SameFiles(NoRun, new) /\ SameArtifacts(NoRun, new)
      /\ new.step = "probe" /\ new.id \in Ids /\ new.executed = NoRun.executed /\ new.draft = NoRun.draft
    BY <1>3 DEF RunsOf, SameLook, SameFiles, SameParts, SameArtifacts
<1>6. Becomes(new)
    BY <1>1
<1> HIDE DEF new
<1>7. ~new.executed /\ new.draft = "none"
    BY <1>5 DEF NoRun
<1>8. Holds(tree, new)
    BY <1>5, <1>7, FreshHolds DEF VerdictInv
<1> QED
    BY <1>4, <1>6, <1>8, RunBecomes

-----------------------------------------------------------------------------
(* Writing, and what goes on in the tree.                                  *)

\* Numbers have a least one.
LEMMA LeastOf ==
    ASSUME NEW T, T \subseteq Nat, T # {}
    PROVE  \E x \in T : \A y \in T : x <= y
<1> DEFINE R == {ss \in Nat \X Nat : ss[1] < ss[2]}
<1>1. \E x \in T : \A y \in T : ~ (<<y, x>> \in R)
    <2>1. IsWellFoundedOn(R, Nat)
        BY NatLessThanWellFounded DEF OpToRel
    <2> HIDE DEF R
    <2> QED
        BY <2>1, WFMin, Zenon
<1>2. PICK x \in T : \A y \in T : ~ (<<y, x>> \in R)
    BY <1>1
<1>3. ASSUME NEW y \in T PROVE x <= y
    <2>1. x \in Nat /\ y \in Nat /\ (y < x => <<y, x>> \in R)
        OBVIOUS
    <2> QED
        BY <1>2, <2>1
<1> QED
    BY <1>3

\* Of a sequence's members that are among some, FirstOf is one.
LEMMA FirstOfSome ==
    ASSUME NEW seq, seq \in Seq(Range(seq)), NEW some, some \subseteq Range(seq), some # {}
    PROVE  FirstOf(seq, some) \in some
<1> DEFINE T == {i \in 1..Len(seq) : seq[i] \in some}
<1>1. DOMAIN seq = 1..Len(seq) /\ Len(seq) \in Nat
    OBVIOUS
<1>2. T \subseteq Nat /\ T # {}
    <2>1. PICK x \in some : TRUE
        OBVIOUS
    <2>2. PICK i \in DOMAIN seq : seq[i] = x
        BY <2>1 DEF Range
    <2> QED
        BY <1>1, <2>1, <2>2
<1>3. PICK i \in T : \A j \in T : i <= j
    BY <1>2, LeastOf
<1>4. i \in DOMAIN seq /\ seq[i] \in some /\ \A j \in 1..(i - 1) : seq[j] \notin some
    BY <1>1, <1>3
<1> DEFINE first == CHOOSE k \in DOMAIN seq : seq[k] \in some /\ \A j \in 1..(k - 1) : seq[j] \notin some
<1>5. seq[first] \in some
    BY <1>4
<1> QED
    BY <1>5 DEF FirstOf

LEMMA NextIsToSave ==
    ASSUME ToSave # {}
    PROVE  NextName \in Range(Names) /\ NextName \notin run.saved \cup run.missed /\ NextName # RECORD
<1>1. Names \in Seq(Range(Names)) /\ RECORD \notin Range(Names)
    BY ReleaseAssumption
<1>2. ToSave \subseteq Range(Names) /\ ToSave \cap (run.saved \cup run.missed) = {}
    BY DEF ToSave
<1>3. NextName \in ToSave
    BY <1>1, <1>2, FirstOfSome DEF NextName
<1> QED
    BY <1>1, <1>2, <1>3

\* Nothing of what a conclusion rested on changes while artifacts are written.
LEMMA WritingHolds ==
    ASSUME Holds(tree, run), run.step \in {"probe", "save"}, run.remark \in BOOLEAN,
           NEW new, new.step \in {"probe", "save", "answer"},
           SameLook(run, new), SameFiles(run, new), new.remark = run.remark,
           new.executed = run.executed, new.draft = run.draft, Kept(new)
    PROVE  Holds(tree, new)
<1>1. InOrderOf(run) /\ TreeSince(tree, run) /\ Accounted(run)
    BY DEF Holds
<1>2. TreeSince(tree, new)
    BY <1>1, TreeSinceStays DEF Looked, Began
<1>3. InOrderOf(new)
    BY <1>1 DEF InOrderOf, Shown, SameFiles, SameParts, SameLook
<1>4. Accounted(new)
    BY <1>1 DEF Accounted, Parted, Shown, Analyzed, SameFiles, SameParts
<1> QED
    BY <1>2, <1>3, <1>4 DEF Holds

LEMMA ProbesKeeps == ASSUME VerdictInv, Probes PROVE VerdictInv'
<1>1. run \in RunsOf /\ run.step = "probe" /\ Holds(tree, run) /\ run.tried < MaxIdTries
    BY DEF VerdictInv, Typed, Probes, At
<1>2. Kept(run) /\ run.id \in Ids /\ run.remark \in BOOLEAN
    BY <1>1 DEF Holds, Kept, RunsOf
<1>3. CASE Free(run.id)
    <2> DEFINE new == [run EXCEPT !.step = "save", !.folder = run.id]
    <2>1. Becomes(new)
        <3>1. [Goes(run, "save") EXCEPT !.folder = run.id] = new
            BY <1>1 DEF Goes, RunsOf
        <3> HIDE DEF new
        <3> QED
            BY <1>3, <3>1 DEF Probes
    <2>2. /\ new \in RunsOf /\ new.step = "save" /\ new.folder = run.id /\ SameArtifacts(run, new)
          /\ SameFiles(run, new) /\ SameLook(run, new) /\ new.remark = run.remark
          /\ new.executed = run.executed /\ new.draft = run.draft
        BY <1>1, <1>2 DEF RunsOf, Steps, SameArtifacts, SameFiles, SameParts, SameLook
    <2> HIDE DEF new
    <2>3. Kept(new)
        BY <1>1, <1>2, <2>2 DEF Kept, SameArtifacts
    <2>4. Holds(tree, new)
        BY <1>1, <1>2, <2>2, <2>3, WritingHolds
    <2> QED
        BY <2>1, <2>2, <2>4, RunBecomes
<1>4. CASE ~Free(run.id)
    <2>1. PICK id \in Ids : Becomes([run EXCEPT !.id = id, !.tried = @ + 1])
        BY <1>4 DEF Probes
    <2> DEFINE tried == run.tried + 1
               new == [run EXCEPT !.id = id, !.tried = tried]
    <2>2. Becomes(new)
        <3>1. [run EXCEPT !.id = id, !.tried = @ + 1] = new
            BY <1>1 DEF RunsOf
        <3> HIDE DEF new
        <3> QED
            BY <2>1, <3>1
    <2>3. tried \in 0..MaxIdTries
        <3>1. run.tried \in 0..MaxIdTries
            BY <1>1 DEF RunsOf
        <3> QED
            BY <1>1, <3>1, ReleaseAssumption
    <2> HIDE DEF tried
    <2>4. /\ new \in RunsOf /\ new.step = "probe" /\ new.id = id /\ SameArtifacts(run, new)
          /\ SameFiles(run, new) /\ SameLook(run, new) /\ new.remark = run.remark
          /\ new.executed = run.executed /\ new.draft = run.draft
        BY <1>1, <2>3 DEF RunsOf, SameArtifacts, SameFiles, SameParts, SameLook
    <2> HIDE DEF new
    <2>5. Kept(new)
        BY <1>1, <1>2, <2>4 DEF Kept, SameArtifacts
    <2>6. Holds(tree, new)
        BY <1>1, <1>2, <2>4, <2>5, WritingHolds
    <2> QED
        BY <2>2, <2>4, <2>6, RunBecomes
<1> QED
    BY <1>3, <1>4

\* The run is answered, whatever its status became.
LEMMA ToAnswerHolds ==
    ASSUME run \in RunsOf, Holds(tree, run), run.step \in {"probe", "save"}, NEW status \in Statuses
    PROVE  LET new == [run EXCEPT !.step = "answer", !.status = status] IN
           new \in RunsOf /\ new.step = "answer" /\ Holds(tree, new)
<1> DEFINE new == [run EXCEPT !.step = "answer", !.status = status]
<1>1. /\ new \in RunsOf /\ new.step = "answer" /\ SameArtifacts(run, new)
      /\ SameFiles(run, new) /\ SameLook(run, new) /\ new.remark = run.remark
      /\ new.executed = run.executed /\ new.draft = run.draft /\ run.remark \in BOOLEAN
    BY DEF RunsOf, Steps, SameArtifacts, SameFiles, SameParts, SameLook
<1> HIDE DEF new
<1>2. Kept(new)
    BY <1>1 DEF Kept, Holds, SameArtifacts
<1>3. Holds(tree, new)
    BY <1>1, <1>2, WritingHolds
<1> QED
    BY <1>1, <1>3 DEF new

LEMMA NoFreeFolderKeeps == ASSUME VerdictInv, NoFreeFolder PROVE VerdictInv'
<1>1. run \in RunsOf /\ run.step = "probe" /\ Holds(tree, run)
    BY DEF VerdictInv, Typed, NoFreeFolder, At
<1> DEFINE status == run.status
           new == [run EXCEPT !.step = "answer", !.status = status]
<1>2. Becomes(new)
    <2>1. Goes(run, "answer") = new
        BY <1>1 DEF Goes, RunsOf
    <2> HIDE DEF new
    <2> QED
        BY <2>1 DEF NoFreeFolder
<1>3. status \in Statuses
    BY <1>1 DEF RunsOf
<1> HIDE DEF status
<1>4. new \in RunsOf /\ Holds(tree, new)
    BY <1>1, <1>3, ToAnswerHolds
<1> HIDE DEF new
<1> QED
    BY <1>2, <1>4, RunBecomes

LEMMA OutputUnavailableKeeps == ASSUME VerdictInv, OutputUnavailable PROVE VerdictInv'
<1>1. run \in RunsOf /\ run.step = "probe" /\ Holds(tree, run)
    BY DEF VerdictInv, Typed, OutputUnavailable, At
<1> DEFINE status == IF run.status = "completed" THEN "failed" ELSE run.status
           new == [run EXCEPT !.step = "answer", !.status = status]
<1>2. run' = new
    <2>1. [Goes(run, "answer") EXCEPT !.status = IF @ = "completed" THEN "failed" ELSE @] = new
        BY <1>1 DEF Goes, RunsOf
    <2> HIDE DEF new
    <2> QED
        BY <2>1 DEF OutputUnavailable
<1>3. status \in Statuses
    BY <1>1 DEF RunsOf, Statuses
<1> HIDE DEF status
<1>4. new \in RunsOf /\ Holds(tree, new)
    BY <1>1, <1>3, ToAnswerHolds
<1> HIDE DEF new
<1>5. Fails /\ tree' = tree /\ runs' = runs /\ others' = others
    BY DEF OutputUnavailable
<1> QED
    BY <1>2, <1>4, <1>5, RunFails

LEMMA SavesKeeps == ASSUME VerdictInv, Saves PROVE VerdictInv'
<1>1. run \in RunsOf /\ run.step = "save" /\ Holds(tree, run) /\ ToSave # {}
    BY DEF VerdictInv, Typed, Saves, At
<1>2. NextName \in Range(Names) /\ NextName \notin run.saved \cup run.missed
    BY <1>1, NextIsToSave
<1> DEFINE saved == run.saved \cup {NextName}
           new == [run EXCEPT !.saved = saved]
<1>3. run' = new /\ tree' = tree /\ runs' = runs /\ others' = others /\ failures' = failures
    BY DEF Saves, Puts, counts
<1>4. Kept(run) /\ run.folder \in Ids /\ run.remark \in BOOLEAN
    BY <1>1 DEF Holds, Kept, RunsOf
<1>5. saved \in SUBSET Range(Names) /\ saved \cap run.missed = {}
    BY <1>1, <1>2, <1>4 DEF RunsOf, Kept
<1> HIDE DEF saved
<1>6. /\ new \in RunsOf /\ new.step = "save" /\ new.saved = saved /\ new.missed = run.missed
      /\ new.folder = run.folder
      /\ SameFiles(run, new) /\ SameLook(run, new) /\ new.remark = run.remark
      /\ new.executed = run.executed /\ new.draft = run.draft
    BY <1>1, <1>5 DEF RunsOf, SameFiles, SameParts, SameLook
<1> HIDE DEF new
<1>7. Kept(new)
    BY <1>4, <1>5, <1>6 DEF Kept
<1>8. Holds(tree, new)
    BY <1>1, <1>4, <1>6, <1>7, WritingHolds
<1>9. runs' \in Nat /\ others' \in Nat /\ failures' \in Nat
    BY <1>3 DEF VerdictInv, Typed
<1> QED
    BY <1>3, <1>6, <1>8, <1>9, RunKeeps

LEMMA NotSavedKeeps == ASSUME VerdictInv, NotSaved PROVE VerdictInv'
<1>1. run \in RunsOf /\ run.step = "save" /\ Holds(tree, run) /\ ToSave # {}
    BY DEF VerdictInv, Typed, NotSaved, At
<1>2. NextName \in Range(Names) /\ NextName \notin run.saved \cup run.missed
    BY <1>1, NextIsToSave
<1> DEFINE missed == run.missed \cup {NextName}
           new == [run EXCEPT !.missed = missed]
<1>3. run' = new /\ tree' = tree /\ runs' = runs /\ others' = others /\ Fails
    BY DEF NotSaved
<1>4. Kept(run) /\ run.folder \in Ids /\ run.remark \in BOOLEAN
    BY <1>1 DEF Holds, Kept, RunsOf
<1>5. missed \in SUBSET Range(Names) /\ run.saved \cap missed = {}
    BY <1>1, <1>2, <1>4 DEF RunsOf, Kept
<1> HIDE DEF missed
<1>6. /\ new \in RunsOf /\ new.step = "save" /\ new.saved = run.saved /\ new.missed = missed
      /\ new.folder = run.folder
      /\ SameFiles(run, new) /\ SameLook(run, new) /\ new.remark = run.remark
      /\ new.executed = run.executed /\ new.draft = run.draft
    BY <1>1, <1>5 DEF RunsOf, SameFiles, SameParts, SameLook
<1> HIDE DEF new
<1>7. Kept(new)
    BY <1>4, <1>5, <1>6 DEF Kept
<1>8. Holds(tree, new)
    BY <1>1, <1>4, <1>6, <1>7, WritingHolds
<1> QED
    BY <1>3, <1>6, <1>8, RunFails

\* The last status is "completed" only if nothing was missed.
LEMMA LastStatusIs ==
    ASSUME run \in RunsOf
    PROVE  \E status \in Statuses :
             /\ Goes(LastStatus(run), "answer") = [run EXCEPT !.step = "answer", !.status = status]
             /\ LastStatus(run).status = status /\ LastStatus(run).saved = run.saved
             /\ LastStatus(run).verdict = run.verdict
             /\ status = "completed" => run.missed = {}
<1> DEFINE status == IF run.missed # {} /\ run.status = "completed" THEN "partial" ELSE run.status
<1>1. status \in Statuses /\ (status = "completed" => run.missed = {})
    BY DEF RunsOf, Statuses
<1>2. /\ Goes(LastStatus(run), "answer") = [run EXCEPT !.step = "answer", !.status = status]
      /\ LastStatus(run).status = status /\ LastStatus(run).saved = run.saved
      /\ LastStatus(run).verdict = run.verdict
    BY DEF Goes, LastStatus, RunsOf
<1> QED
    BY <1>1, <1>2

LEMMA SavesRecordKeeps == ASSUME VerdictInv, SavesRecord PROVE VerdictInv'
<1>1. run \in RunsOf /\ run.step = "save" /\ Holds(tree, run)
    BY DEF VerdictInv, Typed, SavesRecord, At
<1>2. PICK status \in Statuses :
        Goes(LastStatus(run), "answer") = [run EXCEPT !.step = "answer", !.status = status]
    BY <1>1, LastStatusIs
<1> DEFINE new == [run EXCEPT !.step = "answer", !.status = status]
<1>3. new \in RunsOf /\ Holds(tree, new)
    BY <1>1, ToAnswerHolds
<1>4. run' = new
    BY <1>2 DEF SavesRecord
<1>5. tree' = tree /\ runs' = runs /\ others' = others /\ failures' = failures
    BY DEF SavesRecord, Puts, counts
<1> HIDE DEF new
<1>6. runs' \in Nat /\ others' \in Nat /\ failures' \in Nat
    BY <1>5 DEF VerdictInv, Typed
<1> QED
    BY <1>3, <1>4, <1>5, <1>6, RunKeeps

LEMMA RecordNotSavedKeeps == ASSUME VerdictInv, RecordNotSaved PROVE VerdictInv'
<1>1. run \in RunsOf /\ run.step = "save" /\ Holds(tree, run)
    BY DEF VerdictInv, Typed, RecordNotSaved, At
<1>2. PICK status \in Statuses :
        Goes(LastStatus(run), "answer") = [run EXCEPT !.step = "answer", !.status = status]
    BY <1>1, LastStatusIs
<1> DEFINE new == [run EXCEPT !.step = "answer", !.status = status]
<1>3. new \in RunsOf /\ Holds(tree, new)
    BY <1>1, ToAnswerHolds
<1>4. run' = new
    BY <1>2 DEF RecordNotSaved
<1>5. Fails /\ tree' = tree /\ runs' = runs /\ others' = others
    BY DEF RecordNotSaved
<1> HIDE DEF new
<1> QED
    BY <1>3, <1>4, <1>5, RunFails

\* People change the tree until it is compared: an edit leaves what was
\* modified modified, and a commit moves HEAD.
LEMMA ChangesKeeps ==
    ASSUME VerdictInv, NEW new, NEW r, Changes(new, r), new \in Trees, new.version = tree.version,
           r \in RunsOf, r.step = run.step, SameFiles(run, r), SameArtifacts(run, r),
           r.start = run.start, r.startVersion = run.startVersion, r.versions = run.versions,
           r.compared = run.compared, r.remark = run.remark, r.executed = run.executed, r.draft = run.draft,
           \/ r.onlyEdits = run.onlyEdits /\ tree.modified \subseteq new.modified /\ new.modified # {}
           \/ ~r.onlyEdits
    PROVE  VerdictInv'
<1>1. /\ run \in RunsOf /\ tree \in Trees /\ Holds(tree, run)
      /\ run.step \in {"collect", "diff", "documents", "review", "checks"}
      /\ tree.version < MaxChanges /\ run' = r
      /\ runs' = runs /\ others' = others /\ failures' = failures
    BY DEF VerdictInv, Typed, Changes
<1> DEFINE version == tree.version + 1
           newer == [new EXCEPT !.version = version]
<1>2. tree' = newer
    <2>1. [new EXCEPT !.version = @ + 1] = newer
        BY DEF Trees
    <2> HIDE DEF newer
    <2> QED
        BY <2>1 DEF Changes
<1>3. /\ version \in 0..MaxChanges /\ tree.version \in Int /\ tree.version <= version
      /\ run.startVersion \in Int
      /\ run.startVersion..tree.version \subseteq run.startVersion..version
    <2>1. tree.version \in 0..MaxChanges /\ run.startVersion \in 0..MaxChanges
        BY <1>1 DEF Trees, RunsOf
    <2> QED
        BY <1>1, <2>1, ReleaseAssumption
<1> HIDE DEF version
<1>4. newer \in Trees /\ newer.version = version /\ newer.modified = new.modified
    BY <1>3 DEF Trees
<1> HIDE DEF newer
<1>5. InOrderOf(run) /\ TreeSince(tree, run) /\ Accounted(run) /\ Kept(run)
    BY <1>1 DEF Holds
<1>6. ~run.compared
    BY <1>1, <1>5 DEF InOrderOf
<1>7. r.onlyEdits \in BOOLEAN /\ run.onlyEdits \in BOOLEAN
    BY <1>1 DEF RunsOf
<1>8. TreeSince(newer, r)
    <2>1. r.versions \subseteq r.startVersion..newer.version
        BY <1>3, <1>4, <1>5 DEF TreeSince
    <2>2. r.step \in Began => r.startVersion <= newer.version
        BY <1>3, <1>4, <1>5 DEF TreeSince
    <2>3. r.onlyEdits => run.onlyEdits /\ run.start \subseteq newer.modified /\ newer.modified # {}
        BY <1>1, <1>4, <1>5, <1>7 DEF TreeSince, Looked, Began
    <2>4. r.step \in Looked /\ ~r.remark /\ r.onlyEdits => r.start = {}
        BY <1>5, <2>3 DEF TreeSince
    <2> QED
        BY <1>6, <2>1, <2>2, <2>3, <2>4 DEF TreeSince
<1>9. InOrderOf(r)
    BY <1>5 DEF InOrderOf, Shown, SameFiles, SameParts
<1>10. Accounted(r) /\ Kept(r)
    BY <1>1, <1>5 DEF Accounted, Parted, Shown, Kept, Analyzed, SameFiles, SameParts, SameArtifacts
<1>11. Typed'
    BY <1>1, <1>2, <1>4 DEF VerdictInv, Typed
<1>12. Holds(newer, r)
    BY <1>8, <1>9, <1>10 DEF Holds
<1>13. Holds(tree, run)'
    BY <1>1, <1>2, <1>12 DEF Holds, TreeSince, InOrderOf, Accounted, Parted, Shown, Analyzed, Kept
<1> QED
    BY <1>11, <1>13 DEF VerdictInv

\* What a run is like when its tree was not only edited.
LEMMA NotOnlyEdited ==
    ASSUME NEW r \in RunsOf, r = run \/ r = [run EXCEPT !.onlyEdits = FALSE], run \in RunsOf
    PROVE  /\ r.step = run.step /\ SameFiles(run, r) /\ SameArtifacts(run, r)
           /\ r.start = run.start /\ r.startVersion = run.startVersion /\ r.versions = run.versions
           /\ r.compared = run.compared /\ r.remark = run.remark /\ r.executed = run.executed
           /\ r.draft = run.draft
BY DEF RunsOf, SameFiles, SameParts, SameArtifacts

LEMMA EditsKeeps == ASSUME VerdictInv, NEW f \in Files, Edits(f) PROVE VerdictInv'
<1> DEFINE modified == tree.modified \cup {f}
           new == [tree EXCEPT !.modified = modified]
<1>1. Changes(new, run)
    <2>1. [tree EXCEPT !.modified = @ \cup {f}] = new
        BY DEF VerdictInv, Typed, Trees
    <2> HIDE DEF new
    <2> QED
        BY <2>1 DEF Edits
<1>2. tree \in Trees /\ modified \in SUBSET Files /\ tree.modified \subseteq modified /\ modified # {}
    BY DEF VerdictInv, Typed, Trees
<1> HIDE DEF modified
<1>3. new \in Trees /\ new.version = tree.version /\ new.modified = modified
    BY <1>2 DEF Trees
<1> HIDE DEF new
<1>4. run \in RunsOf
    BY DEF VerdictInv, Typed
<1> QED
    BY <1>1, <1>2, <1>3, <1>4, NotOnlyEdited, ChangesKeeps

LEMMA RestoresKeeps == ASSUME VerdictInv, NEW f \in Files, Restores(f) PROVE VerdictInv'
<1> DEFINE modified == tree.modified \ {f}
           new == [tree EXCEPT !.modified = modified]
           r == [run EXCEPT !.onlyEdits = FALSE]
<1>1. Changes(new, r)
    <2>1. [tree EXCEPT !.modified = @ \ {f}] = new
        BY DEF VerdictInv, Typed, Trees
    <2> HIDE DEF new, r
    <2> QED
        BY <2>1 DEF Restores, r
<1>2. tree \in Trees /\ modified \in SUBSET Files /\ run \in RunsOf
    BY DEF VerdictInv, Typed, Trees
<1> HIDE DEF modified
<1>3. new \in Trees /\ new.version = tree.version
    BY <1>2 DEF Trees
<1> HIDE DEF new
<1>4. r \in RunsOf /\ ~r.onlyEdits
    BY <1>2 DEF RunsOf
<1>5. r = [run EXCEPT !.onlyEdits = FALSE]
    OBVIOUS
<1> HIDE DEF r
<1> QED
    BY <1>1, <1>2, <1>3, <1>4, <1>5, NotOnlyEdited, ChangesKeeps

LEMMA CommitsKeeps == ASSUME VerdictInv, Commits PROVE VerdictInv'
<1> DEFINE committed == tree.committed \cup tree.modified
           new == [tree EXCEPT !.committed = committed, !.modified = {}]
           r == [run EXCEPT !.onlyEdits = FALSE]
<1>1. Changes(new, r)
    <2>1. [tree EXCEPT !.committed = @ \cup tree.modified, !.modified = {}] = new
        BY DEF VerdictInv, Typed, Trees
    <2> HIDE DEF new, r
    <2> QED
        BY <2>1 DEF Commits, r
<1>2. tree \in Trees /\ committed \in SUBSET Files /\ run \in RunsOf
    BY DEF VerdictInv, Typed, Trees
<1> HIDE DEF committed
<1>3. new \in Trees /\ new.version = tree.version
    BY <1>2 DEF Trees
<1> HIDE DEF new
<1>4. r \in RunsOf /\ ~r.onlyEdits
    BY <1>2 DEF RunsOf
<1>5. r = [run EXCEPT !.onlyEdits = FALSE]
    OBVIOUS
<1> HIDE DEF r
<1> QED
    BY <1>1, <1>2, <1>3, <1>4, <1>5, NotOnlyEdited, ChangesKeeps

-----------------------------------------------------------------------------
(* The verdict.                                                            *)

LEMMA OtherWritesKeeps ==
    ASSUME VerdictInv, NEW i, NEW n \in Range(Names), OtherWrites(i, n)
    PROVE  VerdictInv'
<1> DEFINE since == IF i = run.folder THEN run.since \cup {n} ELSE run.since
           new == [run EXCEPT !.since = since]
<1>1. /\ tree' = tree /\ runs' = runs /\ failures' = failures /\ others' = others + 1
      /\ run.step \in {"probe", "save", "answer"}
    BY DEF OtherWrites
<1>2. run \in RunsOf /\ Holds(tree, run) /\ runs' \in Nat /\ others' \in Nat /\ failures' \in Nat
    BY <1>1 DEF VerdictInv, Typed
<1>3. run' = new
    <2>1. [run EXCEPT !.since = IF i = run.folder THEN @ \cup {n} ELSE @] = new
        BY <1>2 DEF RunsOf
    <2> HIDE DEF new
    <2> QED
        BY <2>1 DEF OtherWrites
<1>4. since \in SUBSET Range(Names)
    BY <1>2 DEF RunsOf
<1> HIDE DEF since
<1>5. /\ new \in RunsOf /\ new.step = run.step /\ new.id = run.id /\ new.folder = run.folder
      /\ SameArtifacts(run, new) /\ SameFiles(run, new) /\ SameLook(run, new) /\ new.remark = run.remark
      /\ new.executed = run.executed /\ new.draft = run.draft
    BY <1>2, <1>4 DEF RunsOf, SameArtifacts, SameFiles, SameParts, SameLook
<1> HIDE DEF new
<1>6. InOrderOf(new) /\ TreeSince(tree, new) /\ Accounted(new) /\ Kept(new)
    BY <1>1, <1>2, <1>5 DEF Holds, InOrderOf, Shown, TreeSince, Looked, Began, Accounted, Parted, Analyzed,
       Kept, SameArtifacts, SameFiles, SameParts, SameLook
<1> QED
    BY <1>1, <1>2, <1>3, <1>5, <1>6, RunKeeps DEF Holds

LEMMA VerdictInitially == ASSUME Init PROVE VerdictInv
<1>1. PICK committed \in SUBSET Files, modified \in SUBSET Files :
        tree = [committed |-> committed, modified |-> modified, version |-> 0]
    BY DEF Init
<1>2. tree \in Trees /\ tree.version = 0
    BY <1>1, ReleaseAssumption DEF Trees
<1>3. run = NoRun /\ runs = 0 /\ others = 0 /\ failures = 0
    BY DEF Init
<1>4. Typed
    BY <1>2, <1>3, NoRunIsTyped DEF Typed
<1>5. TreeSince(tree, run)
    BY <1>2, <1>3 DEF TreeSince, Looked, Began, NoRun
<1>6. InOrderOf(run) /\ Accounted(run) /\ Kept(run)
    BY <1>3 DEF InOrderOf, Accounted, Parted, Shown, Analyzed, Kept, NoRun
<1> QED
    BY <1>4, <1>5, <1>6 DEF VerdictInv, Holds

LEMMA VerdictNext == ASSUME VerdictInv, [Next]_vars PROVE VerdictInv'
<1>1. CASE Prepares
    BY <1>1, PreparesKeeps
<1>2. CASE RunStep
    BY <1>2, InspectsKeeps, CollectsKeeps, ReadsDiffKeeps, DocumentsKeeps, ReviewsBatchKeeps,
       SkipsBatchKeeps, ReviewedKeeps, RunsCheckKeeps, ComparesTreeKeeps, DraftsKeeps,
       ConcludesKeeps, ProbesKeeps, NoFreeFolderKeeps, SavesKeeps, SavesRecordKeeps, AnswersKeeps
       DEF RunStep
<1>3. CASE Failure
    BY <1>3, RefusesKeeps, BatchFailsKeeps, ModelGoesKeeps, CannotCompareKeeps, DraftFailsKeeps,
       OutputUnavailableKeeps, NotSavedKeeps, RecordNotSavedKeeps DEF Failure
<1>4. CASE \E f \in Files : Edits(f) \/ Restores(f)
    BY <1>4, EditsKeeps, RestoresKeeps
<1>5. CASE Commits
    BY <1>5, CommitsKeeps
<1>6. CASE \E i \in Ids, n \in Range(Names) : OtherWrites(i, n)
    BY <1>6, OtherWritesKeeps
<1>7. CASE UNCHANGED vars
    BY <1>7 DEF vars, VerdictInv, Typed, Holds, TreeSince, Looked, Began, InOrderOf, Accounted, Parted, Shown, Analyzed, Kept
<1> QED
    BY <1>1, <1>2, <1>3, <1>4, <1>5, <1>6, <1>7 DEF Next

LEMMA VerdictAlways == FairSpec => []VerdictInv
BY VerdictInitially, VerdictNext, PTL DEF FairSpec, Spec

\* Whatever the repository and its checks are, and whatever people change while
\* a preparation runs, TypeOK, ReadyIsEarned and FailureVouchesForNothing hold:
\* _conclude and _readiness say "ready" only when every file in scope was in a
\* batch that was reviewed (though the model may have been shown a part of it),
\* every check passed, and the checks ran on the tree the preparation began
\* with, if it could be compared and was only edited.
THEOREM TheVerdictIsEarned == FairSpec => []VerdictIsEarned
<1>1. ASSUME VerdictInv PROVE VerdictIsEarned
    <2>1. run \in RunsOf /\ tree \in Trees /\ TreeSince(tree, run) /\ InOrderOf(run) /\ Accounted(run) /\ Kept(run)
        BY <1>1 DEF VerdictInv, Typed, Holds
    <2>2. TypeOK
        <3>1. tree.committed \cup tree.modified \subseteq Files /\ tree.version \in 0..MaxChanges
            BY <2>1 DEF Trees
        <3>2. /\ run.withheld \subseteq run.scope /\ run.scope \subseteq Files
              /\ run.given \cup run.notReviewed \subseteq Analyzed(run)
              /\ run.given \cap run.notReviewed = {}
              /\ run.partly \cup run.unseen \subseteq run.given /\ run.partly \cap run.unseen = {}
            BY <2>1 DEF RunsOf, Accounted, Parted, Shown
        <3>3. /\ run.results \in [Range(Checks) -> {"not_run", "passed", "failed", "could_not_run"}]
              /\ run.versions \subseteq 0..MaxChanges
              /\ run.status \in {"none", "failed", "no_changes", "partial", "completed"}
              /\ run.tried \in 0..MaxIdTries
            BY <2>1 DEF RunsOf, Results, Statuses
        <3>4. run.saved \cup run.missed \subseteq Range(Names) /\ run.saved \cap run.missed = {}
            BY <2>1 DEF RunsOf, Kept
        <3> QED
            BY <3>1, <3>2, <3>3, <3>4 DEF TypeOK
    <2>3. ReadyIsEarned
        <3> SUFFICES ASSUME run.step = "conclude", Verdict(run) = "ready"
                     PROVE  /\ run.given = run.scope /\ Shown(run) # {}
                            /\ \A c \in Range(Checks) : run.results[c] = "passed"
                            /\ run.compared /\ run.onlyEdits => run.versions = {run.startVersion}
            BY DEF ReadyIsEarned, At
        <3>1. /\ StatusOf(run) \notin {"failed", "no_changes"}
              /\ ~Blockers(run) /\ ~Warnings(run) /\ ~Unverified(run)
            BY DEF Verdict
        <3>2. Analyzed(run) # {}
            BY <3>1 DEF StatusOf
        <3>3. ~run.remark /\ run.withheld = {} /\ run.notReviewed = {} /\ ~run.treeChanged
            BY <3>1 DEF Warnings
        <3>4. run.given = run.scope /\ Shown(run) # {}
            BY <2>1, <3>2, <3>3 DEF Accounted, Parted, Shown, Analyzed
        <3>5. \A c \in Range(Checks) : run.results[c] = "passed"
            BY <3>1 DEF Blockers, Unverified
        <3>6. ASSUME run.compared, run.onlyEdits PROVE run.versions = {run.startVersion}
            BY <2>1, <3>3, <3>6 DEF TreeSince
        <3> QED
            BY <3>4, <3>5, <3>6
    <2>4. FailureVouchesForNothing
        <3> SUFFICES ASSUME run.step = "conclude", StatusOf(run) = "failed"
                     PROVE  ~run.executed /\ Shown(run) = {} /\ Verdict(run) = "not_verified"
            BY DEF FailureVouchesForNothing, At
        <3>1. run.draft = "skipped" /\ Shown(run) = {}
            BY DEF StatusOf
        <3>2. ~run.executed
            BY <2>1, <3>1 DEF InOrderOf, Shown
        <3>3. Verdict(run) = "not_verified"
            BY DEF Verdict
        <3> QED
            BY <3>1, <3>2, <3>3
    <2> QED
        BY <2>2, <2>3, <2>4 DEF VerdictIsEarned
<1> QED
    BY <1>1, VerdictAlways, PTL

-----------------------------------------------------------------------------
(* The folders.                                                            *)

\* What the property says of one folder.
RecordOK(i) ==
    output[i][RECORD].by \notin {"nobody", "others"} =>
        /\ \A n \in output[i][RECORD].artifacts : output[i][n] # Others =>
            /\ output[i][n].by = output[i][RECORD].by
            /\ output[i][n].verdict = output[i][RECORD].verdict
        /\ output[i][RECORD].status = "completed" => output[i][RECORD].artifacts = Range(Names)

\* While its folder is filled: there is no record yet, what was saved is the
\* run's own, and what was not tried yet is not there.
Filled ==
    /\ output[run.folder][RECORD] = Absent
    /\ \A n \in run.saved : output[run.folder][n] # Others =>
        output[run.folder][n].by = ToString(runs) /\ output[run.folder][n].verdict = run.verdict
    /\ \A n \in ToSave : n \notin run.since => output[run.folder][n] = Absent

Folders == output = [i \in Ids |-> [n \in Artifacts |-> output[i][n]]]

FoldersInv ==
    /\ Folders
    /\ \A i \in Ids : RecordOK(i) /\ output[i][RECORD].artifacts \subseteq Range(Names)
    /\ run.step = "save" => Filled

\* Nothing is written.
LEMMA FoldersStay ==
    ASSUME FoldersInv, output' = output, run'.step # "save"
    PROVE  FoldersInv'
BY DEF FoldersInv, Folders, RecordOK

\* One file is written, and no other.
Written(i, n, text) ==
    /\ Folders' /\ output'[i][n] = text
    /\ \A j \in Ids, m \in Artifacts : j # i \/ m # n => output'[j][m] = output[j][m]

LEMMA FileWritten ==
    ASSUME FoldersInv, NEW i \in Ids, NEW n \in Artifacts, NEW text,
           output' = [output EXCEPT ![i][n] = text]
    PROVE  Written(i, n, text)
<1>1. output = [j \in Ids |-> [m \in Artifacts |-> output[j][m]]]
    BY DEF FoldersInv, Folders
<1> DEFINE after(j, m) == IF j = i /\ m = n THEN text ELSE output[j][m]
<1>2. output' = [j \in Ids |-> [m \in Artifacts |-> after(j, m)]]
    BY <1>1, Zenon
<1>3. after(i, n) = text /\ \A j \in Ids, m \in Artifacts : j # i \/ m # n => after(j, m) = output[j][m]
    OBVIOUS
<1> HIDE DEF after
<1>4. \A j \in Ids : output'[j] = [m \in Artifacts |-> after(j, m)]
    BY <1>2
<1>5. ASSUME NEW j \in Ids, NEW m \in Artifacts PROVE output'[j][m] = after(j, m)
    <2>1. output'[j] = [k \in Artifacts |-> after(j, k)]
        BY <1>4
    <2> QED
        BY <2>1, Zenon
<1>6. output' = [j \in Ids |-> [m \in Artifacts |-> output'[j][m]]]
    BY <1>2, <1>5, Zenon
<1> QED
    BY <1>3, <1>5, <1>6 DEF Written, Folders

LEMMA NamesAreArtifacts == Range(Names) \subseteq Artifacts /\ RECORD \in Artifacts /\ RECORD \notin Range(Names)
BY ReleaseAssumption DEF Artifacts

\* Most steps write nothing, and none of them begins to.
LEMMA FewSave ==
    ASSUME VerdictInv,
           \/ Prepares \/ Refuses \/ Inspects \/ Collects \/ ReadsDiff \/ Documents
           \/ ReviewsBatch \/ SkipsBatch \/ BatchFails \/ ModelGoes \/ Reviewed
           \/ RunsCheck \/ ComparesTree \/ CannotCompare \/ Drafts \/ DraftFails \/ Concludes
           \/ NoFreeFolder \/ OutputUnavailable \/ Answers
           \/ (\E f \in Files : Edits(f) \/ Restores(f)) \/ Commits
    PROVE  output' = output /\ run'.step # "save"
<1>1. run \in RunsOf
    BY DEF VerdictInv, Typed
<1>2. NoRun \in RunsOf /\ NoRun.step = "none"
    BY NoRunIsTyped DEF NoRun
<1>3. CASE Prepares
    BY <1>2, <1>3 DEF Prepares, RunsOf
<1>4. CASE Refuses \/ Answers
    BY <1>2, <1>4 DEF Refuses, Answers, Becomes
<1>5. CASE Inspects
    BY <1>1, <1>5 DEF Inspects, Becomes, Goes, RunsOf
<1>6. CASE Collects
    <2>1. PICK untracked \in BOOLEAN :
            LET r == [run EXCEPT !.scope = InScope(run), !.remark = AnalyzesLess(run) \/ untracked]
            IN  Becomes(Goes(r, IF r.scope = {} THEN "conclude" ELSE "diff"))
        BY <1>6 DEF Collects
    <2> DEFINE scope == InScope(run)
               remark == AnalyzesLess(run) \/ untracked
               r == [run EXCEPT !.scope = scope, !.remark = remark]
               step == IF r.scope = {} THEN "conclude" ELSE "diff"
    <2>2. output' = output /\ run' = [r EXCEPT !.step = step]
        BY <2>1 DEF Becomes, Goes
    <2>3. step # "save"
        OBVIOUS
    <2> HIDE DEF step, scope, remark
    <2> QED
        BY <1>1, <2>2, <2>3 DEF RunsOf
<1>7. CASE ReadsDiff
    <2>1. PICK withheld \in SUBSET InScope(run) :
            LET r == [run EXCEPT !.scope = InScope(run), !.withheld = withheld,
                                 !.base = FALSE, !.include = FALSE]
            IN  Becomes(IF Analyzed(r) = {} THEN Goes(r, "conclude") ELSE Goes(Plan(r), "documents"))
        BY <1>7 DEF ReadsDiff
    <2> DEFINE scope == InScope(run)
               r == [run EXCEPT !.scope = scope, !.withheld = withheld, !.base = FALSE, !.include = FALSE]
               p == Plan(r)
    <2>2. output' = output /\ (run' = [r EXCEPT !.step = "conclude"] \/ run' = [p EXCEPT !.step = "documents"])
        BY <2>1 DEF Becomes, Goes
    <2>3. scope \in SUBSET Files /\ run.step = "diff" /\ Holds(tree, run)
        BY <1>7 DEF VerdictInv, Typed, InScope, Trees, RunsOf, ReadsDiff, At
    <2>4. withheld \in SUBSET Files
        BY <2>3
    <2> HIDE DEF scope
    <2>5. r \in RunsOf /\ r.notReviewed = run.notReviewed
        BY <1>1, <2>3, <2>4 DEF RunsOf
    <2> HIDE DEF r
    <2>6. r.notReviewed = {}
        BY <2>3, <2>5 DEF Holds, InOrderOf, Shown
    <2>7. p \in RunsOf
        BY <2>5, <2>6, PlanIsAll
    <2> HIDE DEF p
    <2> QED
        BY <2>2, <2>5, <2>7 DEF RunsOf
<1>8. CASE Documents
    BY <1>1, <1>8 DEF Documents, Becomes, Goes, RunsOf
<1>9. CASE ReviewsBatch
    BY <1>1, <1>9 DEF ReviewsBatch, Becomes, NextBatch, At, RunsOf
<1>10. CASE SkipsBatch
    BY <1>1, <1>10 DEF SkipsBatch, Becomes, NextBatch, At, RunsOf
<1>11. CASE BatchFails
    BY <1>1, <1>11 DEF BatchFails, NextBatch, At, RunsOf
<1>12. CASE ModelGoes
    <2> DEFINE step == IF Shown(run) = {} THEN "conclude" ELSE "checks"
    <2>1. /\ output' = output
          /\ run' = [Goes(run, step) EXCEPT !.notReviewed = @ \cup Batch, !.broken = TRUE, !.draft = "skipped"]
        BY <1>12 DEF ModelGoes
    <2>2. step # "save"
        OBVIOUS
    <2> HIDE DEF step
    <2> QED
        BY <1>1, <2>1, <2>2 DEF Goes, RunsOf
<1>13. CASE Reviewed
    BY <1>1, <1>13 DEF Reviewed, Becomes, Goes, RunsOf
<1>14. CASE RunsCheck
    BY <1>1, <1>14 DEF RunsCheck, Becomes, At, RunsOf
<1>15. CASE ComparesTree
    BY <1>1, <1>15 DEF ComparesTree, Becomes, Goes, RunsOf
<1>16. CASE CannotCompare
    BY <1>1, <1>16 DEF CannotCompare, Goes, RunsOf
<1>17. CASE Drafts \/ DraftFails
    BY <1>1, <1>17 DEF Drafts, DraftFails, Becomes, Goes, RunsOf
<1>18. CASE Concludes
    <2>1. PICK id \in Ids : run' = [NoRun EXCEPT !.step = "probe", !.id = id, !.status = StatusOf(run),
                                                 !.verdict = Verdict(run)]
        BY <1>18 DEF Concludes, Becomes
    <2>2. run'.step = "probe"
        BY <1>2, <2>1 DEF RunsOf
    <2> QED
        BY <1>18, <2>2 DEF Concludes, Becomes
<1>19. CASE NoFreeFolder \/ OutputUnavailable
    BY <1>1, <1>19 DEF NoFreeFolder, OutputUnavailable, Becomes, Goes, RunsOf
<1>20. CASE (\E f \in Files : Edits(f) \/ Restores(f)) \/ Commits
    <2>1. PICK r, new : Changes(new, r) /\ (r = run \/ r = [run EXCEPT !.onlyEdits = FALSE])
        BY <1>20 DEF Edits, Restores, Commits
    <2>2. r.step = run.step
        BY <1>1, <2>1 DEF RunsOf
    <2> QED
        BY <2>1, <2>2 DEF Changes
<1> QED
    BY <1>3, <1>4, <1>5, <1>6, <1>7, <1>8, <1>9, <1>10, <1>11, <1>12, <1>13, <1>14, <1>15, <1>16,
       <1>17, <1>18, <1>19, <1>20

LEMMA ProbesFolders == ASSUME VerdictInv, FoldersInv, Probes PROVE FoldersInv'
<1>1. run \in RunsOf /\ run.step = "probe" /\ Kept(run)
    BY DEF VerdictInv, Typed, Holds, Probes, At
<1>2. output' = output /\ runs' = runs
    BY DEF Probes, Becomes, counts
<1>3. CASE Free(run.id)
    <2>1. run' = [run EXCEPT !.step = "save", !.folder = run.id]
        <3>1. run' = [Goes(run, "save") EXCEPT !.folder = run.id]
            BY <1>3 DEF Probes, Becomes
        <3> QED
            BY <1>1, <3>1 DEF Goes, RunsOf
    <2>2. run'.folder = run.id /\ run'.saved = {} /\ run.id \in Ids
        <3>1. run'.folder = run.id /\ run'.saved = run.saved
            BY <1>1, <2>1 DEF RunsOf
        <3> QED
            BY <1>1, <3>1 DEF Kept
    <2>3. \A n \in Artifacts : output[run.id][n] = Absent
        BY <1>3 DEF Free
    <2>4. Filled'
        BY <1>2, <2>2, <2>3, NamesAreArtifacts DEF Filled, ToSave
    <2> QED
        BY <1>2, <2>4 DEF FoldersInv, Folders, RecordOK
<1>4. CASE ~Free(run.id)
    <2>1. PICK id \in Ids : run' = [run EXCEPT !.id = id, !.tried = @ + 1]
        BY <1>4 DEF Probes, Becomes
    <2>2. run'.step # "save"
        BY <1>1, <2>1 DEF RunsOf
    <2> QED
        BY <1>2, <2>2, FoldersStay
<1> QED
    BY <1>3, <1>4

\* A file of the folder being filled is the only one that changes; its record
\* comes last.
LEMMA NameWritten ==
    ASSUME VerdictInv, FoldersInv, run.step = "save", NEW n \in Range(Names), NEW text,
           output' = [output EXCEPT ![run.folder][n] = text]
    PROVE  /\ run.folder \in Ids /\ Folders'
           /\ output'[run.folder][n] = text
           /\ \A j \in Ids, m \in Artifacts : j # run.folder \/ m # n => output'[j][m] = output[j][m]
           /\ \A i \in Ids : RecordOK(i)' /\ output'[i][RECORD].artifacts \subseteq Range(Names)
           /\ output'[run.folder][RECORD] = Absent
<1>1. run.folder \in Ids /\ Filled
    BY DEF VerdictInv, Holds, Kept, FoldersInv
<1>2. n \in Artifacts /\ n # RECORD
    BY NamesAreArtifacts
<1>3. /\ Folders' /\ output'[run.folder][n] = text
      /\ \A j \in Ids, m \in Artifacts : j # run.folder \/ m # n => output'[j][m] = output[j][m]
    <2>1. Written(run.folder, n, text)
        BY <1>1, <1>2, FileWritten
    <2> QED
        BY <2>1 DEF Written
<1>4. \A j \in Ids : output'[j][RECORD] = output[j][RECORD]
    BY <1>2, <1>3, NamesAreArtifacts
<1>5. output'[run.folder][RECORD] = Absent
    BY <1>1, <1>4 DEF Filled
<1>6. ASSUME NEW i \in Ids PROVE RecordOK(i)'
    <2>1. CASE i = run.folder
        <3>1. output'[i][RECORD].by = "nobody"
            BY <1>5, <2>1 DEF Absent, Text
        <3> QED
            BY <3>1 DEF RecordOK
    <2>2. CASE i # run.folder
        <3>1. \A m \in Artifacts : output'[i][m] = output[i][m]
            BY <1>3, <2>2
        <3>2. RecordOK(i) /\ output[i][RECORD].artifacts \subseteq Artifacts
            BY NamesAreArtifacts DEF FoldersInv
        <3> QED
            BY <1>4, <3>1, <3>2 DEF RecordOK
    <2> QED
        BY <2>1, <2>2
<1>7. \A i \in Ids : output'[i][RECORD].artifacts \subseteq Range(Names)
    BY <1>4 DEF FoldersInv
<1> QED
    BY <1>1, <1>3, <1>5, <1>6, <1>7

LEMMA SavesFolders == ASSUME VerdictInv, FoldersInv, Saves PROVE FoldersInv'
<1>1. run \in RunsOf /\ run.step = "save" /\ ToSave # {} /\ Filled
    BY DEF VerdictInv, Typed, Saves, At, FoldersInv
<1>2. NextName \in Range(Names) /\ NextName \notin run.saved \cup run.missed
    BY <1>1, NextIsToSave
<1> DEFINE n == NextName
<1>3. output' = [output EXCEPT ![run.folder][n] = Rendered(run)] /\ runs' = runs
    BY DEF Saves, Puts, counts
<1>4. /\ run'.saved = run.saved \cup {n} /\ run'.missed = run.missed /\ run'.folder = run.folder
      /\ run'.verdict = run.verdict /\ run'.since = run.since
    BY <1>1 DEF Saves, RunsOf
<1> HIDE DEF n
<1>5. n \in Range(Names) /\ n \notin run.saved \cup run.missed
    BY <1>2 DEF n
<1>6. /\ run.folder \in Ids
      /\ Folders' /\ output'[run.folder][n] = Rendered(run)
      /\ \A j \in Ids, m \in Artifacts : j # run.folder \/ m # n => output'[j][m] = output[j][m]
      /\ \A i \in Ids : RecordOK(i)' /\ output'[i][RECORD].artifacts \subseteq Range(Names)
      /\ output'[run.folder][RECORD] = Absent
    BY <1>1, <1>3, <1>5, NameWritten
<1>7. Rendered(run).by = ToString(runs) /\ Rendered(run).verdict = run.verdict
    BY <1>1 DEF Rendered, Text, RunsOf
<1>8. run.saved \subseteq Artifacts /\ ToSave \subseteq Artifacts
    BY <1>1, NamesAreArtifacts DEF RunsOf, ToSave
<1>9. \A m \in run'.saved : output'[run.folder][m] # Others =>
        output'[run.folder][m].by = ToString(runs) /\ output'[run.folder][m].verdict = run.verdict
    BY <1>1, <1>4, <1>5, <1>6, <1>7, <1>8 DEF Filled
<1>10. ToSave' \subseteq ToSave /\ n \notin ToSave'
    BY <1>4 DEF ToSave
<1>11. \A m \in ToSave' : m \notin run.since => output'[run.folder][m] = Absent
    BY <1>1, <1>6, <1>8, <1>10 DEF Filled
<1>12. Filled'
    BY <1>3, <1>4, <1>6, <1>9, <1>11 DEF Filled
<1> QED
    BY <1>6, <1>12 DEF FoldersInv

LEMMA NotSavedFolders == ASSUME VerdictInv, FoldersInv, NotSaved PROVE FoldersInv'
<1>1. run \in RunsOf /\ run.step = "save" /\ ToSave # {} /\ Filled
    BY DEF VerdictInv, Typed, NotSaved, At, FoldersInv
<1>2. NextName \in Range(Names) /\ NextName \notin run.saved \cup run.missed
    BY <1>1, NextIsToSave
<1> DEFINE n == NextName
<1>3. (output' = output \/ output' = [output EXCEPT ![run.folder][n] = Rendered(run)]) /\ runs' = runs
    BY DEF NotSaved
<1>4. /\ run'.saved = run.saved /\ run'.missed = run.missed \cup {n} /\ run'.folder = run.folder
      /\ run'.verdict = run.verdict /\ run'.since = run.since
    BY <1>1 DEF NotSaved, RunsOf
<1> HIDE DEF n
<1>5. n \in Range(Names) /\ n \notin run.saved \cup run.missed
    BY <1>2 DEF n
<1>6. ToSave' \subseteq ToSave /\ n \notin ToSave'
    BY <1>4 DEF ToSave
<1>7. CASE output' = output
    <2>1. Filled'
        BY <1>1, <1>3, <1>4, <1>6, <1>7 DEF Filled
    <2> QED
        BY <1>7, <2>1 DEF FoldersInv, Folders, RecordOK
<1>8. CASE output' = [output EXCEPT ![run.folder][n] = Rendered(run)]
    <2>1. /\ run.folder \in Ids
          /\ Folders'
          /\ \A j \in Ids, m \in Artifacts : j # run.folder \/ m # n => output'[j][m] = output[j][m]
          /\ \A i \in Ids : RecordOK(i)' /\ output'[i][RECORD].artifacts \subseteq Range(Names)
          /\ output'[run.folder][RECORD] = Absent
        BY <1>1, <1>5, <1>8, NameWritten
    <2>2. run.saved \subseteq Artifacts /\ ToSave \subseteq Artifacts
        BY <1>1, NamesAreArtifacts DEF RunsOf, ToSave
    <2>3. \A m \in run.saved : output'[run.folder][m] = output[run.folder][m]
        BY <1>5, <2>1, <2>2
    <2>4. \A m \in ToSave' : output'[run.folder][m] = output[run.folder][m]
        BY <1>6, <2>1, <2>2
    <2>5. Filled'
        BY <1>1, <1>3, <1>4, <1>6, <2>1, <2>3, <2>4 DEF Filled
    <2> QED
        BY <2>1, <2>5 DEF FoldersInv
<1> QED
    BY <1>3, <1>7, <1>8

\* The record names what was saved, and says "completed" only when that is all.
LEMMA RecordWritten ==
    ASSUME VerdictInv, FoldersInv, run.step = "save", ToSave = {},
           output' = [output EXCEPT ![run.folder][RECORD] = Record(LastStatus(run))],
           run'.step # "save"
    PROVE  FoldersInv'
<1>1. run \in RunsOf /\ run.folder \in Ids /\ Filled
    BY DEF VerdictInv, Typed, Holds, Kept, FoldersInv
<1> DEFINE text == Record(LastStatus(run))
<1>2. /\ text.by = ToString(runs) /\ text.verdict = run.verdict /\ text.artifacts = run.saved
      /\ text.status = "completed" => run.missed = {}
    BY <1>1, LastStatusIs DEF Record, Text
<1>3. run.saved \subseteq Range(Names) /\ (run.missed = {} => run.saved = Range(Names))
    BY <1>1 DEF RunsOf, ToSave
<1> HIDE DEF text
<1>4. output' = [output EXCEPT ![run.folder][RECORD] = text]
    BY DEF text
<1>5. /\ Folders' /\ output'[run.folder][RECORD] = text
      /\ \A j \in Ids, m \in Artifacts : j # run.folder \/ m # RECORD => output'[j][m] = output[j][m]
    <2>1. Written(run.folder, RECORD, text)
        BY <1>1, <1>4, NamesAreArtifacts, FileWritten
    <2> QED
        BY <2>1 DEF Written
<1>6. \A m \in run.saved : output'[run.folder][m] = output[run.folder][m]
    BY <1>1, <1>3, <1>5, NamesAreArtifacts
<1>7. ASSUME NEW i \in Ids, i = run.folder
      PROVE  RecordOK(i)' /\ output'[i][RECORD].artifacts \subseteq Range(Names)
    <2>1. /\ \A n \in run.saved : output'[i][n] # Others =>
                output'[i][n].by = text.by /\ output'[i][n].verdict = text.verdict
          /\ text.status = "completed" => run.saved = Range(Names)
        BY <1>1, <1>2, <1>3, <1>6, <1>7 DEF Filled
    <2>2. output'[i][RECORD] = text
        BY <1>5, <1>7
    <2>3. RecordOK(i)'
        BY <1>2, <2>1, <2>2 DEF RecordOK
    <2> QED
        BY <1>2, <1>3, <2>2, <2>3
<1>8. ASSUME NEW i \in Ids, i # run.folder
      PROVE  RecordOK(i)' /\ output'[i][RECORD].artifacts \subseteq Range(Names)
    <2>1. \A m \in Artifacts : output'[i][m] = output[i][m]
        BY <1>5, <1>8
    <2>2. RecordOK(i) /\ output[i][RECORD].artifacts \subseteq Range(Names)
        BY DEF FoldersInv
    <2> QED
        BY <2>1, <2>2, NamesAreArtifacts DEF RecordOK
<1>9. \A i \in Ids : RecordOK(i)' /\ output'[i][RECORD].artifacts \subseteq Range(Names)
    BY <1>7, <1>8
<1> QED
    BY <1>5, <1>9 DEF FoldersInv

LEMMA SavesRecordFolders == ASSUME VerdictInv, FoldersInv, SavesRecord PROVE FoldersInv'
<1>1. run \in RunsOf /\ run.step = "save" /\ ToSave = {}
    BY DEF VerdictInv, Typed, SavesRecord, At
<1>2. output' = [output EXCEPT ![run.folder][RECORD] = Record(LastStatus(run))]
    BY DEF SavesRecord, Puts
<1>3. run'.step # "save"
    <2>1. run' = Goes(LastStatus(run), "answer")
        BY DEF SavesRecord
    <2> QED
        BY <1>1, <2>1 DEF Goes, LastStatus, RunsOf
<1> QED
    BY <1>1, <1>2, <1>3, RecordWritten

LEMMA RecordNotSavedFolders == ASSUME VerdictInv, FoldersInv, RecordNotSaved PROVE FoldersInv'
<1>1. run \in RunsOf /\ run.step = "save" /\ ToSave = {} /\ runs' = runs
    BY DEF VerdictInv, Typed, RecordNotSaved, At
<1>2. run' = Goes(LastStatus(run), "answer")
    BY DEF RecordNotSaved
<1>3. run'.step # "save"
    BY <1>1, <1>2 DEF Goes, LastStatus, RunsOf
<1>4. output' = output \/ output' = [output EXCEPT ![run.folder][RECORD] = Record(run')]
    BY DEF RecordNotSaved
<1>5. Record(run') = Record(LastStatus(run))
    BY <1>1, <1>2 DEF Record, Text, Goes, LastStatus, RunsOf
<1>6. CASE output' = output
    BY <1>3, <1>6, FoldersStay
<1>7. CASE output' = [output EXCEPT ![run.folder][RECORD] = Record(run')]
    BY <1>1, <1>3, <1>5, <1>7, RecordWritten
<1> QED
    BY <1>4, <1>6, <1>7

\* A file of somebody else's is nobody's saved artifact, and no record.
LEMMA OtherWritesFolders ==
    ASSUME VerdictInv, FoldersInv, NEW i \in Ids, NEW n \in Range(Names), OtherWrites(i, n)
    PROVE  FoldersInv'
<1>1. /\ output' = [output EXCEPT ![i][n] = Others] /\ runs' = runs
      /\ run'.step = run.step /\ run'.folder = run.folder /\ run'.saved = run.saved
      /\ run'.missed = run.missed /\ run'.verdict = run.verdict
      /\ run.since \subseteq run'.since /\ (i = run.folder => n \in run'.since)
    <2>1. /\ output' = [output EXCEPT ![i][n] = Others] /\ runs' = runs /\ run \in RunsOf
          /\ run' = [run EXCEPT !.since = IF i = run.folder THEN @ \cup {n} ELSE @]
        BY DEF OtherWrites, VerdictInv, Typed
    <2> QED
        BY <2>1 DEF RunsOf
<1>2. n \in Artifacts /\ n # RECORD
    BY NamesAreArtifacts
<1>3. /\ Folders' /\ output'[i][n] = Others
      /\ \A j \in Ids, m \in Artifacts : j # i \/ m # n => output'[j][m] = output[j][m]
    <2>1. Written(i, n, Others)
        BY <1>1, <1>2, FileWritten
    <2> QED
        BY <2>1 DEF Written
<1>4. \A j \in Ids, m \in Artifacts : output'[j][m] # Others => output'[j][m] = output[j][m]
    BY <1>3
<1>5. \A j \in Ids : output'[j][RECORD] = output[j][RECORD]
    BY <1>2, <1>3, NamesAreArtifacts
<1>6. ASSUME NEW j \in Ids PROVE RecordOK(j)' /\ output'[j][RECORD].artifacts \subseteq Range(Names)
    <2>1. RecordOK(j) /\ output[j][RECORD].artifacts \subseteq Range(Names)
        BY DEF FoldersInv
    <2>2. \A m \in output[j][RECORD].artifacts : output'[j][m] # Others => output'[j][m] = output[j][m]
        BY <1>4, <2>1, NamesAreArtifacts
    <2> QED
        BY <1>5, <2>1, <2>2 DEF RecordOK
<1>7. ASSUME run.step = "save" PROVE Filled'
    <2>1. Filled /\ run.folder \in Ids /\ run.saved \subseteq Artifacts
        BY <1>7, NamesAreArtifacts DEF FoldersInv, VerdictInv, Typed, Holds, Kept, RunsOf
    <2>2. ToSave' = ToSave /\ ToSave \subseteq Artifacts
        BY <1>1, NamesAreArtifacts DEF ToSave
    <2>3. \A m \in ToSave : m \notin run'.since => output'[run.folder][m] = Absent
        BY <1>1, <1>3, <2>1, <2>2 DEF Filled
    <2> QED
        BY <1>1, <1>4, <1>5, <1>7, <2>1, <2>2, <2>3 DEF Filled
<1> QED
    BY <1>1, <1>3, <1>6, <1>7 DEF FoldersInv

LEMMA FoldersInitially == ASSUME Init PROVE FoldersInv
<1>1. output = [i \in Ids |-> [n \in Artifacts |-> Absent]] /\ run = NoRun
    BY DEF Init
<1>2. \A i \in Ids : output[i][RECORD] = Absent
    BY <1>1, NamesAreArtifacts
<1>3. Absent.by = "nobody" /\ Absent.artifacts = {} /\ run.step # "save"
    BY <1>1 DEF Absent, Text, NoRun
<1>4. output = [i \in Ids |-> [n \in Artifacts |-> output[i][n]]]
    BY <1>1
<1> QED
    BY <1>2, <1>3, <1>4 DEF FoldersInv, Folders, RecordOK

LEMMA FoldersNext == ASSUME VerdictInv, FoldersInv, [Next]_vars PROVE FoldersInv'
<1>1. CASE Probes
    BY <1>1, ProbesFolders
<1>2. CASE Saves \/ NotSaved
    BY <1>2, SavesFolders, NotSavedFolders
<1>3. CASE SavesRecord \/ RecordNotSaved
    BY <1>3, SavesRecordFolders, RecordNotSavedFolders
<1>4. CASE \E i \in Ids, n \in Range(Names) : OtherWrites(i, n)
    BY <1>4, OtherWritesFolders
<1>5. CASE UNCHANGED vars
    BY <1>5 DEF vars, FoldersInv, Folders, RecordOK, Filled, ToSave
<1>6. CASE /\ Next
           /\ ~(Probes \/ Saves \/ NotSaved \/ SavesRecord \/ RecordNotSaved)
           /\ ~(\E i \in Ids, n \in Range(Names) : OtherWrites(i, n))
    <2>1. output' = output /\ run'.step # "save"
        BY <1>6, FewSave DEF Next, RunStep, Failure
    <2> QED
        BY <2>1, FoldersStay
<1> QED
    BY <1>1, <1>2, <1>3, <1>4, <1>5, <1>6

LEMMA FoldersAlways == FairSpec => [](VerdictInv /\ FoldersInv)
BY VerdictInitially, VerdictNext, FoldersInitially, FoldersNext, PTL DEF FairSpec, Spec

\* A record never says what its folder does not bear out, whatever fails while
\* the folder is filled and whatever others put there (_write saves run.json
\* last, with the artifacts that were saved and the status of what was missed).
THEOREM ARecordIsTrue == FairSpec => []RecordIsTrue
<1>1. ASSUME FoldersInv PROVE RecordIsTrue
    BY <1>1 DEF FoldersInv, RecordOK, RecordIsTrue
<1> QED
    BY <1>1, FoldersAlways, PTL

\* _write puts no artifact in the place of another file, for it probes every
\* name of a folder first and tries each once - but in that of a file that
\* others put there after it was probed.
THEOREM NothingElseIsReplaced == FairSpec => OnlyLateFilesAreReplaced
<1> DEFINE Left == \A i \in Ids, n \in Artifacts :
                     output[i][n] # Absent /\ others' = others /\ output'[i][n] # output[i][n] =>
                         i = run.folder /\ n \in run.since
<1>1. ASSUME VerdictInv, FoldersInv, Next PROVE Left
    <2>1. CASE Saves \/ NotSaved
        <3>1. run.step = "save" /\ ToSave # {} /\ Filled /\ run.folder \in Ids
            BY <1>1, <2>1 DEF Saves, NotSaved, At, FoldersInv, VerdictInv, Holds, Kept
        <3>2. NextName \in Range(Names) /\ NextName \in ToSave
            BY <3>1, NextIsToSave DEF ToSave
        <3>3. NextName \notin run.since => output[run.folder][NextName] = Absent
            BY <3>1, <3>2 DEF Filled
        <3>4. output' = output \/ output' = [output EXCEPT ![run.folder][NextName] = Rendered(run)]
            BY <2>1 DEF Saves, NotSaved, Puts
        <3>5. CASE output' = output
            BY <3>5
        <3>6. CASE output' = [output EXCEPT ![run.folder][NextName] = Rendered(run)]
            <4>1. \A j \in Ids, m \in Artifacts :
                    j # run.folder \/ m # NextName => output'[j][m] = output[j][m]
                BY <1>1, <3>1, <3>2, <3>6, NameWritten
            <4> QED
                BY <3>3, <4>1
        <3> QED
            BY <3>4, <3>5, <3>6
    <2>2. CASE SavesRecord \/ RecordNotSaved
        <3>1. run.step = "save" /\ Filled /\ run.folder \in Ids
            BY <1>1, <2>2 DEF SavesRecord, RecordNotSaved, At, FoldersInv, VerdictInv, Holds, Kept
        <3>2. PICK text : output' = output \/ output' = [output EXCEPT ![run.folder][RECORD] = text]
            BY <2>2 DEF SavesRecord, RecordNotSaved, Puts
        <3>3. CASE output' = output
            BY <3>3
        <3>4. CASE output' = [output EXCEPT ![run.folder][RECORD] = text]
            <4>1. \A j \in Ids, m \in Artifacts :
                    j # run.folder \/ m # RECORD => output'[j][m] = output[j][m]
                BY <1>1, <3>1, <3>4, NamesAreArtifacts, FileWritten DEF Written
            <4> QED
                BY <3>1, <4>1 DEF Filled
        <3> QED
            BY <3>2, <3>3, <3>4
    <2>3. CASE \E i \in Ids, n \in Range(Names) : OtherWrites(i, n)
        <3>1. others' = others + 1 /\ others \in Nat
            BY <1>1, <2>3 DEF OtherWrites, VerdictInv, Typed
        <3> QED
            BY <3>1
    <2>4. CASE /\ ~(Saves \/ NotSaved \/ SavesRecord \/ RecordNotSaved)
               /\ ~(\E i \in Ids, n \in Range(Names) : OtherWrites(i, n))
        <3>1. CASE Probes
            BY <3>1 DEF Probes, Becomes
        <3>2. CASE ~Probes
            BY <1>1, <2>4, <3>2, FewSave DEF Next, RunStep, Failure
        <3> QED
            BY <3>1, <3>2
    <2> QED
        BY <2>1, <2>2, <2>3, <2>4
<1>2. VerdictInv /\ FoldersInv /\ [Next]_vars => [Left]_vars
    BY <1>1
<1>3. FairSpec => [][Left]_vars
    BY <1>2, FoldersAlways, PTL DEF FairSpec, Spec
<1> QED
    BY <1>3 DEF OnlyLateFilesAreReplaced

=============================================================================
