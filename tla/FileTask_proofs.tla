--------------------------- MODULE FileTask_proofs ---------------------------
(***************************************************************************)
(* For any project, any number of tasks and any budgets: what a task says  *)
(* of itself is true, and a document is replaced only where the command    *)
(* that was confirmed says what it is (FileTask); and the diff a proposal  *)
(* is shown and checked by changes what it shows, of any text (Patch).     *)
(***************************************************************************)
EXTENDS FileTask, Patch, FiniteSetTheorems, SequenceTheorems, WellFoundedInduction, TLAPS

-----------------------------------------------------------------------------
(* The invariant.                                                          *)

Pcs == {"new", "plan", "inspect", "round", "names", "analyse", "compare", "propose", "proposal",
        "patch", "review", "report", "finished", "answered", "refused"}
RunsOf == [
    pc : Pcs, workflow : {"none", "usage_report", "docs_update", "unsupported"},
    calls : 0..MaxToolCalls, asked : 0..MaxModelCalls, rounds : 0..MaxRounds, down : BOOLEAN,
    reads : [Docs -> Contents], sections : SUBSET Docs, changed : SUBSET Docs, left : SUBSET Docs,
    now : Docs \cup {"none"}, diffs : SUBSET Docs,
    artifacts : SUBSET (Docs \cup {"patch", "review", "report"}),
    errors : {"none", "limit", "more"},
    status : {"none", "unsupported", "failed", "partial", "completed"}]
Proposals == {NoProposal} \cup [text : Tasks, base : Contents]

\* Until it proposes, a task stays out of what is held back for saving.
Looking == {"plan", "inspect", "round", "names", "analyse", "compare"}
Room == MaxToolCalls - SAVE_RESERVE

\* Two calls for each document that was proposed, one for the patch.
InBudget(r) ==
    /\ (r.pc = "new" => r.calls = 0) /\ (r.pc \in Looking => r.calls <= Room)
    /\ r.pc = "propose" => r.calls <= Room + 2 * Cardinality(r.changed \ r.left)
    /\ r.pc = "proposal" => r.calls <= Room + 2 * Cardinality(r.changed \ r.left) - 1
    /\ r.pc = "patch" => r.calls <= Room + 2 * Cardinality(r.changed)
    /\ r.pc = "review" => r.calls <= Room + 2 * Cardinality(r.changed) + 1

\* What a task is on was read, and is not proposed twice.
Progress(r) ==
    /\ r.diffs \cup r.left \subseteq r.changed /\ r.diffs \cap r.left = {} /\ r.diffs \subseteq r.artifacts
    /\ \A d \in r.diffs : r.reads[d] # Unread
    /\ r.pc \notin {"finished", "answered"} => \A d \in r.sections \cup r.changed : r.reads[d] # Unread
    /\ r.pc \in Looking \cup {"new"} => r.diffs = {} /\ r.left = {}
    /\ r.pc = "proposal" => r.now \in r.changed \ (r.left \cup r.diffs)
    /\ r.pc \in {"patch", "review"} => r.left = {}
    /\ r.pc \in {"new", "plan", "analyse", "report"} => r.workflow # "docs_update"

\* A task that met nothing, or only a limit and the two documents there is
\* room for.
Spared(r) == r.errors = "none" \/ (r.errors = "limit" /\ Cardinality(r.changed) <= 2)

\* ... has left out nothing so far.
Thorough(r) ==
    Spared(r) =>
        /\ r.pc = "propose" => r.diffs = r.changed \ r.left
        /\ r.pc = "proposal" => r.diffs = r.changed \ (r.left \cup {r.now})
        /\ r.pc \in {"patch", "review"} => r.diffs = r.changed
        /\ r.pc = "review" => (r.diffs # {} => "patch" \in r.artifacts)
        /\ r.pc = "finished" /\ r.workflow = "docs_update" =>
            /\ r.diffs = r.changed /\ "review" \in r.artifacts
            /\ r.diffs # {} => "patch" \in r.artifacts

RunOK(r) ==
    /\ r \in RunsOf /\ InBudget(r) /\ Progress(r) /\ Thorough(r)
    /\ r.status = "completed" => r.pc = "finished" /\ r.errors = "none"

\* What a task listed has a proposal; the one with its name is its own.
ListedOK(r, t) ==
    \A d \in r.diffs :
        /\ proposals[d].base # Gone
        /\ proposals[d].text = t => proposals[d].base = r.reads[d]

\* The command that is carried out: of a result that listed it.
ApplyOK(a) ==
    \/ a = NoApply
    \/ /\ a \in [step : {"read"}, doc : Docs, expected : Contents, task : Tasks]
             \cup [step : {"diff", "compare", "replace"}, doc : Docs, expected : Contents, task : Tasks,
                   text : Tasks, base : Contents]
       /\ a.expected # Gone
       /\ a.step = "read" =>
            /\ run[a.task].pc = "answered" /\ a.doc \in run[a.task].diffs
            /\ run[a.task].reads[a.doc] = a.expected
       /\ a.step # "read" => (a.text = a.task => a.base = a.expected)
       /\ a.step = "replace" /\ ~EditsMeanwhile => files[a.doc] = a.expected

Typed ==
    /\ files \in [Docs -> Contents] /\ proposals \in [Docs -> Proposals]
    /\ edits \in 0..MaxEdits /\ failures \in 0..MaxFailures

IInv ==
    /\ Typed
    /\ run \in [Tasks -> RunsOf]
    /\ \A t \in Tasks : RunOK(run[t]) /\ ListedOK(run[t], t)
    /\ ApplyOK(apply)

-----------------------------------------------------------------------------
(* What the parts of a step do to a task's record.                         *)

\* All that a step leaves alone that only counts, or goes on.
Same(r, new) ==
    /\ new.workflow = r.workflow /\ new.reads = r.reads /\ new.sections = r.sections
    /\ new.changed = r.changed /\ new.left = r.left /\ new.now = r.now
    /\ new.diffs = r.diffs /\ new.artifacts = r.artifacts /\ new.status = r.status

LEMMA SameIsSame ==
    ASSUME NEW r, NEW s, NEW new, Same(r, s), Same(s, new)
    PROVE  Same(r, new)
BY DEF Same

LEMMA CalledIs ==
    ASSUME NEW r \in RunsOf, r.calls < MaxToolCalls
    PROVE  /\ Called(r) \in RunsOf /\ Same(r, Called(r))
           /\ Called(r).pc = r.pc /\ Called(r).errors = r.errors /\ Called(r).calls = r.calls + 1
<1>1. r.calls + 1 \in 0..MaxToolCalls
    <2>1. r.calls \in 0..MaxToolCalls
        BY DEF RunsOf
    <2> QED
        BY <2>1, TaskAssumption
<1> DEFINE calls == r.calls + 1
<1>2. Called(r) = [r EXCEPT !.calls = calls]
    BY DEF Called, RunsOf
<1>3. calls \in 0..MaxToolCalls /\ calls = r.calls + 1
    BY <1>1
<1> HIDE DEF calls
<1> QED
    BY <1>2, <1>3 DEF RunsOf, Same

LEMMA AskedIs ==
    ASSUME NEW r \in RunsOf, r.asked < MaxModelCalls
    PROVE  /\ Asked(r) \in RunsOf /\ Same(r, Asked(r))
           /\ Asked(r).pc = r.pc /\ Asked(r).errors = r.errors /\ Asked(r).calls = r.calls
           /\ Asked(r).rounds = r.rounds
<1> DEFINE asked == r.asked + 1
<1>1. asked \in 0..MaxModelCalls
    <2>1. r.asked \in 0..MaxModelCalls
        BY DEF RunsOf
    <2> QED
        BY <2>1, TaskAssumption
<1>2. Asked(r) = [r EXCEPT !.asked = asked]
    BY DEF Asked, RunsOf
<1> HIDE DEF asked
<1> QED
    BY <1>1, <1>2 DEF RunsOf, Same

LEMMA GoesIs ==
    ASSUME NEW r \in RunsOf, NEW pc \in Pcs
    PROVE  /\ Goes(r, pc) \in RunsOf /\ Same(r, Goes(r, pc))
           /\ Goes(r, pc).pc = pc /\ Goes(r, pc).errors = r.errors /\ Goes(r, pc).calls = r.calls
           /\ Goes(r, pc).rounds = r.rounds
BY DEF Goes, RunsOf, Same

LEMMA ErredIs ==
    ASSUME NEW r \in RunsOf, NEW kind \in {"limit", "more"}
    PROVE  LET new == Erred(r, kind) IN
           /\ new \in RunsOf /\ Same(r, new) /\ new.pc = r.pc /\ new.calls = r.calls
           /\ new.rounds = r.rounds
           /\ new.errors # "none" /\ (new.errors = "limit" => kind = "limit" /\ r.errors \in {"none", "limit"})
<1> DEFINE errors == IF r.errors \in {"none", kind} THEN kind ELSE "more"
<1>1. Erred(r, kind) = [r EXCEPT !.errors = errors]
    BY DEF Erred, RunsOf
<1>2. errors \in {"limit", "more"} /\ (errors = "limit" => kind = "limit" /\ r.errors \in {"none", "limit"})
    OBVIOUS
<1> HIDE DEF errors
<1> QED
    BY <1>1, <1>2 DEF RunsOf, Same

\* An error that is more than a limit ends the promise; a limit does not make it.
LEMMA MoreIsNotSpared ==
    ASSUME NEW r \in RunsOf
    PROVE  ~Spared(Erred(r, "more"))
<1>1. Erred(r, "more").errors = "more"
    <2>1. Erred(r, "more").errors # "none" /\ Erred(r, "more").errors # "limit" /\ Erred(r, "more") \in RunsOf
        BY ErredIs
    <2> QED
        BY <2>1 DEF RunsOf
<1> QED
    BY <1>1 DEF Spared

LEMMA LimitIsSpared ==
    ASSUME NEW r \in RunsOf, Spared(Erred(r, "limit"))
    PROVE  Spared(r) /\ Cardinality(r.changed) <= 2
<1> DEFINE new == Erred(r, "limit")
<1>1. Same(r, new) /\ new.errors # "none" /\ (new.errors = "limit" => r.errors \in {"none", "limit"})
    BY ErredIs
<1> HIDE DEF new
<1>2. Spared(new)
    BY DEF new
<1> QED
    BY <1>1, <1>2 DEF Spared, Same

LEMMA DocsAreFinite ==
    ASSUME NEW changed \in SUBSET Docs
    PROVE  IsFiniteSet(changed) /\ Cardinality(changed) \in Nat
BY TaskAssumption, FS_Subset, FS_CardinalityType

LEMMA OneLessLeft ==
    ASSUME NEW changed \in SUBSET Docs, NEW left \in SUBSET changed, NEW d \in left
    PROVE  Cardinality(changed \ (left \ {d})) = Cardinality(changed \ left) + 1
<1>1. changed \ (left \ {d}) = (changed \ left) \cup {d} /\ d \notin changed \ left
    OBVIOUS
<1>2. IsFiniteSet(changed \ left)
    BY DocsAreFinite
<1> QED
    BY <1>1, <1>2, FS_AddElement

LEMMA RoomIsThere == Room \in Nat /\ Room >= 1 /\ Room + 6 = MaxToolCalls /\ MaxToolCalls \in Nat
BY TaskAssumption DEF Room, SAVE_RESERVE

LEMMA RunIsTyped ==
    ASSUME NEW r \in RunsOf
    PROVE  /\ r.calls \in Nat /\ r.calls <= MaxToolCalls /\ r.changed \in SUBSET Docs
           /\ Cardinality(r.changed) \in Nat /\ Cardinality(r.changed \ r.left) \in Nat
<1>1. r.calls \in 0..MaxToolCalls /\ r.changed \in SUBSET Docs
    BY DEF RunsOf
<1>2. r.changed \ r.left \in SUBSET Docs
    BY <1>1
<1> QED
    BY <1>1, <1>2, DocsAreFinite, TaskAssumption

-----------------------------------------------------------------------------
(* Frames.                                                                 *)

\* What was listed stays as it was read.
Carries(r, new) == new.diffs \subseteq r.diffs /\ \A d \in new.diffs : new.reads[d] = r.reads[d]

LEMMA TaskBecomes ==
    ASSUME IInv, NEW t \in Tasks, NEW new, RunOK(new), Carries(run[t], new), run[t].pc # "answered",
           run' = [run EXCEPT ![t] = new], files' = files, proposals' = proposals, apply' = apply,
           edits' \in 0..MaxEdits, failures' \in 0..MaxFailures
    PROVE  IInv'
<1>1. run \in [Tasks -> RunsOf] /\ new \in RunsOf
    BY DEF IInv, RunOK
<1>2. run' \in [Tasks -> RunsOf] /\ run'[t] = new /\ \A u \in Tasks : u # t => run'[u] = run[u]
    BY <1>1
<1>3. Typed'
    BY DEF IInv, Typed
<1>4. ASSUME NEW u \in Tasks PROVE RunOK(run'[u]) /\ ListedOK(run[u], u)'
    <2>1. CASE u = t
        BY <1>2, <2>1 DEF IInv, ListedOK, Carries
    <2>2. CASE u # t
        BY <1>2, <2>2 DEF IInv, ListedOK
    <2> QED
        BY <2>1, <2>2
<1>5. ApplyOK(apply)'
    <2>1. CASE apply = NoApply
        BY <2>1 DEF ApplyOK
    <2>2. CASE apply # NoApply
        <3>1. ApplyOK(apply)
            BY DEF IInv
        <3>2. apply.step = "read" => apply.task \in Tasks /\ run[apply.task].pc = "answered"
            BY <2>2, <3>1 DEF ApplyOK
        <3>3. apply.step = "read" => run'[apply.task] = run[apply.task]
            BY <1>2, <3>2
        <3> QED
            BY <2>2, <3>1, <3>3 DEF ApplyOK
    <2> QED
        BY <2>1, <2>2
<1>6. \A u \in Tasks : (RunOK(run[u]) /\ ListedOK(run[u], u))'
    <2>1. \A u \in Tasks : RunOK(run[u])'
        BY <1>4, ZenonT(60) DEF RunOK, RunsOf, InBudget, Progress, Thorough, Spared
    <2> QED
        BY <1>4, <2>1
<1> QED
    BY <1>2, <1>3, <1>5, <1>6 DEF IInv

LEMMA BecomesKeeps ==
    ASSUME IInv, NEW t \in Tasks, NEW new, RunOK(new), Carries(run[t], new), run[t].pc # "answered",
           Becomes(t, new)
    PROVE  IInv'
<1>1. /\ run' = [run EXCEPT ![t] = new] /\ files' = files /\ proposals' = proposals /\ apply' = apply
      /\ edits' = edits /\ failures' = failures
    BY DEF Becomes
<1>2. edits' \in 0..MaxEdits /\ failures' \in 0..MaxFailures
    BY <1>1 DEF IInv, Typed
<1> QED
    BY <1>1, <1>2, TaskBecomes

-----------------------------------------------------------------------------
(* A task's record, as the steps leave it.                                 *)

\* A task that looks around has listed nothing yet.
LEMMA LooksOn ==
    ASSUME NEW r, RunOK(r), r.pc \in Looking \cup {"new"},
           NEW new \in RunsOf, new.pc \in Looking, new.calls <= Room,
           new.diffs = {}, new.left = {}, new.status = r.status,
           \A d \in new.sections \cup new.changed : new.reads[d] # Unread,
           new.pc \in {"plan", "analyse"} => new.workflow # "docs_update"
    PROVE  RunOK(new) /\ Carries(r, new)
<1>1. r.status # "completed"
    BY DEF RunOK, Looking
<1>2. InBudget(new)
    BY DEF InBudget, Looking
<1>3. Progress(new)
    BY DEF Progress, Looking
<1>4. Thorough(new)
    BY DEF Thorough, Looking
<1> QED
    BY <1>1, <1>2, <1>3, <1>4 DEF RunOK, Carries

\* The result of a task that lists what it read, and is whole where it was spared.
LEMMA FinishedIs ==
    ASSUME NEW r \in RunsOf, r.diffs \subseteq r.changed, r.diffs \subseteq r.artifacts,
           \A d \in r.diffs : r.reads[d] # Unread,
           Spared(r) /\ r.workflow = "docs_update" =>
               /\ r.diffs = r.changed /\ "review" \in r.artifacts
               /\ r.diffs # {} => "patch" \in r.artifacts
    PROVE  RunOK(Finished(r)) /\ Carries(r, Finished(r))
<1> DEFINE new == Finished(r)
           status == CASE r.workflow = "unsupported" -> "unsupported"
                       [] r.workflow # "unsupported" /\ r.artifacts = {} -> "failed"
                       [] OTHER -> IF r.errors = "none" THEN "completed" ELSE "partial"
           reads == KeepsOnly(r, r.diffs)
<1>1. /\ status \in {"unsupported", "failed", "partial", "completed"}
      /\ status = "completed" => r.errors = "none"
    OBVIOUS
<1>2. reads \in [Docs -> Contents] /\ \A d \in r.diffs : reads[d] = r.reads[d]
    <2>1. r.reads \in [Docs -> Contents] /\ r.diffs \subseteq Docs
        BY DEF RunsOf
    <2>2. Unread \in Contents
        BY DEF Unread, Contents
    <2> QED
        BY <2>1, <2>2 DEF KeepsOnly
<1>3. new = [pc |-> "finished", workflow |-> r.workflow, calls |-> 0, asked |-> 0, rounds |-> 0,
             down |-> FALSE, reads |-> reads, sections |-> {}, changed |-> r.changed, left |-> {},
             now |-> "none", diffs |-> r.diffs, artifacts |-> r.artifacts, errors |-> r.errors,
             status |-> status]
    <2>1. new = [NewRun EXCEPT
                !.pc = "finished", !.workflow = r.workflow, !.reads = reads, !.changed = r.changed,
                !.diffs = r.diffs, !.artifacts = r.artifacts, !.errors = r.errors, !.status = status]
        BY DEF Finished
    <2> HIDE DEF status, reads, new
    <2> QED
        BY <2>1 DEF NewRun
<1> HIDE DEF status, reads, new
<1>4. 0 \in 0..MaxToolCalls /\ 0 \in 0..MaxModelCalls /\ 0 \in 0..MaxRounds
    BY TaskAssumption
<1>5. new \in RunsOf
    BY <1>1, <1>2, <1>3, <1>4 DEF RunsOf, Pcs
<1>6. /\ new.pc = "finished" /\ new.workflow = r.workflow /\ new.reads = reads /\ new.changed = r.changed
      /\ new.left = {} /\ new.diffs = r.diffs /\ new.artifacts = r.artifacts /\ new.errors = r.errors
      /\ new.status = status
    BY <1>3
<1>7. InBudget(new)
    BY <1>6 DEF InBudget, Looking
<1>8. Progress(new)
    BY <1>2, <1>6 DEF Progress, Looking
<1>9. Thorough(new)
    BY <1>6 DEF Thorough, Spared
<1>10. RunOK(new)
    BY <1>1, <1>5, <1>6, <1>7, <1>8, <1>9 DEF RunOK
<1>11. Carries(r, new)
    BY <1>2, <1>6 DEF Carries
<1> QED
    BY <1>10, <1>11 DEF new

\* Of a task that broke off nothing is promised, and what it lists was read.
LEMMA FailedIs ==
    ASSUME NEW r, RunOK(r)
    PROVE  RunOK(Finished(Erred(r, "more"))) /\ Carries(r, Finished(Erred(r, "more")))
<1> DEFINE e == Erred(r, "more")
<1>1. r \in RunsOf /\ Progress(r)
    BY DEF RunOK
<1>2. e \in RunsOf /\ Same(r, e) /\ ~Spared(e)
    BY <1>1, ErredIs, MoreIsNotSpared
<1> HIDE DEF e
<1>3. e.diffs \subseteq e.changed /\ e.diffs \subseteq e.artifacts /\ \A d \in e.diffs : e.reads[d] # Unread
    BY <1>1, <1>2 DEF Same, Progress
<1>4. RunOK(Finished(e)) /\ Carries(e, Finished(e))
    BY <1>2, <1>3, FinishedIs
<1>5. Carries(r, Finished(e))
    BY <1>2, <1>4 DEF Carries, Same
<1> QED
    BY <1>4, <1>5 DEF e

-----------------------------------------------------------------------------
(* The steps of a task, up to its proposals.                               *)

\* All a step that keeps a task looking around may do to its record.
LEMMA StaysLooking ==
    ASSUME IInv, NEW t \in Tasks, NEW new \in RunsOf, Becomes(t, new),
           run[t].pc \in Looking, Same(run[t], new), new.pc \in Looking, new.calls <= Room,
           new.pc \in {"plan", "analyse"} => new.workflow # "docs_update"
    PROVE  IInv'
<1>1. RunOK(run[t])
    BY DEF IInv
<1>2. /\ run[t].diffs = {} /\ run[t].left = {}
      /\ \A d \in run[t].sections \cup run[t].changed : run[t].reads[d] # Unread
    BY <1>1 DEF RunOK, Progress, Looking
<1>3. RunOK(new) /\ Carries(run[t], new)
    <2>1. /\ new.diffs = {} /\ new.left = {} /\ new.status = run[t].status
          /\ \A d \in new.sections \cup new.changed : new.reads[d] # Unread
        BY <1>2 DEF Same
    <2> QED
        BY <1>1, <2>1, LooksOn
<1>4. run[t].pc # "answered"
    BY DEF Looking
<1> QED
    BY <1>3, <1>4, BecomesKeeps

LEMMA BeginsKeeps ==
    ASSUME IInv, NEW t \in Tasks, Begins(t)
    PROVE  IInv'
<1> DEFINE r == run[t]
           c == Called(r)
           new == Goes(c, "plan")
<1>1. RunOK(r) /\ r \in RunsOf /\ r.pc = "new" /\ r.calls = 0
    BY DEF IInv, RunOK, InBudget, Begins, At
<1>2. r.diffs = {} /\ r.left = {} /\ \A d \in r.sections \cup r.changed : r.reads[d] # Unread
    BY <1>1 DEF RunOK, Progress
<1>3. Becomes(t, new)
    BY DEF Begins
<1> HIDE DEF r
<1>4. c \in RunsOf /\ Same(r, c) /\ c.calls = 1
    <2>1. r.calls < MaxToolCalls
        BY <1>1, RoomIsThere
    <2> QED
        BY <1>1, <2>1, CalledIs
<1> HIDE DEF c
<1>5. new \in RunsOf /\ Same(r, new) /\ new.calls = 1 /\ new.pc = "plan"
    <2>1. "plan" \in Pcs
        BY DEF Pcs
    <2> QED
        BY <1>4, <2>1, GoesIs, SameIsSame
<1> HIDE DEF new
<1>6. RunOK(new) /\ Carries(r, new)
    <2>1. /\ new.diffs = {} /\ new.left = {} /\ new.status = r.status
          /\ \A d \in new.sections \cup new.changed : new.reads[d] # Unread
        BY <1>2, <1>5 DEF Same
    <2>2. new.calls <= Room /\ new.pc \in Looking /\ new.workflow # "docs_update"
        <3>1. r.workflow # "docs_update"
            BY <1>1 DEF RunOK, Progress
        <3> QED
            BY <1>5, <3>1, RoomIsThere DEF Looking, Same
    <2> QED
        BY <1>1, <1>5, <2>1, <2>2, LooksOn
<1>7. r.pc # "answered"
    BY <1>1
<1> QED
    BY <1>3, <1>6, <1>7, BecomesKeeps DEF r

\* A task whose time is over before it has a plan has nothing to show.
LEMMA PlanLimitKeeps ==
    ASSUME IInv, NEW t \in Tasks, PlanLimit(t)
    PROVE  IInv'
<1> DEFINE r == run[t]
           e == Erred(r, "limit")
<1>1. RunOK(r) /\ r \in RunsOf /\ r.pc = "plan" /\ Becomes(t, Finished(e))
    BY DEF IInv, RunOK, PlanLimit, At
<1>2. Progress(r) /\ r.workflow # "docs_update"
    BY <1>1 DEF RunOK, Progress
<1>3. e \in RunsOf /\ Same(r, e)
    BY <1>1, ErredIs
<1> HIDE DEF r, e
<1>4. /\ e.diffs \subseteq e.changed /\ e.diffs \subseteq e.artifacts
      /\ \A d \in e.diffs : e.reads[d] # Unread
      /\ e.workflow # "docs_update"
    BY <1>2, <1>3 DEF Same, Progress
<1>5. RunOK(Finished(e)) /\ Carries(e, Finished(e))
    BY <1>3, <1>4, FinishedIs
<1>6. Carries(r, Finished(e)) /\ r.pc # "answered"
    BY <1>1, <1>3, <1>5 DEF Carries, Same
<1> QED
    BY <1>1, <1>5, <1>6, BecomesKeeps DEF r

LEMMA PlansKeeps ==
    ASSUME IInv, NEW t \in Tasks, Plans(t)
    PROVE  IInv'
<1>1. PICK workflow \in {"usage_report", "docs_update", "unsupported"} :
        LET planned == [Asked(run[t]) EXCEPT !.workflow = workflow]
        IN  Becomes(t, IF workflow = "unsupported" THEN Finished(planned) ELSE Goes(planned, "inspect"))
    BY DEF Plans
<1> DEFINE r == run[t]
           a == Asked(r)
           planned == [a EXCEPT !.workflow = workflow]
           g == Goes(planned, "inspect")
<1>2. RunOK(r) /\ r \in RunsOf /\ r.pc = "plan" /\ r.asked < MaxModelCalls
    BY DEF IInv, RunOK, Plans, At, MayAsk
<1>3. /\ r.diffs = {} /\ r.left = {} /\ \A d \in r.sections \cup r.changed : r.reads[d] # Unread
      /\ r.calls <= Room
    BY <1>2 DEF RunOK, Progress, InBudget, Looking
<1>4. Becomes(t, IF workflow = "unsupported" THEN Finished(planned) ELSE g)
    BY <1>1
<1> HIDE DEF r
<1>5. a \in RunsOf /\ Same(r, a) /\ a.calls = r.calls /\ a.pc = "plan"
    BY <1>2, AskedIs
<1> HIDE DEF a
<1>6. /\ planned \in RunsOf /\ planned.workflow = workflow /\ planned.reads = a.reads
      /\ planned.sections = a.sections /\ planned.changed = a.changed /\ planned.left = a.left
      /\ planned.diffs = a.diffs /\ planned.artifacts = a.artifacts /\ planned.status = a.status
      /\ planned.calls = a.calls
    BY <1>5 DEF RunsOf
<1> HIDE DEF planned
<1>7. /\ planned.diffs = {} /\ planned.left = {} /\ planned.status = r.status /\ planned.calls <= Room
      /\ \A d \in planned.sections \cup planned.changed : planned.reads[d] # Unread
    BY <1>3, <1>5, <1>6 DEF Same
<1>8. CASE workflow = "unsupported"
    <2>1. RunOK(Finished(planned)) /\ Carries(planned, Finished(planned))
        BY <1>6, <1>7, <1>8, FinishedIs
    <2>2. Carries(r, Finished(planned))
        BY <1>7, <2>1 DEF Carries
    <2>3. Becomes(t, Finished(planned)) /\ r.pc # "answered"
        BY <1>2, <1>4, <1>8
    <2> QED
        BY <2>1, <2>2, <2>3, BecomesKeeps DEF r
<1>9. CASE workflow # "unsupported"
    <2>1. g \in RunsOf /\ Same(planned, g) /\ g.calls = planned.calls /\ g.pc = "inspect"
        <3>1. "inspect" \in Pcs
            BY DEF Pcs
        <3> QED
            BY <1>6, <3>1, GoesIs
    <2> HIDE DEF g
    <2>2. /\ g.diffs = {} /\ g.left = {} /\ g.status = r.status /\ g.calls <= Room
          /\ \A d \in g.sections \cup g.changed : g.reads[d] # Unread
        BY <1>7, <2>1 DEF Same
    <2>3. r.pc \in Looking /\ g.pc \in Looking /\ g.pc \notin {"plan", "analyse"}
        BY <1>2, <2>1 DEF Looking
    <2>4. RunOK(g) /\ Carries(r, g)
        BY <1>2, <2>1, <2>2, <2>3, LooksOn
    <2>5. Becomes(t, g) /\ r.pc # "answered"
        BY <1>2, <1>4, <1>9
    <2> QED
        BY <2>4, <2>5, BecomesKeeps DEF r
<1> QED
    BY <1>8, <1>9

\* A call while looking around leaves what is held back for saving.
LEMMA CallStaysInRoom ==
    ASSUME NEW r \in RunsOf, r.calls < Cap(FALSE)
    PROVE  r.calls < MaxToolCalls /\ r.calls + 1 <= Room
<1>1. Cap(FALSE) = Room
    BY DEF Cap, Room
<1>2. r.calls \in Nat /\ r.calls < Room
    BY <1>1, RunIsTyped
<1> QED
    BY <1>2, RoomIsThere

LEMMA LooksKeeps ==
    ASSUME IInv, NEW t \in Tasks, Looks(t)
    PROVE  IInv'
<1> DEFINE r == run[t]
           new == Called(r)
<1>1. RunOK(r) /\ r \in RunsOf /\ r.pc \in {"inspect", "names"} /\ r.calls < Cap(FALSE) /\ Becomes(t, new)
    BY DEF IInv, RunOK, Looks, MayCall
<1> HIDE DEF r
<1>2. new \in RunsOf /\ Same(r, new) /\ new.pc = r.pc /\ new.calls = r.calls + 1
    BY <1>1, CalledIs, CallStaysInRoom
<1>3. new.calls <= Room
    BY <1>1, <1>2, CallStaysInRoom
<1> HIDE DEF new
<1>4. r.pc \in Looking /\ new.pc \in Looking /\ new.pc \notin {"plan", "analyse"}
    BY <1>1, <1>2 DEF Looking
<1> QED
    BY <1>1, <1>2, <1>3, <1>4, StaysLooking DEF r

LEMMA ReadsDocKeeps ==
    ASSUME IInv, NEW t \in Tasks, NEW d \in Docs, ReadsDoc(t, d)
    PROVE  IInv'
<1> DEFINE r == run[t]
           c == Called(r)
           new == [c EXCEPT !.reads[d] = files[d]]
<1>1. RunOK(r) /\ r \in RunsOf /\ r.pc = "inspect" /\ r.calls < Cap(FALSE) /\ Becomes(t, new)
    BY DEF IInv, RunOK, ReadsDoc, MayCall, At
<1>2. files[d] \in Contents /\ files[d] # Unread
    BY DEF IInv, Typed, ReadsDoc, Exists, Unread
<1>3. r.diffs = {} /\ r.left = {} /\ \A e \in r.sections \cup r.changed : r.reads[e] # Unread
    BY <1>1 DEF RunOK, Progress, Looking
<1> HIDE DEF r
<1>4. c \in RunsOf /\ Same(r, c) /\ c.pc = r.pc /\ c.calls = r.calls + 1 /\ c.calls <= Room
    <2>1. c \in RunsOf /\ Same(r, c) /\ c.pc = r.pc /\ c.calls = r.calls + 1
        BY <1>1, CalledIs, CallStaysInRoom
    <2>2. r.calls + 1 <= Room
        BY <1>1, CallStaysInRoom
    <2> QED
        BY <2>1, <2>2
<1> HIDE DEF c
<1> DEFINE reads == [c.reads EXCEPT ![d] = files[d]]
<1>5. reads \in [Docs -> Contents] /\ \A e \in Docs : c.reads[e] # Unread => reads[e] # Unread
    <2>1. c.reads \in [Docs -> Contents]
        BY <1>4 DEF RunsOf
    <2> QED
        BY <1>2, <2>1
<1>6. new = [c EXCEPT !.reads = reads]
    BY <1>4 DEF RunsOf
<1> HIDE DEF reads, new
<1>7. /\ new \in RunsOf /\ new.pc = c.pc /\ new.calls = c.calls /\ new.diffs = c.diffs
      /\ new.left = c.left /\ new.sections = c.sections /\ new.changed = c.changed
      /\ new.status = c.status /\ new.reads = reads
    BY <1>4, <1>5, <1>6 DEF RunsOf
<1>8. new.sections \cup new.changed \subseteq Docs
    BY <1>7 DEF RunsOf
<1>9. /\ new.diffs = {} /\ new.left = {} /\ new.status = r.status /\ new.calls <= Room
      /\ \A e \in new.sections \cup new.changed : new.reads[e] # Unread
    BY <1>3, <1>4, <1>5, <1>7, <1>8 DEF Same
<1>10. r.pc \in Looking /\ new.pc \in Looking /\ new.pc \notin {"plan", "analyse"} /\ r.pc # "answered"
    BY <1>1, <1>4, <1>7 DEF Looking
<1>11. RunOK(new) /\ Carries(r, new)
    BY <1>1, <1>7, <1>9, <1>10, LooksOn
<1> QED
    BY <1>1, <1>10, <1>11, BecomesKeeps DEF r

LEMMA RoundKeeps ==
    ASSUME IInv, NEW t \in Tasks, Round(t)
    PROVE  IInv'
<1> DEFINE r == run[t]
           a == Asked(r)
           g == Goes(a, "round")
           rounds == r.rounds + 1
           new == [g EXCEPT !.rounds = rounds]
<1>1. RunOK(r) /\ r \in RunsOf /\ r.pc = "inspect" /\ r.asked < MaxModelCalls /\ r.rounds < MaxRounds
    BY DEF IInv, RunOK, Round, MayAsk, At
<1>2. Becomes(t, [g EXCEPT !.rounds = @ + 1])
    BY DEF Round
<1>3. r.calls <= Room
    BY <1>1 DEF RunOK, InBudget, Looking
<1> HIDE DEF r
<1>4. rounds \in 0..MaxRounds
    <2>1. r.rounds \in 0..MaxRounds
        BY <1>1 DEF RunsOf
    <2> QED
        BY <1>1, <2>1, TaskAssumption
<1>5. /\ g \in RunsOf /\ Same(r, g) /\ g.pc = "round" /\ g.calls = r.calls /\ g.rounds = r.rounds
    <2>1. a \in RunsOf /\ Same(r, a) /\ a.calls = r.calls /\ a.rounds = r.rounds
        BY <1>1, AskedIs
    <2> HIDE DEF a
    <2>2. "round" \in Pcs
        BY DEF Pcs
    <2> QED
        BY <2>1, <2>2, GoesIs, SameIsSame
<1> HIDE DEF g
<1>6. [g EXCEPT !.rounds = @ + 1] = new
    BY <1>5 DEF RunsOf
<1> HIDE DEF rounds
<1>7. new \in RunsOf /\ Same(g, new) /\ new.pc = "round" /\ new.calls = r.calls
    BY <1>4, <1>5 DEF RunsOf, Same
<1> HIDE DEF new
<1>8. Becomes(t, new) /\ Same(r, new) /\ r.pc \in Looking /\ new.pc \in Looking /\ new.pc \notin {"plan", "analyse"}
    BY <1>1, <1>2, <1>5, <1>6, <1>7, SameIsSame DEF Looking
<1> QED
    BY <1>3, <1>7, <1>8, StaysLooking DEF r

LEMMA RoundEndsKeeps ==
    ASSUME IInv, NEW t \in Tasks, RoundEnds(t)
    PROVE  IInv'
<1> DEFINE r == run[t]
           new == Goes(r, "inspect")
<1>1. RunOK(r) /\ r \in RunsOf /\ r.pc = "round" /\ Becomes(t, new)
    BY DEF IInv, RunOK, RoundEnds, At
<1>2. r.calls <= Room
    BY <1>1 DEF RunOK, InBudget, Looking
<1> HIDE DEF r
<1>3. new \in RunsOf /\ Same(r, new) /\ new.pc = "inspect" /\ new.calls = r.calls
    <2>1. "inspect" \in Pcs
        BY DEF Pcs
    <2> QED
        BY <1>1, <2>1, GoesIs
<1> HIDE DEF new
<1>4. r.pc \in Looking /\ new.pc \in Looking /\ new.pc \notin {"plan", "analyse"}
    BY <1>1, <1>3 DEF Looking
<1> QED
    BY <1>1, <1>2, <1>3, <1>4, StaysLooking DEF r

LEMMA AfterInspectIs ==
    ASSUME NEW r \in RunsOf
    PROVE  LET new == AfterInspect(r) IN
           /\ new \in RunsOf /\ Same(r, new) /\ new.calls = r.calls /\ new.pc \in {"names", "analyse"}
           /\ new.pc = "analyse" => new.workflow # "docs_update"
<1> DEFINE z == [r EXCEPT !.rounds = 0]
           pc == IF r.workflow = "docs_update" THEN "names" ELSE "analyse"
<1>1. z \in RunsOf /\ Same(r, z) /\ z.calls = r.calls
    <2>1. 0 \in 0..MaxRounds
        BY TaskAssumption
    <2> QED
        BY <2>1 DEF RunsOf, Same
<1>2. pc \in {"names", "analyse"} /\ (pc = "analyse" => r.workflow # "docs_update") /\ pc \in Pcs
    BY DEF Pcs
<1>3. AfterInspect(r) = Goes(z, pc)
    BY DEF AfterInspect
<1> HIDE DEF z, pc
<1>4. /\ Goes(z, pc) \in RunsOf /\ Same(r, Goes(z, pc)) /\ Goes(z, pc).pc = pc
      /\ Goes(z, pc).calls = z.calls
    BY <1>1, <1>2, GoesIs, SameIsSame
<1>5. Goes(z, pc).workflow = r.workflow
    BY <1>4 DEF Same
<1> QED
    BY <1>1, <1>2, <1>3, <1>4, <1>5

\* However inspecting ends, and with whatever error.
LEMMA InspectedKeeps ==
    ASSUME IInv, NEW t \in Tasks, At(t, "inspect"), NEW s \in RunsOf, Same(run[t], s),
           s.calls = run[t].calls, Becomes(t, AfterInspect(s))
    PROVE  IInv'
<1> DEFINE r == run[t]
           new == AfterInspect(s)
<1>1. RunOK(r) /\ r.pc = "inspect" /\ Same(r, s) /\ s.calls = r.calls /\ Becomes(t, new)
    BY DEF IInv, At
<1>2. r.calls <= Room
    BY <1>1 DEF RunOK, InBudget, Looking
<1> HIDE DEF r
<1>3. /\ new \in RunsOf /\ Same(s, new) /\ new.calls = s.calls /\ new.pc \in {"names", "analyse"}
      /\ new.pc = "analyse" => new.workflow # "docs_update"
    BY AfterInspectIs
<1> HIDE DEF new
<1>4. Same(r, new) /\ r.pc \in Looking /\ new.pc \in Looking /\ new.calls <= Room
    BY <1>1, <1>2, <1>3, SameIsSame DEF Looking
<1> QED
    BY <1>1, <1>3, <1>4, StaysLooking DEF r

LEMMA InspectingEnds ==
    ASSUME IInv, NEW t \in Tasks, Inspected(t) \/ InspectLimit(t)
    PROVE  IInv'
<1> DEFINE r == run[t]
<1>1. r \in RunsOf
    BY DEF IInv
<1>2. CASE Inspected(t)
    BY <1>1, <1>2, InspectedKeeps DEF Inspected, Same
<1>3. CASE InspectLimit(t)
    <2>1. Erred(r, "limit") \in RunsOf /\ Same(r, Erred(r, "limit")) /\ Erred(r, "limit").calls = r.calls
        BY <1>1, ErredIs
    <2>2. Becomes(t, AfterInspect(Erred(r, "limit"))) /\ At(t, "inspect")
        BY <1>3 DEF InspectLimit
    <2> QED
        BY <2>1, <2>2, InspectedKeeps
<1> QED
    BY <1>2, <1>3

\* To the report, which has no budget of its own to keep.
LEMMA ToReport ==
    ASSUME IInv, NEW t \in Tasks, At(t, "analyse"), NEW s \in RunsOf, Same(run[t], s)
    PROVE  RunOK(Goes(s, "report")) /\ Carries(run[t], Goes(s, "report")) /\ run[t].pc # "answered"
<1> DEFINE r == run[t]
           new == Goes(s, "report")
<1>1. RunOK(r) /\ r.pc = "analyse" /\ Same(r, s)
    BY DEF IInv, At
<1> HIDE DEF r
<1>2. Progress(r) /\ r.status # "completed"
    BY <1>1 DEF RunOK
<1>3. new \in RunsOf /\ Same(r, new) /\ new.pc = "report"
    <2>1. "report" \in Pcs
        BY DEF Pcs
    <2> QED
        BY <1>1, <2>1, GoesIs, SameIsSame
<1> HIDE DEF new
<1>4. InBudget(new) /\ Thorough(new)
    BY <1>3 DEF InBudget, Thorough, Looking
<1>5. Progress(new)
    BY <1>1, <1>2, <1>3 DEF Progress, Looking, Same
<1>6. RunOK(new)
    BY <1>2, <1>3, <1>4, <1>5 DEF RunOK, Same
<1>7. Carries(r, new) /\ r.pc # "answered"
    BY <1>1, <1>3 DEF Carries, Same
<1> QED
    BY <1>6, <1>7 DEF r, new

LEMMA AnalysesKeeps ==
    ASSUME IInv, NEW t \in Tasks, Analyses(t)
    PROVE  IInv'
<1> DEFINE r == run[t]
<1>1. r \in RunsOf /\ At(t, "analyse") /\ Same(r, r)
    BY DEF IInv, Analyses, Same
<1>2. PICK s : /\ \/ s \in {r, Erred(r, "more"), Erred(r, "limit")}
                  \/ MayAsk(t) /\ s \in {Asked(r), Erred(Asked(r), "more")}
               /\ Becomes(t, Goes(s, "report"))
    <2>1. CASE Becomes(t, Goes(IF r.down THEN r ELSE Erred(r, "more"), "report"))
        BY <2>1
    <2>2. CASE Becomes(t, Goes(Erred(r, "limit"), "report"))
        BY <2>2
    <2>3. CASE /\ MayAsk(t) /\ ~r.down
               /\ \E parsed \in BOOLEAN :
                     Becomes(t, Goes(IF parsed THEN Asked(r) ELSE Erred(Asked(r), "more"), "report"))
        BY <2>3
    <2> QED
        BY <2>1, <2>2, <2>3 DEF Analyses
<1>3. s \in RunsOf /\ Same(r, s)
    <2>1. \A k \in {"more", "limit"} : Erred(r, k) \in RunsOf /\ Same(r, Erred(r, k))
        BY <1>1, ErredIs
    <2>2. ASSUME MayAsk(t)
          PROVE  /\ Asked(r) \in RunsOf /\ Same(r, Asked(r))
                 /\ Erred(Asked(r), "more") \in RunsOf /\ Same(r, Erred(Asked(r), "more"))
        <3>1. Asked(r) \in RunsOf /\ Same(r, Asked(r))
            BY <1>1, <2>2, AskedIs DEF MayAsk
        <3>2. Erred(Asked(r), "more") \in RunsOf /\ Same(Asked(r), Erred(Asked(r), "more"))
            BY <3>1, ErredIs
        <3> QED
            BY <3>1, <3>2, SameIsSame
    <2> QED
        BY <1>1, <1>2, <2>1, <2>2
<1>4. RunOK(Goes(s, "report")) /\ Carries(r, Goes(s, "report")) /\ r.pc # "answered"
    BY <1>1, <1>3, ToReport
<1> QED
    BY <1>2, <1>4, BecomesKeeps

LEMMA NamesEndKeeps ==
    ASSUME IInv, NEW t \in Tasks, NEW limited \in BOOLEAN, NamesEnd(t, limited)
    PROVE  IInv'
<1> DEFINE r == run[t]
           l == IF limited THEN Erred(r, "limit") ELSE r
<1>1. PICK sections \in SUBSET WasRead(t) :
        Becomes(t, [Goes(IF sections = {} THEN Erred(l, "more") ELSE l, "compare")
                        EXCEPT !.sections = sections])
    BY DEF NamesEnd
<1> DEFINE e == IF sections = {} THEN Erred(l, "more") ELSE l
           g == Goes(e, "compare")
           new == [g EXCEPT !.sections = sections]
<1>2. RunOK(r) /\ r \in RunsOf /\ r.pc = "names"
    BY DEF IInv, RunOK, NamesEnd, At
<1>3. sections \subseteq Docs /\ \A d \in sections : r.reads[d] # Unread
    BY DEF WasRead
<1>4. Becomes(t, new)
    BY <1>1
<1>5. /\ r.diffs = {} /\ r.left = {} /\ \A d \in r.sections \cup r.changed : r.reads[d] # Unread
      /\ r.calls <= Room
    BY <1>2 DEF RunOK, Progress, InBudget, Looking
<1> HIDE DEF r
<1>6. l \in RunsOf /\ Same(r, l) /\ l.calls = r.calls
    <2>1. Same(r, r)
        BY DEF Same
    <2>2. Erred(r, "limit") \in RunsOf /\ Same(r, Erred(r, "limit")) /\ Erred(r, "limit").calls = r.calls
        BY <1>2, ErredIs
    <2> QED
        BY <1>2, <2>1, <2>2
<1> HIDE DEF l
<1>7. e \in RunsOf /\ Same(r, e) /\ e.calls = r.calls
    <2>1. Erred(l, "more") \in RunsOf /\ Same(l, Erred(l, "more")) /\ Erred(l, "more").calls = l.calls
        BY <1>6, ErredIs
    <2>2. Same(r, Erred(l, "more"))
        BY <1>6, <2>1, SameIsSame
    <2> QED
        BY <1>6, <2>1, <2>2
<1> HIDE DEF e
<1>8. g \in RunsOf /\ Same(r, g) /\ g.calls = r.calls /\ g.pc = "compare"
    <2>1. "compare" \in Pcs
        BY DEF Pcs
    <2> QED
        BY <1>7, <2>1, GoesIs, SameIsSame
<1> HIDE DEF g
<1>9. /\ new \in RunsOf /\ new.sections = sections /\ new.changed = g.changed /\ new.left = g.left
      /\ new.diffs = g.diffs /\ new.status = g.status /\ new.reads = g.reads /\ new.calls = g.calls
      /\ new.pc = "compare"
    BY <1>3, <1>8 DEF RunsOf
<1> HIDE DEF new
<1>10. /\ new.diffs = {} /\ new.left = {} /\ new.status = r.status /\ new.calls <= Room
       /\ \A d \in new.sections \cup new.changed : new.reads[d] # Unread
    BY <1>3, <1>5, <1>8, <1>9 DEF Same
<1>11. r.pc \in Looking /\ new.pc \in Looking /\ new.pc \notin {"plan", "analyse"} /\ r.pc # "answered"
    BY <1>2, <1>9 DEF Looking
<1>12. RunOK(new) /\ Carries(r, new)
    BY <1>2, <1>9, <1>10, <1>11, LooksOn
<1> QED
    BY <1>4, <1>11, <1>12, BecomesKeeps DEF r

LEMMA ComparesKeeps ==
    ASSUME IInv, NEW t \in Tasks, NEW d \in Docs, Compares(t, d)
    PROVE  IInv'
<1> DEFINE r == run[t]
           a == Asked(r)
           sections == r.sections \ {d}
           compared == [a EXCEPT !.sections = sections]
           changed == r.changed \cup {d}
           found == [compared EXCEPT !.changed = changed]
<1>1. /\ RunOK(r) /\ r \in RunsOf /\ r.pc = "compare" /\ r.asked < MaxModelCalls /\ d \in r.sections
    BY DEF IInv, RunOK, Compares, MayAsk, At
<1>2. /\ r.diffs = {} /\ r.left = {} /\ \A e \in r.sections \cup r.changed : r.reads[e] # Unread
      /\ r.calls <= Room
    BY <1>1 DEF RunOK, Progress, InBudget, Looking
<1>3. a \in RunsOf /\ Same(r, a) /\ a.calls = r.calls /\ a.pc = "compare"
    BY <1>1, AskedIs
<1>4. \/ Becomes(t, Erred([a EXCEPT !.sections = @ \ {d}], "more"))
      \/ Becomes(t, [a EXCEPT !.sections = @ \ {d}])
      \/ Becomes(t, [[a EXCEPT !.sections = @ \ {d}] EXCEPT !.changed = @ \cup {d}])
    BY DEF Compares
<1> HIDE DEF r
<1>5. [a EXCEPT !.sections = @ \ {d}] = compared
    BY <1>3 DEF RunsOf, Same
<1> HIDE DEF a
<1>6. /\ compared \in RunsOf /\ compared.sections = sections /\ compared.changed = a.changed
      /\ compared.left = a.left /\ compared.diffs = a.diffs /\ compared.status = a.status
      /\ compared.reads = a.reads /\ compared.calls = a.calls /\ compared.pc = a.pc
    <2>1. sections \in SUBSET Docs
        BY <1>1 DEF RunsOf
    <2> HIDE DEF sections
    <2> QED
        BY <1>3, <2>1 DEF RunsOf
<1>7. [[a EXCEPT !.sections = @ \ {d}] EXCEPT !.changed = @ \cup {d}] = found
    <2>1. compared.changed = r.changed
        BY <1>3, <1>6 DEF Same
    <2> HIDE DEF compared
    <2> QED
        BY <1>5, <1>6, <2>1 DEF RunsOf
<1> HIDE DEF compared
<1>8. /\ found \in RunsOf /\ found.sections = sections /\ found.changed = changed
      /\ found.left = compared.left /\ found.diffs = compared.diffs /\ found.status = compared.status
      /\ found.reads = compared.reads /\ found.calls = compared.calls /\ found.pc = compared.pc
    <2>1. changed \in SUBSET Docs
        BY <1>1 DEF RunsOf
    <2> HIDE DEF changed
    <2> QED
        BY <1>6, <2>1 DEF RunsOf
<1> HIDE DEF found
<1> DEFINE erred == Erred(compared, "more")
<1>9. erred \in RunsOf /\ Same(compared, erred) /\ erred.calls = compared.calls /\ erred.pc = compared.pc
    BY <1>6, ErredIs
<1> HIDE DEF erred
<1>10. PICK new \in {compared, found, erred} : Becomes(t, new)
    BY <1>4, <1>5, <1>7 DEF erred
<1>11. /\ new \in RunsOf /\ new.pc = "compare" /\ new.calls = r.calls /\ new.diffs = {} /\ new.left = {}
       /\ new.status = r.status /\ new.reads = r.reads
       /\ new.sections \cup new.changed \subseteq r.sections \cup r.changed
    <2>1. /\ erred.sections = compared.sections /\ erred.changed = compared.changed
          /\ erred.left = compared.left /\ erred.diffs = compared.diffs
          /\ erred.status = compared.status /\ erred.reads = compared.reads
        BY <1>9 DEF Same
    <2>2. /\ a.changed = r.changed /\ a.left = {} /\ a.diffs = {} /\ a.status = r.status
          /\ a.reads = r.reads
        BY <1>2, <1>3 DEF Same
    <2> QED
        BY <1>1, <1>3, <1>6, <1>8, <1>9, <1>10, <2>1, <2>2
<1>12. new.calls <= Room /\ \A e \in new.sections \cup new.changed : new.reads[e] # Unread
    BY <1>2, <1>11
<1>13. r.pc \in Looking /\ new.pc \in Looking /\ new.pc \notin {"plan", "analyse"} /\ r.pc # "answered"
    BY <1>1, <1>11 DEF Looking
<1>14. RunOK(new) /\ Carries(r, new)
    BY <1>1, <1>11, <1>12, <1>13, LooksOn
<1> QED
    BY <1>10, <1>13, <1>14, BecomesKeeps DEF r

-----------------------------------------------------------------------------
(* Proposals and what is saved after them.                                 *)

\* With nothing proposed yet, all the reserve is there.
LEMMA ToProposeIs ==
    ASSUME NEW r, RunOK(r), r.pc \in Looking, NEW s \in RunsOf, Same(r, s), s.calls = r.calls
    PROVE  RunOK(ToPropose(s)) /\ Carries(r, ToPropose(s))
<1> DEFINE g == Goes(s, "propose")
           changed == s.changed
           new == [g EXCEPT !.left = changed, !.sections = {}]
<1>1. r.calls <= Room /\ r.diffs = {} /\ Progress(r) /\ r.status # "completed"
    BY DEF RunOK, Progress, InBudget, Looking
<1>2. g \in RunsOf /\ Same(r, g) /\ g.calls = r.calls /\ g.pc = "propose"
    <2>1. "propose" \in Pcs
        BY DEF Pcs
    <2> QED
        BY <2>1, GoesIs, SameIsSame
<1>3. ToPropose(s) = new
    BY DEF ToPropose
<1>4. changed \in SUBSET Docs /\ changed = r.changed
    BY DEF RunsOf, Same
<1> HIDE DEF g, changed
<1>5. /\ new \in RunsOf /\ new.left = changed /\ new.sections = {} /\ new.pc = "propose"
      /\ new.calls = r.calls /\ new.changed = g.changed /\ new.diffs = g.diffs
      /\ new.artifacts = g.artifacts /\ new.reads = g.reads /\ new.status = g.status
      /\ new.workflow = g.workflow
    BY <1>2, <1>4 DEF RunsOf
<1> HIDE DEF new
<1>6. /\ new.changed = r.changed /\ new.left = r.changed /\ new.diffs = {} /\ new.reads = r.reads
      /\ new.status = r.status
    BY <1>1, <1>2, <1>4, <1>5 DEF Same
<1>7. InBudget(new)
    <2>1. Cardinality(new.changed \ new.left) \in Nat /\ new.calls \in Nat /\ Room \in Nat
        BY <1>5, RunIsTyped, RoomIsThere
    <2>2. new.calls <= Room + 2 * Cardinality(new.changed \ new.left)
        BY <1>1, <1>5, <2>1
    <2> QED
        BY <1>5, <2>2 DEF InBudget, Looking
<1>8. Progress(new)
    BY <1>1, <1>5, <1>6 DEF Progress, Looking
<1>9. Thorough(new)
    BY <1>5, <1>6 DEF Thorough
<1> QED
    BY <1>1, <1>3, <1>5, <1>6, <1>7, <1>8, <1>9 DEF RunOK, Carries

LEMMA ComparedKeeps ==
    ASSUME IInv, NEW t \in Tasks, Compared(t) \/ CompareLimit(t)
    PROVE  IInv'
<1> DEFINE r == run[t]
<1>1. RunOK(r) /\ r \in RunsOf /\ r.pc = "compare"
    BY DEF IInv, RunOK, Compared, CompareLimit, At
<1>2. PICK s \in {r, Erred(r, "limit")} : Becomes(t, ToPropose(s))
    BY DEF Compared, CompareLimit
<1> HIDE DEF r
<1>3. s \in RunsOf /\ Same(r, s) /\ s.calls = r.calls
    <2>1. Same(r, r)
        BY DEF Same
    <2>2. /\ Erred(r, "limit") \in RunsOf /\ Same(r, Erred(r, "limit"))
          /\ Erred(r, "limit").calls = r.calls
        BY <1>1, ErredIs
    <2> QED
        BY <1>1, <1>2, <2>1, <2>2
<1>4. RunOK(ToPropose(s)) /\ Carries(r, ToPropose(s)) /\ r.pc # "answered"
    BY <1>1, <1>3, ToProposeIs DEF Looking
<1> QED
    BY <1>2, <1>4, BecomesKeeps DEF r

\* What the steps that propose know of their task.
LEMMA Proposing ==
    ASSUME NEW r, RunOK(r), r.pc \in {"propose", "proposal"}
    PROVE  /\ r \in RunsOf /\ r.status # "completed" /\ r.diffs \cup r.left \subseteq r.changed
           /\ r.diffs \cap r.left = {} /\ r.diffs \subseteq r.artifacts
           /\ \A d \in r.sections \cup r.changed : r.reads[d] # Unread
           /\ r.pc = "propose" => r.calls <= Room + 2 * Cardinality(r.changed \ r.left)
           /\ r.pc = "proposal" =>
                /\ r.calls <= Room + 2 * Cardinality(r.changed \ r.left) - 1
                /\ r.now \in r.changed \ (r.left \cup r.diffs)
           /\ Spared(r) /\ r.pc = "propose" => r.diffs = r.changed \ r.left
           /\ Spared(r) /\ r.pc = "proposal" => r.diffs = r.changed \ (r.left \cup {r.now})
BY DEF RunOK, Progress, InBudget, Thorough

LEMMA DiffsKeeps ==
    ASSUME IInv, NEW t \in Tasks, NEW d \in Docs, Diffs(t, d)
    PROVE  IInv'
<1> DEFINE r == run[t]
           c == Called(r)
           left == r.left \ {d}
           one == [c EXCEPT !.left = left]
           erred == Erred(one, "more")
           g == Goes(one, "proposal")
           new == [g EXCEPT !.now = d]
<1>1. RunOK(r) /\ r \in RunsOf /\ r.pc = "propose" /\ d \in r.left /\ r.calls < MaxToolCalls
    BY DEF IInv, RunOK, Diffs, MayCall, At, Cap
<1>2. \/ Becomes(t, Erred([c EXCEPT !.left = @ \ {d}], "more"))
      \/ Becomes(t, [Goes([c EXCEPT !.left = @ \ {d}], "proposal") EXCEPT !.now = d])
    BY DEF Diffs
<1> HIDE DEF r
<1>3. c \in RunsOf /\ Same(r, c) /\ c.calls = r.calls + 1 /\ c.pc = "propose" /\ c.errors = r.errors
    BY <1>1, CalledIs
<1>4. left \in SUBSET Docs /\ c.left = r.left
    BY <1>1, <1>3 DEF RunsOf, Same
<1> HIDE DEF c
<1>5. [c EXCEPT !.left = @ \ {d}] = one
    BY <1>3, <1>4 DEF RunsOf
<1>6. d \in r.changed /\ r.left \subseteq r.changed /\ r.changed \in SUBSET Docs
    BY <1>1, Proposing DEF RunsOf
<1>7. Cardinality(r.changed \ left) = Cardinality(r.changed \ r.left) + 1
    BY <1>1, <1>6, OneLessLeft
<1>8. /\ left = r.left \ {d}
      /\ Cardinality(r.changed \ r.left) \in Nat /\ r.calls \in Nat
    BY <1>1, RunIsTyped
<1> HIDE DEF left
<1>9. /\ one \in RunsOf /\ one.left = left /\ one.calls = c.calls /\ one.pc = c.pc /\ one.errors = c.errors
      /\ one.changed = c.changed /\ one.diffs = c.diffs /\ one.artifacts = c.artifacts
      /\ one.reads = c.reads /\ one.status = c.status /\ one.sections = c.sections
      /\ one.workflow = c.workflow
    BY <1>3, <1>4 DEF RunsOf
<1> HIDE DEF one
<1>10. /\ one.left = left /\ one.calls = r.calls + 1 /\ one.pc = "propose" /\ one.errors = r.errors
       /\ one.changed = r.changed /\ one.diffs = r.diffs /\ one.artifacts = r.artifacts
       /\ one.reads = r.reads /\ one.status = r.status /\ one.sections = r.sections
    BY <1>3, <1>9 DEF Same
<1>11. erred \in RunsOf /\ Same(one, erred) /\ ~Spared(erred) /\ erred.calls = one.calls /\ erred.pc = one.pc
    BY <1>9, ErredIs, MoreIsNotSpared
<1> HIDE DEF erred
<1>12. g \in RunsOf /\ Same(one, g) /\ g.calls = one.calls /\ g.pc = "proposal" /\ g.errors = one.errors
    <2>1. "proposal" \in Pcs
        BY DEF Pcs
    <2> QED
        BY <1>9, <2>1, GoesIs
<1> HIDE DEF g
<1>13. /\ new \in RunsOf /\ new.now = d /\ new.left = g.left /\ new.calls = g.calls /\ new.pc = "proposal"
       /\ new.errors = g.errors /\ new.changed = g.changed /\ new.diffs = g.diffs
       /\ new.artifacts = g.artifacts /\ new.reads = g.reads /\ new.status = g.status
       /\ new.sections = g.sections
    BY <1>12 DEF RunsOf
<1> HIDE DEF new
<1>14. RunOK(erred) /\ Carries(r, erred)
    <2>1. /\ erred.left = left /\ erred.calls = r.calls + 1 /\ erred.pc = "propose"
          /\ erred.changed = r.changed /\ erred.diffs = r.diffs /\ erred.artifacts = r.artifacts
          /\ erred.reads = r.reads /\ erred.status = r.status /\ erred.sections = r.sections
        BY <1>10, <1>11 DEF Same
    <2>2. InBudget(erred)
        <3>1. r.calls <= Room + 2 * Cardinality(r.changed \ r.left)
            BY <1>1, Proposing
        <3>2. erred.calls <= Room + 2 * Cardinality(erred.changed \ erred.left)
            BY <1>7, <1>8, <2>1, <3>1, RoomIsThere
        <3> QED
            BY <2>1, <3>2 DEF InBudget, Looking
    <2>3. Progress(erred)
        BY <1>1, <1>8, <2>1, Proposing DEF Progress, Looking
    <2>4. Thorough(erred)
        BY <1>11 DEF Thorough
    <2> QED
        BY <1>1, <1>11, <2>1, <2>2, <2>3, <2>4, Proposing DEF RunOK, Carries
<1>15. RunOK(new) /\ Carries(r, new)
    <2>1. /\ new.left = left /\ new.calls = r.calls + 1 /\ new.changed = r.changed /\ new.diffs = r.diffs
          /\ new.artifacts = r.artifacts /\ new.reads = r.reads /\ new.status = r.status
          /\ new.sections = r.sections /\ new.errors = r.errors
        BY <1>10, <1>12, <1>13 DEF Same
    <2>2. InBudget(new)
        <3>1. r.calls <= Room + 2 * Cardinality(r.changed \ r.left)
            BY <1>1, Proposing
        <3>2. new.calls <= Room + 2 * Cardinality(new.changed \ new.left) - 1
            BY <1>7, <1>8, <2>1, <3>1, RoomIsThere
        <3> QED
            BY <1>13, <3>2 DEF InBudget, Looking
    <2>3. Progress(new)
        BY <1>1, <1>6, <1>8, <1>13, <2>1, Proposing DEF Progress, Looking
    <2>4. Thorough(new)
        <3>1. Spared(new) => r.diffs = r.changed \ r.left
            BY <1>1, <2>1, Proposing DEF Spared
        <3> QED
            BY <1>1, <1>8, <1>13, <2>1, <3>1 DEF Thorough
    <2> QED
        BY <1>1, <1>13, <2>1, <2>2, <2>3, <2>4, Proposing DEF RunOK, Carries
<1>16. Becomes(t, erred) \/ Becomes(t, new)
    BY <1>2, <1>5 DEF erred, new, g
<1> QED
    BY <1>1, <1>14, <1>15, <1>16, BecomesKeeps DEF r

\* The proposals are done: on to the patch, or where there is none to the review.
LEMMA ToSaveIs ==
    ASSUME NEW r, RunOK(r), r.pc = "propose", NEW s \in RunsOf, s.left = {}, s.calls = r.calls,
           s.changed = r.changed, s.diffs = r.diffs, s.artifacts = r.artifacts, s.reads = r.reads,
           s.status = r.status, s.sections = r.sections,
           NEW pc \in {"review", "patch"}, pc = "review" => r.diffs = {},
           Spared(s) => r.diffs = r.changed
    PROVE  RunOK(Goes(s, pc)) /\ Carries(r, Goes(s, pc))
<1> DEFINE new == Goes(s, pc)
<1>1. pc \in Pcs
    BY DEF Pcs
<1>2. new \in RunsOf /\ Same(s, new) /\ new.pc = pc /\ new.calls = s.calls /\ new.errors = s.errors
    BY <1>1, GoesIs
<1> HIDE DEF new
<1>3. /\ new.left = {} /\ new.calls = r.calls /\ new.changed = r.changed /\ new.diffs = r.diffs
      /\ new.artifacts = r.artifacts /\ new.reads = r.reads /\ new.status = r.status
      /\ new.sections = r.sections
    BY <1>2 DEF Same
<1>4. InBudget(new)
    <2>1. Cardinality(r.changed \ r.left) <= Cardinality(r.changed)
        <3>1. r.changed \in SUBSET Docs
            BY Proposing, RunIsTyped
        <3> QED
            BY <3>1, DocsAreFinite, FS_Subset
    <2>2. r.calls <= Room + 2 * Cardinality(r.changed \ r.left)
        BY Proposing
    <2>3. Cardinality(r.changed \ r.left) \in Nat /\ Cardinality(r.changed) \in Nat /\ r.calls \in Nat
        BY Proposing, RunIsTyped
    <2>4. new.calls <= Room + 2 * Cardinality(new.changed)
        BY <1>3, <2>1, <2>2, <2>3, RoomIsThere
    <2>5. new.calls <= Room + 2 * Cardinality(new.changed) + 1
        BY <1>3, <2>3, <2>4, RoomIsThere
    <2> QED
        BY <1>2, <2>4, <2>5 DEF InBudget, Looking
<1>5. Progress(new)
    BY <1>2, <1>3, Proposing DEF Progress, Looking
<1>6. Thorough(new)
    <2>1. Spared(new) => r.diffs = r.changed
        BY <1>2, <1>3 DEF Spared
    <2> QED
        BY <1>2, <1>3, <2>1 DEF Thorough
<1> QED
    BY <1>2, <1>3, <1>4, <1>5, <1>6, Proposing DEF RunOK, Carries, new

\* The limit is only met where more was found than there is room for.
LEMMA ProposeLimitKeeps ==
    ASSUME IInv, NEW t \in Tasks, ProposeLimit(t)
    PROVE  IInv'
<1> DEFINE r == run[t]
           e == Erred(r, "limit")
           s == [e EXCEPT !.left = {}]
           pc == IF r.diffs = {} THEN "review" ELSE "patch"
<1>1. RunOK(r) /\ r \in RunsOf /\ r.pc = "propose" /\ ~(r.calls < MaxToolCalls) /\ Becomes(t, Goes(s, pc))
    BY DEF IInv, RunOK, ProposeLimit, MayCall, At, Cap
<1>2. pc \in {"review", "patch"} /\ (pc = "review" => r.diffs = {})
    OBVIOUS
<1> HIDE DEF r, pc
<1>3. e \in RunsOf /\ Same(r, e) /\ e.calls = r.calls
    BY <1>1, ErredIs
<1>4. Spared(e) => Cardinality(r.changed) <= 2
    BY <1>1, LimitIsSpared
<1> HIDE DEF e
<1>5. /\ s \in RunsOf /\ s.left = {} /\ s.calls = e.calls /\ s.changed = e.changed /\ s.diffs = e.diffs
      /\ s.artifacts = e.artifacts /\ s.reads = e.reads /\ s.status = e.status /\ s.sections = e.sections
      /\ s.errors = e.errors
    BY <1>3 DEF RunsOf
<1> HIDE DEF s
<1>6. Cardinality(r.changed) > 2
    <2>1. r.changed \in SUBSET Docs
        BY <1>1, RunIsTyped
    <2>2. Cardinality(r.changed \ r.left) <= Cardinality(r.changed)
        BY <2>1, DocsAreFinite, FS_Subset
    <2>3. r.calls <= Room + 2 * Cardinality(r.changed \ r.left)
        BY <1>1, Proposing
    <2>4. Cardinality(r.changed \ r.left) \in Nat /\ Cardinality(r.changed) \in Nat /\ r.calls \in Nat
        BY <1>1, RunIsTyped
    <2> QED
        BY <1>1, <2>2, <2>3, <2>4, RoomIsThere
<1>7. ~Spared(s)
    <2>1. Cardinality(r.changed) \in Nat
        BY <1>1, RunIsTyped
    <2>2. Spared(s) <=> Spared(e)
        BY <1>5 DEF Spared
    <2> QED
        BY <1>4, <1>6, <2>1, <2>2
<1>8. RunOK(Goes(s, pc)) /\ Carries(r, Goes(s, pc))
    <2>1. /\ s.calls = r.calls /\ s.changed = r.changed /\ s.diffs = r.diffs /\ s.artifacts = r.artifacts
          /\ s.reads = r.reads /\ s.status = r.status /\ s.sections = r.sections
        BY <1>3, <1>5 DEF Same
    <2> QED
        BY <1>1, <1>2, <1>5, <1>7, <2>1, ToSaveIs
<1> QED
    BY <1>1, <1>8, BecomesKeeps DEF r

LEMMA ProposedKeeps ==
    ASSUME IInv, NEW t \in Tasks, Proposed(t)
    PROVE  IInv'
<1> DEFINE r == run[t]
           pc == IF r.diffs = {} THEN "review" ELSE "patch"
<1>1. RunOK(r) /\ r \in RunsOf /\ r.pc = "propose" /\ r.left = {} /\ Becomes(t, Goes(r, pc))
    BY DEF IInv, RunOK, Proposed, At
<1>2. pc \in {"review", "patch"} /\ (pc = "review" => r.diffs = {})
    OBVIOUS
<1> HIDE DEF r, pc
<1>3. Spared(r) => r.diffs = r.changed
    BY <1>1, Proposing
<1>4. RunOK(Goes(r, pc)) /\ Carries(r, Goes(r, pc))
    BY <1>1, <1>2, <1>3, ToSaveIs
<1> QED
    BY <1>1, <1>4, BecomesKeeps DEF r

\* A save over what another task proposed leaves that task a proposal, not its own.
LEMMA SaveKeeps ==
    ASSUME IInv, NEW t \in Tasks, NEW d \in Docs, NEW new, RunOK(new), run[t].pc # "answered",
           run[t].reads[d] # Unread, Saves(d, t, run[t].reads[d]),
           new.diffs \subseteq run[t].diffs \cup {d},
           \A e \in new.diffs : new.reads[e] = run[t].reads[e],
           run' = [run EXCEPT ![t] = new], files' = files, apply' = apply,
           edits' \in 0..MaxEdits, failures' \in 0..MaxFailures
    PROVE  IInv'
<1> DEFINE onto == run[t].reads[d]
           saved == [text |-> t, base |-> onto]
<1>1. run \in [Tasks -> RunsOf] /\ new \in RunsOf /\ proposals \in [Docs -> Proposals]
    BY DEF IInv, RunOK, Typed
<1>2. run' \in [Tasks -> RunsOf] /\ run'[t] = new /\ \A u \in Tasks : u # t => run'[u] = run[u]
    BY <1>1
<1>3. onto \in Contents /\ onto # Gone
    <2>1. run[t].reads \in [Docs -> Contents]
        BY <1>1 DEF RunsOf
    <2> QED
        BY <2>1 DEF Unread
<1>4. saved \in Proposals /\ saved.text = t /\ saved.base = onto
    BY <1>3 DEF Proposals
<1>5. proposals' = [proposals EXCEPT ![d] = saved]
    BY DEF Saves
<1> HIDE DEF saved
<1>6. /\ proposals' \in [Docs -> Proposals] /\ proposals'[d] = saved
      /\ \A e \in Docs : e # d => proposals'[e] = proposals[e]
    BY <1>1, <1>4, <1>5
<1>7. Typed'
    BY <1>6 DEF IInv, Typed
<1>8. ASSUME NEW u \in Tasks PROVE RunOK(run'[u]) /\ run'[u].diffs \subseteq Docs
    <2>1. RunOK(run'[u])
        BY <1>2 DEF IInv
    <2> QED
        BY <2>1 DEF RunOK, RunsOf
<1>9. ASSUME NEW u \in Tasks, NEW e \in run'[u].diffs
      PROVE  /\ proposals'[e].base # Gone
             /\ proposals'[e].text = u => proposals'[e].base = run'[u].reads[e]
    <2>1. e \in Docs
        BY <1>8
    <2>2. CASE e = d
        <3>1. proposals'[e].text = t /\ proposals'[e].base = onto
            BY <1>4, <1>6, <2>2
        <3>2. u = t => run'[u].reads[e] = onto
            BY <1>2, <2>2
        <3> QED
            BY <1>3, <3>1, <3>2
    <2>3. CASE e # d
        <3>1. proposals'[e] = proposals[e]
            BY <1>6, <2>1, <2>3
        <3>2. e \in run[u].diffs /\ run'[u].reads[e] = run[u].reads[e]
            BY <1>2, <2>3
        <3> QED
            BY <3>1, <3>2 DEF IInv, ListedOK
    <2> QED
        BY <2>2, <2>3
<1>10. ApplyOK(apply)'
    <2>1. CASE apply = NoApply
        BY <2>1 DEF ApplyOK
    <2>2. CASE apply # NoApply
        <3>1. ApplyOK(apply)
            BY DEF IInv
        <3>2. apply.step = "read" => apply.task \in Tasks /\ run[apply.task].pc = "answered"
            BY <2>2, <3>1 DEF ApplyOK
        <3>3. apply.step = "read" => run'[apply.task] = run[apply.task]
            BY <1>2, <3>2
        <3> QED
            BY <2>2, <3>1, <3>3 DEF ApplyOK
    <2> QED
        BY <2>1, <2>2
<1>11. \A u \in Tasks : (RunOK(run[u]) /\ ListedOK(run[u], u))'
    <2>1. \A u \in Tasks : RunOK(run[u])'
        <3>1. \A u \in Tasks : RunOK(run'[u])
            BY <1>8
        <3> QED
            BY <3>1 DEF RunOK, RunsOf, InBudget, Progress, Thorough, Spared
    <2>2. \A u \in Tasks : ListedOK(run[u], u)'
        BY <1>9 DEF ListedOK
    <2> QED
        BY <2>1, <2>2
<1> QED
    BY <1>2, <1>7, <1>10, <1>11 DEF IInv

LEMMA SavesProposalKeeps ==
    ASSUME IInv, NEW t \in Tasks, SavesProposal(t)
    PROVE  IInv'
<1> DEFINE r == run[t]
           d == r.now
           c == Called(r)
           diffs == r.diffs \cup {d}
           artifacts == r.artifacts \cup {d}
           listed == [c EXCEPT !.diffs = diffs, !.artifacts = artifacts]
           g == Goes(listed, "propose")
           new == [g EXCEPT !.now = "none"]
<1>1. RunOK(r) /\ r \in RunsOf /\ r.pc = "proposal" /\ r.calls < MaxToolCalls
    BY DEF IInv, RunOK, SavesProposal, MayCall, At, Cap
<1>2. /\ Saves(d, t, r.reads[d])
      /\ run' = [run EXCEPT ![t] = AfterProposal([c EXCEPT !.diffs = @ \cup {d}, !.artifacts = @ \cup {d}])]
    BY DEF SavesProposal, IInv
<1>3. /\ files' = files /\ apply' = apply /\ edits' \in 0..MaxEdits /\ failures' \in 0..MaxFailures
    BY DEF SavesProposal, IInv, Typed
<1> HIDE DEF r
<1>4. /\ d \in r.changed \ (r.left \cup r.diffs) /\ r.reads[d] # Unread
      /\ r.calls <= Room + 2 * Cardinality(r.changed \ r.left) - 1
      /\ Spared(r) => r.diffs = r.changed \ (r.left \cup {d})
    BY <1>1, Proposing
<1>5. d \in Docs /\ diffs \in SUBSET Docs /\ artifacts \in SUBSET (Docs \cup {"patch", "review", "report"})
    BY <1>1, <1>4 DEF RunsOf
<1>6. c \in RunsOf /\ Same(r, c) /\ c.calls = r.calls + 1 /\ c.errors = r.errors
    BY <1>1, CalledIs
<1> HIDE DEF c
<1>7. [c EXCEPT !.diffs = @ \cup {d}, !.artifacts = @ \cup {d}] = listed
    <2>1. c.diffs = r.diffs /\ c.artifacts = r.artifacts
        BY <1>6 DEF Same
    <2> QED
        BY <1>6, <2>1 DEF RunsOf
<1>8. diffs = r.diffs \cup {d} /\ artifacts = r.artifacts \cup {d}
    OBVIOUS
<1> HIDE DEF diffs, artifacts
<1>9. /\ listed \in RunsOf /\ listed.diffs = diffs /\ listed.artifacts = artifacts /\ listed.calls = c.calls
      /\ listed.errors = c.errors /\ listed.changed = c.changed /\ listed.left = c.left
      /\ listed.reads = c.reads /\ listed.status = c.status /\ listed.sections = c.sections
    BY <1>5, <1>6 DEF RunsOf
<1> HIDE DEF listed
<1>10. g \in RunsOf /\ Same(listed, g) /\ g.calls = listed.calls /\ g.pc = "propose" /\ g.errors = listed.errors
    <2>1. "propose" \in Pcs
        BY DEF Pcs
    <2> QED
        BY <1>9, <2>1, GoesIs
<1>11. AfterProposal(listed) = new
    BY DEF AfterProposal
<1> HIDE DEF g
<1>12. /\ new \in RunsOf /\ new.pc = "propose" /\ new.calls = g.calls /\ new.errors = g.errors
       /\ new.changed = g.changed /\ new.left = g.left /\ new.diffs = g.diffs
       /\ new.artifacts = g.artifacts /\ new.reads = g.reads /\ new.status = g.status
       /\ new.sections = g.sections
    BY <1>10 DEF RunsOf
<1> HIDE DEF new
<1>13. /\ new.calls = r.calls + 1 /\ new.errors = r.errors /\ new.changed = r.changed /\ new.left = r.left
       /\ new.diffs = diffs /\ new.artifacts = artifacts /\ new.reads = r.reads
       /\ new.status = r.status /\ new.sections = r.sections
    BY <1>6, <1>9, <1>10, <1>12 DEF Same
<1>14. InBudget(new)
    <2>1. Cardinality(r.changed \ r.left) \in Nat /\ r.calls \in Nat
        BY <1>1, RunIsTyped
    <2>2. new.calls <= Room + 2 * Cardinality(new.changed \ new.left)
        BY <1>4, <1>13, <2>1, RoomIsThere
    <2> QED
        BY <1>12, <2>2 DEF InBudget, Looking
<1>15. Progress(new)
    BY <1>1, <1>4, <1>8, <1>12, <1>13, Proposing DEF Progress, Looking
<1>16. Thorough(new)
    <2>1. Spared(new) => Spared(r)
        BY <1>13 DEF Spared
    <2>2. Spared(new) => diffs = r.changed \ r.left
        BY <1>4, <1>8, <2>1
    <2> QED
        BY <1>12, <1>13, <2>2 DEF Thorough
<1>17. RunOK(new)
    BY <1>1, <1>12, <1>13, <1>14, <1>15, <1>16, Proposing DEF RunOK
<1>18. run' = [run EXCEPT ![t] = new]
    BY <1>2, <1>7, <1>11
<1>19. new.diffs \subseteq r.diffs \cup {d} /\ \A e \in new.diffs : new.reads[e] = r.reads[e]
    BY <1>8, <1>13
<1>20. r.pc # "answered"
    BY <1>1
<1> HIDE DEF d
<1> QED
    BY <1>2, <1>3, <1>4, <1>5, <1>17, <1>18, <1>19, <1>20, SaveKeeps DEF r

\* A save that was not made: nothing is promised, unless it was for a limit.
LEMMA SaveFailureIs ==
    ASSUME IInv, NEW t \in Tasks
    PROVE  LET r == run[t]
               new == SaveFailure(t)
           IN  /\ new \in RunsOf /\ Same(r, new) /\ new.pc = r.pc
               /\ new.calls \in {r.calls, r.calls + 1}
               /\ Spared(new) =>
                    Spared(r) /\ Cardinality(r.changed) <= 2 /\ ~(r.calls < MaxToolCalls)
<1> DEFINE r == run[t]
           c == Called(r)
<1>1. r \in RunsOf
    BY DEF IInv
<1>2. MayCall(t, TRUE) <=> r.calls < MaxToolCalls
    BY DEF MayCall, Cap
<1>3. SaveFailure(t) = IF r.calls < MaxToolCalls THEN Erred(c, "more") ELSE Erred(r, "limit")
    BY <1>2 DEF SaveFailure
<1> HIDE DEF r
<1>4. CASE r.calls < MaxToolCalls
    <2>1. c \in RunsOf /\ Same(r, c) /\ c.pc = r.pc /\ c.calls = r.calls + 1
        BY <1>1, <1>4, CalledIs
    <2> HIDE DEF c
    <2>2. /\ Erred(c, "more") \in RunsOf /\ Same(c, Erred(c, "more")) /\ ~Spared(Erred(c, "more"))
          /\ Erred(c, "more").pc = c.pc /\ Erred(c, "more").calls = c.calls
        BY <2>1, ErredIs, MoreIsNotSpared
    <2>3. Same(r, Erred(c, "more"))
        BY <2>1, <2>2, SameIsSame
    <2> QED
        BY <1>3, <1>4, <2>1, <2>2, <2>3 DEF r
<1>5. CASE ~(r.calls < MaxToolCalls)
    <2>1. /\ Erred(r, "limit") \in RunsOf /\ Same(r, Erred(r, "limit"))
          /\ Erred(r, "limit").pc = r.pc /\ Erred(r, "limit").calls = r.calls
        BY <1>1, ErredIs
    <2>2. Spared(Erred(r, "limit")) => Spared(r) /\ Cardinality(r.changed) <= 2
        BY <1>1, LimitIsSpared
    <2> QED
        BY <1>3, <1>5, <2>1, <2>2 DEF r
<1> QED
    BY <1>4, <1>5

\* Where there are two documents at most, the reserve has a call for every save.
LEMMA ProposalNotSavedKeeps ==
    ASSUME IInv, NEW t \in Tasks, ProposalNotSaved(t)
    PROVE  IInv'
<1> DEFINE r == run[t]
           s == SaveFailure(t)
           g == Goes(s, "propose")
           new == [g EXCEPT !.now = "none"]
<1>1. RunOK(r) /\ r \in RunsOf /\ r.pc = "proposal" /\ Becomes(t, new)
    BY DEF IInv, RunOK, ProposalNotSaved, At, AfterProposal
<1>2. /\ s \in RunsOf /\ Same(r, s) /\ s.calls \in {r.calls, r.calls + 1}
      /\ Spared(s) => Cardinality(r.changed) <= 2 /\ ~(r.calls < MaxToolCalls)
    BY SaveFailureIs
<1> HIDE DEF r, s
<1>3. /\ r.now \in r.changed \ (r.left \cup r.diffs)
      /\ r.calls <= Room + 2 * Cardinality(r.changed \ r.left) - 1
    BY <1>1, Proposing
<1>4. /\ Cardinality(r.changed \ r.left) \in Nat /\ r.calls \in Nat /\ Cardinality(r.changed) \in Nat
      /\ r.changed \in SUBSET Docs
    BY <1>1, RunIsTyped
<1>5. ~Spared(s)
    <2>1. Cardinality(r.changed \ r.left) <= Cardinality(r.changed)
        BY <1>4, DocsAreFinite, FS_Subset
    <2> QED
        BY <1>2, <1>3, <1>4, <2>1, RoomIsThere
<1>6. g \in RunsOf /\ Same(s, g) /\ g.calls = s.calls /\ g.pc = "propose" /\ g.errors = s.errors
    <2>1. "propose" \in Pcs
        BY DEF Pcs
    <2> QED
        BY <1>2, <2>1, GoesIs
<1> HIDE DEF g
<1>7. /\ new \in RunsOf /\ new.pc = "propose" /\ new.calls = g.calls /\ new.errors = g.errors
      /\ new.changed = g.changed /\ new.left = g.left /\ new.diffs = g.diffs
      /\ new.artifacts = g.artifacts /\ new.reads = g.reads /\ new.status = g.status
      /\ new.sections = g.sections
    BY <1>6 DEF RunsOf
<1> HIDE DEF new
<1>8. /\ new.calls = s.calls /\ new.errors = s.errors /\ new.changed = r.changed /\ new.left = r.left
      /\ new.diffs = r.diffs /\ new.artifacts = r.artifacts /\ new.reads = r.reads
      /\ new.status = r.status /\ new.sections = r.sections /\ s.changed = r.changed
    BY <1>2, <1>6, <1>7 DEF Same
<1>9. InBudget(new)
    <2>1. new.calls <= Room + 2 * Cardinality(new.changed \ new.left)
        BY <1>2, <1>3, <1>4, <1>8, RoomIsThere
    <2> QED
        BY <1>7, <2>1 DEF InBudget, Looking
<1>10. Progress(new)
    BY <1>1, <1>3, <1>7, <1>8, Proposing DEF Progress, Looking
<1>11. Thorough(new)
    BY <1>5, <1>8 DEF Thorough, Spared
<1>12. RunOK(new) /\ Carries(r, new) /\ r.pc # "answered"
    BY <1>1, <1>7, <1>8, <1>9, <1>10, <1>11, Proposing DEF RunOK, Carries
<1> QED
    BY <1>1, <1>12, BecomesKeeps DEF r

\* What the last saves know of their task.
LEMMA Saving ==
    ASSUME NEW r, RunOK(r), r.pc \in {"patch", "review", "report"}
    PROVE  /\ r \in RunsOf /\ r.status # "completed" /\ r.diffs \cup r.left \subseteq r.changed
           /\ r.diffs \cap r.left = {} /\ r.diffs \subseteq r.artifacts
           /\ \A d \in r.sections \cup r.changed : r.reads[d] # Unread
           /\ r.pc = "patch" => r.left = {} /\ r.calls <= Room + 2 * Cardinality(r.changed)
           /\ r.pc = "review" => r.calls <= Room + 2 * Cardinality(r.changed) + 1
           /\ r.pc = "report" => r.workflow # "docs_update"
           /\ Spared(r) /\ r.pc \in {"patch", "review"} => r.diffs = r.changed
           /\ Spared(r) /\ r.pc = "review" => (r.diffs # {} => "patch" \in r.artifacts)
BY DEF RunOK, Progress, InBudget, Thorough

\* The step after a save, made or not.
LEMMA ThenIs ==
    ASSUME NEW r, RunOK(r), r.pc \in {"patch", "review", "report"}, NEW s \in RunsOf,
           s.pc = r.pc, s.workflow = r.workflow, s.reads = r.reads, s.sections = r.sections,
           s.changed = r.changed, s.left = r.left, s.diffs = r.diffs, s.status = r.status,
           s.calls \in {r.calls, r.calls + 1},
           r.artifacts \subseteq s.artifacts,
           Spared(s) => Spared(r) /\ r.pc \in s.artifacts
    PROVE  RunOK(Then(s, r.pc)) /\ Carries(r, Then(s, r.pc))
<1>1. r.diffs \subseteq r.changed /\ r.diffs \subseteq r.artifacts /\ \A d \in r.diffs : r.reads[d] # Unread
    BY Saving
<1>2. CASE r.pc \in {"review", "report"}
    <2>1. Then(s, r.pc) = Finished(s)
        BY <1>2 DEF Then, Last
    <2>2. Spared(s) /\ s.workflow = "docs_update" =>
            /\ s.diffs = s.changed /\ "review" \in s.artifacts
            /\ s.diffs # {} => "patch" \in s.artifacts
        BY <1>2, Saving
    <2>3. RunOK(Finished(s)) /\ Carries(s, Finished(s))
        BY <1>1, <2>2, FinishedIs
    <2> QED
        BY <2>1, <2>3 DEF Carries
<1>3. CASE r.pc = "patch"
    <2> DEFINE new == Goes(s, "review")
    <2>1. Then(s, r.pc) = new
        BY <1>3 DEF Then, Last
    <2>2. new \in RunsOf /\ Same(s, new) /\ new.calls = s.calls /\ new.pc = "review" /\ new.errors = s.errors
        <3>1. "review" \in Pcs
            BY DEF Pcs
        <3> QED
            BY <3>1, GoesIs
    <2> HIDE DEF new
    <2>3. /\ new.changed = r.changed /\ new.left = r.left /\ new.diffs = r.diffs /\ new.reads = r.reads
          /\ new.status = r.status /\ new.sections = r.sections /\ new.artifacts = s.artifacts
        BY <2>2 DEF Same
    <2>4. InBudget(new)
        <3>1. r.calls <= Room + 2 * Cardinality(r.changed) /\ r.calls \in Nat /\ Cardinality(r.changed) \in Nat
            BY <1>3, Saving, RunIsTyped
        <3>2. new.calls <= Room + 2 * Cardinality(new.changed) + 1
            BY <2>2, <2>3, <3>1, RoomIsThere
        <3> QED
            BY <2>2, <3>2 DEF InBudget, Looking
    <2>5. Progress(new)
        BY <1>1, <1>3, <2>2, <2>3, Saving DEF Progress, Looking
    <2>6. Thorough(new)
        <3>1. Spared(new) => Spared(s)
            BY <2>2, <2>3 DEF Spared
        <3>2. Spared(new) => r.diffs = r.changed /\ "patch" \in new.artifacts
            BY <1>3, <2>3, <3>1, Saving
        <3> QED
            BY <2>2, <2>3, <3>2 DEF Thorough
    <2> QED
        BY <1>3, <2>1, <2>2, <2>3, <2>4, <2>5, <2>6, Saving DEF RunOK, Carries
<1> QED
    BY <1>2, <1>3

\* Cutting what is saved adds an error, and nothing else.
LEMMA CutIs ==
    ASSUME NEW r \in RunsOf, NEW new \in Cut(r)
    PROVE  /\ new \in RunsOf /\ Same(r, new) /\ new.pc = r.pc /\ new.calls = r.calls
           /\ Spared(new) => Spared(r)
<1>1. CASE new = r
    BY <1>1 DEF Same
<1>2. CASE new = Erred(r, "more")
    BY <1>2, ErredIs, MoreIsNotSpared
<1> QED
    BY <1>1, <1>2 DEF Cut

LEMMA SavesLastKeeps ==
    ASSUME IInv, NEW t \in Tasks, SavesLast(t)
    PROVE  IInv'
<1> DEFINE r == run[t]
           artifacts == r.artifacts \cup {r.pc}
<1>0. PICK c \in Cut(Called(r)) : Becomes(t, Then([c EXCEPT !.artifacts = @ \cup {r.pc}], r.pc))
    BY DEF SavesLast
<1> DEFINE s == [c EXCEPT !.artifacts = artifacts]
<1>1. /\ RunOK(r) /\ r \in RunsOf /\ r.pc \in {"patch", "review", "report"} /\ r.calls < MaxToolCalls
    BY DEF IInv, RunOK, SavesLast, MayCall, Cap, Last
<1> HIDE DEF r
<1>2. c \in RunsOf /\ Same(r, c) /\ c.calls = r.calls + 1 /\ (Spared(c) => Spared(r)) /\ c.pc = r.pc
    <2> DEFINE called == Called(r)
    <2>1. called \in RunsOf /\ Same(r, called) /\ called.calls = r.calls + 1 /\ called.errors = r.errors /\ called.pc = r.pc
        BY <1>1, CalledIs
    <2>2. c \in Cut(called)
        BY <1>0
    <2> HIDE DEF called
    <2>3. /\ c \in RunsOf /\ Same(called, c) /\ c.pc = called.pc /\ c.calls = called.calls
          /\ Spared(c) => Spared(called)
        BY <2>1, <2>2, CutIs
    <2>4. Same(r, c)
        BY <2>1, <2>3, SameIsSame
    <2>5. Spared(called) => Spared(r)
        BY <2>1 DEF Spared, Same
    <2> QED
        BY <2>1, <2>3, <2>4, <2>5
<1>3. artifacts \in SUBSET (Docs \cup {"patch", "review", "report"})
    BY <1>1 DEF RunsOf
<1>4. [c EXCEPT !.artifacts = @ \cup {r.pc}] = s
    <2>1. c.artifacts = r.artifacts
        BY <1>2 DEF Same
    <2> QED
        BY <1>2, <2>1 DEF RunsOf
<1>5. r.artifacts \subseteq artifacts /\ r.pc \in artifacts
    OBVIOUS
<1> HIDE DEF artifacts
<1>6. /\ s \in RunsOf /\ s.artifacts = artifacts /\ s.calls = c.calls /\ s.errors = c.errors /\ s.pc = c.pc
      /\ s.workflow = c.workflow /\ s.reads = c.reads /\ s.sections = c.sections
      /\ s.changed = c.changed /\ s.left = c.left /\ s.diffs = c.diffs /\ s.status = c.status
    BY <1>2, <1>3 DEF RunsOf
<1>6a. Becomes(t, Then(s, r.pc)) /\ r.pc # "answered"
    BY <1>0, <1>1, <1>4
<1> HIDE DEF s
<1>7. /\ s.artifacts = artifacts /\ s.calls = r.calls + 1 /\ s.pc = r.pc
      /\ s.workflow = r.workflow /\ s.reads = r.reads /\ s.sections = r.sections
      /\ s.changed = r.changed /\ s.left = r.left /\ s.diffs = r.diffs /\ s.status = r.status
    BY <1>2, <1>6 DEF Same
<1>8. Spared(s) => Spared(r)
    <2>1. Spared(s) => Spared(c)
        BY <1>6 DEF Spared
    <2> QED
        BY <1>2, <2>1
<1>9. RunOK(Then(s, r.pc)) /\ Carries(r, Then(s, r.pc))
    BY <1>1, <1>5, <1>6, <1>7, <1>8, ThenIs
<1> QED
    BY <1>6a, <1>9, BecomesKeeps DEF r

\* A limit that keeps a patch or a review from being saved has more to save than
\* there is room for.
LEMMA LastNotSavedKeeps ==
    ASSUME IInv, NEW t \in Tasks, LastNotSaved(t)
    PROVE  IInv'
<1> DEFINE r == run[t]
           failed == SaveFailure(t)
<1>0. PICK s \in Cut(failed) : Becomes(t, Then(s, r.pc))
    BY DEF LastNotSaved
<1>1. /\ RunOK(r) /\ r \in RunsOf /\ r.pc \in {"patch", "review", "report"} /\ Becomes(t, Then(s, r.pc))
    BY <1>0 DEF IInv, RunOK, LastNotSaved, Last
<1>2. /\ s \in RunsOf /\ Same(r, s) /\ s.pc = r.pc /\ s.calls \in {r.calls, r.calls + 1}
      /\ Spared(s) => Spared(r) /\ Cardinality(r.changed) <= 2 /\ ~(r.calls < MaxToolCalls)
    <2>1. /\ failed \in RunsOf /\ Same(r, failed) /\ failed.pc = r.pc /\ failed.calls \in {r.calls, r.calls + 1}
          /\ Spared(failed) => Spared(r) /\ Cardinality(r.changed) <= 2 /\ ~(r.calls < MaxToolCalls)
        BY SaveFailureIs
    <2> HIDE DEF r, failed
    <2>2. /\ s \in RunsOf /\ Same(failed, s) /\ s.pc = failed.pc /\ s.calls = failed.calls
          /\ Spared(s) => Spared(failed)
        BY <1>0, <2>1, CutIs
    <2>3. Same(r, s)
        BY <2>1, <2>2, SameIsSame
    <2> QED
        BY <2>1, <2>2, <2>3
<1> HIDE DEF r, failed
<1>3. CASE r.pc \in {"patch", "review"}
    <2>1. ~Spared(s)
        <3>1. Cardinality(r.changed) \in Nat /\ r.calls \in Nat
            BY <1>1, RunIsTyped
        <3>2. r.calls <= Room + 2 * Cardinality(r.changed) + 1
            BY <1>1, <1>3, <3>1, Saving, RoomIsThere
        <3> QED
            BY <1>2, <3>1, <3>2, RoomIsThere
    <2>2. RunOK(Then(s, r.pc)) /\ Carries(r, Then(s, r.pc))
        BY <1>1, <1>2, <2>1, ThenIs DEF Same
    <2> QED
        BY <1>1, <2>2, BecomesKeeps DEF r
<1>4. CASE r.pc = "report"
    <2>1. Then(s, r.pc) = Finished(s)
        BY <1>4 DEF Then, Last
    <2>2. s.workflow # "docs_update"
        BY <1>1, <1>2, <1>4, Saving DEF Same
    <2>3. s.diffs \subseteq s.changed /\ s.diffs \subseteq s.artifacts /\ \A d \in s.diffs : s.reads[d] # Unread
        BY <1>1, <1>2, Saving DEF Same
    <2>4. RunOK(Finished(s)) /\ Carries(s, Finished(s))
        BY <1>2, <2>2, <2>3, FinishedIs
    <2>5. Carries(r, Finished(s)) /\ r.pc # "answered"
        BY <1>2, <1>4, <2>4 DEF Carries, Same
    <2> QED
        BY <1>1, <2>1, <2>4, <2>5, BecomesKeeps DEF r
<1> QED
    BY <1>1, <1>3, <1>4

\* A task that has not begun.
LEMMA NewRunIs ==
    /\ NewRun \in RunsOf /\ NewRun.pc = "new" /\ NewRun.workflow = "none"
    /\ NewRun.calls = 0 /\ NewRun.sections = {}
    /\ NewRun.changed = {} /\ NewRun.left = {} /\ NewRun.diffs = {} /\ NewRun.artifacts = {}
    /\ NewRun.status = "none"
<1>1. 0 \in 0..MaxToolCalls /\ 0 \in 0..MaxModelCalls /\ 0 \in 0..MaxRounds
    BY TaskAssumption
<1>2. [d \in Docs |-> Unread] \in [Docs -> Contents]
    BY DEF Unread, Contents
<1>3. NewRun \in RunsOf
    BY <1>1, <1>2 DEF NewRun, RunsOf, Pcs
<1> QED
    BY <1>3 DEF NewRun

LEMMA AnswersKeeps ==
    ASSUME IInv, NEW t \in Tasks, Answers(t)
    PROVE  IInv'
<1> DEFINE r == run[t]
           diffs == r.diffs
           reads == r.reads
           new == [NewRun EXCEPT !.pc = "answered", !.diffs = diffs, !.changed = diffs,
                                 !.artifacts = diffs, !.reads = reads]
<1>1. RunOK(r) /\ r.pc = "finished" /\ Becomes(t, new)
    BY DEF IInv, Answers, At
<1>2. diffs \in SUBSET Docs /\ reads \in [Docs -> Contents] /\ \A d \in diffs : reads[d] # Unread
    BY <1>1 DEF RunOK, RunsOf, Progress
<1>3. diffs = r.diffs /\ reads = r.reads
    OBVIOUS
<1> HIDE DEF r, diffs, reads
<1>4. /\ new \in RunsOf /\ new.pc = "answered" /\ new.reads = reads /\ new.diffs = diffs
      /\ new.changed = diffs /\ new.left = {} /\ new.artifacts = diffs /\ new.status = "none"
      /\ new.sections = {}
    BY <1>2, NewRunIs DEF RunsOf, Pcs
<1> HIDE DEF new
<1>5. InBudget(new) /\ Thorough(new)
    BY <1>4 DEF InBudget, Thorough, Looking
<1>6. Progress(new)
    BY <1>2, <1>4 DEF Progress, Looking
<1>7. RunOK(new) /\ Carries(r, new) /\ r.pc # "answered"
    BY <1>1, <1>3, <1>4, <1>5, <1>6 DEF RunOK, Carries
<1> QED
    BY <1>1, <1>7, BecomesKeeps DEF r

-----------------------------------------------------------------------------
(* Failures.                                                               *)

LEMMA FailsIs ==
    ASSUME IInv, Fails, edits' = edits
    PROVE  edits' \in 0..MaxEdits /\ failures' \in 0..MaxFailures
BY TaskAssumption DEF IInv, Typed, Fails

LEMMA ServerFailsKeeps ==
    ASSUME IInv, NEW t \in Tasks, ServerFails(t)
    PROVE  IInv'
<1> DEFINE r == run[t]
           new == Finished(Erred(r, "more"))
<1>1. RunOK(r) /\ run \in [Tasks -> RunsOf]
    BY DEF IInv
<1>2. run' = [run EXCEPT ![t] = new] /\ files' = files /\ apply' = apply /\ edits' = edits /\ Fails
    BY <1>1 DEF ServerFails
<1>3. edits' \in 0..MaxEdits /\ failures' \in 0..MaxFailures
    BY <1>2, FailsIs
<1>4. r.pc # "answered"
    BY DEF ServerFails, At
<1>5. \/ proposals' = proposals
      \/ r.pc = "proposal" /\ Saves(r.now, t, r.reads[r.now])
    BY DEF ServerFails, At
<1> HIDE DEF r
<1>6. RunOK(new) /\ Carries(r, new)
    BY <1>1, FailedIs
<1> HIDE DEF new
<1>7. CASE proposals' = proposals
    BY <1>2, <1>3, <1>4, <1>6, <1>7, TaskBecomes DEF r
<1>8. CASE r.pc = "proposal" /\ Saves(r.now, t, r.reads[r.now])
    <2>1. r.now \in Docs /\ r.reads[r.now] # Unread
        <3>1. r.now \in r.changed /\ r.changed \in SUBSET Docs
            BY <1>1, <1>8, Proposing, RunIsTyped
        <3> QED
            BY <1>1, <1>8, <3>1, Proposing
    <2>2. new.diffs \subseteq r.diffs \cup {r.now} /\ \A e \in new.diffs : new.reads[e] = r.reads[e]
        BY <1>6 DEF Carries
    <2> QED
        BY <1>2, <1>3, <1>4, <1>6, <1>8, <2>1, <2>2, SaveKeeps DEF r
<1> QED
    BY <1>5, <1>7, <1>8

LEMMA ProviderFailsKeeps ==
    ASSUME IInv, NEW t \in Tasks, ProviderFails(t)
    PROVE  IInv'
<1> DEFINE r == run[t]
           a == Asked(r)
           e == Erred(a, "more")
           s == [e EXCEPT !.down = TRUE]
           refused == [NewRun EXCEPT !.pc = "refused"]
<1>1. /\ RunOK(r) /\ r \in RunsOf /\ r.asked < MaxModelCalls /\ run \in [Tasks -> RunsOf]
    BY DEF IInv, RunOK, ProviderFails, MayAsk
<1>2. /\ files' = files /\ proposals' = proposals /\ apply' = apply /\ edits' = edits /\ Fails
    BY DEF ProviderFails
<1>3. edits' \in 0..MaxEdits /\ failures' \in 0..MaxFailures
    BY <1>2, FailsIs
<1>4. \/ r.pc = "plan" /\ run' = [run EXCEPT ![t] = refused]
      \/ r.pc = "inspect" /\ run' = [run EXCEPT ![t] = AfterInspect(s)]
      \/ r.pc = "analyse" /\ run' = [run EXCEPT ![t] = Goes(s, "report")]
      \/ r.pc = "compare" /\ run' = [run EXCEPT ![t] = ToPropose(s)]
    BY DEF ProviderFails, At
<1> HIDE DEF r
<1>5. s \in RunsOf /\ Same(r, s) /\ s.calls = r.calls
    <2>1. a \in RunsOf /\ Same(r, a) /\ a.calls = r.calls
        BY <1>1, AskedIs
    <2> HIDE DEF a
    <2>2. e \in RunsOf /\ Same(a, e) /\ e.calls = a.calls
        BY <2>1, ErredIs
    <2> HIDE DEF e
    <2>3. s \in RunsOf /\ Same(e, s) /\ s.calls = e.calls
        BY <2>2 DEF RunsOf, Same
    <2> HIDE DEF s
    <2> QED
        BY <2>1, <2>2, <2>3, SameIsSame
<1> HIDE DEF s
<1>6. CASE r.pc = "plan" /\ run' = [run EXCEPT ![t] = refused]
    <2>1. RunOK(refused) /\ Carries(r, refused)
        <3>1. /\ refused \in RunsOf /\ refused.pc = "refused" /\ refused.sections = {} /\ refused.changed = {}
              /\ refused.left = {} /\ refused.diffs = {} /\ refused.artifacts = {} /\ refused.status = "none"
            BY NewRunIs DEF RunsOf, Pcs
        <3> HIDE DEF refused
        <3>2. InBudget(refused) /\ Thorough(refused) /\ Progress(refused)
            BY <3>1 DEF InBudget, Thorough, Progress, Looking
        <3> QED
            BY <3>1, <3>2 DEF RunOK, Carries
    <2> HIDE DEF refused
    <2> QED
        BY <1>2, <1>3, <1>6, <2>1, TaskBecomes DEF r
<1>7. CASE r.pc = "inspect" /\ run' = [run EXCEPT ![t] = AfterInspect(s)]
    <2> DEFINE new == AfterInspect(s)
    <2>1. /\ new \in RunsOf /\ Same(s, new) /\ new.calls = s.calls /\ new.pc \in {"names", "analyse"}
          /\ new.pc = "analyse" => new.workflow # "docs_update"
        BY <1>5, AfterInspectIs
    <2> HIDE DEF new
    <2>2. /\ r.calls <= Room /\ r.diffs = {} /\ r.left = {}
          /\ \A d \in r.sections \cup r.changed : r.reads[d] # Unread
        BY <1>1, <1>7 DEF RunOK, InBudget, Progress, Looking
    <2>3. Same(r, new)
        BY <1>5, <2>1, SameIsSame
    <2>4. /\ new.diffs = {} /\ new.left = {} /\ new.status = r.status /\ new.calls <= Room
          /\ \A d \in new.sections \cup new.changed : new.reads[d] # Unread
        BY <1>5, <2>1, <2>2, <2>3 DEF Same
    <2>5. r.pc \in Looking /\ new.pc \in Looking
        BY <1>7, <2>1 DEF Looking
    <2>6. RunOK(new) /\ Carries(r, new)
        BY <1>1, <2>1, <2>4, <2>5, LooksOn
    <2> QED
        BY <1>2, <1>3, <1>7, <2>6, TaskBecomes DEF r, new
<1>8. CASE r.pc = "analyse" /\ run' = [run EXCEPT ![t] = Goes(s, "report")]
    <2>1. RunOK(Goes(s, "report")) /\ Carries(r, Goes(s, "report"))
        BY <1>5, <1>8, ToReport DEF At, r
    <2> QED
        BY <1>2, <1>3, <1>8, <2>1, TaskBecomes DEF r
<1>9. CASE r.pc = "compare" /\ run' = [run EXCEPT ![t] = ToPropose(s)]
    <2>1. RunOK(ToPropose(s)) /\ Carries(r, ToPropose(s))
        BY <1>1, <1>5, <1>9, ToProposeIs DEF Looking
    <2> QED
        BY <1>2, <1>3, <1>9, <2>1, TaskBecomes DEF r
<1> QED
    BY <1>4, <1>6, <1>7, <1>8, <1>9

-----------------------------------------------------------------------------
(* Applying a proposal, and what others do.                                *)

LEMMA RunsStay ==
    ASSUME IInv, run' = run, proposals' = proposals
    PROVE  (\A t \in Tasks : RunOK(run[t]) /\ ListedOK(run[t], t))'
<1>1. \A t \in Tasks : RunOK(run'[t])
    BY DEF IInv
<1>2. \A t \in Tasks : ListedOK(run[t], t)'
    BY DEF IInv, ListedOK
<1>3. \A t \in Tasks : RunOK(run[t])'
    BY <1>1 DEF RunOK, RunsOf, InBudget, Progress, Thorough, Spared
<1> QED
    BY <1>2, <1>3

LEMMA ApplyingKeeps ==
    ASSUME IInv, NEW new, ApplyOK(new), Applying(new)
    PROVE  IInv'
<1>1. /\ files' = files /\ proposals' = proposals /\ run' = run /\ edits' = edits /\ failures' = failures
      /\ apply' = new
    BY DEF Applying
<1>2. ApplyOK(apply')
    BY <1>1
<1>3. ApplyOK(apply)'
    BY <1>1, <1>2 DEF ApplyOK
<1>4. (\A t \in Tasks : RunOK(run[t]) /\ ListedOK(run[t], t))'
    BY <1>1, RunsStay
<1> QED
    BY <1>1, <1>3, <1>4 DEF IInv, Typed

LEMMA NothingApplies == ApplyOK(NoApply)
BY DEF ApplyOK

LEMMA AsksToApplyKeeps ==
    ASSUME IInv, NEW t \in Tasks, NEW d \in Docs, AsksToApply(t, d)
    PROVE  IInv'
<1> DEFINE onto == run[t].reads[d]
           new == [step |-> "read", doc |-> d, expected |-> onto, task |-> t]
<1>1. RunOK(run[t]) /\ run[t].pc = "answered" /\ d \in run[t].diffs /\ Applying(new)
    BY DEF IInv, AsksToApply, At
<1>2. onto \in Contents /\ onto # Gone
    BY <1>1 DEF RunOK, RunsOf, Progress, Unread
<1>3. onto = run[t].reads[d]
    OBVIOUS
<1> HIDE DEF onto
<1>4. ApplyOK(new)
    <2>1. new \in [step : {"read"}, doc : Docs, expected : Contents, task : Tasks]
        BY <1>2
    <2>2. new.step = "read" /\ new.doc = d /\ new.expected = onto /\ new.task = t
        OBVIOUS
    <2> HIDE DEF new
    <2> QED
        BY <1>1, <1>2, <1>3, <2>1, <2>2 DEF ApplyOK
<1> QED
    BY <1>1, <1>4, ApplyingKeeps

\* The proposal that is there when the command is carried out.
LEMMA ReadsProposalKeeps ==
    ASSUME IInv, ReadsProposal
    PROVE  IInv'
<1> DEFINE d == apply.doc
           text == proposals[d].text
           onto == proposals[d].base
           new == [step |-> "diff", doc |-> d, expected |-> apply.expected, task |-> apply.task,
                   text |-> text, base |-> onto]
<1>1. apply.step = "read" /\ Applying(new)
    BY DEF ReadsProposal
<1>2. /\ d \in Docs /\ apply.expected \in Contents /\ apply.expected # Gone /\ apply.task \in Tasks
      /\ d \in run[apply.task].diffs /\ run[apply.task].reads[d] = apply.expected
    <2>1. apply # NoApply
        BY <1>1 DEF NoApply
    <2> QED
        BY <1>1, <2>1 DEF IInv, ApplyOK
<1>3. /\ onto # Gone /\ (text = apply.task => onto = apply.expected)
    BY <1>2 DEF IInv, ListedOK
<1>4. text \in Tasks /\ onto \in Contents
    <2>1. proposals[d] \in Proposals
        BY <1>2 DEF IInv, Typed
    <2>2. proposals[d] # NoProposal
        BY <1>3 DEF NoProposal
    <2> QED
        BY <2>1, <2>2 DEF Proposals
<1> HIDE DEF d, text, onto
<1>5. ApplyOK(new)
    <2>1. new \in [step : {"diff", "compare", "replace"}, doc : Docs, expected : Contents, task : Tasks,
                   text : Tasks, base : Contents]
        BY <1>2, <1>4
    <2>2. /\ new.step = "diff" /\ new.expected = apply.expected /\ new.task = apply.task
          /\ new.text = text /\ new.base = onto
        OBVIOUS
    <2> HIDE DEF new
    <2> QED
        BY <1>2, <1>3, <2>1, <2>2 DEF ApplyOK
<1> QED
    BY <1>1, <1>5, ApplyingKeeps

\* A command that goes on keeps what it says.
LEMMA GoesOnIsOK ==
    ASSUME IInv, apply.step \in {"diff", "compare"}, NEW step \in {"compare", "replace"},
           step = "replace" => files[apply.doc] = apply.expected
    PROVE  ApplyOK([apply EXCEPT !.step = step])
<1> DEFINE Later == [step : {"diff", "compare", "replace"}, doc : Docs, expected : Contents, task : Tasks,
                     text : Tasks, base : Contents]
           new == [apply EXCEPT !.step = step]
<1>1. apply # NoApply /\ ApplyOK(apply)
    BY DEF NoApply, IInv
<1>2. apply \in Later /\ apply.expected # Gone /\ (apply.text = apply.task => apply.base = apply.expected)
    BY <1>1 DEF ApplyOK
<1>3. /\ new \in Later /\ new.step = step /\ new.doc = apply.doc /\ new.expected = apply.expected
      /\ new.task = apply.task /\ new.text = apply.text /\ new.base = apply.base
    BY <1>2
<1> HIDE DEF new
<1>4. ApplyOK(new)
    BY <1>2, <1>3 DEF ApplyOK
<1> QED
    BY <1>4 DEF new

LEMMA ShowsDiffKeeps ==
    ASSUME IInv, ShowsDiff
    PROVE  IInv'
<1>1. apply.step = "diff" /\ (Applying([apply EXCEPT !.step = "compare"]) \/ Applying(NoApply))
    BY DEF ShowsDiff
<1>2. ApplyOK([apply EXCEPT !.step = "compare"])
    BY <1>1, GoesOnIsOK
<1> QED
    BY <1>1, <1>2, NothingApplies, ApplyingKeeps

\* write() goes on to replace the very content that the command names.
LEMMA ComparesAgainKeeps ==
    ASSUME IInv, ComparesAgain
    PROVE  IInv'
<1> DEFINE refusal == Refusal(apply.doc, apply.expected, TRUE)
<1>1. /\ apply.step = "compare"
      /\ Applying(IF refusal = "none" THEN [apply EXCEPT !.step = "replace"] ELSE NoApply)
    BY DEF ComparesAgain
<1>2. apply.expected # Gone
    <2>1. apply # NoApply /\ ApplyOK(apply)
        BY <1>1 DEF NoApply, IInv
    <2> QED
        BY <2>1 DEF ApplyOK
<1>3. refusal = "none" => files[apply.doc] = apply.expected
    BY <1>2 DEF Refusal, NoHash, Hash
<1> HIDE DEF refusal
<1>4. CASE refusal = "none"
    <2>1. ApplyOK([apply EXCEPT !.step = "replace"])
        BY <1>1, <1>3, <1>4, GoesOnIsOK
    <2> QED
        BY <1>1, <1>4, <2>1, ApplyingKeeps
<1>5. CASE refusal # "none"
    BY <1>1, <1>5, NothingApplies, ApplyingKeeps
<1> QED
    BY <1>4, <1>5

LEMMA ApplyBreaksOffKeeps ==
    ASSUME IInv, ApplyBreaksOff
    PROVE  IInv'
BY NothingApplies, ApplyingKeeps DEF ApplyBreaksOff

\* What is written is a text with line ends.
LEMMA PayloadIsContent ==
    ASSUME IInv, apply.step = "replace"
    PROVE  apply.doc \in Docs /\ Payload(apply.doc, apply.text) \in Contents
<1>1. apply # NoApply /\ ApplyOK(apply)
    BY DEF NoApply, IInv
<1>2. apply.doc \in Docs /\ apply.text \in Tasks
    BY <1>1 DEF ApplyOK
<1>3. files[apply.doc] \in Contents
    BY <1>2 DEF IInv, Typed
<1>4. apply.text \in Texts
    BY <1>2, TaskAssumption
<1>5. (IF Exists(apply.doc) THEN files[apply.doc].newline ELSE "lf") \in {"lf", "crlf"}
    BY <1>3 DEF Exists, Contents
<1> QED
    BY <1>2, <1>4, <1>5 DEF Payload, Contents

LEMMA ReplacesKeeps ==
    ASSUME IInv, Replaces
    PROVE  IInv'
<1>1. /\ apply.step = "replace" /\ files' = [files EXCEPT ![apply.doc] = Payload(apply.doc, apply.text)]
      /\ apply' = NoApply /\ proposals' = proposals /\ run' = run /\ edits' = edits /\ failures' = failures
    BY DEF Replaces
<1>2. files' \in [Docs -> Contents]
    BY <1>1, PayloadIsContent DEF IInv, Typed
<1>3. Typed'
    BY <1>1, <1>2 DEF IInv, Typed
<1>4. ApplyOK(apply)'
    BY <1>1 DEF ApplyOK
<1>5. (\A t \in Tasks : RunOK(run[t]) /\ ListedOK(run[t], t))'
    BY <1>1, RunsStay
<1> QED
    BY <1>1, <1>3, <1>4, <1>5 DEF IInv

LEMMA EditsKeeps ==
    ASSUME IInv, NEW d \in Docs, Edits(d)
    PROVE  IInv'
<1>1. PICK new \in {Gone} \cup [text : Texts \ (Tasks \cup {Original}), newline : {"lf"}] :
        files' = [files EXCEPT ![d] = new]
    BY DEF Edits
<1>2. /\ edits < MaxEdits /\ edits' = edits + 1 /\ (~EditsMeanwhile => apply.step # "replace")
      /\ proposals' = proposals /\ run' = run /\ apply' = apply /\ failures' = failures
    BY DEF Edits
<1>3. new \in Contents
    BY DEF Contents
<1>4. Typed'
    <2>1. edits' \in 0..MaxEdits
        BY <1>2, TaskAssumption DEF IInv, Typed
    <2>2. files' \in [Docs -> Contents]
        BY <1>1, <1>3 DEF IInv, Typed
    <2> QED
        BY <1>2, <2>1, <2>2 DEF IInv, Typed
<1>5. ApplyOK(apply)'
    <2>1. ApplyOK(apply)
        BY DEF IInv
    <2>2. ~(apply.step = "replace" /\ ~EditsMeanwhile)
        BY <1>2
    <2> QED
        BY <1>2, <2>1, <2>2 DEF ApplyOK
<1>6. (\A t \in Tasks : RunOK(run[t]) /\ ListedOK(run[t], t))'
    BY <1>2, RunsStay
<1> QED
    BY <1>2, <1>4, <1>5, <1>6 DEF IInv

-----------------------------------------------------------------------------
(* The theorems.                                                           *)

LEMMA InitIsOK ==
    ASSUME Init
    PROVE  IInv
<1>1. Typed
    <2>1. files \in [Docs -> Contents]
        BY FilesAssumption DEF Init, FilesInit, Contents
    <2>2. proposals \in [Docs -> Proposals]
        BY DEF Init, FilesInit, Proposals
    <2> QED
        BY <2>1, <2>2, TaskAssumption DEF Init, Typed
<1>2. RunOK(NewRun) /\ NewRun.diffs = {}
    <2>1. InBudget(NewRun) /\ Thorough(NewRun) /\ Progress(NewRun)
        BY NewRunIs DEF InBudget, Thorough, Progress, Looking
    <2> QED
        BY <2>1, NewRunIs DEF RunOK
<1>3. run = [t \in Tasks |-> NewRun] /\ ApplyOK(apply)
    BY NothingApplies DEF Init
<1>4. NewRun \in RunsOf
    BY <1>2 DEF RunOK
<1>5. \A t \in Tasks : RunOK(run[t]) /\ ListedOK(run[t], t)
    BY <1>2, <1>3 DEF ListedOK
<1> QED
    BY <1>1, <1>3, <1>4, <1>5 DEF IInv

LEMMA TaskStepKeeps ==
    ASSUME IInv, NEW t \in Tasks, TaskStep(t)
    PROVE  IInv'
<1>1. CASE Plans(t) \/ PlanLimit(t) \/ Looks(t) \/ (\E d \in Docs : ReadsDoc(t, d))
    BY <1>1, PlansKeeps, PlanLimitKeeps, LooksKeeps, ReadsDocKeeps
<1>2. CASE Round(t) \/ RoundEnds(t) \/ Inspected(t) \/ InspectLimit(t)
    BY <1>2, RoundKeeps, RoundEndsKeeps, InspectingEnds
<1>3. CASE Analyses(t) \/ NamesSearched(t) \/ NamesLimit(t)
    BY <1>3, AnalysesKeeps, NamesEndKeeps DEF NamesSearched, NamesLimit
<1>4. CASE (\E d \in Docs : Compares(t, d)) \/ Compared(t) \/ CompareLimit(t)
    BY <1>4, ComparesKeeps, ComparedKeeps
<1>5. CASE (\E d \in Docs : Diffs(t, d)) \/ ProposeLimit(t) \/ Proposed(t)
    BY <1>5, DiffsKeeps, ProposeLimitKeeps, ProposedKeeps
<1>6. CASE SavesProposal(t) \/ ProposalNotSaved(t) \/ SavesLast(t) \/ LastNotSaved(t) \/ Answers(t)
    BY <1>6, SavesProposalKeeps, ProposalNotSavedKeeps, SavesLastKeeps, LastNotSavedKeeps, AnswersKeeps
<1> QED
    BY <1>1, <1>2, <1>3, <1>4, <1>5, <1>6 DEF TaskStep

LEMMA NextKeeps ==
    ASSUME IInv, [Next]_vars
    PROVE  IInv'
<1>1. ASSUME NEW t \in Tasks, Begins(t) \/ TaskStep(t) \/ ServerFails(t) \/ ProviderFails(t)
      PROVE  IInv'
    BY <1>1, BeginsKeeps, TaskStepKeeps, ServerFailsKeeps, ProviderFailsKeeps
<1>2. ASSUME NEW t \in Tasks, NEW d \in Docs, AsksToApply(t, d)
      PROVE  IInv'
    BY <1>2, AsksToApplyKeeps
<1>3. CASE ReadsProposal \/ ShowsDiff \/ ComparesAgain \/ Replaces \/ ApplyBreaksOff
    BY <1>3, ReadsProposalKeeps, ShowsDiffKeeps, ComparesAgainKeeps, ReplacesKeeps, ApplyBreaksOffKeeps
<1>4. ASSUME NEW d \in Docs, Edits(d)
      PROVE  IInv'
    BY <1>4, EditsKeeps
<1>5. CASE UNCHANGED vars
    <2>1. ApplyOK(apply)'
        <3>1. ApplyOK(apply)
            BY DEF IInv
        <3> QED
            BY <1>5, <3>1 DEF vars, ApplyOK
    <2> QED
        BY <1>5, <2>1, RunsStay DEF vars, IInv, Typed
<1> QED
    BY <1>1, <1>2, <1>3, <1>4, <1>5 DEF Next

LEMMA Always == FairSpec => []IInv
BY InitIsOK, NextKeeps, PTL DEF FairSpec, Spec

\* For any number of tasks that overlap as they like, whatever fails and
\* whatever others do to the files meanwhile: a completed task left nothing
\* out, the calls held back for saving are enough for two documents, and what
\* a task lists has a proposal (_docs, _finish).
THEOREM TheResultIsTrue == FairSpec => []ResultIsTrue
<1>1. ASSUME IInv PROVE TypeOK
    <2>1. \A d \in Docs : proposals[d] = NoProposal \/ proposals[d] \in [text : Tasks, base : Contents]
        BY <1>1 DEF IInv, Typed, Proposals
    <2>2. ASSUME NEW t \in Tasks
          PROVE  LET r == run[t] IN
            /\ r.calls \in 0..MaxToolCalls /\ r.asked \in 0..MaxModelCalls /\ r.rounds \in 0..MaxRounds
            /\ r.reads \in [Docs -> Contents]
            /\ r.diffs \cup r.left \subseteq r.changed
            /\ r.errors \in {"none", "limit", "more"}
            /\ r.artifacts \subseteq Docs \cup {"patch", "review", "report"}
            /\ r.now \in Docs \cup {"none"}
            /\ r.status \in {"none", "unsupported", "failed", "partial", "completed"}
        BY <1>1 DEF IInv, RunOK, RunsOf, Progress
    <2> QED
        BY <1>1, <2>1, <2>2 DEF IInv, Typed, TypeOK
<1>2. ASSUME IInv PROVE CompletedIsWhole
    <2>1. ASSUME NEW t \in Tasks, Documented(t), run[t].status = "completed" PROVE Whole(t)
        <3>1. RunOK(run[t])
            BY <1>2 DEF IInv
        <3>2. Spared(run[t]) /\ Thorough(run[t])
            BY <2>1, <3>1 DEF RunOK, Spared
        <3> QED
            BY <2>1, <3>2 DEF Thorough, Documented, At, Whole
    <2> QED
        BY <2>1 DEF CompletedIsWhole
<1>3. ASSUME IInv PROVE ReserveIsEnough
    <2>1. ASSUME NEW t \in Tasks, Documented(t), run[t].errors = "limit", Cardinality(run[t].changed) <= 2
          PROVE  Whole(t)
        <3>1. Spared(run[t]) /\ Thorough(run[t])
            BY <1>3, <2>1 DEF IInv, RunOK, Spared
        <3> QED
            BY <2>1, <3>1 DEF Thorough, Documented, At, Whole
    <2> QED
        BY <2>1 DEF ReserveIsEnough
<1>4. ASSUME IInv PROVE DiffsHaveProposals
    <2>1. ASSUME NEW t \in Tasks, NEW d \in run[t].diffs
          PROVE  d \in run[t].artifacts /\ run[t].reads[d] # Unread /\ proposals[d] # NoProposal
        <3>1. Progress(run[t]) /\ ListedOK(run[t], t)
            BY <1>4 DEF IInv, RunOK
        <3>2. proposals[d].base # Gone
            BY <3>1 DEF ListedOK
        <3> QED
            BY <3>1, <3>2 DEF Progress, NoProposal
    <2> QED
        BY <2>1 DEF DiffsHaveProposals
<1>5. IInv => ResultIsTrue
    BY <1>1, <1>2, <1>3, <1>4 DEF ResultIsTrue
<1> QED
    BY <1>5, Always, PTL

\* While nobody changes a file between the comparison and the replacement
\* (which write does without a lock), a document only changes by an edit, or by
\* a proposal that replaces the very content its command names, and keeps the
\* line ends (apply_proposal, ProjectFiles.write).
THEOREM AppliedAsConfirmed ==
    ASSUME ~EditsMeanwhile
    PROVE  FairSpec => AppliedToWhatItWasMadeFor
<1> DEFINE Left == \A d \in Docs : files'[d] # files[d] /\ edits' = edits =>
                /\ apply.step = "replace" /\ apply.doc = d
                /\ files[d] = apply.expected
                /\ apply.text = apply.task => files[d] = apply.base
                /\ files'[d] = [files[d] EXCEPT !.text = apply.text]
<1>1. ASSUME IInv, Next
      PROVE  files' = files \/ edits' # edits \/ Replaces
    <2>1. ASSUME NEW t \in Tasks, Begins(t) \/ TaskStep(t) \/ ServerFails(t) \/ ProviderFails(t)
          PROVE  files' = files
        <3>1. CASE Begins(t)
            BY <3>1 DEF Begins, Becomes
        <3>2. CASE TaskStep(t)
            BY <3>2 DEF TaskStep, Becomes, Plans, PlanLimit, Looks, ReadsDoc, Round, RoundEnds, Inspected, InspectLimit,
                Analyses, NamesSearched, NamesLimit, NamesEnd, Compares, Compared, CompareLimit, Diffs,
                ProposeLimit, Proposed, SavesProposal, ProposalNotSaved, SavesLast, LastNotSaved, Answers
        <3>3. CASE ServerFails(t) \/ ProviderFails(t)
            BY <3>3 DEF ServerFails, ProviderFails
        <3> QED
            BY <2>1, <3>1, <3>2, <3>3
    <2>2. ASSUME NEW t \in Tasks, NEW d \in Docs, AsksToApply(t, d)
          PROVE  files' = files
        BY <2>2 DEF AsksToApply, Applying
    <2>3. CASE ReadsProposal \/ ShowsDiff \/ ComparesAgain \/ ApplyBreaksOff
        BY <2>3 DEF ReadsProposal, ShowsDiff, ComparesAgain, ApplyBreaksOff, Applying
    <2>4. ASSUME NEW d \in Docs, Edits(d)
          PROVE  edits' # edits
        BY <1>1, <2>4, TaskAssumption DEF Edits, IInv, Typed
    <2> QED
        BY <1>1, <2>1, <2>2, <2>3, <2>4 DEF Next
<1>2. ASSUME IInv, Replaces
      PROVE  Left
    <2> DEFINE d == apply.doc
    <2>1. apply.step = "replace" /\ files' = [files EXCEPT ![d] = Payload(d, apply.text)]
        BY <1>2 DEF Replaces
    <2>2. apply # NoApply /\ ApplyOK(apply)
        BY <1>2, <2>1 DEF NoApply, IInv
    <2>3. /\ d \in Docs /\ apply.expected # Gone /\ files[d] = apply.expected
          /\ apply.text = apply.task => apply.base = apply.expected
        BY <2>1, <2>2 DEF ApplyOK
    <2>4. files \in [Docs -> Contents] /\ files[d] \in [text : Texts, newline : {"lf", "crlf"}]
        BY <1>2, <2>3 DEF IInv, Typed, Contents
    <2>5. Payload(d, apply.text) = [files[d] EXCEPT !.text = apply.text]
        BY <2>3, <2>4 DEF Payload, Exists
    <2>6. /\ files'[d] = Payload(d, apply.text)
          /\ \A e \in Docs : e # d => files'[e] = files[e]
        BY <2>1, <2>3, <2>4
    <2> QED
        BY <2>1, <2>3, <2>5, <2>6
<1>3. IInv /\ [Next]_vars => [Left]_vars
    BY <1>1, <1>2 DEF vars
<1>4. FairSpec => [][Left]_vars
    BY <1>3, Always, PTL DEF FairSpec, Spec
<1> QED
    BY <1>4 DEF AppliedToWhatItWasMadeFor

-----------------------------------------------------------------------------
(* Naturals.                                                               *)

\* A set of naturals that is not empty has a least element.
LEMMA LeastNatural ==
    ASSUME NEW T, T \subseteq Nat, T # {}
    PROVE  \E x \in T : \A y \in T : x <= y
<1> DEFINE R == {ss \in Nat \X Nat : ss[1] < ss[2]}
<1>1. IsWellFoundedOn(R, Nat)
    BY NatLessThanWellFounded DEF OpToRel
<1>2. \E x \in T : \A y \in T : ~ (<<y, x>> \in R)
    <2> HIDE DEF R
    <2> QED
        BY <1>1, WFMin, Zenon
<1>3. PICK x \in T : \A y \in T : ~ (<<y, x>> \in R)
    BY <1>2
<1>4. ASSUME NEW y \in T PROVE x <= y
    <2>1. x \in Nat /\ y \in Nat
        OBVIOUS
    <2>2. y < x => <<y, x>> \in R
        BY <2>1
    <2> QED
        BY <1>3, <2>1, <2>2
<1> QED
    BY <1>4

\* Induction up to n, of a set.
LEMMA InductionTo ==
    ASSUME NEW n \in Nat, NEW S, 0 \in S, \A i \in 0..n : i < n /\ i \in S => i + 1 \in S
    PROVE  \A i \in 0..n : i \in S
<1> DEFINE T == {i \in 0..n : i \notin S}
<1>1. SUFFICES ASSUME T # {} PROVE FALSE
    OBVIOUS
<1>2. T \subseteq Nat
    OBVIOUS
<1>3. PICK x \in T : \A y \in T : x <= y
    <2> HIDE DEF T
    <2> QED
        BY <1>1, <1>2, LeastNatural
<1>4. x # 0 /\ x - 1 \in 0..n /\ x - 1 < n /\ ~(x <= x - 1)
    OBVIOUS
<1>5. x - 1 \in S
    BY <1>3, <1>4
<1>6. (x - 1) + 1 \in S /\ (x - 1) + 1 = x
    BY <1>4, <1>5
<1> QED
    BY <1>6
-----------------------------------------------------------------------------
(* Sequences, whose parts the provers are not to look into.                *)
Join(a, b) == a \o b
Part(seq, m, n) == SubSeq(seq, m, n)
Put(seq, e) == Append(seq, e)

LEMMA PutIs ==
    ASSUME NEW S, NEW seq \in Seq(S), NEW e \in S
    PROVE  /\ Put(seq, e) \in Seq(S) /\ Len(Put(seq, e)) = Len(seq) + 1
           /\ Put(seq, e)[Len(seq) + 1] = e
           /\ \A i \in 1..Len(seq) : Put(seq, e)[i] = seq[i]
    BY AppendProperties DEF Put

LEMMA PartIs ==
    ASSUME NEW S, NEW seq \in Seq(S), NEW m \in Int, NEW n \in Int, 1 <= m, m <= n + 1, n <= Len(seq)
    PROVE  /\ Part(seq, m, n) \in Seq(S) /\ Len(Part(seq, m, n)) = n - m + 1
           /\ \A i \in 1..(n - m + 1) : Part(seq, m, n)[i] = seq[m + i - 1]
<1>1. \A i \in m..n : seq[i] \in S
    <2>1. \A i \in m..n : i \in 1..Len(seq)
        OBVIOUS
    <2> QED
        BY <2>1, ElementOfSeq
<1>2. /\ SubSeq(seq, m, n) \in Seq(S)
      /\ Len(SubSeq(seq, m, n)) = IF m <= n THEN n - m + 1 ELSE 0
      /\ \A i \in 1..(n - m + 1) : SubSeq(seq, m, n)[i] = seq[m + i - 1]
    BY <1>1, SubSeqProperties
<1>3. Len(SubSeq(seq, m, n)) = n - m + 1
    BY <1>2
<1> QED
    BY <1>2, <1>3 DEF Part

LEMMA PartMore ==
    ASSUME NEW S, NEW seq \in Seq(S), NEW m \in Nat, NEW n \in Nat, 1 <= m, m <= n + 1, n < Len(seq)
    PROVE  Part(seq, m, n + 1) = Put(Part(seq, m, n), seq[n + 1])
<1>1. m \in Int /\ n \in Int /\ n + 1 \in Int /\ m <= (n + 1) + 1 /\ n + 1 <= Len(seq) /\ n <= Len(seq)
    OBVIOUS
<1>2. seq[n + 1] \in S
    OBVIOUS
<1>9. PICK a, b, e : a = Part(seq, m, n) /\ b = Part(seq, m, n + 1) /\ e = seq[n + 1]
    OBVIOUS
<1>12. /\ Part(seq, m, n) \in Seq(S) /\ Len(Part(seq, m, n)) = n - m + 1
       /\ \A i \in 1..(n - m + 1) : Part(seq, m, n)[i] = seq[m + i - 1]
    BY <1>1, PartIs
<1>13. /\ Part(seq, m, n + 1) \in Seq(S) /\ Len(Part(seq, m, n + 1)) = n + 1 - m + 1
       /\ \A i \in 1..(n + 1 - m + 1) : Part(seq, m, n + 1)[i] = seq[m + i - 1]
    BY <1>1, PartIs
<1>3. a \in Seq(S) /\ Len(a) = n - m + 1 /\ \A i \in 1..(n - m + 1) : a[i] = seq[m + i - 1]
    BY <1>9, <1>12, Zenon
<1>4. b \in Seq(S) /\ Len(b) = n + 1 - m + 1 /\ \A i \in 1..(n + 1 - m + 1) : b[i] = seq[m + i - 1]
    BY <1>9, <1>13, Zenon
<1>14. a \in Seq(S)
    BY <1>3
<1>10. PICK c : c = Put(a, e)
    OBVIOUS
<1>11. e \in S
    BY <1>2, <1>9
<1>5. c \in Seq(S) /\ Len(c) = Len(a) + 1 /\ c[Len(a) + 1] = e /\ \A i \in 1..Len(a) : c[i] = a[i]
    BY <1>10, <1>11, <1>14, PutIs, Zenon
<1>6. Len(b) = Len(c)
    BY <1>3, <1>4, <1>5
<1>7. ASSUME NEW i \in 1..Len(b) PROVE b[i] = c[i]
    <2>1. i \in 1..(n + 1 - m + 1)
        BY <1>4
    <2>2. b[i] = seq[m + i - 1]
        BY <1>4, <2>1
    <2>3. CASE i = n - m + 2
        <3>1. i = Len(a) + 1 /\ m + i - 1 = n + 1
            BY <1>1, <1>3, <2>3
        <3> QED
            BY <1>5, <1>9, <2>2, <3>1
    <2>4. CASE i # n - m + 2
        <3>1. i \in 1..(n - m + 1) /\ i \in 1..Len(a)
            BY <1>1, <1>3, <2>1, <2>4
        <3>2. c[i] = a[i] /\ a[i] = seq[m + i - 1]
            BY <1>3, <1>5, <3>1
        <3> QED
            BY <2>2, <3>2
    <2> QED
        BY <2>3, <2>4
<1>8. b = c
    BY <1>4, <1>5, <1>6, <1>7, SeqEqual
<1> QED
    BY <1>8, <1>9, <1>10

LEMMA PartEmpty ==
    ASSUME NEW seq, NEW m \in Int, NEW n \in Int, n < m PROVE Part(seq, m, n) = <<>>
    BY SubSeqEmpty DEF Part

LEMMA PartWhole ==
    ASSUME NEW S, NEW seq \in Seq(S) PROVE Part(seq, 1, Len(seq)) = seq
    BY SubSeqFull DEF Part

LEMMA PartsJoin ==
    ASSUME NEW S, NEW seq \in Seq(S), NEW m \in Nat, NEW k \in Nat, NEW n \in Nat,
           1 <= m, m <= k + 1, k <= n, n <= Len(seq)
    PROVE  Join(Part(seq, m, k), Part(seq, k + 1, n)) = Part(seq, m, n)
<1>1. m \in 1..(Len(seq) + 1) /\ k \in (m - 1)..Len(seq) /\ n \in k..Len(seq)
    OBVIOUS
<1> QED
    BY <1>1, ConcatAdjacentSubSeq, Zenon DEF Join, Part

LEMMA JoinIs ==
    ASSUME NEW S, NEW a \in Seq(S), NEW b \in Seq(S)
    PROVE  /\ Join(a, b) \in Seq(S) /\ Len(Join(a, b)) = Len(a) + Len(b)
           /\ \A i \in 1..Len(a) : Join(a, b)[i] = a[i]
           /\ \A i \in 1..Len(b) : Join(a, b)[Len(a) + i] = b[i]
<1>1. /\ a \o b \in Seq(S) /\ Len(a \o b) = Len(a) + Len(b)
      /\ \A i \in 1..(Len(a) + Len(b)) : (a \o b)[i] = IF i <= Len(a) THEN a[i] ELSE b[i - Len(a)]
    BY ConcatProperties
<1>2. Join(a, b) = a \o b
    BY Zenon DEF Join
<1> DEFINE j == Join(a, b)
<1>3. /\ j \in Seq(S) /\ Len(j) = Len(a) + Len(b)
      /\ \A i \in 1..(Len(a) + Len(b)) : j[i] = IF i <= Len(a) THEN a[i] ELSE b[i - Len(a)]
    BY <1>1, <1>2, Zenon
<1> HIDE DEF j
<1>4. Len(a) \in Nat /\ Len(b) \in Nat
    OBVIOUS
<1>5. \A i \in 1..Len(a) : j[i] = a[i]
    BY <1>3, <1>4
<1>6. \A i \in 1..Len(b) : j[Len(a) + i] = b[i]
    BY <1>3, <1>4
<1> QED
    BY <1>3, <1>5, <1>6 DEF j

\* What is joined, or a part, by its places.
Joined(c, a, b) ==
    /\ Len(c) = Len(a) + Len(b)
    /\ \A i \in 1..Len(a) : c[i] = a[i]
    /\ \A i \in 1..Len(b) : c[Len(a) + i] = b[i]
PartOf(p, seq, m, n) ==
    Len(p) = n - m + 1 /\ \A i \in 1..(n - m + 1) : p[i] = seq[m + i - 1]

LEMMA JoinIsJoined ==
    ASSUME NEW S, NEW a \in Seq(S), NEW b \in Seq(S)
    PROVE  Join(a, b) \in Seq(S) /\ Joined(Join(a, b), a, b)
<1>2. Join(a, b) \in Seq(S) /\ Len(Join(a, b)) = Len(a) + Len(b)
    BY JoinIs
<1>3. \A i \in 1..Len(a) : Join(a, b)[i] = a[i]
    BY JoinIs
<1>4. \A i \in 1..Len(b) : Join(a, b)[Len(a) + i] = b[i]
    BY JoinIs
<1> QED
    BY <1>2, <1>3, <1>4, Zenon DEF Joined

LEMMA PartIsPart ==
    ASSUME NEW S, NEW seq \in Seq(S), NEW m \in Int, NEW n \in Int, 1 <= m, m <= n + 1, n <= Len(seq)
    PROVE  Part(seq, m, n) \in Seq(S) /\ PartOf(Part(seq, m, n), seq, m, n)
    BY PartIs DEF PartOf

LEMMA JoinRegrouped ==
    ASSUME NEW S, NEW a \in Seq(S), NEW b \in Seq(S), NEW c \in Seq(S)
    PROVE  Join(Join(a, b), c) = Join(a, Join(b, c))
    BY ConcatAssociative DEF Join

LEMMA JoinNothing ==
    ASSUME NEW S, NEW a \in Seq(S) PROVE Join(a, <<>>) = a /\ Join(<<>>, a) = a
    BY ConcatEmptySeq DEF Join

LEMMA JoinPut ==
    ASSUME NEW S, NEW a \in Seq(S), NEW b \in Seq(S), NEW e \in S
    PROVE  Join(a, Put(b, e)) = Put(Join(a, b), e)
<1>1. <<e>> \in Seq(S) /\ a \o b \in Seq(S)
    BY ConcatProperties
<1>2. Append(b, e) = b \o <<e>>
    BY AppendIsConcat
<1>3. Append(a \o b, e) = (a \o b) \o <<e>>
    BY <1>1, AppendIsConcat
<1>4. (a \o b) \o <<e>> = a \o (b \o <<e>>)
    BY <1>1, ConcatAssociative
<1> QED
    BY <1>2, <1>3, <1>4, Zenon DEF Join, Put

-----------------------------------------------------------------------------
(* A recursion over 1..n.                                                  *)
Runs(g, n, S, first, step) ==
    /\ g \in [0..n -> S] /\ g[0] = first
    /\ \A k \in 1..n : g[k] = step[<<g[k - 1], k>>]

\* There is one.
LEMMA OneRuns ==
    ASSUME NEW n \in Nat, NEW S, NEW first \in S, NEW step \in [S \X (1..n) -> S]
    PROVE  \E g : Runs(g, n, S, first, step)
<1> DEFINE T == {i \in 0..n : \E g : Runs(g, i, S, first, step)}
<1>1. 0 \in T
    <2> DEFINE g == [j \in 0..0 |-> first]
    <2>1. g \in [0..0 -> S] /\ g[0] = first
        OBVIOUS
    <2> HIDE DEF g
    <2>2. Runs(g, 0, S, first, step)
        BY <2>1 DEF Runs
    <2> QED
        BY <2>2
<1>2. ASSUME NEW i \in 0..n, i < n, i \in T PROVE i + 1 \in T
    <2>1. PICK g : Runs(g, i, S, first, step)
        BY <1>2
    <2>2. i \in Nat /\ i + 1 \in 1..n /\ i + 1 \in 0..n /\ i \in 0..i
        BY <1>2
    <2> DEFINE last == step[<<g[i], i + 1>>]
               more == [j \in 0..(i + 1) |-> IF j = i + 1 THEN last ELSE g[j]]
    <2>3. g[i] \in S /\ last \in S
        BY <2>1, <2>2 DEF Runs
    <2>4. more \in [0..(i + 1) -> S]
        <3>1. ASSUME NEW j \in 0..(i + 1) PROVE (IF j = i + 1 THEN last ELSE g[j]) \in S
            <4>1. j # i + 1 => j \in 0..i
                BY <2>2
            <4> QED
                BY <2>1, <2>3, <4>1 DEF Runs
        <3> QED
            BY <3>1
    <2>5. more[0] = first
        <3>1. 0 \in 0..(i + 1) /\ 0 # i + 1
            BY <2>2
        <3> QED
            BY <2>1, <3>1 DEF Runs
    <2>6. ASSUME NEW j \in 1..(i + 1) PROVE more[j] = step[<<more[j - 1], j>>]
        <3>1. j \in 0..(i + 1) /\ j - 1 \in 0..(i + 1) /\ j - 1 # i + 1
            BY <2>2
        <3>2. CASE j = i + 1
            <4>1. j - 1 = i
                BY <2>2, <3>2
            <4> QED
                BY <2>2, <3>1, <3>2, <4>1
        <3>3. CASE j # i + 1
            <4>1. j \in 1..i
                BY <2>2, <3>3
            <4>2. g[j] = step[<<g[j - 1], j>>]
                BY <2>1, <4>1 DEF Runs
            <4> QED
                BY <3>1, <3>3, <4>2
        <3> QED
            BY <3>2, <3>3
    <2> HIDE DEF more
    <2>7. Runs(more, i + 1, S, first, step)
        BY <2>4, <2>5, <2>6 DEF Runs
    <2> QED
        BY <2>2, <2>7
<1>3. \A i \in 0..n : i \in T
    <2> HIDE DEF T
    <2> QED
        BY <1>1, <1>2, InductionTo
<1>4. n \in 0..n
    OBVIOUS
<1> QED
    BY <1>3, <1>4
-----------------------------------------------------------------------------
(* Having.                                                                 *)
Tags == {" ", "-", "+"}
StepsOf(L) == [tag : Tags, line : L]

Taking(lines, step, tags) == IF step.tag \in tags THEN Put(lines, step.line) ELSE lines

LEMMA TakingIs ==
    ASSUME NEW L, NEW lines \in Seq(L), NEW step \in StepsOf(L), NEW tags
    PROVE  Taking(lines, step, tags) \in Seq(L)
    BY PutIs DEF Taking, StepsOf

HavingRuns(g, steps, tags, L) ==
    /\ g \in [0..Len(steps) -> Seq(L)] /\ g[0] = <<>>
    /\ \A k \in 1..Len(steps) : g[k] = Taking(g[k - 1], steps[k], tags)
    /\ Having(steps, tags) = g[Len(steps)]

LEMMA HavingIsRun ==
    ASSUME NEW L, NEW steps \in Seq(StepsOf(L)), NEW tags
    PROVE  \E g : HavingRuns(g, steps, tags, L)
<1>1. PICK n : n = Len(steps) /\ n \in Nat
    OBVIOUS
<1> DEFINE step == [x \in Seq(L) \X (1..n) |-> Taking(x[1], steps[x[2]], tags)]
           Fits(g) ==
        g = [k \in 0..n |-> CASE k = 0 -> <<>>
                              [] k > 0 /\ steps[k].tag \in tags -> Append(g[k - 1], steps[k].line)
                              [] OTHER -> g[k - 1]]
           having == CHOOSE g : Fits(g)
<1>2. Having(steps, tags) = having[n]
    BY <1>1 DEF Having
<1>3. (\A k \in 1..n : steps[k] \in StepsOf(L)) /\ <<>> \in Seq(L)
    BY <1>1
<1>4. step \in [Seq(L) \X (1..n) -> Seq(L)]
    <2>1. ASSUME NEW x \in Seq(L) \X (1..n) PROVE Taking(x[1], steps[x[2]], tags) \in Seq(L)
        <3>1. x[1] \in Seq(L) /\ steps[x[2]] \in StepsOf(L)
            BY <1>3
        <3> QED
            BY <3>1, TakingIs
    <2> QED
        BY <2>1
<1>5. \A a \in Seq(L), k \in 1..n : step[<<a, k>>] = Taking(a, steps[k], tags)
    OBVIOUS
<1> HIDE DEF step
<1>6. PICK g : Runs(g, n, Seq(L), <<>>, step)
    BY <1>1, <1>3, <1>4, OneRuns
<1>7. /\ g \in [0..n -> Seq(L)] /\ g[0] = <<>>
      /\ \A k \in 1..n : g[k] = Taking(g[k - 1], steps[k], tags)
    <2>1. ASSUME NEW k \in 1..n PROVE g[k] = Taking(g[k - 1], steps[k], tags)
        <3>1. k - 1 \in 0..n
            BY <1>1
        <3>2. g[k - 1] \in Seq(L)
            BY <1>6, <3>1 DEF Runs
        <3> QED
            BY <1>5, <1>6, <3>2 DEF Runs
    <2> QED
        BY <1>6, <2>1 DEF Runs
<1>8. Fits(g)
    <2>1. ASSUME NEW k \in 0..n
          PROVE  g[k] = CASE k = 0 -> <<>>
                          [] k > 0 /\ steps[k].tag \in tags -> Append(g[k - 1], steps[k].line)
                          [] OTHER -> g[k - 1]
        <3>1. k = 0 \/ (k \in 1..n /\ k # 0 /\ k > 0)
            BY <1>1
        <3>2. CASE k = 0
            BY <1>7, <3>2
        <3>3. CASE k \in 1..n /\ k # 0 /\ k > 0
            <4>1. g[k] = IF steps[k].tag \in tags THEN Append(g[k - 1], steps[k].line) ELSE g[k - 1]
                BY <1>7, <3>3, Zenon DEF Taking, Put
            <4> QED
                BY <3>3, <4>1
        <3> QED
            BY <3>1, <3>2, <3>3
    <2>2. g = [k \in 0..n |-> g[k]]
        BY <1>7
    <2> QED
        BY <2>1, <2>2
<1>9. Fits(having)
    <2> HIDE DEF Fits
    <2> QED
        BY <1>8
<1> HIDE DEF having
<1>10. having[0] = <<>> /\ \A k \in 1..n : having[k] = Taking(having[k - 1], steps[k], tags)
    <2>1. \A k \in 0..n : having[k] = CASE k = 0 -> <<>>
                              [] k > 0 /\ steps[k].tag \in tags -> Append(having[k - 1], steps[k].line)
                              [] OTHER -> having[k - 1]
        BY <1>9
    <2>2. 0 \in 0..n /\ \A k \in 1..n : k \in 0..n /\ k # 0 /\ k > 0
        BY <1>1
    <2>3. having[0] = <<>>
        BY <2>1, <2>2
    <2>4. ASSUME NEW k \in 1..n PROVE having[k] = Taking(having[k - 1], steps[k], tags)
        <3>1. having[k] = IF steps[k].tag \in tags THEN Append(having[k - 1], steps[k].line) ELSE having[k - 1]
            BY <2>1, <2>2
        <3> QED
            BY <3>1, Zenon DEF Taking, Put
    <2> QED
        BY <2>3, <2>4
<1> HIDE DEF Fits
<1> DEFINE T == {i \in 0..n : having[i] = g[i]}
<1>11. 0 \in T
    BY <1>1, <1>7, <1>10
<1>12. ASSUME NEW i \in 0..n, i < n, i \in T PROVE i + 1 \in T
    <2>1. i + 1 \in 1..n /\ i + 1 \in 0..n /\ (i + 1) - 1 = i
        BY <1>1, <1>12
    <2>2. having[i + 1] = Taking(having[i], steps[i + 1], tags) /\ g[i + 1] = Taking(g[i], steps[i + 1], tags)
        BY <1>7, <1>10, <2>1
    <2> QED
        BY <1>12, <2>1, <2>2
<1>13. \A i \in 0..n : i \in T
    <2> HIDE DEF T
    <2> QED
        BY <1>1, <1>11, <1>12, InductionTo
<1>14. having[n] = g[n]
    BY <1>1, <1>13
<1> QED
    BY <1>1, <1>2, <1>7, <1>14 DEF HavingRuns

LEMMA HavingIs ==
    ASSUME NEW L, NEW steps \in Seq(StepsOf(L)), NEW tags
    PROVE  /\ Having(steps, tags) \in Seq(L)
           /\ Len(steps) = 0 => Having(steps, tags) = <<>>
<1>1. PICK g : HavingRuns(g, steps, tags, L)
    BY HavingIsRun
<1>2. Len(steps) \in 0..Len(steps)
    OBVIOUS
<1> QED
    BY <1>1, <1>2 DEF HavingRuns

LEMMA HavingPut ==
    ASSUME NEW L, NEW steps \in Seq(StepsOf(L)), NEW s \in StepsOf(L), NEW tags
    PROVE  Having(Put(steps, s), tags) = Taking(Having(steps, tags), s, tags)
<1>1. PICK n : n = Len(steps) /\ n \in Nat
    OBVIOUS
<1>2. PICK more, S : more = Put(steps, s) /\ S = StepsOf(L)
    OBVIOUS
<1>15. steps \in Seq(S) /\ s \in S
    BY <1>2
<1>16. more \in Seq(S) /\ Len(more) = n + 1 /\ more[n + 1] = s /\ \A i \in 1..n : more[i] = steps[i]
    <2>2. /\ Put(steps, s) \in Seq(S) /\ Len(Put(steps, s)) = Len(steps) + 1
          /\ Put(steps, s)[Len(steps) + 1] = s
          /\ \A i \in 1..Len(steps) : Put(steps, s)[i] = steps[i]
        BY <1>15, PutIs
    <2>1. /\ more \in Seq(S) /\ Len(more) = Len(steps) + 1 /\ more[Len(steps) + 1] = s
          /\ \A i \in 1..Len(steps) : more[i] = steps[i]
        BY <1>2, <2>2, Zenon
    <2> QED
        BY <1>1, <2>1
<1>3. /\ more \in Seq(StepsOf(L)) /\ Len(more) = n + 1 /\ more[n + 1] = s
      /\ \A i \in 1..n : more[i] = steps[i]
    BY <1>2, <1>16
<1>4. PICK g : HavingRuns(g, steps, tags, L)
    BY HavingIsRun
<1>5. PICK h : HavingRuns(h, more, tags, L)
    BY <1>3, HavingIsRun
<1> DEFINE T == {i \in 0..n : h[i] = g[i]}
<1>6. 0 \in T
    BY <1>1, <1>4, <1>5 DEF HavingRuns
<1>7. ASSUME NEW i \in 0..n, i < n, i \in T PROVE i + 1 \in T
    <2>1. i + 1 \in 1..n /\ i + 1 \in 1..(n + 1) /\ i + 1 \in 0..n /\ (i + 1) - 1 = i
        BY <1>1, <1>7
    <2>2. h[i + 1] = Taking(h[i], more[i + 1], tags) /\ g[i + 1] = Taking(g[i], steps[i + 1], tags)
        BY <1>1, <1>3, <1>4, <1>5, <2>1 DEF HavingRuns
    <2> QED
        BY <1>3, <1>7, <2>1, <2>2
<1>8. \A i \in 0..n : i \in T
    <2> HIDE DEF T
    <2> QED
        BY <1>1, <1>6, <1>7, InductionTo
<1>9. h[n] = g[n] /\ n + 1 \in 1..(n + 1) /\ (n + 1) - 1 = n
    BY <1>1, <1>8
<1>10. h[n + 1] = Taking(h[n], more[n + 1], tags)
    BY <1>3, <1>5, <1>9 DEF HavingRuns
<1> QED
    BY <1>1, <1>2, <1>3, <1>4, <1>5, <1>9, <1>10 DEF HavingRuns

\* What is had of two stretches, one behind the other.
LEMMA HavingJoin ==
    ASSUME NEW L, NEW a \in Seq(StepsOf(L)), NEW b \in Seq(StepsOf(L)), NEW tags
    PROVE  Having(Join(a, b), tags) = Join(Having(a, tags), Having(b, tags))
<1>1. PICK n : n = Len(b) /\ n \in Nat
    OBVIOUS
<1> DEFINE had == Having(a, tags)
           T == {i \in 0..n : Having(Join(a, Part(b, 1, i)), tags) = Join(had, Having(Part(b, 1, i), tags))}
<1>2. had \in Seq(L)
    BY HavingIs
<1>3. 0 \in T
    <2>1. Part(b, 1, 0) = <<>>
        BY PartEmpty
    <2>2. <<>> \in Seq(StepsOf(L)) /\ Len(<<>>) = 0
        OBVIOUS
    <2>3. Having(<<>>, tags) = <<>>
        BY <2>2, HavingIs
    <2>4. Join(a, <<>>) = a /\ Join(had, <<>>) = had
        BY <1>2, JoinNothing
    <2>5. 0 \in 0..n
        BY <1>1
    <2> QED
        BY <2>1, <2>3, <2>4, <2>5
<1>4. ASSUME NEW i \in 0..n, i < n, i \in T PROVE i + 1 \in T
    <2>1. i + 1 \in 0..n /\ i \in Nat /\ i + 1 \in 1..Len(b) /\ 1 <= i + 1 /\ i < Len(b) /\ i <= Len(b)
        BY <1>1, <1>4
    <2>2. PICK p, s : p = Part(b, 1, i) /\ s = b[i + 1]
        OBVIOUS
    <2>3. p \in Seq(StepsOf(L)) /\ s \in StepsOf(L)
        <3>1. i \in Int /\ 1 \in Int /\ 1 <= i + 1
            BY <2>1
        <3>2. Part(b, 1, i) \in Seq(StepsOf(L))
            BY <2>1, <3>1, PartIs
        <3>3. b[i + 1] \in StepsOf(L)
            BY <2>1
        <3> QED
            BY <2>2, <3>2, <3>3
    <2>4. Part(b, 1, i + 1) = Put(p, s)
        BY <2>1, <2>2, PartMore
    <2>5. PICK q : q = Having(p, tags)
        OBVIOUS
    <2>6. q \in Seq(L) /\ Having(Put(p, s), tags) = Taking(q, s, tags)
        BY <2>3, <2>5, HavingIs, HavingPut
    <2>7. Join(a, Put(p, s)) = Put(Join(a, p), s) /\ Join(a, p) \in Seq(StepsOf(L))
        BY <2>3, JoinPut, JoinIs
    <2>8. Having(Put(Join(a, p), s), tags) = Taking(Having(Join(a, p), tags), s, tags)
        BY <2>3, <2>7, HavingPut
    <2>9. Having(Join(a, p), tags) = Join(had, q)
        BY <1>4, <2>2, <2>5
    <2>10. Taking(Join(had, q), s, tags) = Join(had, Taking(q, s, tags))
        <3>1. s.line \in L
            BY <2>3 DEF StepsOf
        <3>2. Join(had, Put(q, s.line)) = Put(Join(had, q), s.line)
            BY <1>2, <2>6, <3>1, JoinPut
        <3> QED
            BY <3>2 DEF Taking
    <2> HIDE DEF had
    <2> QED
        BY <2>1, <2>4, <2>6, <2>7, <2>8, <2>9, <2>10
<1>5. \A i \in 0..n : i \in T
    <2> HIDE DEF T
    <2> QED
        BY <1>1, <1>3, <1>4, InductionTo
<1>6. n \in 0..n /\ Part(b, 1, n) = b
    BY <1>1, PartWhole
<1> QED
    BY <1>5, <1>6

\* What a text's own lines are, kept one by one.
Unchanged == " "
Kept(lines) == [i \in 1..Len(lines) |-> [tag |-> Unchanged, line |-> lines[i]]]

LEMMA KeptIs ==
    ASSUME NEW L, NEW lines \in Seq(L)
    PROVE  Kept(lines) \in Seq(StepsOf(L)) /\ Len(Kept(lines)) = Len(lines)
    <1>1. Unchanged \in Tags
    BY Zenon DEF Unchanged, Tags
<1> QED
    BY <1>1 DEF Kept, StepsOf

LEMMA HavingKept ==
    ASSUME NEW L, NEW lines \in Seq(L), NEW tags, Unchanged \in tags
    PROVE  Having(Kept(lines), tags) = lines
<1>1. PICK n : n = Len(lines) /\ n \in Nat
    OBVIOUS
<1>2. PICK steps : steps = Kept(lines)
    OBVIOUS
<1>3. steps \in Seq(StepsOf(L)) /\ Len(steps) = n /\ \A i \in 1..n : steps[i] = [tag |-> Unchanged, line |-> lines[i]]
    BY <1>1, <1>2, KeptIs DEF Kept
<1> DEFINE T == {i \in 0..n : Having(Part(steps, 1, i), tags) = Part(lines, 1, i)}
<1>4. 0 \in T
    <2>1. Part(steps, 1, 0) = <<>> /\ Part(lines, 1, 0) = <<>> /\ 0 \in 0..n
        BY <1>1, PartEmpty
    <2>2. <<>> \in Seq(StepsOf(L)) /\ Len(<<>>) = 0
        OBVIOUS
    <2> QED
        BY <2>1, <2>2, HavingIs
<1>5. ASSUME NEW i \in 0..n, i < n, i \in T PROVE i + 1 \in T
    <2>1. i + 1 \in 0..n /\ i \in Nat /\ 1 <= i + 1 /\ i < n /\ i <= n /\ i + 1 \in 1..n
        BY <1>1, <1>5
    <2>2. PICK p, s : p = Part(steps, 1, i) /\ s = steps[i + 1]
        OBVIOUS
    <2>3. p \in Seq(StepsOf(L)) /\ s \in StepsOf(L)
        BY <1>3, <2>1, <2>2, PartIs
    <2>4. Part(steps, 1, i + 1) = Put(p, s)
        <3>1. PICK S : S = StepsOf(L)
            OBVIOUS
        <3>2. steps \in Seq(S) /\ 1 \in Nat /\ 1 <= 1 /\ i < Len(steps)
            BY <1>3, <2>1, <3>1
        <3>3. Part(steps, 1, i + 1) = Put(Part(steps, 1, i), steps[i + 1])
            BY <2>1, <3>2, PartMore
        <3> QED
            BY <2>2, <3>3, Zenon
    <2>5. Having(Put(p, s), tags) = Taking(Having(p, tags), s, tags)
        BY <2>3, HavingPut
    <2>6. s.tag = Unchanged /\ s.line = lines[i + 1]
        BY <1>3, <2>1, <2>2
    <2>7. Part(lines, 1, i + 1) = Put(Part(lines, 1, i), lines[i + 1])
        BY <1>1, <2>1, PartMore
    <2> QED
        BY <1>5, <2>1, <2>2, <2>4, <2>5, <2>6, <2>7 DEF Taking
<1>6. \A i \in 0..n : i \in T
    <2> HIDE DEF T
    <2> QED
        BY <1>1, <1>4, <1>5, InductionTo
<1>7. n \in 0..n /\ Part(steps, 1, n) = steps /\ Part(lines, 1, n) = lines
    BY <1>1, <1>3, PartWhole
<1> QED
    BY <1>2, <1>6, <1>7
-----------------------------------------------------------------------------
(* The script, and the text its diff is applied to.                        *)
OldTags == {" ", "-"}
NewTags == {" ", "+"}

LEMMA TagsAre ==
    /\ Unchanged \in Tags /\ Unchanged \in OldTags /\ Unchanged \in NewTags
    /\ \A steps : OldOf(steps) = Having(steps, OldTags) /\ NewOf(steps) = Having(steps, NewTags)
    BY Zenon DEF Unchanged, Tags, OldTags, NewTags, OldOf, NewOf

LEMMA SidesAre ==
    ASSUME NEW L, NEW steps \in Seq(StepsOf(L))
    PROVE  OldOf(steps) \in Seq(L) /\ NewOf(steps) \in Seq(L)
<1>1. Having(steps, OldTags) \in Seq(L) /\ Having(steps, NewTags) \in Seq(L)
    BY HavingIs
<1> QED
    BY <1>1, TagsAre, Zenon

LEMMA SidesJoin ==
    ASSUME NEW L, NEW a \in Seq(StepsOf(L)), NEW b \in Seq(StepsOf(L))
    PROVE  /\ OldOf(Join(a, b)) = Join(OldOf(a), OldOf(b))
           /\ NewOf(Join(a, b)) = Join(NewOf(a), NewOf(b))
<1>1. /\ Having(Join(a, b), OldTags) = Join(Having(a, OldTags), Having(b, OldTags))
      /\ Having(Join(a, b), NewTags) = Join(Having(a, NewTags), Having(b, NewTags))
    BY HavingJoin
<1> QED
    BY <1>1, TagsAre, Zenon

LEMMA SidesKept ==
    ASSUME NEW L, NEW lines \in Seq(L)
    PROVE  OldOf(Kept(lines)) = lines /\ NewOf(Kept(lines)) = lines
<1>1. Having(Kept(lines), OldTags) = lines /\ Having(Kept(lines), NewTags) = lines
    BY TagsAre, HavingKept
<1> QED
    BY <1>1, TagsAre, Zenon

\* The lines of both texts are those of L.
Of(L) == script \in Seq(StepsOf(L)) /\ base \in Seq(L)

\* A step that is not shown is not a change.
LEMMA UnshownIsKept ==
    ASSUME NEW L, Of(L), NEW k \in 1..Len(script), ~Shown(k)
    PROVE  script[k].tag = Unchanged
<1>1. Around \in Nat
    BY PatchAssumption
<1>2. k <= k + Around
    BY <1>1
<1>3. k \in DOMAIN script
    BY DEF Of
<1> QED
    BY <1>2, <1>3, Zenon DEF Shown, Unchanged

LEMMA OldLineIs ==
    ASSUME NEW L, Of(L), NEW m \in Nat, NEW k \in Nat, m <= k, k <= Len(script)
    PROVE  /\ OldLine(m) \in Nat /\ OldLine(k) \in Nat /\ OldLine(0) = 0
           /\ Part(script, m + 1, k) \in Seq(StepsOf(L))
           /\ Len(OldOf(Part(script, m + 1, k))) \in Nat
           /\ OldLine(k) = OldLine(m) + Len(OldOf(Part(script, m + 1, k)))
           /\ OldLine(m) <= OldLine(k)
<1>1. script \in Seq(StepsOf(L))
    BY DEF Of
<1>2. 1 \in Nat /\ 1 <= m + 1 /\ m <= Len(script) /\ m + 1 \in Int /\ 0 \in Int /\ 0 <= Len(script) /\ 1 <= k + 1
    BY <1>1
<1>3. \A j : OldLine(j) = Len(OldOf(Part(script, 1, j)))
    BY DEF OldLine, Part
<1>4. PICK S : S = StepsOf(L)
    OBVIOUS
<1>5. PICK a, b : a = Part(script, 1, m) /\ b = Part(script, m + 1, k)
    OBVIOUS
<1>6. script \in Seq(S)
    BY <1>1, <1>4
<1>7. Part(script, 1, m) \in Seq(S) /\ Part(script, m + 1, k) \in Seq(S)
    BY <1>2, <1>6, PartIs
<1>8. a \in Seq(StepsOf(L)) /\ b \in Seq(StepsOf(L))
    BY <1>4, <1>5, <1>7, Zenon
<1>9. Join(Part(script, 1, m), Part(script, m + 1, k)) = Part(script, 1, k)
    BY <1>2, <1>6, PartsJoin
<1>10. PICK olda, oldb : olda = OldOf(a) /\ oldb = OldOf(b)
    OBVIOUS
<1>11. OldOf(a) \in Seq(L) /\ OldOf(b) \in Seq(L) /\ OldOf(Join(a, b)) = Join(OldOf(a), OldOf(b))
    BY <1>8, SidesAre, SidesJoin
<1>12. olda \in Seq(L) /\ oldb \in Seq(L)
    BY <1>10, <1>11, Zenon
<1>13. Len(Join(olda, oldb)) = Len(olda) + Len(oldb) /\ Len(olda) \in Nat /\ Len(oldb) \in Nat
    <2>1. Len(Join(olda, oldb)) = Len(olda) + Len(oldb)
        BY <1>12, JoinIs, Zenon
    <2> QED
        BY <1>12, <2>1
<1>14. OldLine(m) = Len(olda) /\ OldLine(k) = Len(Join(olda, oldb))
    BY <1>3, <1>5, <1>9, <1>10, <1>11, Zenon
<1>15. Part(script, 1, 0) = <<>>
    BY PartEmpty
<1>16. <<>> \in Seq(StepsOf(L)) /\ Len(<<>>) = 0
    OBVIOUS
<1>17. Having(<<>>, OldTags) = <<>>
    BY <1>16, HavingIs
<1>18. OldLine(0) = 0
    <2>1. OldLine(0) = Len(<<>>)
        BY <1>3, <1>15, <1>17, TagsAre, Zenon
    <2> QED
        BY <1>16, <2>1
<1>19. Len(OldOf(Part(script, m + 1, k))) = Len(oldb)
    BY <1>5, <1>10, Zenon
<1>20. Part(script, m + 1, k) \in Seq(StepsOf(L))
    BY <1>5, <1>8, Zenon
<1> HIDE DEF OldLine
<1>21. OldLine(m) \in Nat /\ OldLine(k) \in Nat /\ OldLine(k) = OldLine(m) + Len(oldb) /\ OldLine(m) <= OldLine(k)
    BY <1>13, <1>14
<1> QED
    BY <1>13, <1>18, <1>19, <1>20, <1>21, Zenon

\* Between two steps nothing is shown.
Quiet(m, k) == \A j \in (m + 1)..k : ~Shown(j)

LEMMA QuietLines ==
    ASSUME NEW L, Of(L), NEW m \in Nat, NEW k \in Nat, m <= k, k <= Len(script), Quiet(m, k)
    PROVE  OldLine(k) = OldLine(m) + (k - m)
<1>1. script \in Seq(StepsOf(L))
    BY DEF Of
<1>2. PICK part : part = Part(script, m + 1, k)
    OBVIOUS
<1>3. PICK S : S = StepsOf(L)
    OBVIOUS
<1>4. script \in Seq(S) /\ m + 1 \in Int /\ k \in Int /\ 1 <= m + 1 /\ m + 1 <= k + 1
    BY <1>1, <1>3
<1>5. /\ Part(script, m + 1, k) \in Seq(S) /\ Len(Part(script, m + 1, k)) = k - (m + 1) + 1
      /\ \A i \in 1..(k - (m + 1) + 1) : Part(script, m + 1, k)[i] = script[m + 1 + i - 1]
    BY <1>4, PartIs
<1>6. /\ part \in Seq(StepsOf(L)) /\ Len(part) = k - (m + 1) + 1
      /\ \A i \in 1..(k - (m + 1) + 1) : part[i] = script[m + 1 + i - 1]
    BY <1>2, <1>3, <1>5, Zenon
<1> DEFINE lines == [i \in 1..(k - m) |-> script[m + i].line]
<1>7. ASSUME NEW i \in 1..(k - m)
      PROVE  script[m + i].tag = Unchanged /\ script[m + i].line \in L /\ part[i] = script[m + i]
             /\ script[m + i] \in StepsOf(L)
    <2>1. m + i \in 1..Len(script) /\ m + i \in (m + 1)..k /\ m + 1 + i - 1 = m + i
          /\ i \in 1..(k - (m + 1) + 1)
        OBVIOUS
    <2>2. ~Shown(m + i)
        BY <2>1 DEF Quiet
    <2>3. script[m + i].tag = Unchanged
        BY <2>1, <2>2, UnshownIsKept
    <2>4. script[m + i] \in StepsOf(L)
        BY <1>1, <2>1
    <2>5. script[m + i].line \in L
        BY <2>4 DEF StepsOf
    <2> QED
        BY <1>6, <2>1, <2>3, <2>4, <2>5
<1>8. lines \in Seq(L) /\ Len(lines) = k - m /\ \A i \in 1..(k - m) : lines[i] = script[m + i].line
    BY <1>7
<1> HIDE DEF lines
<1>9. part = Kept(lines)
    <2>1. PICK kept : kept = Kept(lines)
        OBVIOUS
    <2>2. /\ kept \in Seq(StepsOf(L)) /\ Len(kept) = k - m
          /\ \A i \in 1..(k - m) : kept[i] = [tag |-> Unchanged, line |-> lines[i]]
        BY <1>8, <2>1, KeptIs DEF Kept
    <2>3. ASSUME NEW i \in 1..Len(part) PROVE part[i] = kept[i]
        <3>1. i \in 1..(k - m)
            BY <1>6
        <3>2. part[i] = script[m + i] /\ script[m + i] = [tag |-> script[m + i].tag, line |-> script[m + i].line]
            BY <1>7, <3>1 DEF StepsOf
        <3> QED
            BY <1>7, <1>8, <2>2, <3>1, <3>2
    <2>4. Len(part) = Len(kept)
        BY <1>6, <2>2
    <2>5. PICK T : T = StepsOf(L)
        OBVIOUS
    <2>6. part \in Seq(T) /\ kept \in Seq(T)
        BY <1>6, <2>2, <2>5
    <2>7. part = kept
        BY <2>3, <2>4, <2>6, SeqEqual
    <2> QED
        BY <2>1, <2>7
<1>10. OldOf(part) = lines
    BY <1>8, <1>9, SidesKept
<1>11. OldLine(k) = OldLine(m) + Len(OldOf(Part(script, m + 1, k)))
    BY OldLineIs
<1> QED
    BY <1>2, <1>8, <1>10, <1>11

(***************************************************************************)
(* The script as the text it is applied to has it, up to a step (the       *)
(* property's own ElsewhereTo): between what is shown it is that text's    *)
(* next lines, and where it is shown it is the script.                     *)
(***************************************************************************)
LEMMA ElsewhereIs ==
    ASSUME NEW L, Of(L), NEW m \in Nat, m <= Len(script), OldLine(m) <= Len(base)
    PROVE  /\ ElsewhereTo(m) \in Seq(StepsOf(L)) /\ Len(ElsewhereTo(m)) = m
           /\ \A k \in 1..m : ElsewhereTo(m)[k] =
                IF Shown(k) THEN script[k] ELSE [tag |-> script[k].tag, line |-> base[OldLine(k)]]
<1> DEFINE Step(k) == IF Shown(k) THEN script[k] ELSE [tag |-> script[k].tag, line |-> base[OldLine(k)]]
<1>1. script \in Seq(StepsOf(L)) /\ base \in Seq(L)
    BY DEF Of
<1>2. ASSUME NEW k \in 1..m PROVE Step(k) \in StepsOf(L)
    <2>1. k \in 1..Len(script) /\ k - 1 \in Nat /\ k \in Nat /\ k - 1 <= k /\ k <= Len(script) /\ k <= m
        BY <1>1
    <2>2. script[k] \in StepsOf(L)
        BY <1>1, <2>1
    <2>3. CASE ~Shown(k)
        <3>1. Quiet(k - 1, k)
            BY <2>1, <2>3 DEF Quiet
        <3>2. OldLine(k) = OldLine(k - 1) + (k - (k - 1)) /\ OldLine(k - 1) \in Nat
            BY <2>1, <3>1, QuietLines, OldLineIs
        <3>3. OldLine(k) <= OldLine(m) /\ OldLine(k) \in Nat /\ OldLine(m) \in Nat
            BY <2>1, OldLineIs
        <3>4. PICK o : o = OldLine(k)
            OBVIOUS
        <3>5. o \in 1..Len(base)
            BY <1>1, <2>1, <3>2, <3>3, <3>4
        <3>6. base[o] \in L
            BY <1>1, <3>5
        <3>7. script[k].tag \in Tags
            BY <2>2 DEF StepsOf
        <3> QED
            BY <2>3, <3>4, <3>6, <3>7 DEF StepsOf
    <2> QED
        BY <2>2, <2>3
<1>3. ElsewhereTo(m) = [k \in 1..m |-> Step(k)]
    BY DEF ElsewhereTo
<1> HIDE DEF Step
<1>4. ElsewhereTo(m) \in Seq(StepsOf(L)) /\ Len(ElsewhereTo(m)) = m /\ \A k \in 1..m : ElsewhereTo(m)[k] = Step(k)
    BY <1>2, <1>3
<1> QED
    BY <1>4 DEF Step

LEMMA QuietElsewhere ==
    ASSUME NEW L, Of(L), NEW m \in Nat, NEW k \in Nat, m <= k, k <= Len(script), Quiet(m, k),
           OldLine(k) <= Len(base)
    PROVE  ElsewhereTo(k) = Join(ElsewhereTo(m), Kept(Part(base, OldLine(m) + 1, OldLine(k))))
<1>1. PICK o, S : o = OldLine(m) /\ S = StepsOf(L)
    OBVIOUS
<1>2. o \in Nat /\ OldLine(k) = o + (k - m) /\ o <= Len(base) /\ o + (k - m) <= Len(base)
    <2>1. OldLine(m) \in Nat /\ OldLine(k) = OldLine(m) + (k - m)
        BY OldLineIs, QuietLines
    <2>2. Len(base) \in Nat
        BY DEF Of
    <2> QED
        BY <1>1, <2>1, <2>2
<1>3. PICK lines : lines = Part(base, o + 1, o + (k - m))
    OBVIOUS
<1>4. /\ base \in Seq(L) /\ o + 1 \in Int /\ o + (k - m) \in Int /\ 1 <= o + 1 /\ o + 1 <= o + (k - m) + 1
      /\ o + (k - m) <= Len(base)
    BY <1>2 DEF Of
<1>5. PICK p, q : p = o + 1 /\ q = o + (k - m)
    OBVIOUS
<1>6. lines \in Seq(L) /\ PartOf(lines, base, p, q)
    <2>1. p \in Int /\ q \in Int /\ 1 <= p /\ p <= q + 1 /\ q <= Len(base) /\ base \in Seq(L)
        BY <1>4, <1>5
    <2>2. Part(base, p, q) \in Seq(L) /\ PartOf(Part(base, p, q), base, p, q)
        BY <2>1, PartIsPart
    <2> QED
        BY <1>3, <1>5, <2>2, Zenon
<1>7. lines \in Seq(L) /\ Len(lines) = k - m /\ \A i \in 1..(k - m) : lines[i] = base[o + i]
    <2>1. /\ lines \in Seq(L) /\ Len(lines) = q - p + 1
          /\ \A i \in 1..(q - p + 1) : lines[i] = base[p + i - 1]
        BY <1>6 DEF PartOf
    <2>2. q - p + 1 = k - m /\ \A i \in 1..(k - m) : p + i - 1 = o + i
        BY <1>2, <1>5
    <2> QED
        BY <2>1, <2>2
<1>8. PICK kept, all, first : kept = Kept(lines) /\ all = ElsewhereTo(k) /\ first = ElsewhereTo(m)
    OBVIOUS
<1>9. kept \in Seq(S) /\ Len(kept) = k - m /\ \A i \in 1..(k - m) : kept[i] = [tag |-> Unchanged, line |-> lines[i]]
    <2>1. Kept(lines) \in Seq(StepsOf(L)) /\ Len(Kept(lines)) = Len(lines)
        BY <1>7, KeptIs
    <2>2. \A i \in 1..(k - m) : Kept(lines)[i] = [tag |-> Unchanged, line |-> lines[i]]
        BY <1>7 DEF Kept
    <2> QED
        BY <1>1, <1>7, <1>8, <2>1, <2>2, Zenon
<1>10. /\ ElsewhereTo(k) \in Seq(StepsOf(L)) /\ Len(ElsewhereTo(k)) = k
       /\ \A j \in 1..k : ElsewhereTo(k)[j] =
                IF Shown(j) THEN script[j] ELSE [tag |-> script[j].tag, line |-> base[OldLine(j)]]
    BY ElsewhereIs
<1>11. /\ ElsewhereTo(m) \in Seq(StepsOf(L)) /\ Len(ElsewhereTo(m)) = m
       /\ \A j \in 1..m : ElsewhereTo(m)[j] =
                IF Shown(j) THEN script[j] ELSE [tag |-> script[j].tag, line |-> base[OldLine(j)]]
    <2>1. m <= Len(script) /\ OldLine(m) <= Len(base)
        BY <1>1, <1>2 DEF Of
    <2> QED
        BY <2>1, ElsewhereIs
<1>12. all \in Seq(S) /\ Len(all) = k /\ first \in Seq(S) /\ Len(first) = m
    BY <1>1, <1>8, <1>10, <1>11, Zenon
<1>13. PICK both : both = Join(first, kept)
    OBVIOUS
<1>14. first \in Seq(S) /\ kept \in Seq(S)
    BY <1>9, <1>12
<1>15. /\ both \in Seq(S) /\ Len(both) = Len(first) + Len(kept)
       /\ \A i \in 1..Len(first) : both[i] = first[i]
       /\ \A i \in 1..Len(kept) : both[Len(first) + i] = kept[i]
    <2>1. Join(first, kept) \in Seq(S) /\ Joined(Join(first, kept), first, kept)
        BY <1>14, JoinIsJoined
    <2>2. both \in Seq(S) /\ Joined(both, first, kept)
        BY <1>13, <2>1, Zenon
    <2> QED
        BY <2>2 DEF Joined
<1>16. ASSUME NEW j \in 1..k PROVE all[j] = both[j]
    <2>1. CASE j <= m
        <3>1. j \in 1..m
            BY <2>1
        <3>2. all[j] = first[j]
            BY <1>8, <1>10, <1>11, <3>1, Zenon
        <3> QED
            BY <1>12, <1>15, <3>1, <3>2
    <2>2. CASE j > m
        <3>1. PICK i \in 1..(k - m) : j = m + i
            <4>1. j - m \in 1..(k - m) /\ j = m + (j - m)
                BY <2>2
            <4> QED
                BY <4>1, Zenon
        <3>2. ~Shown(j) /\ Quiet(m, j) /\ j \in Nat /\ m <= j /\ j <= Len(script) /\ j \in 1..Len(script)
            BY <2>2 DEF Quiet, Of
        <3>3. OldLine(j) = OldLine(m) + (j - m)
            BY <3>2, QuietLines
        <3>4. OldLine(j) = o + i
            BY <1>1, <1>2, <3>1, <3>3
        <3>5. script[j].tag = Unchanged
            BY <3>2, UnshownIsKept
        <3>6. all[j] = [tag |-> Unchanged, line |-> base[o + i]]
            BY <1>8, <1>10, <3>2, <3>4, <3>5, Zenon
        <3>7. kept[i] = [tag |-> Unchanged, line |-> base[o + i]]
            BY <1>7, <1>9, Zenon
        <3>8. both[j] = kept[i]
            BY <1>9, <1>12, <1>15, <3>1
        <3> QED
            BY <3>6, <3>7, <3>8
    <2> QED
        BY <2>1, <2>2
<1>17. all = both
    <2>1. Len(all) = Len(both) /\ Len(all) = k
        BY <1>9, <1>12, <1>15
    <2> QED
        BY <1>12, <1>15, <1>16, <2>1, SeqEqual
<1> QED
    BY <1>1, <1>2, <1>3, <1>8, <1>13, <1>17, Zenon

Loud(f, l) == \A j \in f..l : Shown(j)

LEMMA LoudElsewhere ==
    ASSUME NEW L, Of(L), NEW m \in Nat, NEW k \in Nat, m <= k, k <= Len(script), Loud(m + 1, k),
           OldLine(k) <= Len(base)
    PROVE  ElsewhereTo(k) = Join(ElsewhereTo(m), Part(script, m + 1, k))
<1>1. PICK S : S = StepsOf(L)
    OBVIOUS
<1>2. OldLine(m) <= Len(base) /\ m <= Len(script)
    <2>1. OldLine(m) \in Nat /\ OldLine(k) \in Nat /\ OldLine(m) <= OldLine(k)
        BY OldLineIs
    <2>2. Len(base) \in Nat /\ Len(script) \in Nat
        BY DEF Of
    <2> QED
        BY <2>1, <2>2
<1>3. /\ ElsewhereTo(k) \in Seq(StepsOf(L)) /\ Len(ElsewhereTo(k)) = k
      /\ \A j \in 1..k : ElsewhereTo(k)[j] =
                IF Shown(j) THEN script[j] ELSE [tag |-> script[j].tag, line |-> base[OldLine(j)]]
    BY ElsewhereIs
<1>4. /\ ElsewhereTo(m) \in Seq(StepsOf(L)) /\ Len(ElsewhereTo(m)) = m
      /\ \A j \in 1..m : ElsewhereTo(m)[j] =
                IF Shown(j) THEN script[j] ELSE [tag |-> script[j].tag, line |-> base[OldLine(j)]]
    BY <1>2, ElsewhereIs
<1>5. script \in Seq(S) /\ m + 1 \in Int /\ k \in Int /\ 1 <= m + 1 /\ m + 1 <= k + 1
    BY <1>1 DEF Of
<1>6. /\ Part(script, m + 1, k) \in Seq(S) /\ Len(Part(script, m + 1, k)) = k - (m + 1) + 1
      /\ \A i \in 1..(k - (m + 1) + 1) : Part(script, m + 1, k)[i] = script[m + 1 + i - 1]
    BY <1>5, PartIs
<1>7. PICK part, all, first : part = Part(script, m + 1, k) /\ all = ElsewhereTo(k) /\ first = ElsewhereTo(m)
    OBVIOUS
<1>8. k - (m + 1) + 1 = k - m /\ \A i \in 1..(k - m) : m + 1 + i - 1 = m + i
    OBVIOUS
<1>9. part \in Seq(S) /\ Len(part) = k - m /\ \A i \in 1..(k - m) : part[i] = script[m + i]
    BY <1>6, <1>7, <1>8, Zenon
<1>10. all \in Seq(S) /\ Len(all) = k /\ first \in Seq(S) /\ Len(first) = m
    BY <1>1, <1>3, <1>4, <1>7, Zenon
<1>11. PICK both : both = Join(first, part)
    OBVIOUS
<1>12. first \in Seq(S) /\ part \in Seq(S)
    BY <1>9, <1>10
<1>13. /\ both \in Seq(S) /\ Len(both) = Len(first) + Len(part)
       /\ \A i \in 1..Len(first) : both[i] = first[i]
       /\ \A i \in 1..Len(part) : both[Len(first) + i] = part[i]
    <2>1. Join(first, part) \in Seq(S) /\ Joined(Join(first, part), first, part)
        BY <1>12, JoinIsJoined
    <2>2. both \in Seq(S) /\ Joined(both, first, part)
        BY <1>11, <2>1, Zenon
    <2> QED
        BY <2>2 DEF Joined
<1>14. ASSUME NEW j \in 1..k PROVE all[j] = both[j]
    <2>1. CASE j <= m
        <3>1. j \in 1..m
            BY <2>1
        <3>2. all[j] = first[j]
            BY <1>3, <1>4, <1>7, <3>1, Zenon
        <3> QED
            BY <1>10, <1>13, <3>1, <3>2
    <2>2. CASE j > m
        <3>1. PICK i \in 1..(k - m) : j = m + i
            <4>1. j - m \in 1..(k - m) /\ j = m + (j - m)
                BY <2>2
            <4> QED
                BY <4>1, Zenon
        <3>2. Shown(j)
            <4>1. j \in (m + 1)..k
                BY <2>2
            <4> QED
                BY <4>1 DEF Loud
        <3>3. all[j] = script[m + i]
            BY <1>3, <1>7, <3>1, <3>2, Zenon
        <3>4. part[i] = script[m + i]
            BY <1>9
        <3>5. both[j] = part[i]
            BY <1>9, <1>10, <1>13, <3>1
        <3> QED
            BY <3>3, <3>4, <3>5
    <2> QED
        BY <2>1, <2>2
<1>15. all = both
    <2>1. Len(all) = Len(both) /\ Len(all) = k
        BY <1>9, <1>10, <1>13
    <2> QED
        BY <1>10, <1>13, <1>14, <2>1, SeqEqual
<1> QED
    BY <1>7, <1>11, <1>15, Zenon

-----------------------------------------------------------------------------
(* How far the text is copied: m steps of the script, as it has them.      *)
UpTo(m) ==
    /\ OldLine(m) <= Len(base)
    /\ Part(base, 1, OldLine(m)) = OldOf(ElsewhereTo(m))

LEMMA QuietCopies ==
    ASSUME NEW L, Of(L), NEW m \in Nat, NEW k \in Nat, m <= k, k <= Len(script), Quiet(m, k),
           UpTo(m), OldLine(k) <= Len(base)
    PROVE  /\ UpTo(k)
           /\ NewOf(ElsewhereTo(k)) =
                Join(NewOf(ElsewhereTo(m)), Part(base, OldLine(m) + 1, OldLine(k)))
<1>1. PICK o, p : o = OldLine(m) /\ p = OldLine(k)
    OBVIOUS
<1>2. o \in Nat /\ p \in Nat /\ o <= p /\ p <= Len(base) /\ o <= Len(base) /\ m <= Len(script)
    <2>1. OldLine(m) \in Nat /\ OldLine(k) \in Nat /\ OldLine(m) <= OldLine(k)
        BY OldLineIs
    <2>2. Len(base) \in Nat /\ Len(script) \in Nat
        BY DEF Of
    <2> QED
        BY <1>1, <2>1, <2>2
<1>3. PICK first, lines : first = ElsewhereTo(m) /\ lines = Part(base, o + 1, p)
    OBVIOUS
<1>4. first \in Seq(StepsOf(L))
    <2>1. OldLine(m) <= Len(base)
        BY <1>1, <1>2
    <2>2. ElsewhereTo(m) \in Seq(StepsOf(L))
        BY <1>2, <2>1, ElsewhereIs
    <2> QED
        BY <1>3, <2>2
<1>5. lines \in Seq(L)
    <2>1. base \in Seq(L) /\ o + 1 \in Int /\ p \in Int /\ 1 <= o + 1 /\ o + 1 <= p + 1
        BY <1>2 DEF Of
    <2>2. Part(base, o + 1, p) \in Seq(L)
        BY <1>2, <2>1, PartIs
    <2> QED
        BY <1>3, <2>2
<1>6. ElsewhereTo(k) = Join(first, Kept(lines))
    BY <1>1, <1>3, QuietElsewhere, Zenon
<1>7. PICK kept : kept = Kept(lines)
    OBVIOUS
<1>8. kept \in Seq(StepsOf(L)) /\ OldOf(kept) = lines /\ NewOf(kept) = lines
    BY <1>5, <1>7, KeptIs, SidesKept
<1>9. OldOf(Join(first, kept)) = Join(OldOf(first), OldOf(kept)) /\ NewOf(Join(first, kept)) = Join(NewOf(first), NewOf(kept))
    BY <1>4, <1>8, SidesJoin
<1>10. Join(Part(base, 1, o), Part(base, o + 1, p)) = Part(base, 1, p)
    <2>1. base \in Seq(L) /\ 1 \in Nat /\ 1 <= 1 /\ 1 <= o + 1
        BY <1>2 DEF Of
    <2> QED
        BY <1>2, <2>1, PartsJoin
<1>11. Part(base, 1, o) = OldOf(first)
    BY <1>1, <1>3, Zenon DEF UpTo
<1>12. OldOf(ElsewhereTo(k)) = Part(base, 1, p)
    BY <1>3, <1>6, <1>7, <1>8, <1>9, <1>10, <1>11, Zenon
<1>13. NewOf(ElsewhereTo(k)) = Join(NewOf(first), lines)
    BY <1>6, <1>7, <1>8, <1>9, Zenon
<1> QED
    BY <1>1, <1>3, <1>12, <1>13, Zenon DEF UpTo

LEMMA LoudCopies ==
    ASSUME NEW L, Of(L), NEW m \in Nat, NEW k \in Nat, m <= k, k <= Len(script), Loud(m + 1, k),
           UpTo(m), OldLine(k) <= Len(base),
           Part(base, OldLine(m) + 1, OldLine(k)) = OldOf(Part(script, m + 1, k))
    PROVE  /\ UpTo(k)
           /\ NewOf(ElsewhereTo(k)) = Join(NewOf(ElsewhereTo(m)), NewOf(Part(script, m + 1, k)))
<1>1. PICK o, p : o = OldLine(m) /\ p = OldLine(k)
    OBVIOUS
<1>2. o \in Nat /\ p \in Nat /\ o <= p /\ p <= Len(base) /\ o <= Len(base) /\ m <= Len(script)
    <2>1. OldLine(m) \in Nat /\ OldLine(k) \in Nat /\ OldLine(m) <= OldLine(k)
        BY OldLineIs
    <2>2. Len(base) \in Nat /\ Len(script) \in Nat
        BY DEF Of
    <2> QED
        BY <1>1, <2>1, <2>2
<1>3. PICK first, part : first = ElsewhereTo(m) /\ part = Part(script, m + 1, k)
    OBVIOUS
<1>4. first \in Seq(StepsOf(L))
    <2>1. OldLine(m) <= Len(base)
        BY <1>1, <1>2
    <2>2. ElsewhereTo(m) \in Seq(StepsOf(L))
        BY <1>2, <2>1, ElsewhereIs
    <2> QED
        BY <1>3, <2>2
<1>5. part \in Seq(StepsOf(L))
    <2>1. Part(script, m + 1, k) \in Seq(StepsOf(L))
        BY OldLineIs
    <2> QED
        BY <1>3, <2>1
<1>6. ElsewhereTo(k) = Join(first, part)
    BY <1>3, LoudElsewhere, Zenon
<1>7. OldOf(Join(first, part)) = Join(OldOf(first), OldOf(part)) /\ NewOf(Join(first, part)) = Join(NewOf(first), NewOf(part))
    BY <1>4, <1>5, SidesJoin
<1>8. Join(Part(base, 1, o), Part(base, o + 1, p)) = Part(base, 1, p)
    <2>1. base \in Seq(L) /\ 1 \in Nat /\ 1 <= 1 /\ 1 <= o + 1
        BY <1>2 DEF Of
    <2> QED
        BY <1>2, <2>1, PartsJoin
<1>9. Part(base, 1, o) = OldOf(first) /\ Part(base, o + 1, p) = OldOf(part)
    BY <1>1, <1>3, Zenon DEF UpTo
<1> QED
    BY <1>1, <1>3, <1>6, <1>7, <1>8, <1>9, Zenon DEF UpTo

\* Nothing is copied yet.
LEMMA NothingCopied ==
    ASSUME NEW L, Of(L)
    PROVE  UpTo(0) /\ NewOf(ElsewhereTo(0)) = <<>>
<1>1. OldLine(0) = 0 /\ 0 \in Nat /\ 0 <= Len(script) /\ 0 <= Len(base) /\ OldLine(0) <= Len(base)
    <2>1. 0 \in Nat /\ 0 <= Len(script) /\ 0 <= Len(base) /\ 0 <= 0
        BY DEF Of
    <2>2. OldLine(0) = 0
        BY <2>1, OldLineIs
    <2> QED
        BY <2>1, <2>2
<1>2. PICK e : e = ElsewhereTo(0)
    OBVIOUS
<1>3. e \in Seq(StepsOf(L)) /\ Len(e) = 0
    BY <1>1, <1>2, ElsewhereIs
<1>4. Having(e, OldTags) = <<>> /\ Having(e, NewTags) = <<>>
    BY <1>3, HavingIs
<1>5. Part(base, 1, 0) = <<>>
    BY PartEmpty
<1> QED
    BY <1>1, <1>2, <1>4, <1>5, TagsAre, Zenon DEF UpTo

\* A hunk, and what comes before it.
LEMMA HunkCopies ==
    ASSUME NEW L, Of(L), NEW m \in Nat, NEW f \in Nat, NEW l \in Nat,
           m < f, f <= l, l <= Len(script), Quiet(m, f - 1), Loud(f, l), UpTo(m),
           NEW start, start = OldLine(f - 1),
           NEW wanted, wanted = OldOf(Part(script, f, l)),
           start + Len(wanted) <= Len(base), Part(base, start + 1, start + Len(wanted)) = wanted
    PROVE  /\ UpTo(l) /\ OldLine(l) = start + Len(wanted)
           /\ NewOf(ElsewhereTo(l)) =
                Join(Join(NewOf(ElsewhereTo(m)), Part(base, OldLine(m) + 1, start)), NewOf(Part(script, f, l)))
<1>1. PICK k \in Nat : k = f - 1 /\ k + 1 = f /\ m <= k /\ k <= l /\ k <= Len(script)
    <2>1. f - 1 \in Nat /\ f - 1 + 1 = f /\ m <= f - 1 /\ f - 1 <= l /\ f - 1 <= Len(script)
        BY DEF Of
    <2> QED
        BY <2>1
<1>2. start \in Nat /\ Len(wanted) \in Nat /\ OldLine(l) = start + Len(wanted)
    <2>1. /\ OldLine(k) \in Nat /\ Len(OldOf(Part(script, k + 1, l))) \in Nat
          /\ OldLine(l) = OldLine(k) + Len(OldOf(Part(script, k + 1, l)))
        BY <1>1, OldLineIs
    <2> QED
        BY <1>1, <2>1, Zenon
<1>3. OldLine(k) <= Len(base) /\ OldLine(l) <= Len(base)
    <2>1. Len(base) \in Nat /\ start = OldLine(k)
        BY <1>1 DEF Of
    <2> QED
        BY <1>2, <2>1
<1>4. Quiet(m, k) /\ Loud(k + 1, l)
    BY <1>1, Zenon
<1>5. UpTo(k) /\ NewOf(ElsewhereTo(k)) = Join(NewOf(ElsewhereTo(m)), Part(base, OldLine(m) + 1, OldLine(k)))
    BY <1>1, <1>3, <1>4, QuietCopies
<1>6. Part(base, OldLine(k) + 1, OldLine(l)) = OldOf(Part(script, k + 1, l))
    BY <1>1, <1>2, Zenon
<1>7. UpTo(l) /\ NewOf(ElsewhereTo(l)) = Join(NewOf(ElsewhereTo(k)), NewOf(Part(script, k + 1, l)))
    BY <1>1, <1>3, <1>4, <1>5, <1>6, LoudCopies
<1> QED
    BY <1>1, <1>2, <1>5, <1>7, Zenon

-----------------------------------------------------------------------------
(* The hunks that are left cover what is shown of the script from m to k.  *)
IsHunks(hs) == hs \in Seq({[start |-> hs[i].start, count |-> hs[i].count, body |-> hs[i].body] : i \in 1..Len(hs)})

RangeOf(hunk, f, l) ==
    /\ f <= l /\ Loud(f, l)
    /\ hunk.body = Part(script, f, l) /\ StartOf(hunk) = OldLine(f - 1)

CoverIs(hs, m, k, first, last) ==
    /\ first \in [1..Len(hs) -> (m + 1)..k] /\ last \in [1..Len(hs) -> (m + 1)..k]
    /\ \A i \in 1..Len(hs) : RangeOf(hs[i], first[i], last[i])
    /\ \A i, j \in 1..Len(hs) : i < j => last[i] < first[j]
    /\ \A j \in (m + 1)..k : Shown(j) => \E i \in 1..Len(hs) : first[i] <= j /\ j <= last[i]

Covers(hs, m, k) == IsHunks(hs) /\ \E first, last : CoverIs(hs, m, k, first, last)

\* The first of them, and the others.
LEMMA FirstCovers ==
    ASSUME NEW hs, NEW m \in Nat, NEW k \in Nat, Covers(hs, m, k), hs # <<>>
    PROVE  \E f, l \in Nat : /\ m < f /\ l <= k /\ Quiet(m, f - 1)
                             /\ RangeOf(Head(hs), f, l) /\ Covers(Tail(hs), l, k)
<1>1. PICK first, last : CoverIs(hs, m, k, first, last)
    BY DEF Covers
<1>2. PICK S : S = {[start |-> hs[i].start, count |-> hs[i].count, body |-> hs[i].body] : i \in 1..Len(hs)}
    OBVIOUS
<1>3. hs \in Seq(S)
    BY <1>2, Zenon DEF Covers, IsHunks
<1>4. PICK n : n = Len(hs) /\ n \in Nat /\ n >= 1
    BY <1>3
<1>5. PICK f, l : f = first[1] /\ l = last[1]
    OBVIOUS
<1>6. 1 \in 1..n
    BY <1>4
<1>7. f \in (m + 1)..k /\ l \in (m + 1)..k /\ RangeOf(hs[1], f, l)
    BY <1>1, <1>4, <1>5, <1>6 DEF CoverIs
<1>8. f \in Nat /\ l \in Nat /\ m < f /\ l <= k /\ f <= l
    BY <1>7 DEF RangeOf
<1>9. Quiet(m, f - 1)
    <2>1. ASSUME NEW j \in (m + 1)..(f - 1), Shown(j) PROVE FALSE
        <3>1. j \in (m + 1)..k /\ j < f
            BY <1>7
        <3>2. PICK i \in 1..n : first[i] <= j /\ j <= last[i]
            BY <1>1, <1>4, <2>1, <3>1 DEF CoverIs
        <3>3. i # 1
            BY <1>5, <1>8, <3>1, <3>2
        <3>4. l < first[i]
            BY <1>1, <1>4, <1>5, <1>6, <3>2, <3>3 DEF CoverIs
        <3>5. first[i] \in (m + 1)..k
            BY <1>1, <1>4, <3>2 DEF CoverIs
        <3> QED
            BY <1>8, <3>1, <3>2, <3>4, <3>5
    <2> QED
        BY <2>1 DEF Quiet
<1>10. PICK tail : tail = Tail(hs)
    OBVIOUS
<1>11. Head(hs) = hs[1]
    BY <1>3
<1>12. Len(tail) = n - 1 /\ tail \in Seq(S) /\ \A i \in 1..(n - 1) : tail[i] = hs[i + 1]
    BY <1>3, <1>4, <1>10, HeadTailProperties
<1>13. IsHunks(tail)
    <2>1. ASSUME NEW i \in 1..Len(tail)
          PROVE  tail[i] = [start |-> tail[i].start, count |-> tail[i].count, body |-> tail[i].body]
        <3>1. tail[i] \in S
            BY <1>12, <2>1
        <3> QED
            BY <1>2, <3>1
    <2> DEFINE T == {[start |-> tail[i].start, count |-> tail[i].count, body |-> tail[i].body] : i \in 1..Len(tail)}
    <2>2. \A i \in 1..Len(tail) : tail[i] \in T
        BY <2>1
    <2> HIDE DEF T
    <2>3. tail \in Seq(T)
        BY <1>12, <2>2
    <2> QED
        BY <2>3 DEF IsHunks, T
<1> DEFINE first2 == [i \in 1..(n - 1) |-> first[i + 1]]
           last2 == [i \in 1..(n - 1) |-> last[i + 1]]
<1>14. ASSUME NEW i \in 1..(n - 1)
       PROVE  /\ i + 1 \in 1..n /\ first2[i] = first[i + 1] /\ last2[i] = last[i + 1]
              /\ first2[i] \in (l + 1)..k /\ last2[i] \in (l + 1)..k
              /\ RangeOf(tail[i], first2[i], last2[i])
    <2>1. i + 1 \in 1..n /\ 1 < i + 1
        BY <1>4
    <2>2. l < first[i + 1] /\ RangeOf(hs[i + 1], first[i + 1], last[i + 1])
        BY <1>1, <1>4, <1>5, <1>6, <2>1 DEF CoverIs
    <2>3. first[i + 1] \in (m + 1)..k /\ last[i + 1] \in (m + 1)..k
        BY <1>1, <1>4, <2>1 DEF CoverIs
    <2>4. first[i + 1] <= last[i + 1]
        BY <2>2 DEF RangeOf
    <2>5. first[i + 1] \in (l + 1)..k /\ last[i + 1] \in (l + 1)..k
        BY <1>8, <2>2, <2>3, <2>4
    <2>6. first2[i] = first[i + 1] /\ last2[i] = last[i + 1] /\ tail[i] = hs[i + 1]
        BY <1>12
    <2> HIDE DEF first2, last2
    <2> QED
        BY <2>1, <2>2, <2>5, <2>6
<1>15. first2 \in [1..(n - 1) -> (l + 1)..k] /\ last2 \in [1..(n - 1) -> (l + 1)..k]
    <2>1. \A i \in 1..(n - 1) : first2[i] \in (l + 1)..k /\ last2[i] \in (l + 1)..k
        BY <1>14
    <2> QED
        BY <2>1
<1> HIDE DEF first2, last2
<1>16. \A i, j \in 1..(n - 1) : i < j => last2[i] < first2[j]
    <2>1. ASSUME NEW i \in 1..(n - 1), NEW j \in 1..(n - 1), i < j PROVE last2[i] < first2[j]
        <3>1. i + 1 \in 1..n /\ j + 1 \in 1..n /\ i + 1 < j + 1
            BY <1>14, <2>1
        <3>2. last[i + 1] < first[j + 1]
            BY <1>1, <1>4, <3>1 DEF CoverIs
        <3> QED
            BY <1>14, <3>2
    <2> QED
        BY <2>1
<1>17. ASSUME NEW j \in (l + 1)..k, Shown(j) PROVE \E i \in 1..(n - 1) : first2[i] <= j /\ j <= last2[i]
    <2>1. j \in (m + 1)..k /\ l < j
        BY <1>7
    <2>2. PICK i \in 1..n : first[i] <= j /\ j <= last[i]
        BY <1>1, <1>4, <1>17, <2>1 DEF CoverIs
    <2>3. i # 1
        BY <1>5, <1>8, <2>1, <2>2
    <2>4. PICK q : q = i - 1
        OBVIOUS
    <2>5. q \in 1..(n - 1) /\ q + 1 = i
        BY <1>4, <2>3, <2>4
    <2>6. first2[q] = first[i] /\ last2[q] = last[i]
        BY <1>14, <2>5
    <2> QED
        BY <2>2, <2>5, <2>6
<1>18. Len(tail) = n - 1
    BY <1>12
<1>19. CoverIs(tail, l, k, first2, last2)
    <2>1. \A i \in 1..(n - 1) : RangeOf(tail[i], first2[i], last2[i])
        BY <1>14
    <2> QED
        BY <1>15, <1>16, <1>17, <1>18, <2>1, Zenon DEF CoverIs
<1>20. Covers(tail, l, k)
    BY <1>13, <1>19, Zenon DEF Covers
<1> QED
    BY <1>7, <1>8, <1>9, <1>10, <1>11, <1>20

-----------------------------------------------------------------------------
(* Applying: m steps of the script are, and the hunks cover the others.     *)
IsPatch(p) ==
    p = [pc |-> p.pc, line |-> p.line, hunks |-> p.hunks, position |-> p.position, result |-> p.result]

AppliedTo(p, m) ==
    /\ m \in 0..Len(script) /\ (m > 0 => Shown(m))
    /\ UpTo(m) /\ p.position = OldLine(m) /\ p.result = NewOf(ElsewhereTo(m))
    /\ Covers(p.hunks, m, Len(script))

AppliedAll(p, m) ==
    /\ m \in 0..Len(script) /\ (m > 0 => Shown(m)) /\ Quiet(m, Len(script))
    /\ UpTo(m)
    /\ p.result = Join(NewOf(ElsewhereTo(m)), Part(base, OldLine(m) + 1, Len(base)))

LEMMA HunkApplies ==
    ASSUME NEW L, Of(L), NEW p, NEW m, AppliedTo(p, m), p.hunks # <<>>,
           NEW hunk, hunk = Head(p.hunks), Stands(hunk),
           NEW new, new.hunks = Tail(p.hunks),
           new.position = StartOf(hunk) + Len(OldOf(hunk.body)),
           new.result = Join(Join(p.result, Part(base, p.position + 1, StartOf(hunk))), NewOf(hunk.body))
    PROVE  \E l : AppliedTo(new, l)
<1>1. PICK n : n = Len(script) /\ n \in Nat
    BY DEF Of
<1>2. m \in Nat /\ m <= n /\ Covers(p.hunks, m, n)
    BY <1>1 DEF AppliedTo
<1>3. PICK f, l \in Nat : /\ m < f /\ l <= n /\ Quiet(m, f - 1)
                          /\ RangeOf(Head(p.hunks), f, l) /\ Covers(Tail(p.hunks), l, n)
    BY <1>1, <1>2, FirstCovers
<1>4. f <= l /\ Loud(f, l) /\ hunk.body = Part(script, f, l) /\ StartOf(hunk) = OldLine(f - 1)
    BY <1>3, Zenon DEF RangeOf
<1>5. PICK start, wanted : start = StartOf(hunk) /\ wanted = OldOf(hunk.body)
    OBVIOUS
<1>6. start = OldLine(f - 1) /\ wanted = OldOf(Part(script, f, l))
    BY <1>4, <1>5, Zenon
<1>7. start + Len(wanted) <= Len(base) /\ Part(base, start + 1, start + Len(wanted)) = wanted
    BY <1>5, Zenon DEF Stands, Part
<1>8. UpTo(m)
    BY DEF AppliedTo
<1>9. /\ UpTo(l) /\ OldLine(l) = start + Len(wanted)
      /\ NewOf(ElsewhereTo(l)) =
             Join(Join(NewOf(ElsewhereTo(m)), Part(base, OldLine(m) + 1, start)), NewOf(Part(script, f, l)))
    BY <1>1, <1>2, <1>3, <1>4, <1>6, <1>7, <1>8, HunkCopies
<1>10. p.result = NewOf(ElsewhereTo(m)) /\ p.position = OldLine(m)
    BY Zenon DEF AppliedTo
<1>11. new.result = NewOf(ElsewhereTo(l)) /\ new.position = OldLine(l)
    BY <1>4, <1>5, <1>9, <1>10, Zenon
<1>12. Shown(l) /\ l \in 0..n
    <2>1. l \in f..l
        BY <1>3, <1>4
    <2> QED
        BY <1>1, <1>3, <1>4, <2>1 DEF Loud
<1>13. AppliedTo(new, l)
    BY <1>1, <1>3, <1>9, <1>11, <1>12, Zenon DEF AppliedTo
<1> QED
    BY <1>13

\* On the text it was made from, every hunk stands.
LEMMA HunkStands ==
    ASSUME NEW L, Of(L), NEW p, NEW m, AppliedTo(p, m), p.hunks # <<>>,
           NEW hunk, hunk = Head(p.hunks), base = OldOf(script), p.position = patch.position
    PROVE  Stands(hunk)
<1>1. PICK n : n = Len(script) /\ n \in Nat
    BY DEF Of
<1>2. m \in Nat /\ m <= n /\ Covers(p.hunks, m, n)
    BY <1>1 DEF AppliedTo
<1>3. PICK f, l \in Nat : /\ m < f /\ l <= n /\ Quiet(m, f - 1)
                          /\ RangeOf(Head(p.hunks), f, l) /\ Covers(Tail(p.hunks), l, n)
    BY <1>1, <1>2, FirstCovers
<1>4. f <= l /\ Loud(f, l) /\ hunk.body = Part(script, f, l) /\ StartOf(hunk) = OldLine(f - 1)
    BY <1>3, Zenon DEF RangeOf
<1>5. PICK k \in Nat : k = f - 1 /\ k + 1 = f /\ m <= k /\ k <= l /\ k <= n
    <2>1. f - 1 \in Nat /\ f - 1 + 1 = f /\ m <= f - 1 /\ f - 1 <= l /\ f - 1 <= n
        BY <1>1, <1>2, <1>3, <1>4
    <2> QED
        BY <2>1
<1>6. PICK S, pre, mid, post : /\ S = StepsOf(L) /\ pre = Part(script, 1, k)
                              /\ mid = Part(script, f, l) /\ post = Part(script, l + 1, n)
    OBVIOUS
<1>7. script \in Seq(S)
    BY <1>6 DEF Of
<1>8. 1 \in Nat /\ 1 <= k + 1 /\ f \in Nat /\ 1 <= f /\ f <= l + 1 /\ 1 <= l + 1 /\ l + 1 <= n + 1 /\ l <= n
      /\ l + 1 \in Nat /\ l + 1 \in Int /\ f \in Int /\ k \in Int /\ n \in Int /\ l \in Int /\ 1 \in Int
    BY <1>1, <1>3, <1>4, <1>5
<1>9. Part(script, 1, k) \in Seq(S) /\ Part(script, f, l) \in Seq(S) /\ Part(script, l + 1, n) \in Seq(S)
    BY <1>1, <1>5, <1>7, <1>8, PartIs
<1>10. pre \in Seq(StepsOf(L)) /\ mid \in Seq(StepsOf(L)) /\ post \in Seq(StepsOf(L))
    BY <1>6, <1>9, Zenon
<1>11. Join(Part(script, 1, k), Part(script, k + 1, l)) = Part(script, 1, l)
    BY <1>1, <1>5, <1>7, <1>8, PartsJoin
<1>12. Join(Part(script, 1, l), Part(script, l + 1, n)) = Part(script, 1, n) /\ Part(script, 1, n) = script
    BY <1>1, <1>7, <1>8, PartsJoin, PartWhole
<1>13. script = Join(Join(pre, mid), post) /\ Join(pre, mid) \in Seq(StepsOf(L))
    <2>1. script = Join(Join(pre, mid), post)
        BY <1>5, <1>6, <1>11, <1>12, Zenon
    <2>2. Join(pre, mid) \in Seq(StepsOf(L))
        BY <1>10, JoinIs
    <2> QED
        BY <2>1, <2>2
<1>14. PICK a, b, c : a = OldOf(pre) /\ b = OldOf(mid) /\ c = OldOf(post)
    OBVIOUS
<1>15. a \in Seq(L) /\ b \in Seq(L) /\ c \in Seq(L)
    <2>1. OldOf(pre) \in Seq(L) /\ OldOf(mid) \in Seq(L) /\ OldOf(post) \in Seq(L)
        BY <1>10, SidesAre
    <2> QED
        BY <1>14, <2>1, Zenon
<1>16. base = Join(Join(a, b), c)
    <2>1. OldOf(Join(Join(pre, mid), post)) = Join(OldOf(Join(pre, mid)), OldOf(post))
        BY <1>10, <1>13, SidesJoin
    <2>2. OldOf(Join(pre, mid)) = Join(OldOf(pre), OldOf(mid))
        BY <1>10, SidesJoin
    <2> QED
        BY <1>13, <1>14, <2>1, <2>2, Zenon
<1>17. OldLine(f - 1) = Len(a)
    BY <1>5, <1>6, <1>14, Zenon DEF OldLine, Part
<1>18. PICK ab : ab = Join(a, b)
    OBVIOUS
<1>19. ab \in Seq(L) /\ Joined(ab, a, b)
    <2>1. Join(a, b) \in Seq(L) /\ Joined(Join(a, b), a, b)
        BY <1>15, JoinIsJoined
    <2> QED
        BY <1>18, <2>1, Zenon
<1>20. Joined(base, ab, c)
    <2>0. ab \in Seq(L)
        BY <1>19
    <2>1. Joined(Join(ab, c), ab, c)
        BY <1>15, <2>0, JoinIsJoined
    <2> QED
        BY <1>16, <1>18, <2>1, Zenon
<1>21. PICK x, y, z : x = Len(a) /\ y = Len(b) /\ z = Len(c)
    OBVIOUS
<1>22. x \in Nat /\ y \in Nat /\ z \in Nat
    BY <1>15, <1>21
<1>23. Len(ab) = x + y /\ \A i \in 1..y : ab[x + i] = b[i]
    BY <1>19, <1>21, Zenon DEF Joined
<1>24. Len(base) = x + y + z /\ \A i \in 1..(x + y) : base[i] = ab[i]
    <2>1. Len(base) = Len(ab) + z /\ \A i \in 1..Len(ab) : base[i] = ab[i]
        BY <1>20, <1>21, Zenon DEF Joined
    <2> QED
        BY <1>23, <2>1, Zenon
<1>25. x + y <= Len(base)
    BY <1>22, <1>24
<1>26. Part(base, x + 1, x + y) = b
    <2>1. PICK q, u, v : q = Part(base, u, v) /\ u = x + 1 /\ v = x + y
        OBVIOUS
    <2>2. u \in Int /\ v \in Int /\ 1 <= u /\ u <= v + 1 /\ v <= Len(base) /\ base \in Seq(L)
        BY <1>22, <1>25, <2>1 DEF Of
    <2>3. Part(base, u, v) \in Seq(L) /\ PartOf(Part(base, u, v), base, u, v)
        BY <2>2, PartIsPart
    <2>4. q \in Seq(L) /\ PartOf(q, base, u, v)
        BY <2>1, <2>3, Zenon
    <2>5. Len(q) = v - u + 1 /\ \A i \in 1..(v - u + 1) : q[i] = base[u + i - 1]
        BY <2>4 DEF PartOf
    <2>6. v - u + 1 = y
        BY <1>22, <2>1
    <2>7. ASSUME NEW i \in 1..Len(q) PROVE q[i] = b[i]
        <3>1. i \in 1..y /\ u + i - 1 = x + i /\ x + i \in 1..(x + y)
            BY <1>22, <2>1, <2>5, <2>6
        <3> QED
            BY <1>23, <1>24, <2>5, <2>6, <3>1
    <2>8. Len(q) = Len(b)
        BY <1>21, <2>5, <2>6
    <2>9. q = b
        BY <1>15, <2>4, <2>7, <2>8, SeqEqual
    <2> QED
        BY <2>1, <2>9, Zenon
<1>27. StartOf(hunk) = x /\ OldOf(hunk.body) = b
    BY <1>4, <1>6, <1>14, <1>17, <1>21, Zenon
<1>28. x >= patch.position
    <2>1. OldLine(m) <= OldLine(k) /\ OldLine(m) \in Nat /\ OldLine(k) \in Nat
        BY <1>1, <1>2, <1>5, OldLineIs
    <2>2. patch.position = OldLine(m) /\ x = OldLine(k)
        BY <1>5, <1>17, <1>21, Zenon DEF AppliedTo
    <2> QED
        BY <2>1, <2>2
<1> QED
    BY <1>21, <1>25, <1>26, <1>27, <1>28, Zenon DEF Stands, Part

LEMMA NothingLeft ==
    ASSUME NEW hs, NEW m \in Nat, NEW k \in Nat, Covers(hs, m, k), hs = <<>>
    PROVE  Quiet(m, k)
<1>1. PICK first, last : CoverIs(hs, m, k, first, last)
    BY DEF Covers
<1>2. 1..Len(hs) = {}
    OBVIOUS
<1> QED
    BY <1>1, <1>2 DEF CoverIs, Quiet

\* At the end the script is the text's, as far as it goes.
LEMMA AllIsRight ==
    ASSUME NEW L, Of(L), NEW p, NEW m, AppliedAll(p, m)
    PROVE  /\ Len(base) >= OldLine(UpToLast)
           /\ base = OldOf(Elsewhere) /\ p.result = NewOf(Elsewhere)
<1>1. PICK n : n = Len(script) /\ n \in Nat
    BY DEF Of
<1>2. m \in 0..n /\ (m > 0 => Shown(m)) /\ Quiet(m, n) /\ UpTo(m)
    BY <1>1, Zenon DEF AppliedAll
<1> DEFINE Fits(k) == (k > 0 => Shown(k)) /\ \A j \in (k + 1)..n : ~Shown(j)
<1>3. UpToLast = m
    <2>1. UpToLast = CHOOSE k \in 0..n : Fits(k)
        BY <1>1 DEF UpToLast
    <2>2. Fits(m)
        BY <1>2 DEF Quiet
    <2>3. ASSUME NEW k \in 0..n, Fits(k) PROVE k = m
        <3>1. k < m => m \in (k + 1)..n /\ m > 0
            BY <1>1, <1>2
        <3>2. m < k => k \in (m + 1)..n /\ k > 0
            BY <1>1, <1>2
        <3> QED
            BY <1>1, <1>2, <2>2, <2>3, <3>1, <3>2
    <2> HIDE DEF Fits
    <2> QED
        BY <1>2, <2>1, <2>2, <2>3
<1> HIDE DEF Fits
<1>4. PICK o, b : o = OldLine(m) /\ b = Len(base)
    OBVIOUS
<1>5. o \in Nat /\ b \in Nat /\ o <= b /\ base \in Seq(L) /\ m \in Nat /\ m <= n
    <2>1. m \in Nat /\ m <= n
        BY <1>1, <1>2
    <2>2. OldLine(m) \in Nat
        BY <1>1, <2>1, OldLineIs
    <2>3. OldLine(m) <= Len(base)
        BY <1>2 DEF UpTo
    <2> QED
        BY <1>4, <2>1, <2>2, <2>3 DEF Of
<1>6. PICK first, lines : first = ElsewhereTo(m) /\ lines = Part(base, o + 1, b)
    OBVIOUS
<1>7. first \in Seq(StepsOf(L))
    <2>1. OldLine(m) <= Len(base) /\ m <= Len(script)
        BY <1>1, <1>4, <1>5
    <2>2. ElsewhereTo(m) \in Seq(StepsOf(L))
        BY <1>5, <2>1, ElsewhereIs
    <2> QED
        BY <1>6, <2>2
<1>8. lines \in Seq(L) /\ Len(lines) = b - o /\ \A i \in 1..(b - o) : lines[i] = base[o + i]
    <2>1. PICK u : u = o + 1
        OBVIOUS
    <2>2. u \in Int /\ b \in Int /\ 1 <= u /\ u <= b + 1 /\ b <= Len(base) /\ base \in Seq(L)
        BY <1>4, <1>5, <2>1
    <2>3. Part(base, u, b) \in Seq(L) /\ PartOf(Part(base, u, b), base, u, b)
        BY <2>2, PartIsPart
    <2>4. lines \in Seq(L) /\ PartOf(lines, base, u, b)
        BY <1>6, <2>1, <2>3, Zenon
    <2>5. Len(lines) = b - u + 1 /\ \A i \in 1..(b - u + 1) : lines[i] = base[u + i - 1]
        BY <2>4 DEF PartOf
    <2>6. b - u + 1 = b - o /\ \A i \in 1..(b - o) : u + i - 1 = o + i
        BY <1>5, <2>1
    <2> QED
        BY <2>4, <2>5, <2>6
<1>9. PICK kept : kept = Kept(lines)
    OBVIOUS
<1>10. kept \in Seq(StepsOf(L)) /\ OldOf(kept) = lines /\ NewOf(kept) = lines
    BY <1>8, <1>9, KeptIs, SidesKept
<1>11. Elsewhere = Join(first, kept)
    <2>1. PICK rest : rest = [i \in 1..(b - o) |-> [tag |-> Unchanged, line |-> base[o + i]]]
        OBVIOUS
    <2>2. Elsewhere = ElsewhereTo(m) \o rest
        BY <1>3, <1>4, <2>1, Zenon DEF Elsewhere, Unchanged
    <2>3. kept = [i \in 1..(b - o) |-> [tag |-> Unchanged, line |-> lines[i]]]
        BY <1>8, <1>9, Zenon DEF Kept
    <2>4. kept = rest
        BY <1>8, <2>1, <2>3
    <2> QED
        BY <1>6, <2>2, <2>4, Zenon DEF Join
<1>12. OldOf(Join(first, kept)) = Join(OldOf(first), OldOf(kept)) /\ NewOf(Join(first, kept)) = Join(NewOf(first), NewOf(kept))
    BY <1>7, <1>10, SidesJoin
<1>13. Join(Part(base, 1, o), Part(base, o + 1, b)) = Part(base, 1, b) /\ Part(base, 1, Len(base)) = base
    <2>1. 1 \in Nat /\ 1 <= 1 /\ 1 <= o + 1 /\ b <= Len(base)
        BY <1>4, <1>5
    <2> QED
        BY <1>5, <2>1, PartsJoin, PartWhole
<1>14. Part(base, 1, o) = OldOf(first)
    BY <1>2, <1>4, <1>6, Zenon DEF UpTo
<1>15. base = OldOf(Elsewhere)
    BY <1>4, <1>6, <1>10, <1>11, <1>12, <1>13, <1>14, Zenon
<1>16. p.result = Join(NewOf(ElsewhereTo(m)), Part(base, OldLine(m) + 1, Len(base)))
    BY Zenon DEF AppliedAll
<1>17. p.result = NewOf(Elsewhere)
    BY <1>4, <1>6, <1>10, <1>11, <1>12, <1>16, Zenon
<1>18. Len(base) >= OldLine(UpToLast)
    BY <1>3, <1>4, <1>5
<1> QED
    BY <1>15, <1>17, <1>18

-----------------------------------------------------------------------------
(* The lines of the diff, step by step.                                    *)
Ended(step) == [step EXCEPT !.line.end = "newline"]

LEMMA StepIs ==
    ASSUME script \in Scripts, NEW k \in 1..Len(script)
    PROVE  /\ script[k] = [tag |-> script[k].tag,
                           line |-> [text |-> script[k].line.text, end |-> script[k].line.end]]
           /\ script[k].tag \in Tags
           /\ script[k].line.end \in {"newline", "none", "other"}
<1>2. PICK ends : ends = {"newline", "none", "other"}
    OBVIOUS
<1>3. IsScripted(script)
    BY PatchAssumption
<1>4. PICK texts : script \in Seq([tag : Tags, line : [text : texts, end : ends]])
    <2>1. \E texts : script \in Seq([tag : {" ", "-", "+"},
                                     line : [text : texts, end : {"newline", "none", "other"}]])
        BY <1>3, Zenon DEF IsScripted
    <2> QED
        BY <1>2, <2>1, Zenon DEF Tags
<1>5. script[k] \in [tag : Tags, line : [text : texts, end : ends]]
    <2>1. PICK R : R = [tag : Tags, line : [text : texts, end : ends]]
        OBVIOUS
    <2>2. script \in Seq(R)
        BY <1>4, <2>1, Zenon
    <2>3. script[k] \in R
        BY <2>2
    <2> QED
        BY <2>1, <2>3, Zenon
<1>6. script[k].tag \in Tags /\ script[k].line \in [text : texts, end : ends] /\ script[k] = [tag |-> script[k].tag, line |-> script[k].line]
    BY <1>5
<1>7. /\ script[k].line = [text |-> script[k].line.text, end |-> script[k].line.end]
      /\ script[k].line.end \in ends
    BY <1>6
<1> QED
    BY <1>2, <1>6, <1>7

\* How many lines come before a step's own.
Headers(k) == IF FirstOfHunk(k) THEN 1 ELSE 0

DiffTextIs(k, text) ==
    /\ ~Shown(k) => Len(text) = 0
    /\ Shown(k) =>
         /\ FirstOfHunk(k) => text[1] = HeaderOf(k)
         /\ script[k].line.end = "newline" =>
              Len(text) = Headers(k) + 1 /\ text[Headers(k) + 1] = Said(script[k])
         /\ script[k].line.end = "none" =>
              /\ Len(text) = Headers(k) + 2 /\ text[Headers(k) + 1] = Said(Ended(script[k]))
              /\ text[Headers(k) + 2] = NoNewline
         /\ script[k].line.end = "other" =>
              /\ Len(text) = Headers(k) + 3 /\ text[Headers(k) + 1] = Said(script[k])
              /\ text[Headers(k) + 2] = Rest

DiffLineIs(step, lines) ==
    /\ step.line.end = "newline" => Len(lines) = 1 /\ lines[1] = Said(step)
    /\ step.line.end = "none" => Len(lines) = 2 /\ lines[1] = Said(Ended(step)) /\ lines[2] = NoNewline
    /\ step.line.end = "other" => Len(lines) = 3 /\ lines[1] = Said(step) /\ lines[2] = Rest

LEMMA DiffLineRight ==
    ASSUME NEW step, step.line.end \in {"newline", "none", "other"}
    PROVE  /\ DiffLineIs(step, DiffLine(step))
           /\ DiffLine(step) \in Seq({Said(step), Said(Ended(step)), NoNewline, Rest})
<1>1. PICK a, b, c, d : a = Said(step) /\ b = Said(Ended(step)) /\ c = NoNewline /\ d = Rest
    OBVIOUS
<1>2. DiffLine(step) =
        CASE step.line.end = "newline" -> <<a>>
          [] step.line.end = "none" -> <<b, c>>
          [] OTHER -> <<a, d, c>>
    BY <1>1, Zenon DEF DiffLine, Ended
<1>3. <<a>> \in Seq({a, b, c, d}) /\ <<b, c>> \in Seq({a, b, c, d}) /\ <<a, d, c>> \in Seq({a, b, c, d})
    OBVIOUS
<1>4. CASE step.line.end = "newline"
    <2>1. DiffLine(step) = <<a>>
        BY <1>2, <1>4
    <2>2. PICK lines : lines = DiffLine(step) /\ lines = <<a>>
        BY <2>1
    <2>3. Len(lines) = 1 /\ lines[1] = a
        BY <2>2
    <2>4. DiffLineIs(step, lines)
        BY <1>1, <1>4, <2>3 DEF DiffLineIs
    <2> QED
        BY <1>1, <1>3, <2>2, <2>4, Zenon
<1>5. CASE step.line.end = "none"
    <2>1. DiffLine(step) = <<b, c>>
        BY <1>2, <1>5
    <2>2. PICK lines : lines = DiffLine(step) /\ lines = <<b, c>>
        BY <2>1
    <2>3. Len(lines) = 2 /\ lines[1] = b /\ lines[2] = c
        BY <2>2
    <2>4. DiffLineIs(step, lines)
        BY <1>1, <1>5, <2>3 DEF DiffLineIs
    <2> QED
        BY <1>1, <1>3, <2>2, <2>4, Zenon
<1>6. CASE step.line.end = "other"
    <2>1. DiffLine(step) = <<a, d, c>>
        BY <1>2, <1>6
    <2>2. PICK lines : lines = DiffLine(step) /\ lines = <<a, d, c>>
        BY <2>1
    <2>3. Len(lines) = 3 /\ lines[1] = a /\ lines[2] = d
        BY <2>2
    <2>4. DiffLineIs(step, lines)
        BY <1>1, <1>6, <2>3 DEF DiffLineIs
    <2> QED
        BY <1>1, <1>3, <2>2, <2>4, Zenon
<1> QED
    BY <1>4, <1>5, <1>6

PatchWords == UNION {{HeaderOf(k), Said(script[k]), Said(Ended(script[k])), NoNewline, Rest} : k \in 1..Len(script)}

LEMMA DiffTextRight ==
    ASSUME script \in Scripts, NEW k \in 1..Len(script)
    PROVE  DiffText(k) \in Seq(PatchWords) /\ DiffTextIs(k, DiffText(k))
<1>1. PICK lines, h : lines = DiffLine(script[k]) /\ h = HeaderOf(k)
    OBVIOUS
<1>2. script[k].line.end \in {"newline", "none", "other"}
    BY StepIs
<1>3. DiffLineIs(script[k], lines) /\ lines \in Seq({Said(script[k]), Said(Ended(script[k])), NoNewline, Rest})
    <2>1. /\ DiffLineIs(script[k], DiffLine(script[k]))
          /\ DiffLine(script[k]) \in Seq({Said(script[k]), Said(Ended(script[k])), NoNewline, Rest})
        BY <1>2, DiffLineRight
    <2> QED
        BY <1>1, <2>1, Zenon
<1>4. PICK words : words = PatchWords
    OBVIOUS
<1>5. {Said(script[k]), Said(Ended(script[k])), NoNewline, Rest} \subseteq words /\ h \in words
    <2>1. HeaderOf(k) \in PatchWords
        BY Zenon DEF PatchWords
    <2>2. Said(script[k]) \in PatchWords
        BY Zenon DEF PatchWords
    <2>3. Said(Ended(script[k])) \in PatchWords
        BY Zenon DEF PatchWords
    <2>4. NoNewline \in PatchWords
        <3>1. NoNewline \in {HeaderOf(k), Said(script[k]), Said(Ended(script[k])), NoNewline, Rest}
            BY Zenon
        <3> QED
            BY <3>1, Zenon DEF PatchWords
    <2>5. Rest \in PatchWords
        <3>1. Rest \in {HeaderOf(k), Said(script[k]), Said(Ended(script[k])), NoNewline, Rest}
            BY Zenon
        <3> QED
            BY <3>1, Zenon DEF PatchWords
    <2> QED
        BY <1>1, <1>4, <2>1, <2>2, <2>3, <2>4, <2>5, Zenon
<1>6. lines \in Seq(words)
    <2>1. PICK some : some = {Said(script[k]), Said(Ended(script[k])), NoNewline, Rest}
        OBVIOUS
    <2>2. lines \in Seq(some) /\ some \subseteq words
        BY <1>3, <1>5, <2>1, Zenon
    <2> QED
        BY <2>2
<1>7. CASE ~Shown(k)
    <2>0. ~FirstOfHunk(k)
        BY <1>7 DEF FirstOfHunk
    <2>1. DiffText(k) = <<>>
        BY <1>7, <2>0 DEF DiffText
    <2>2. <<>> \in Seq(words) /\ Len(<<>>) = 0
        OBVIOUS
    <2> QED
        BY <1>4, <1>7, <2>1, <2>2, Zenon DEF DiffTextIs
<1>8. CASE Shown(k) /\ ~FirstOfHunk(k)
    <2>1. DiffText(k) = lines
        BY <1>1, <1>8 DEF DiffText
    <2>2. Headers(k) = 0
        BY <1>8 DEF Headers
    <2>3. DiffTextIs(k, lines)
        BY <1>3, <1>8, <2>2 DEF DiffTextIs, DiffLineIs
    <2> QED
        BY <1>4, <1>6, <2>1, <2>3, Zenon
<1>9. CASE Shown(k) /\ FirstOfHunk(k)
    <2>1. DiffText(k) = <<h>> \o lines
        BY <1>1, <1>9 DEF DiffText
    <2>2. Headers(k) = 1
        BY <1>9 DEF Headers
    <2>3. PICK one : one = <<h>>
        OBVIOUS
    <2>4. one \in Seq(words) /\ Len(one) = 1 /\ one[1] = h
        BY <1>5, <2>3
    <2>5. PICK text : text = Join(one, lines)
        OBVIOUS
    <2>6. text \in Seq(words) /\ Joined(text, one, lines)
        <3>1. one \in Seq(words)
            BY <2>4
        <3>2. Join(one, lines) \in Seq(words) /\ Joined(Join(one, lines), one, lines)
            BY <1>6, <3>1, JoinIsJoined
        <3> QED
            BY <2>5, <3>2, Zenon
    <2>7. /\ Len(text) = 1 + Len(lines) /\ text[1] = h
          /\ \A i \in 1..Len(lines) : text[1 + i] = lines[i]
        <3>1. 1 \in 1..Len(one)
            BY <2>4
        <3> QED
            BY <2>4, <2>6, <3>1, Zenon DEF Joined
    <2>10. Headers(k) + 1 = 2 /\ Headers(k) + 2 = 3 /\ Headers(k) + 3 = 4
        BY <2>2
    <2>8. DiffTextIs(k, text)
        <3>1. CASE script[k].line.end = "newline"
            <4>1. Len(lines) = 1 /\ lines[1] = Said(script[k])
                BY <1>3, <3>1 DEF DiffLineIs
            <4>2. Len(text) = 2 /\ text[2] = Said(script[k])
                BY <2>7, <4>1
            <4> QED
                BY <1>1, <1>9, <2>2, <2>7, <2>10, <3>1, <4>2, Zenon DEF DiffTextIs
        <3>2. CASE script[k].line.end = "none"
            <4>1. Len(lines) = 2 /\ lines[1] = Said(Ended(script[k])) /\ lines[2] = NoNewline
                BY <1>3, <3>2 DEF DiffLineIs
            <4>2. Len(text) = 3 /\ text[2] = Said(Ended(script[k])) /\ text[3] = NoNewline
                BY <2>7, <4>1
            <4> QED
                BY <1>1, <1>9, <2>2, <2>7, <2>10, <3>2, <4>2, Zenon DEF DiffTextIs
        <3>3. CASE script[k].line.end = "other"
            <4>1. Len(lines) = 3 /\ lines[1] = Said(script[k]) /\ lines[2] = Rest
                BY <1>3, <3>3 DEF DiffLineIs
            <4>2. Len(text) = 4 /\ text[2] = Said(script[k]) /\ text[3] = Rest
                BY <2>7, <4>1
            <4> QED
                BY <1>1, <1>9, <2>2, <2>7, <2>10, <3>3, <4>2, Zenon DEF DiffTextIs
        <3> QED
            BY <1>2, <3>1, <3>2, <3>3
    <2>9. DiffText(k) = text
        BY <2>1, <2>3, <2>5, Zenon DEF Join
    <2> QED
        BY <1>4, <2>6, <2>8, <2>9, Zenon
<1> QED
    BY <1>7, <1>8, <1>9

LEMMA ScriptIsSeq ==
    ASSUME script \in Scripts
    PROVE  \E R : script \in Seq(R)
    BY PatchAssumption, Zenon DEF IsScripted

DiffIsRun ==
    /\ DiffTo \in [0..Len(script) -> Seq(PatchWords)] /\ DiffTo[0] = <<>>
    /\ \A k \in 1..Len(script) : DiffTo[k] = Join(DiffTo[k - 1], DiffText(k))

LEMMA DiffRuns ==
    ASSUME script \in Scripts PROVE DiffIsRun
<1>1. PICK n, W : n = Len(script) /\ n \in Nat /\ W = PatchWords
    <2>1. PICK R : script \in Seq(R)
        BY ScriptIsSeq
    <2>2. Len(script) \in Nat
        BY <2>1
    <2> QED
        BY <2>2
<1> DEFINE step == [x \in Seq(W) \X (1..n) |-> Join(x[1], DiffText(x[2]))]
           Fits(g) == g = [k \in 0..n |-> IF k = 0 THEN <<>> ELSE g[k - 1] \o DiffText(k)]
           diff == CHOOSE g : Fits(g)
<1>2. DiffTo = diff
    BY <1>1 DEF DiffTo
<1>3. (\A k \in 1..n : DiffText(k) \in Seq(W)) /\ <<>> \in Seq(W)
    <2>1. \A k \in 1..n : DiffText(k) \in Seq(PatchWords)
        BY <1>1, DiffTextRight, Zenon
    <2>2. <<>> \in Seq(W)
        OBVIOUS
    <2> QED
        BY <1>1, <2>1, <2>2, Zenon
<1>4. step \in [Seq(W) \X (1..n) -> Seq(W)]
    <2>1. ASSUME NEW x \in Seq(W) \X (1..n) PROVE Join(x[1], DiffText(x[2])) \in Seq(W)
        <3>1. PICK a, b : a = x[1] /\ b = DiffText(x[2])
            OBVIOUS
        <3>2. x[1] \in Seq(W) /\ x[2] \in 1..n
            OBVIOUS
        <3>3. a \in Seq(W) /\ b \in Seq(W)
            BY <1>3, <3>1, <3>2, Zenon
        <3>4. Join(a, b) \in Seq(W)
            BY <3>3, JoinIsJoined
        <3> QED
            BY <3>1, <3>4, Zenon
    <2> QED
        BY <2>1
<1>5. \A a \in Seq(W), k \in 1..n : step[<<a, k>>] = Join(a, DiffText(k))
    OBVIOUS
<1> HIDE DEF step
<1>6. PICK g : Runs(g, n, Seq(W), <<>>, step)
    BY <1>1, <1>3, <1>4, OneRuns
<1>7. g \in [0..n -> Seq(W)] /\ g[0] = <<>> /\ \A k \in 1..n : g[k] = Join(g[k - 1], DiffText(k))
    <2>1. ASSUME NEW k \in 1..n PROVE g[k] = Join(g[k - 1], DiffText(k))
        <3>1. k - 1 \in 0..n
            BY <1>1
        <3>2. g[k - 1] \in Seq(W)
            BY <1>6, <3>1 DEF Runs
        <3> QED
            BY <1>5, <1>6, <3>2 DEF Runs
    <2> QED
        BY <1>6, <2>1 DEF Runs
<1>8. Fits(g)
    <2>1. ASSUME NEW k \in 0..n PROVE g[k] = IF k = 0 THEN <<>> ELSE g[k - 1] \o DiffText(k)
        <3>1. k # 0 => k \in 1..n
            BY <1>1
        <3> QED
            BY <1>7, <3>1, Zenon DEF Join
    <2>2. g = [k \in 0..n |-> g[k]]
        BY <1>7
    <2> QED
        BY <2>1, <2>2
<1>9. Fits(diff)
    <2> HIDE DEF Fits
    <2> QED
        BY <1>8
<1> HIDE DEF diff
<1>10. DOMAIN diff = 0..n /\ diff[0] = <<>> /\ \A k \in 1..n : diff[k] = Join(diff[k - 1], DiffText(k))
    <2>1. \A k \in 0..n : diff[k] = IF k = 0 THEN <<>> ELSE diff[k - 1] \o DiffText(k)
        BY <1>9
    <2>2. 0 \in 0..n /\ \A k \in 1..n : k \in 0..n /\ k # 0
        BY <1>1
    <2>3. DOMAIN diff = 0..n
        BY <1>9
    <2> QED
        BY <2>1, <2>2, <2>3, Zenon DEF Join
<1>11. diff = [k \in 0..n |-> diff[k]]
    BY <1>9, <1>10
<1> HIDE DEF Fits
<1> DEFINE T == {i \in 0..n : diff[i] = g[i]}
<1>12. 0 \in T
    BY <1>1, <1>7, <1>10
<1>13. ASSUME NEW i \in 0..n, i < n, i \in T PROVE i + 1 \in T
    <2>1. i + 1 \in 1..n /\ i + 1 \in 0..n /\ (i + 1) - 1 = i
        BY <1>1, <1>13
    <2>2. diff[i + 1] = Join(diff[i], DiffText(i + 1)) /\ g[i + 1] = Join(g[i], DiffText(i + 1))
        BY <1>7, <1>10, <2>1
    <2> QED
        BY <1>13, <2>1, <2>2
<1>14. \A i \in 0..n : i \in T
    <2> HIDE DEF T
    <2> QED
        BY <1>1, <1>12, <1>13, InductionTo
<1>15. diff \in [0..n -> Seq(W)]
    <2>1. \A i \in 0..n : diff[i] \in Seq(W)
        BY <1>7, <1>14
    <2> QED
        BY <1>11, <2>1
<1> QED
    BY <1>1, <1>2, <1>10, <1>15, Zenon DEF DiffIsRun

\* How long it is after k steps.
Size(k) == Len(DiffTo[k])

LEMMA DiffGrows ==
    ASSUME script \in Scripts, NEW k \in 1..Len(script)
    PROVE  /\ Size(k - 1) \in Nat /\ Size(k) \in Nat /\ Len(DiffText(k)) \in Nat
           /\ Size(k) = Size(k - 1) + Len(DiffText(k))
           /\ \A x \in 1..Size(k - 1) : DiffTo[k][x] = DiffTo[k - 1][x]
           /\ \A i \in 1..Len(DiffText(k)) : DiffTo[k][Size(k - 1) + i] = DiffText(k)[i]
<1>1. DiffIsRun
    BY DiffRuns
<1>2. k - 1 \in 0..Len(script) /\ k \in 0..Len(script)
    <2>1. PICK R : script \in Seq(R)
        BY ScriptIsSeq
    <2>2. Len(script) \in Nat
        BY <2>1
    <2> QED
        BY <2>2
<1>3. PICK W, a, b, c : W = PatchWords /\ a = DiffTo[k - 1] /\ b = DiffText(k) /\ c = DiffTo[k]
    OBVIOUS
<1>4. a \in Seq(W) /\ b \in Seq(W) /\ c = Join(a, b)
    <2>1. DiffTo[k - 1] \in Seq(PatchWords)
        BY <1>1, <1>2 DEF DiffIsRun
    <2>2. DiffText(k) \in Seq(PatchWords)
        BY DiffTextRight
    <2>3. DiffTo[k] = Join(DiffTo[k - 1], DiffText(k))
        BY <1>1 DEF DiffIsRun
    <2> QED
        BY <1>3, <2>1, <2>2, <2>3, Zenon
<1>5. a \in Seq(W) /\ b \in Seq(W)
    BY <1>4
<1>6. Joined(c, a, b) /\ c \in Seq(W)
    <2>1. Join(a, b) \in Seq(W) /\ Joined(Join(a, b), a, b)
        BY <1>5, JoinIsJoined
    <2> QED
        BY <1>4, <2>1, Zenon
<1>7. Size(k - 1) = Len(a) /\ Size(k) = Len(c)
    BY <1>3, Zenon DEF Size
<1>8. Len(a) \in Nat /\ Len(b) \in Nat /\ Len(c) \in Nat
    BY <1>5, <1>6
<1> QED
    BY <1>3, <1>6, <1>7, <1>8, Zenon DEF Joined

\* What is written stays where it is.
LEMMA DiffStays ==
    ASSUME script \in Scripts, NEW k \in 0..Len(script)
    PROVE  \A j \in 0..Len(script) :
               k <= j => /\ Size(k) \in Nat /\ Size(j) \in Nat /\ Size(k) <= Size(j)
                         /\ \A x \in 1..Size(k) : DiffTo[j][x] = DiffTo[k][x]
<1>1. PICK n : n = Len(script) /\ n \in Nat
    <2>1. PICK R : script \in Seq(R)
        BY ScriptIsSeq
    <2>2. Len(script) \in Nat
        BY <2>1
    <2> QED
        BY <2>2
<1> DEFINE Good(j) == /\ Size(k) \in Nat /\ Size(j) \in Nat /\ Size(k) <= Size(j)
                      /\ \A x \in 1..Size(k) : DiffTo[j][x] = DiffTo[k][x]
           T == {j \in 0..n : k <= j => Good(j)}
<1>2. Size(k) \in Nat
    <2>1. DiffIsRun
        BY DiffRuns
    <2>2. PICK W, d : W = PatchWords /\ d = DiffTo[k]
        OBVIOUS
    <2>3. d \in Seq(W)
        BY <2>1, <2>2, Zenon DEF DiffIsRun
    <2>4. Len(d) \in Nat
        BY <2>3
    <2> QED
        BY <2>2, <2>4, Zenon DEF Size
<1>3. Good(k)
    BY <1>2
<1>4. 0 \in T
    <2>1. k <= 0 => k = 0
        BY <1>1
    <2>2. k <= 0 => Good(0)
        <3> HIDE DEF Good
        <3> QED
            BY <1>3, <2>1
    <2>3. 0 \in 0..n
        BY <1>1
    <2> HIDE DEF Good
    <2> QED
        BY <2>2, <2>3
<1>5. ASSUME NEW j \in 0..n, j < n, j \in T PROVE j + 1 \in T
    <2>1. j + 1 \in 1..n /\ j + 1 \in 0..n /\ (j + 1) - 1 = j
        BY <1>1, <1>5
    <2>2. CASE j + 1 < k
        <3>1. ~(k <= j + 1)
            BY <1>1, <2>1, <2>2
        <3> HIDE DEF Good
        <3> QED
            BY <2>1, <3>1
    <2>3. CASE j + 1 = k
        <3> HIDE DEF Good
        <3> QED
            BY <1>3, <2>1, <2>3
    <2>4. CASE k <= j
        <3>1. Good(j)
            <4> HIDE DEF Good
            <4> QED
                BY <1>5, <2>4
        <3>2. /\ Size(j) \in Nat /\ Size(j + 1) \in Nat /\ Len(DiffText(j + 1)) \in Nat
              /\ Size(j + 1) = Size(j) + Len(DiffText(j + 1))
              /\ \A x \in 1..Size(j) : DiffTo[j + 1][x] = DiffTo[j][x]
            <4>1. PICK q : q = j + 1
                OBVIOUS
            <4>2. q \in 1..Len(script) /\ q - 1 = j
                BY <1>1, <2>1, <4>1
            <4>3. /\ Size(q - 1) \in Nat /\ Size(q) \in Nat /\ Len(DiffText(q)) \in Nat
                  /\ Size(q) = Size(q - 1) + Len(DiffText(q))
                  /\ \A x \in 1..Size(q - 1) : DiffTo[q][x] = DiffTo[q - 1][x]
                BY <4>2, DiffGrows
            <4> QED
                BY <4>1, <4>2, <4>3, Zenon
        <3>3. Size(k) <= Size(j + 1)
            BY <1>2, <3>1, <3>2
        <3>4. ASSUME NEW x \in 1..Size(k) PROVE DiffTo[j + 1][x] = DiffTo[k][x]
            <4>1. x \in 1..Size(j)
                BY <1>2, <3>1
            <4> QED
                BY <3>1, <3>2, <4>1, Zenon
        <3>5. Good(j + 1)
            BY <1>2, <3>2, <3>3, <3>4, Zenon
        <3> HIDE DEF Good
        <3> QED
            BY <2>1, <3>5
    <2>5. j + 1 < k \/ j + 1 = k \/ k <= j
        BY <1>1
    <2> QED
        BY <2>2, <2>3, <2>4, <2>5
<1>6. \A j \in 0..n : j \in T
    <2> HIDE DEF T
    <2> QED
        BY <1>1, <1>4, <1>5, InductionTo
<1>7. \A j \in 0..n : k <= j => Good(j)
    <2> HIDE DEF Good
    <2> QED
        BY <1>6
<1> QED
    BY <1>1, <1>7, Zenon

\* A line of a step, in the diff.
LEMMA LineIsThere ==
    ASSUME script \in Scripts, patchLines = Diff, NEW k \in 1..Len(script), NEW i \in 1..Len(DiffText(k))
    PROVE  /\ Size(k - 1) + i <= Len(patchLines)
           /\ patchLines[Size(k - 1) + i] = DiffText(k)[i]
<1>1. PICK n : n = Len(script) /\ n \in Nat
    <2>1. PICK R : script \in Seq(R)
        BY ScriptIsSeq
    <2>2. Len(script) \in Nat
        BY <2>1
    <2> QED
        BY <2>2
<1>2. k \in 0..n /\ n \in 0..n /\ k <= n
    BY <1>1
<1>3. Size(k) \in Nat /\ Size(n) \in Nat /\ Size(k) <= Size(n) /\ \A x \in 1..Size(k) : DiffTo[n][x] = DiffTo[k][x]
    BY <1>1, <1>2, DiffStays, Zenon
<1>4. /\ Size(k - 1) \in Nat /\ Size(k) \in Nat /\ Len(DiffText(k)) \in Nat
      /\ Size(k) = Size(k - 1) + Len(DiffText(k))
    BY DiffGrows
<1>5. DiffTo[k][Size(k - 1) + i] = DiffText(k)[i]
    BY DiffGrows, Zenon
<1>6. Size(k - 1) + i \in 1..Size(k) /\ Size(k - 1) + i <= Size(n)
    BY <1>3, <1>4
<1>7. patchLines = DiffTo[n] /\ Len(patchLines) = Size(n)
    BY <1>1, Zenon DEF Diff, Size
<1> QED
    BY <1>3, <1>5, <1>6, <1>7, Zenon

\* Every line is some step's.
LEMMA LineHasStep ==
    ASSUME script \in Scripts, patchLines = Diff, NEW line \in Nat, 1 <= line, line <= Len(patchLines)
    PROVE  \E k \in 1..Len(script) : /\ Size(k - 1) < line /\ line <= Size(k)
                                     /\ Shown(k)
<1>1. PICK n : n = Len(script) /\ n \in Nat
    <2>1. PICK R : script \in Seq(R)
        BY ScriptIsSeq
    <2>2. Len(script) \in Nat
        BY <2>1
    <2> QED
        BY <2>2
<1> DEFINE T == {k \in 0..n : line <= Size(k)}
<1>2. n \in T
    <2>1. Len(patchLines) = Size(n)
        BY <1>1, Zenon DEF Diff, Size
    <2> QED
        BY <1>1, <2>1
<1>3. T \subseteq Nat /\ T # {}
    BY <1>2
<1>4. PICK k \in T : \A y \in T : k <= y
    <2> HIDE DEF T
    <2> QED
        BY <1>3, LeastNatural
<1>5. Size(0) = 0
    <2>1. DiffTo[0] = <<>>
        BY DiffRuns DEF DiffIsRun
    <2> QED
        BY <2>1 DEF Size
<1>6. k \in 1..n /\ k - 1 \in 0..n /\ ~(k <= k - 1)
    <2>1. k # 0
        BY <1>4, <1>5
    <2> QED
        BY <1>1, <1>4, <2>1
<1>7. k - 1 \notin T
    BY <1>4, <1>6
<1>8. /\ Size(k - 1) \in Nat /\ Size(k) \in Nat /\ Len(DiffText(k)) \in Nat
      /\ Size(k) = Size(k - 1) + Len(DiffText(k))
    BY <1>1, <1>6, DiffGrows, Zenon
<1>9. Size(k - 1) < line /\ line <= Size(k)
    BY <1>4, <1>6, <1>7, <1>8
<1>10. Shown(k)
    <2>1. Len(DiffText(k)) # 0
        BY <1>8, <1>9
    <2>2. DiffTextIs(k, DiffText(k))
        BY <1>1, <1>6, DiffTextRight, Zenon
    <2> QED
        BY <2>1, <2>2, Zenon DEF DiffTextIs
<1> QED
    BY <1>1, <1>6, <1>9, <1>10

\* What is shown has lines, so where there are none nothing is shown.
LEMMA SameSizeIsQuiet ==
    ASSUME script \in Scripts, NEW m \in 0..Len(script), NEW k \in 0..Len(script), m <= k, Size(k) <= Size(m)
    PROVE  Quiet(m, k)
<1>1. PICK n : n = Len(script) /\ n \in Nat
    <2>1. PICK R : script \in Seq(R)
        BY ScriptIsSeq
    <2>2. Len(script) \in Nat
        BY <2>1
    <2> QED
        BY <2>2
<1>2. ASSUME NEW j \in (m + 1)..k, Shown(j) PROVE FALSE
    <2>1. j \in 1..n /\ j \in 0..n /\ j - 1 \in 0..n /\ m <= j - 1 /\ j <= k
        BY <1>1
    <2>2. Size(m) \in Nat /\ Size(j - 1) \in Nat /\ Size(m) <= Size(j - 1)
        BY <1>1, <2>1, DiffStays, Zenon
    <2>3. Size(j) \in Nat /\ Size(k) \in Nat /\ Size(j) <= Size(k)
        BY <1>1, <2>1, DiffStays, Zenon
    <2>4. Size(j) = Size(j - 1) + Len(DiffText(j)) /\ Len(DiffText(j)) \in Nat
        BY <1>1, <2>1, DiffGrows, Zenon
    <2>5. DiffTextIs(j, DiffText(j)) /\ script[j].line.end \in {"newline", "none", "other"}
        BY <1>1, <2>1, DiffTextRight, StepIs, Zenon
    <2>6. Headers(j) \in Nat
        BY DEF Headers
    <2>7. \/ Len(DiffText(j)) = Headers(j) + 1
          \/ Len(DiffText(j)) = Headers(j) + 2
          \/ Len(DiffText(j)) = Headers(j) + 3
        BY <1>2, <2>5, Zenon DEF DiffTextIs
    <2> QED
        BY <2>2, <2>3, <2>4, <2>6, <2>7
<1> QED
    BY <1>2 DEF Quiet

-----------------------------------------------------------------------------
(* The hunks, as they are read.                                            *)
LEMMA HunkIs ==
    ASSUME NEW hs, IsHunks(hs)
    PROVE  /\ Len(hs) \in Nat /\ DOMAIN hs = 1..Len(hs)
           /\ \A i \in 1..Len(hs) : hs[i] = [start |-> hs[i].start, count |-> hs[i].count, body |-> hs[i].body]
<1>1. PICK S : S = {[start |-> hs[i].start, count |-> hs[i].count, body |-> hs[i].body] : i \in 1..Len(hs)}
    OBVIOUS
<1>2. hs \in Seq(S)
    BY <1>1, Zenon DEF IsHunks
<1>3. ASSUME NEW i \in 1..Len(hs)
      PROVE  hs[i] = [start |-> hs[i].start, count |-> hs[i].count, body |-> hs[i].body]
    <2>1. hs[i] \in S
        BY <1>2
    <2> QED
        BY <1>1, <2>1
<1> QED
    BY <1>2, <1>3

LEMMA HunksAre ==
    ASSUME NEW S, NEW hs \in Seq(S),
           \A i \in 1..Len(hs) : hs[i] = [start |-> hs[i].start, count |-> hs[i].count, body |-> hs[i].body]
    PROVE  IsHunks(hs)
<1> DEFINE T == {[start |-> hs[i].start, count |-> hs[i].count, body |-> hs[i].body] : i \in 1..Len(hs)}
<1>1. \A i \in 1..Len(hs) : hs[i] \in T
    OBVIOUS
<1> HIDE DEF T
<1>2. hs \in Seq(T)
    BY <1>1
<1> QED
    BY <1>2 DEF IsHunks, T

\* hs, whose last hunk has one more step in its body, or another body.
LastIs(new, hs, n, body) ==
    /\ IsHunks(new) /\ Len(new) = n
    /\ \A i \in 1..n : i # n => new[i] = hs[i]
    /\ new[n] = [start |-> hs[n].start, count |-> hs[n].count, body |-> body]

LEMMA WithStepIs ==
    ASSUME NEW hs, IsHunks(hs), NEW n \in Nat, n = Len(hs), n >= 1, NEW step
    PROVE  LastIs(WithStep(hs, step), hs, n, Put(hs[n].body, step))
<1>1. PICK last, more : last = hs[n] /\ more = Append(hs[n].body, step)
    OBVIOUS
<1>2. /\ Len(hs) \in Nat /\ DOMAIN hs = 1..Len(hs)
      /\ \A i \in 1..Len(hs) : hs[i] = [start |-> hs[i].start, count |-> hs[i].count, body |-> hs[i].body]
    BY HunkIs
<1>3. n \in 1..n
    OBVIOUS
<1>4. last = [start |-> last.start, count |-> last.count, body |-> last.body]
    BY <1>1, <1>2, <1>3
<1>5. PICK new : new = [last EXCEPT !.body = more]
    OBVIOUS
<1>6. new = [start |-> last.start, count |-> last.count, body |-> more]
    BY <1>4, <1>5
<1>7. PICK all : all = [hs EXCEPT ![n] = new]
    OBVIOUS
<1>8. WithStep(hs, step) = all
    BY <1>1, <1>5, <1>7, Zenon DEF WithStep
<1>9. DOMAIN all = 1..n /\ all[n] = new /\ \A i \in 1..n : i # n => all[i] = hs[i]
    BY <1>2, <1>3, <1>7
<1>10. all = [i \in 1..n |-> all[i]]
    BY <1>7, <1>9, <1>2
<1> DEFINE T == {all[i] : i \in 1..n}
<1>11. \A i \in 1..n : all[i] \in T
    OBVIOUS
<1> HIDE DEF T
<1>12. all \in Seq(T) /\ Len(all) = n
    BY <1>10, <1>11
<1>13. ASSUME NEW i \in 1..Len(all)
       PROVE  all[i] = [start |-> all[i].start, count |-> all[i].count, body |-> all[i].body]
    <2>1. CASE i = n
        BY <1>6, <1>9, <2>1
    <2>2. CASE i # n
        BY <1>2, <1>9, <1>12, <2>2
    <2> QED
        BY <2>1, <2>2
<1>14. IsHunks(all)
    BY <1>12, <1>13, HunksAre
<1>15. new = [start |-> hs[n].start, count |-> hs[n].count, body |-> Put(hs[n].body, step)]
    BY <1>1, <1>6, Zenon DEF Put
<1> QED
    BY <1>8, <1>9, <1>12, <1>14, <1>15, Zenon DEF LastIs

LEMMA SameStart ==
    ASSUME NEW a, NEW b, a.start = b.start, a.count = b.count PROVE StartOf(a) = StartOf(b)
    BY DEF StartOf

\* One more step of the hunk that is open.
LEMMA OpenHunkGrows ==
    ASSUME NEW L, Of(L), NEW k \in Nat, k < Len(script), k >= 1, Shown(k), Shown(k + 1),
           NEW hs, Covers(hs, 0, k)
    PROVE  /\ Len(hs) \in Nat /\ Len(hs) >= 1
           /\ \E f \in Nat : 1 <= f /\ f <= k + 1 /\ hs[Len(hs)].body = Part(script, f, k)
           /\ Covers(WithStep(hs, script[k + 1]), 0, k + 1)
<1>1. PICK first, last : CoverIs(hs, 0, k, first, last)
    BY DEF Covers
<1>2. IsHunks(hs)
    BY DEF Covers
<1>3. PICK n : n = Len(hs) /\ n \in Nat
    BY <1>2, HunkIs
<1>4. PICK i \in 1..n : first[i] <= k /\ k <= last[i]
    <2>1. k \in (0 + 1)..k
        OBVIOUS
    <2> QED
        BY <1>1, <1>3, <2>1 DEF CoverIs
<1>5. n >= 1 /\ n \in 1..n
    BY <1>3, <1>4
<1>6. ASSUME NEW j \in 1..n PROVE first[j] \in 1..k /\ last[j] \in 1..k /\ RangeOf(hs[j], first[j], last[j])
    <2>1. first[j] \in (0 + 1)..k /\ last[j] \in (0 + 1)..k /\ RangeOf(hs[j], first[j], last[j])
        BY <1>1, <1>3 DEF CoverIs
    <2> QED
        BY <2>1
<1>7. i = n
    <2>1. i < n => last[i] < first[n]
        BY <1>1, <1>3, <1>5 DEF CoverIs
    <2>2. first[n] \in 1..k /\ last[i] \in 1..k
        BY <1>5, <1>6
    <2> QED
        BY <1>3, <1>4, <2>1, <2>2
<1>8. last[n] = k
    BY <1>4, <1>5, <1>6, <1>7
<1>9. PICK f \in Nat : f = first[n] /\ 1 <= f /\ f <= k
    BY <1>5, <1>6
<1>10. /\ Loud(f, k) /\ hs[n].body = Part(script, f, k) /\ StartOf(hs[n]) = OldLine(f - 1)
    BY <1>5, <1>6, <1>8, <1>9, Zenon DEF RangeOf
<1>11. PICK new, s : new = WithStep(hs, s) /\ s = script[k + 1]
    OBVIOUS
<1>12. /\ IsHunks(new) /\ Len(new) = n
       /\ \A j \in 1..n : j # n => new[j] = hs[j]
       /\ new[n] = [start |-> hs[n].start, count |-> hs[n].count, body |-> Put(hs[n].body, script[k + 1])]
    <2>1. LastIs(WithStep(hs, s), hs, n, Put(hs[n].body, s))
        BY <1>2, <1>3, <1>5, WithStepIs
    <2> QED
        BY <1>11, <2>1, Zenon DEF LastIs
<1>13. RangeOf(new[n], f, k + 1)
    <2>1. Loud(f, k + 1)
        <3>1. ASSUME NEW j \in f..(k + 1) PROVE Shown(j)
            <4>1. j = k + 1 \/ j \in f..k
                OBVIOUS
            <4> QED
                BY <1>10, <4>1 DEF Loud
        <3> QED
            BY <3>1 DEF Loud
    <2>2. Part(script, f, k + 1) = Put(Part(script, f, k), script[k + 1])
        <3>1. script \in Seq(StepsOf(L)) /\ f <= k + 1 /\ k < Len(script)
            BY <1>9 DEF Of
        <3>2. PICK S : S = StepsOf(L)
            OBVIOUS
        <3>3. script \in Seq(S)
            BY <3>1, <3>2
        <3> QED
            BY <1>9, <3>1, <3>3, PartMore
    <2>3. new[n].body = Part(script, f, k + 1)
        BY <1>10, <1>12, <2>2
    <2>4. StartOf(new[n]) = StartOf(hs[n])
        <3>1. new[n].start = hs[n].start /\ new[n].count = hs[n].count
            BY <1>12
        <3> QED
            BY <3>1, SameStart
    <2>5. f <= k + 1
        BY <1>9
    <2> QED
        BY <1>10, <2>1, <2>3, <2>4, <2>5, Zenon DEF RangeOf
<1> DEFINE last2 == [j \in 1..n |-> IF j = n THEN k + 1 ELSE last[j]]
<1>14. ASSUME NEW j \in 1..n
       PROVE  /\ last2[j] = IF j = n THEN k + 1 ELSE last[j]
              /\ first[j] \in (0 + 1)..(k + 1) /\ last2[j] \in (0 + 1)..(k + 1)
    BY <1>6
<1>15. first \in [1..n -> (0 + 1)..(k + 1)]
    <2>1. first \in [1..n -> (0 + 1)..k]
        BY <1>1, <1>3 DEF CoverIs
    <2> QED
        BY <1>14, <2>1
<1>16. last2 \in [1..n -> (0 + 1)..(k + 1)]
    BY <1>14
<1> HIDE DEF last2
<1>17. ASSUME NEW j \in 1..n PROVE RangeOf(new[j], first[j], last2[j])
    <2>1. CASE j = n
        BY <1>9, <1>13, <1>14, <2>1
    <2>2. CASE j # n
        BY <1>6, <1>12, <1>14, <2>2
    <2> QED
        BY <2>1, <2>2
<1>18. ASSUME NEW a \in 1..n, NEW b \in 1..n, a < b PROVE last2[a] < first[b]
    <2>1. a # n
        BY <1>3, <1>18
    <2> QED
        BY <1>1, <1>3, <1>14, <1>18, <2>1 DEF CoverIs
<1>19. ASSUME NEW j \in (0 + 1)..(k + 1), Shown(j) PROVE \E a \in 1..n : first[a] <= j /\ j <= last2[a]
    <2>1. CASE j = k + 1
        BY <1>5, <1>9, <1>14, <2>1
    <2>2. CASE j # k + 1
        <3>1. j \in (0 + 1)..k
            BY <2>2
        <3>2. PICK a \in 1..n : first[a] <= j /\ j <= last[a]
            BY <1>1, <1>3, <1>19, <3>1 DEF CoverIs
        <3>3. last[a] \in 1..k /\ last2[a] = IF a = n THEN k + 1 ELSE last[a]
            BY <1>6, <1>14
        <3>4. j <= last2[a]
            BY <3>1, <3>2, <3>3
        <3> QED
            BY <3>2, <3>4
    <2> QED
        BY <2>1, <2>2
<1>20. CoverIs(new, 0, k + 1, first, last2)
    BY <1>12, <1>15, <1>16, <1>17, <1>18, <1>19, Zenon DEF CoverIs
<1>21. Covers(new, 0, k + 1)
    BY <1>12, <1>20, Zenon DEF Covers
<1> QED
    BY <1>3, <1>5, <1>9, <1>10, <1>11, <1>21

\* A hunk's header, and where the hunk it opens starts.
HeadOf(k, word) == word.is = "header" /\ StartOf(OpenedBy(word)) = OldLine(k - 1)

LEMMA HeaderIsHead ==
    ASSUME NEW L, Of(L), NEW k \in 1..Len(script)
    PROVE  HeadOf(k, HeaderOf(k))
<1>1. PICK j \in Nat : j = k - 1 /\ j <= Len(script)
    <2>1. k - 1 \in Nat /\ k - 1 <= Len(script)
        BY DEF Of
    <2> QED
        BY <2>1
<1>2. PICK o : o = OldLine(k - 1) /\ o \in Nat
    <2>1. j <= j
        BY <1>1
    <2>2. OldLine(j) \in Nat
        BY <1>1, <2>1, OldLineIs
    <2> QED
        BY <1>1, <2>2
<1>3. PICK c : c = Len(OldOf(SubSeq(script, k, HunkEnd(k))))
    OBVIOUS
<1>4. HeaderOf(k) = [is |-> "header", count |-> c,
                     start |-> IF c = 0 THEN OldLine(k - 1) ELSE OldLine(k - 1) + 1]
    BY <1>3, Zenon DEF HeaderOf
<1>5. PICK word : word = HeaderOf(k) /\ word = [is |-> "header", count |-> c, start |-> IF c = 0 THEN o ELSE o + 1]
    BY <1>2, <1>4, Zenon
<1>6. word.is = "header" /\ word.count = c /\ word.start = (IF c = 0 THEN o ELSE o + 1)
    BY <1>5
<1>7. PICK opened : opened = OpenedBy(word)
    OBVIOUS
<1>8. opened.start = word.start /\ opened.count = word.count
    BY <1>7 DEF OpenedBy
<1>9. StartOf(opened) = o
    BY <1>2, <1>6, <1>8 DEF StartOf
<1> QED
    BY <1>2, <1>5, <1>6, <1>7, <1>9, Zenon DEF HeadOf

\* A hunk that is opened, and its first step.
LEMMA NewHunkCovers ==
    ASSUME NEW L, Of(L), NEW k \in Nat, k < Len(script), Shown(k + 1),
           NEW hs, Covers(hs, 0, k), NEW word, HeadOf(k + 1, word), NEW opened, opened = OpenedBy(word),
           NEW new, new = Put(hs, opened)
    PROVE  /\ IsHunks(new) /\ Len(new) \in Nat /\ Len(new) >= 1
           /\ \E f \in Nat : 1 <= f /\ f <= k + 1 /\ new[Len(new)].body = Part(script, f, k)
           /\ Covers(WithStep(new, script[k + 1]), 0, k + 1)
<1>1. PICK first, last : CoverIs(hs, 0, k, first, last)
    BY DEF Covers
<1>2. IsHunks(hs)
    BY DEF Covers
<1>3. PICK n : n = Len(hs) /\ n \in Nat
    BY <1>2, HunkIs
<1>4. k \in Nat /\ k <= Len(script) /\ (k + 1) - 1 = k
    BY DEF Of
<1>7. opened = [start |-> opened.start, count |-> opened.count, body |-> opened.body] /\ opened.body = <<>>
    BY DEF OpenedBy
<1>8. StartOf(opened) = OldLine(k)
    BY <1>4, Zenon DEF HeadOf
<1> DEFINE S == {hs[i] : i \in 1..n} \cup {opened}
<1>9. hs \in Seq(S) /\ opened \in S
    <2>1. \A i \in 1..n : hs[i] \in S
        OBVIOUS
    <2>2. opened \in S
        OBVIOUS
    <2>3. \E T : hs \in Seq(T)
        BY <1>2, Zenon DEF IsHunks
    <2> HIDE DEF S
    <2> QED
        BY <1>3, <2>1, <2>2, <2>3
<1> HIDE DEF S
<1>10. /\ new \in Seq(S) /\ Len(new) = n + 1 /\ new[n + 1] = opened
       /\ \A i \in 1..n : new[i] = hs[i]
    <2>1. /\ Append(hs, opened) \in Seq(S) /\ Len(Append(hs, opened)) = Len(hs) + 1
          /\ Append(hs, opened)[Len(hs) + 1] = opened
          /\ \A i \in 1..Len(hs) : Append(hs, opened)[i] = hs[i]
        BY <1>9, AppendProperties
    <2> QED
        BY <1>3, <2>1, Zenon DEF Put
<1>11. IsHunks(new)
    <2>1. ASSUME NEW i \in 1..Len(new)
          PROVE  new[i] = [start |-> new[i].start, count |-> new[i].count, body |-> new[i].body]
        <3>1. i = n + 1 \/ i \in 1..n
            BY <1>3, <1>10
        <3>2. \A j \in 1..n : hs[j] = [start |-> hs[j].start, count |-> hs[j].count, body |-> hs[j].body]
            BY <1>2, <1>3, HunkIs
        <3>3. CASE i = n + 1
            BY <1>7, <1>10, <3>3
        <3>4. CASE i \in 1..n
            <4>1. new[i] = hs[i]
                BY <1>10, <3>4
            <4> QED
                BY <3>2, <3>4, <4>1
        <3> QED
            BY <3>1, <3>3, <3>4
    <2> QED
        BY <1>10, <2>1, HunksAre
<1>12. n + 1 \in Nat /\ n + 1 >= 1
    BY <1>3
<1>13. new[n + 1].body = Part(script, k + 1, k)
    <2>1. Part(script, k + 1, k) = <<>>
        BY PartEmpty
    <2> QED
        BY <1>7, <1>10, <2>1
<1>14. PICK all, q, s : all = WithStep(new, s) /\ q = n + 1 /\ s = script[k + 1]
    OBVIOUS
<1>15. /\ IsHunks(all) /\ Len(all) = q
       /\ \A j \in 1..q : j # q => all[j] = new[j]
       /\ all[q] = [start |-> new[q].start, count |-> new[q].count, body |-> Put(new[q].body, script[k + 1])]
    <2>1. q \in Nat /\ q = Len(new) /\ q >= 1
        BY <1>10, <1>12, <1>14
    <2> QED
        <3>1. LastIs(WithStep(new, s), new, q, Put(new[q].body, s))
            BY <1>11, <2>1, WithStepIs
        <3> QED
            BY <1>14, <3>1, Zenon DEF LastIs
<1>16. RangeOf(all[q], k + 1, k + 1)
    <2>1. Loud(k + 1, k + 1)
        BY DEF Loud
    <2>2. Part(script, k + 1, k + 1) = Put(Part(script, k + 1, k), script[k + 1])
        <3>1. PICK R, f : R = StepsOf(L) /\ f = k + 1
            OBVIOUS
        <3>2. script \in Seq(R)
            BY <3>1 DEF Of
        <3>3. f \in Nat /\ 1 <= f /\ f <= k + 1 /\ k < Len(script)
            BY <3>1
        <3>4. Part(script, f, k + 1) = Put(Part(script, f, k), script[k + 1])
            BY <3>2, <3>3, PartMore
        <3> QED
            BY <3>1, <3>4, Zenon
    <2>3. all[q].body = Part(script, k + 1, k + 1)
        <3>1. new[q].body = Part(script, k + 1, k)
            BY <1>13, <1>14, Zenon
        <3>2. PICK b : b = Put(new[q].body, script[k + 1])
            OBVIOUS
        <3>3. all[q] = [start |-> new[q].start, count |-> new[q].count, body |-> b]
            BY <1>15, <3>2, Zenon
        <3>4. all[q].body = b
            BY <3>3
        <3> QED
            BY <2>2, <3>1, <3>2, <3>4, Zenon
    <2>4. StartOf(all[q]) = StartOf(opened)
        <3>1. all[q].start = opened.start /\ all[q].count = opened.count
            BY <1>10, <1>14, <1>15
        <3> QED
            BY <3>1, SameStart
    <2>5. k + 1 <= k + 1 /\ (k + 1) - 1 = k
        OBVIOUS
    <2> QED
        BY <1>4, <1>8, <2>1, <2>3, <2>4, <2>5, Zenon DEF RangeOf
<1> DEFINE first2 == [j \in 1..q |-> IF j = q THEN k + 1 ELSE first[j]]
           last2 == [j \in 1..q |-> IF j = q THEN k + 1 ELSE last[j]]
<1>17. ASSUME NEW j \in 1..n PROVE first[j] \in (0 + 1)..k /\ last[j] \in (0 + 1)..k /\ RangeOf(hs[j], first[j], last[j])
    BY <1>1, <1>3 DEF CoverIs
<1>18. ASSUME NEW j \in 1..q
       PROVE  /\ first2[j] = (IF j = q THEN k + 1 ELSE first[j])
              /\ last2[j] = (IF j = q THEN k + 1 ELSE last[j])
              /\ first2[j] \in (0 + 1)..(k + 1) /\ last2[j] \in (0 + 1)..(k + 1)
              /\ RangeOf(all[j], first2[j], last2[j])
    <2>1. first2[j] = (IF j = q THEN k + 1 ELSE first[j]) /\ last2[j] = (IF j = q THEN k + 1 ELSE last[j])
        OBVIOUS
    <2>2. CASE j = q
        <3>1. k + 1 \in (0 + 1)..(k + 1)
            OBVIOUS
        <3> HIDE DEF first2, last2
        <3> QED
            BY <1>16, <2>1, <2>2, <3>1
    <2>3. CASE j # q
        <3>1. j \in 1..n
            BY <1>3, <1>14, <2>3
        <3>2. all[j] = hs[j]
            BY <1>10, <1>15, <2>3, <3>1
        <3>3. first[j] \in (0 + 1)..(k + 1) /\ last[j] \in (0 + 1)..(k + 1)
            BY <1>17, <3>1
        <3> HIDE DEF first2, last2
        <3> QED
            BY <1>17, <2>1, <2>3, <3>1, <3>2, <3>3
    <2> QED
        BY <2>2, <2>3
<1>19. first2 \in [1..q -> (0 + 1)..(k + 1)] /\ last2 \in [1..q -> (0 + 1)..(k + 1)]
    <2>1. \A j \in 1..q : first2[j] \in (0 + 1)..(k + 1) /\ last2[j] \in (0 + 1)..(k + 1)
        BY <1>18
    <2> QED
        BY <2>1
<1> HIDE DEF first2, last2
<1>20. ASSUME NEW a \in 1..q, NEW b \in 1..q, a < b PROVE last2[a] < first2[b]
    <2>1. a # q /\ a \in 1..n
        BY <1>3, <1>14, <1>20
    <2>2. last2[a] = last[a] /\ last[a] \in (0 + 1)..k
        BY <1>17, <1>18, <2>1
    <2>3. CASE b = q
        <3>1. first2[b] = k + 1
            BY <1>18, <2>3
        <3> QED
            BY <2>2, <3>1
    <2>4. CASE b # q
        <3>1. b \in 1..n
            BY <1>3, <1>14, <2>4
        <3>2. first2[b] = first[b] /\ last[a] < first[b]
            BY <1>1, <1>3, <1>18, <1>20, <2>1, <2>4, <3>1 DEF CoverIs
        <3> QED
            BY <2>2, <3>2
    <2> QED
        BY <2>3, <2>4
<1>21. ASSUME NEW j \in (0 + 1)..(k + 1), Shown(j) PROVE \E a \in 1..q : first2[a] <= j /\ j <= last2[a]
    <2>1. CASE j = k + 1
        <3>1. q \in 1..q /\ first2[q] = k + 1 /\ last2[q] = k + 1
            BY <1>12, <1>14, <1>18
        <3> QED
            BY <2>1, <3>1
    <2>2. CASE j # k + 1
        <3>1. j \in (0 + 1)..k
            BY <2>2
        <3>2. PICK a \in 1..n : first[a] <= j /\ j <= last[a]
            BY <1>1, <1>3, <1>21, <3>1 DEF CoverIs
        <3>3. a \in 1..q /\ a # q
            BY <1>3, <1>14
        <3>4. first2[a] = first[a] /\ last2[a] = last[a]
            BY <1>18, <3>3
        <3> QED
            BY <3>2, <3>3, <3>4
    <2> QED
        BY <2>1, <2>2
<1>22. CoverIs(all, 0, k + 1, first2, last2)
    <2>1. \A j \in 1..q : RangeOf(all[j], first2[j], last2[j])
        BY <1>18
    <2> QED
        BY <1>15, <1>19, <1>20, <1>21, <2>1, Zenon DEF CoverIs
<1>23. Covers(all, 0, k + 1)
    BY <1>15, <1>22, Zenon DEF Covers
<1>24. k + 1 \in Nat /\ 1 <= k + 1 /\ k + 1 <= k + 1
    OBVIOUS
<1> QED
    BY <1>10, <1>11, <1>12, <1>13, <1>14, <1>23, <1>24, Zenon

-----------------------------------------------------------------------------
(* How the lines of the diff lie: the first k steps are its first size[k]. *)
LinesOf(k, first, last) ==
    /\ FirstOfHunk(k) => HeadOf(k, patchLines[first + 1])
    /\ script[k].line.end = "newline" =>
         last = first + Headers(k) + 1 /\ patchLines[first + Headers(k) + 1] = Said(script[k])
    /\ script[k].line.end = "none" =>
         /\ last = first + Headers(k) + 2 /\ patchLines[first + Headers(k) + 1] = Said(Ended(script[k]))
         /\ patchLines[first + Headers(k) + 2] = NoNewline
    /\ script[k].line.end = "other" =>
         /\ last = first + Headers(k) + 3 /\ patchLines[first + Headers(k) + 1] = Said(script[k])
         /\ patchLines[first + Headers(k) + 2] = Rest

IsLaidOut(size) ==
    /\ size \in [0..Len(script) -> Nat] /\ size[0] = 0 /\ size[Len(script)] = Len(patchLines)
    /\ \A j, k \in 0..Len(script) : j <= k => size[j] <= size[k] /\ (size[k] <= size[j] => Quiet(j, k))
    /\ \A line \in 1..Len(patchLines) :
         \E k \in 1..Len(script) : Shown(k) /\ size[k - 1] < line /\ line <= size[k]
    /\ \A k \in 1..Len(script) : Shown(k) => LinesOf(k, size[k - 1], size[k])

LEMMA DiffIsLaidOut ==
    ASSUME script \in Scripts, patchLines = Diff, NEW L, Of(L)
    PROVE  \E size : IsLaidOut(size)
<1>1. PICK n : n = Len(script) /\ n \in Nat
    BY DEF Of
<1>2. PICK lines : lines = Len(patchLines)
    OBVIOUS
<1> DEFINE size == [k \in 0..n |-> Size(k)]
<1>3. \A k \in 0..n : size[k] = Size(k)
    OBVIOUS
<1>4. ASSUME NEW j \in 0..n, NEW k \in 0..n, j <= k
      PROVE  Size(j) \in Nat /\ Size(k) \in Nat /\ Size(j) <= Size(k) /\ (Size(k) <= Size(j) => Quiet(j, k))
    <2>1. Size(j) \in Nat /\ Size(k) \in Nat /\ Size(j) <= Size(k)
        BY <1>1, <1>4, DiffStays, Zenon
    <2>2. Size(k) <= Size(j) => Quiet(j, k)
        BY <1>1, <1>4, SameSizeIsQuiet, Zenon
    <2> QED
        BY <2>1, <2>2
<1>5. ASSUME NEW k \in 0..n PROVE Size(k) \in Nat
    <2>1. k <= k
        BY <1>1
    <2> QED
        BY <1>4, <2>1
<1>6. size \in [0..n -> Nat]
    BY <1>5
<1> HIDE DEF size
<1>7. size[0] = 0 /\ size[n] = lines
    <2>1. DiffTo[0] = <<>>
        BY DiffRuns DEF DiffIsRun
    <2>2. Size(0) = 0
        BY <2>1 DEF Size
    <2>3. Size(n) = Len(patchLines)
        BY <1>1, Zenon DEF Diff, Size
    <2>4. 0 \in 0..n /\ n \in 0..n
        BY <1>1
    <2> QED
        BY <1>2, <1>3, <2>2, <2>3, <2>4, Zenon
<1>8. \A k \in 1..n : k - 1 \in 0..n /\ k \in 0..n
    BY <1>1
<1>9. ASSUME NEW j \in 0..n, NEW k \in 0..n, j <= k
      PROVE  size[j] <= size[k] /\ (size[k] <= size[j] => Quiet(j, k))
    BY <1>3, <1>4, <1>9, Zenon
<1>10. ASSUME NEW line \in 1..lines
       PROVE  \E k \in 1..n : Shown(k) /\ size[k - 1] < line /\ line <= size[k]
    <2>1. lines \in Nat
        BY <1>1, <1>6, <1>7
    <2>2. line \in Nat /\ 1 <= line /\ line <= lines
        BY <2>1
    <2>3. PICK k \in 1..n : Size(k - 1) < line /\ line <= Size(k) /\ Shown(k)
        BY <1>1, <1>2, <2>2, LineHasStep, Zenon
    <2> QED
        BY <1>3, <1>8, <2>3, Zenon
<1>11. ASSUME NEW k \in 1..n, Shown(k) PROVE LinesOf(k, size[k - 1], size[k])
    <2>1. PICK first, last, text : first = Size(k - 1) /\ last = Size(k) /\ text = DiffText(k)
        OBVIOUS
    <2>2. DiffTextIs(k, text)
        BY <1>1, <2>1, DiffTextRight, Zenon
    <2>3. first \in Nat /\ last \in Nat /\ Len(text) \in Nat /\ last = first + Len(text)
        <3>1. /\ Size(k - 1) \in Nat /\ Size(k) \in Nat /\ Len(DiffText(k)) \in Nat
              /\ Size(k) = Size(k - 1) + Len(DiffText(k))
            BY <1>1, DiffGrows, Zenon
        <3> QED
            BY <2>1, <3>1, Zenon
    <2>4. \A i \in 1..Len(text) : patchLines[first + i] = text[i]
        BY <1>1, <2>1, LineIsThere, Zenon
    <2>5. Headers(k) \in {0, 1} /\ (FirstOfHunk(k) => Headers(k) = 1)
        BY DEF Headers
    <2>6. HeadOf(k, HeaderOf(k))
        BY <1>1, HeaderIsHead, Zenon
    <2>7. PICK h : h = Headers(k)
        OBVIOUS
    <2>8. h \in {0, 1} /\ (FirstOfHunk(k) => h = 1)
        BY <2>5, <2>7, Zenon
    <2>9. script[k].line.end \in {"newline", "none", "other"}
        BY <1>1, StepIs, Zenon
    <2>10. CASE script[k].line.end = "newline"
        <3>1. Len(text) = h + 1 /\ text[h + 1] = Said(script[k]) /\ (FirstOfHunk(k) => text[1] = HeaderOf(k))
            BY <1>11, <2>2, <2>7, <2>10, Zenon DEF DiffTextIs
        <3>2. 1 \in 1..Len(text) /\ h + 1 \in 1..Len(text) /\ last = first + h + 1 /\ first + (h + 1) = first + h + 1
            BY <2>3, <2>8, <3>1
        <3>3. patchLines[first + 1] = text[1] /\ patchLines[first + h + 1] = text[h + 1]
            BY <2>4, <3>2
        <3>4. LinesOf(k, first, last)
            BY <2>6, <2>7, <2>10, <3>1, <3>2, <3>3, Zenon DEF LinesOf
        <3> QED
            BY <1>3, <1>8, <2>1, <3>4, Zenon
    <2>11. CASE script[k].line.end = "none"
        <3>1. /\ Len(text) = h + 2 /\ text[h + 1] = Said(Ended(script[k])) /\ text[h + 2] = NoNewline
              /\ FirstOfHunk(k) => text[1] = HeaderOf(k)
            BY <1>11, <2>2, <2>7, <2>11, Zenon DEF DiffTextIs
        <3>2. /\ 1 \in 1..Len(text) /\ h + 1 \in 1..Len(text) /\ h + 2 \in 1..Len(text)
              /\ last = first + h + 2 /\ first + (h + 1) = first + h + 1 /\ first + (h + 2) = first + h + 2
            BY <2>3, <2>8, <3>1
        <3>3. /\ patchLines[first + 1] = text[1] /\ patchLines[first + h + 1] = text[h + 1]
              /\ patchLines[first + h + 2] = text[h + 2]
            BY <2>4, <3>2
        <3>4. LinesOf(k, first, last)
            BY <2>6, <2>7, <2>11, <3>1, <3>2, <3>3, Zenon DEF LinesOf
        <3> QED
            BY <1>3, <1>8, <2>1, <3>4, Zenon
    <2>12. CASE script[k].line.end = "other"
        <3>1. /\ Len(text) = h + 3 /\ text[h + 1] = Said(script[k]) /\ text[h + 2] = Rest
              /\ FirstOfHunk(k) => text[1] = HeaderOf(k)
            BY <1>11, <2>2, <2>7, <2>12, Zenon DEF DiffTextIs
        <3>2. /\ 1 \in 1..Len(text) /\ h + 1 \in 1..Len(text) /\ h + 2 \in 1..Len(text)
              /\ last = first + h + 3 /\ first + (h + 1) = first + h + 1 /\ first + (h + 2) = first + h + 2
            BY <2>3, <2>8, <3>1
        <3>3. /\ patchLines[first + 1] = text[1] /\ patchLines[first + h + 1] = text[h + 1]
              /\ patchLines[first + h + 2] = text[h + 2]
            BY <2>4, <3>2
        <3>4. LinesOf(k, first, last)
            BY <2>6, <2>7, <2>12, <3>1, <3>2, <3>3, Zenon DEF LinesOf
        <3> QED
            BY <1>3, <1>8, <2>1, <3>4, Zenon
    <2> QED
        BY <2>9, <2>10, <2>11, <2>12
<1>12. IsLaidOut(size)
    BY <1>1, <1>2, <1>6, <1>7, <1>9, <1>10, <1>11, Zenon DEF IsLaidOut
<1> QED
    BY <1>12

\* Where a line was noted, it is as it was before it was ended.
LEMMA NotedIs ==
    ASSUME NEW hs, IsHunks(hs), NEW n \in Nat, n = Len(hs), n >= 1,
           NEW S, hs[n].body \in Seq(S), NEW s, s \in S, NEW e, e = Ended(s), Unended(e) = s
    PROVE  Noted(WithStep(hs, e)) = WithStep(hs, s)
<1>1. PICK one, two, body : one = WithStep(hs, e) /\ two = WithStep(hs, s) /\ body = hs[n].body
    OBVIOUS
<1>2. PICK ended, more : ended = Put(body, e) /\ more = Put(body, s)
    OBVIOUS
<1>3. LastIs(one, hs, n, ended) /\ LastIs(two, hs, n, more)
    <2>1. LastIs(WithStep(hs, e), hs, n, Put(hs[n].body, e)) /\ LastIs(WithStep(hs, s), hs, n, Put(hs[n].body, s))
        BY WithStepIs
    <2> QED
        BY <1>1, <1>2, <2>1, Zenon
<1>4. PICK m : m = Len(body) /\ m \in Nat
    BY <1>1
<1> DEFINE T == S \cup {e}
<1>5. body \in Seq(T) /\ e \in T /\ s \in T
    <2>1. e \in T /\ s \in T /\ S \subseteq T
        OBVIOUS
    <2> HIDE DEF T
    <2> QED
        BY <1>1, <2>1
<1> HIDE DEF T
<1>6. /\ ended \in Seq(T) /\ Len(ended) = m + 1 /\ ended[m + 1] = e /\ \A i \in 1..m : ended[i] = body[i]
      /\ more \in Seq(T) /\ Len(more) = m + 1 /\ more[m + 1] = s /\ \A i \in 1..m : more[i] = body[i]
    <2>1. ASSUME NEW x \in T
          PROVE  /\ Put(body, x) \in Seq(T) /\ Len(Put(body, x)) = Len(body) + 1 /\ Put(body, x)[Len(body) + 1] = x
                 /\ \A i \in 1..Len(body) : Put(body, x)[i] = body[i]
        <3>1. body \in Seq(T) /\ x \in T
            BY <1>5
        <3> QED
            BY <3>1, PutIs
    <2>2. e \in T /\ s \in T
        BY <1>5
    <2> QED
        BY <1>2, <1>4, <2>1, <2>2, Zenon
<1>7. PICK again : again = [ended EXCEPT ![m + 1] = s]
    OBVIOUS
<1>8. again = more
    <2>1. m + 1 \in 1..Len(ended)
        BY <1>4, <1>6
    <2>2. again \in Seq(T) /\ Len(again) = m + 1 /\ again[m + 1] = s /\ \A i \in 1..(m + 1) : i # m + 1 => again[i] = ended[i]
        BY <1>4, <1>5, <1>6, <1>7, <2>1
    <2>3. ASSUME NEW i \in 1..Len(again) PROVE again[i] = more[i]
        <3>1. i = m + 1 \/ (i \in 1..m /\ i # m + 1 /\ i \in 1..(m + 1))
            BY <1>4, <2>2
        <3> QED
            BY <1>6, <2>2, <3>1
    <2>4. Len(again) = Len(more)
        BY <1>6, <2>2
    <2> QED
        BY <1>6, <2>2, <2>3, <2>4, SeqEqual
<1>9. /\ IsHunks(one) /\ Len(one) = n /\ \A i \in 1..n : i # n => one[i] = hs[i]
      /\ one[n] = [start |-> hs[n].start, count |-> hs[n].count, body |-> ended]
    BY <1>3, Zenon DEF LastIs
<1>10. /\ IsHunks(two) /\ Len(two) = n /\ \A i \in 1..n : i # n => two[i] = hs[i]
       /\ two[n] = [start |-> hs[n].start, count |-> hs[n].count, body |-> more]
    BY <1>3, Zenon DEF LastIs
<1>11. PICK last : last = one[n]
    OBVIOUS
<1>12. last = [start |-> hs[n].start, count |-> hs[n].count, body |-> ended] /\ last.body = ended
    BY <1>9, <1>11
<1>13. PICK noted : noted = Noted(one)
    OBVIOUS
<1>14. noted = [one EXCEPT ![n] = [last EXCEPT !.body = again]]
    <2>1. Noted(one) = [one EXCEPT ![n] = [last EXCEPT !.body = [last.body EXCEPT ![m + 1] = Unended(last.body[m + 1])]]]
        <3>1. Len(last.body) = m + 1
            BY <1>6, <1>12
        <3>2. Noted(one) = [one EXCEPT ![Len(one)] = [one[Len(one)] EXCEPT !.body = [one[Len(one)].body EXCEPT ![Len(one[Len(one)].body)] = Unended(one[Len(one)].body[Len(one[Len(one)].body)])]]]
            BY DEF Noted
        <3> QED
            BY <1>9, <1>11, <3>1, <3>2, Zenon
    <2>2. Unended(last.body[m + 1]) = s
        BY <1>6, <1>12
    <2> QED
        BY <1>7, <1>12, <1>13, <2>1, <2>2, Zenon
<1>15. PICK done : done = [last EXCEPT !.body = again]
    OBVIOUS
<1>16. done = two[n]
    <2>1. done = [start |-> hs[n].start, count |-> hs[n].count, body |-> again]
        BY <1>12, <1>15
    <2> QED
        BY <1>8, <1>10, <2>1
<1>17. DOMAIN one = 1..n /\ DOMAIN two = 1..n
    BY <1>9, <1>10, HunkIs
<1>18. one = [i \in 1..n |-> one[i]] /\ two = [i \in 1..n |-> two[i]]
    <2>1. (\E A : one \in Seq(A)) /\ \E A : two \in Seq(A)
        BY <1>9, <1>10, Zenon DEF IsHunks
    <2> QED
        BY <1>17, <2>1
<1>19. noted = [one EXCEPT ![n] = done]
    BY <1>14, <1>15, Zenon
<1>20. noted = [i \in 1..n |-> IF i = n THEN done ELSE one[i]]
    BY <1>17, <1>18, <1>19
<1>21. ASSUME NEW i \in 1..n PROVE (IF i = n THEN done ELSE one[i]) = two[i]
    BY <1>9, <1>10, <1>16
<1>22. noted = two
    BY <1>18, <1>20, <1>21
<1> QED
    BY <1>1, <1>13, <1>22

-----------------------------------------------------------------------------
(* How far the diff is read: k steps of it, or one of their lines more.    *)
Ready(hs, k) ==     \* the last hunk takes the k-th step next
    /\ IsHunks(hs) /\ Len(hs) \in Nat /\ Len(hs) >= 1
    /\ \E f \in Nat : 1 <= f /\ f <= k /\ hs[Len(hs)].body = Part(script, f, k - 1)
    /\ Covers(WithStep(hs, script[k]), 0, k)

Done(p, size, k) == k \in 0..Len(script) /\ p.line = size[k] + 1 /\ Covers(p.hunks, 0, k)
AtHeader(p, size, k) ==
    k \in 1..Len(script) /\ FirstOfHunk(k) /\ p.line = size[k - 1] + 1 /\ Covers(p.hunks, 0, k - 1)
AtStep(p, size, k) ==
    k \in 1..Len(script) /\ Shown(k) /\ p.line = size[k - 1] + Headers(k) + 1 /\ Ready(p.hunks, k)
AtNote(p, size, k) ==
    /\ k \in 1..Len(script) /\ Shown(k) /\ script[k].line.end = "none"
    /\ p.line = size[k] /\ Covers(Noted(p.hunks), 0, k)
Torn(p) ==
    /\ p.line \in 1..Len(patchLines) /\ patchLines[p.line] = Rest
    /\ \E k \in DOMAIN script : Shown(k) /\ script[k].line.end = "other"

\* After a line.
ReadTo(p, size) ==
    \/ \E k : Done(p, size, k)
    \/ \E k : FirstOfHunk(k) /\ AtStep(p, size, k)
    \/ \E k : AtNote(p, size, k)
    \/ Torn(p)

\* Before a line.
BeforeLine(p, size) ==
    \/ \E k : AtHeader(p, size, k)
    \/ \E k : AtStep(p, size, k)
    \/ \E k : AtNote(p, size, k)
    \/ Torn(p)

LEMMA QuietCovers ==
    ASSUME NEW hs, NEW m \in Nat, NEW k \in Nat, m <= k, Quiet(m, k), Covers(hs, 0, m)
    PROVE  Covers(hs, 0, k)
<1>1. PICK first, last : CoverIs(hs, 0, m, first, last)
    BY DEF Covers
<1>2. PICK I : I = 1..Len(hs)
    OBVIOUS
<1>3. first \in [I -> (0 + 1)..m] /\ last \in [I -> (0 + 1)..m]
    BY <1>1, <1>2, Zenon DEF CoverIs
<1>4. first \in [I -> (0 + 1)..k] /\ last \in [I -> (0 + 1)..k]
    <2>1. \A i \in I : first[i] \in (0 + 1)..k /\ last[i] \in (0 + 1)..k
        BY <1>3
    <2> QED
        BY <1>3, <2>1
<1>5. ASSUME NEW j \in (0 + 1)..k, Shown(j) PROVE \E i \in I : first[i] <= j /\ j <= last[i]
    <2>1. j \in (0 + 1)..m
        <3>1. j \in (m + 1)..k \/ j \in (0 + 1)..m
            OBVIOUS
        <3> QED
            BY <1>5, <3>1 DEF Quiet
    <2> QED
        BY <1>1, <1>2, <1>5, <2>1, Zenon DEF CoverIs
<1>6. CoverIs(hs, 0, k, first, last)
    BY <1>1, <1>2, <1>4, <1>5, Zenon DEF CoverIs
<1> QED
    BY <1>6, Zenon DEF Covers

\* The next line of the diff, after the first k steps.
LEMMA NextAfterDone ==
    ASSUME NEW L, Of(L), NEW size, IsLaidOut(size), NEW p, NEW k, Done(p, size, k),
           p.line <= Len(patchLines)
    PROVE  BeforeLine(p, size)
<1>1. PICK n, W : n = Len(script) /\ n \in Nat /\ W = Len(patchLines)
    BY DEF Of
<1>2. k \in 0..n /\ p.line = size[k] + 1 /\ Covers(p.hunks, 0, k)
    BY <1>1, Zenon DEF Done
<1>3. size \in [0..n -> Nat] /\ size[n] = W
    BY <1>1, Zenon DEF IsLaidOut
<1>4. p.line \in 1..W /\ k \in Nat /\ size[k] \in Nat
    BY <1>1, <1>2, <1>3
<1>5. PICK j \in 1..n : Shown(j) /\ size[j - 1] < p.line /\ p.line <= size[j]
    BY <1>1, <1>4, Zenon DEF IsLaidOut
<1>6. j - 1 \in 0..n /\ j \in 0..n /\ j \in Nat /\ j - 1 \in Nat /\ size[j - 1] \in Nat /\ size[j] \in Nat
    BY <1>1, <1>3
<1>7. k <= j - 1
    <2>1. j <= k => size[j] <= size[k]
        BY <1>1, <1>2, <1>6, Zenon DEF IsLaidOut
    <2> QED
        BY <1>2, <1>4, <1>5, <1>6, <2>1
<1>8. size[k] <= size[j - 1] /\ (size[j - 1] <= size[k] => Quiet(k, j - 1))
    BY <1>1, <1>2, <1>6, <1>7, Zenon DEF IsLaidOut
<1>9. size[j - 1] <= size[k]
    BY <1>2, <1>4, <1>5, <1>6
<1>10. Quiet(k, j - 1) /\ p.line = size[j - 1] + 1
    BY <1>2, <1>4, <1>6, <1>8, <1>9
<1>11. Covers(p.hunks, 0, j - 1)
    BY <1>2, <1>4, <1>6, <1>7, <1>10, QuietCovers
<1>12. CASE FirstOfHunk(j)
    <2>1. AtHeader(p, size, j)
        BY <1>1, <1>10, <1>11, <1>12, Zenon DEF AtHeader
    <2> QED
        BY <2>1, Zenon DEF BeforeLine
<1>13. CASE ~FirstOfHunk(j)
    <2>1. j # 1 /\ Shown(j - 1)
        BY <1>5, <1>13 DEF FirstOfHunk
    <2>2. PICK i \in Nat : i = j - 1 /\ i >= 1 /\ i < n /\ j = i + 1 /\ i < Len(script)
        <3>1. j - 1 \in Nat /\ j - 1 >= 1 /\ j - 1 < n /\ j = (j - 1) + 1 /\ j - 1 < Len(script)
            BY <1>1, <2>1
        <3> QED
            BY <3>1
    <2>3. Shown(i) /\ Shown(i + 1) /\ Covers(p.hunks, 0, i)
        BY <1>5, <1>11, <2>1, <2>2, Zenon
    <2>4. /\ Len(p.hunks) \in Nat /\ Len(p.hunks) >= 1
          /\ \E f \in Nat : 1 <= f /\ f <= i + 1 /\ p.hunks[Len(p.hunks)].body = Part(script, f, i)
          /\ Covers(WithStep(p.hunks, script[i + 1]), 0, i + 1)
        <3>1. PICK hs : hs = p.hunks
            OBVIOUS
        <3>2. Covers(hs, 0, i)
            BY <2>3, <3>1
        <3>3. /\ Len(hs) \in Nat /\ Len(hs) >= 1
              /\ \E f \in Nat : 1 <= f /\ f <= i + 1 /\ hs[Len(hs)].body = Part(script, f, i)
              /\ Covers(WithStep(hs, script[i + 1]), 0, i + 1)
            BY <2>2, <2>3, <3>2, OpenHunkGrows
        <3> QED
            BY <3>1, <3>3, Zenon
    <2>5. IsHunks(p.hunks)
        BY <2>3, Zenon DEF Covers
    <2>6. Ready(p.hunks, j)
        BY <2>2, <2>4, <2>5, Zenon DEF Ready
    <2>7. Headers(j) = 0
        BY <1>13 DEF Headers
    <2>8. p.line = size[j - 1] + Headers(j) + 1
        BY <1>6, <1>10, <2>7
    <2>9. AtStep(p, size, j)
        BY <1>1, <1>5, <2>6, <2>8, Zenon DEF AtStep
    <2> QED
        BY <2>9, Zenon DEF BeforeLine
<1> QED
    BY <1>12, <1>13

LEMMA NextAfterAll ==
    ASSUME NEW L, Of(L), NEW size, IsLaidOut(size), NEW p, ReadTo(p, size), p.line <= Len(patchLines)
    PROVE  BeforeLine(p, size)
<1>1. CASE \E k : Done(p, size, k)
    BY <1>1, NextAfterDone
<1>2. CASE ~\E k : Done(p, size, k)
    BY <1>2, Zenon DEF ReadTo, BeforeLine
<1> QED
    BY <1>1, <1>2

\* When every line is read, the hunks cover what is shown.
LEMMA AllIsRead ==
    ASSUME NEW L, Of(L), script \in Scripts, NEW size, IsLaidOut(size), NEW p, ReadTo(p, size),
           p.line > Len(patchLines), p.position = 0, p.result = <<>>
    PROVE  \E m : AppliedTo(p, m)
<1>1. PICK n, W : n = Len(script) /\ n \in Nat /\ W = Len(patchLines)
    <2>1. \E R : script \in Seq(R)
        BY Zenon DEF Of
    <2>2. Len(script) \in Nat
        BY <2>1
    <2> QED
        BY <2>2, Zenon
<1>2. size \in [0..n -> Nat] /\ size[n] = W
    BY <1>1, Zenon DEF IsLaidOut
<1>3. W \in Nat
    BY <1>1, <1>2
<1>4. ASSUME NEW k \in 1..n
      PROVE  size[k - 1] \in Nat /\ size[k] \in Nat /\ size[k] <= W /\ (Shown(k) => size[k - 1] + Headers(k) + 1 <= size[k])
    <2>1. k \in 0..n /\ k - 1 \in 0..n /\ n \in 0..n /\ k <= n
        BY <1>1
    <2>2. size[k] <= size[n]
        BY <1>1, <2>1, Zenon DEF IsLaidOut
    <2>3. size[k - 1] \in Nat /\ size[k] \in Nat
        BY <1>2, <2>1
    <2>4. ASSUME Shown(k) PROVE size[k - 1] + Headers(k) + 1 <= size[k]
        <3>1. LinesOf(k, size[k - 1], size[k])
            BY <1>1, <2>4, Zenon DEF IsLaidOut
        <3>2. script[k].line.end \in {"newline", "none", "other"}
            BY <1>1, StepIs, Zenon
        <3>3. \/ size[k] = size[k - 1] + Headers(k) + 1
              \/ size[k] = size[k - 1] + Headers(k) + 2
              \/ size[k] = size[k - 1] + Headers(k) + 3
            BY <3>1, <3>2, Zenon DEF LinesOf
        <3>4. Headers(k) \in Nat
            BY DEF Headers
        <3> QED
            BY <2>3, <3>3, <3>4
    <2> QED
        BY <1>2, <2>2, <2>3, <2>4
<1>5. ~\E k : AtStep(p, size, k)
    <2>1. ASSUME NEW k, AtStep(p, size, k) PROVE FALSE
        <3>1. k \in 1..n /\ Shown(k) /\ p.line = size[k - 1] + Headers(k) + 1
            BY <1>1, <2>1, Zenon DEF AtStep
        <3>2. p.line <= size[k] /\ size[k] <= W /\ size[k] \in Nat
            BY <1>4, <3>1
        <3>3. Headers(k) \in Nat /\ size[k - 1] \in Nat
            BY <1>4, <3>1 DEF Headers
        <3> QED
            BY <1>1, <1>3, <3>1, <3>2, <3>3
    <2> QED
        BY <2>1
<1>6. ~\E k : AtNote(p, size, k)
    <2>1. ASSUME NEW k, AtNote(p, size, k) PROVE FALSE
        <3>1. k \in 1..n /\ p.line = size[k]
            BY <1>1, <2>1, Zenon DEF AtNote
        <3>2. size[k] <= W /\ size[k] \in Nat
            BY <1>4, <3>1
        <3> QED
            BY <1>1, <1>3, <3>1, <3>2
    <2> QED
        BY <2>1
<1>7. ~Torn(p)
    <2>1. ASSUME Torn(p) PROVE FALSE
        <3>1. p.line \in 1..W
            BY <1>1, <2>1, Zenon DEF Torn
        <3> QED
            BY <1>1, <1>3, <3>1
    <2> QED
        BY <2>1
<1>8. PICK k : Done(p, size, k)
    BY <1>5, <1>6, <1>7, Zenon DEF ReadTo
<1>9. k \in 0..n /\ p.line = size[k] + 1 /\ Covers(p.hunks, 0, k)
    BY <1>1, <1>8, Zenon DEF Done
<1>10. n \in 0..n /\ k <= n /\ k \in Nat /\ size[k] \in Nat
    BY <1>1, <1>2, <1>9
<1>11. size[n] <= size[k]
    BY <1>1, <1>2, <1>3, <1>9, <1>10
<1>12. Quiet(k, n)
    BY <1>1, <1>9, <1>10, <1>11, Zenon DEF IsLaidOut
<1>13. Covers(p.hunks, 0, n)
    BY <1>1, <1>9, <1>10, <1>12, QuietCovers
<1>14. UpTo(0) /\ NewOf(ElsewhereTo(0)) = <<>>
    BY NothingCopied
<1>15. OldLine(0) = 0
    <2>1. 0 \in Nat /\ 0 <= 0 /\ 0 <= Len(script)
        BY <1>1
    <2> QED
        BY <2>1, OldLineIs
<1>16. 0 \in 0..n /\ ~(0 > 0)
    BY <1>1
<1>17. AppliedTo(p, 0)
    BY <1>1, <1>13, <1>14, <1>15, <1>16, Zenon DEF AppliedTo
<1> QED
    BY <1>17

\* What each of the lines to come is.
LEMMA WordAtStep ==
    ASSUME NEW L, Of(L), script \in Scripts, NEW size, IsLaidOut(size), NEW p, NEW k, AtStep(p, size, k)
    PROVE  /\ patchLines[p.line].is = "line"
           /\ script[k].line.end = "newline" => p.line = size[k] /\ patchLines[p.line].step = script[k]
           /\ script[k].line.end = "none" => p.line + 1 = size[k] /\ patchLines[p.line].step = Ended(script[k])
           /\ script[k].line.end = "other" => p.line + 2 = size[k] /\ patchLines[p.line + 1] = Rest
           /\ p.line \in Nat /\ p.line >= 1 /\ size[k] \in Nat /\ size[k] <= Len(patchLines) /\ Len(patchLines) \in Nat
<1>1. PICK n, W : n = Len(script) /\ n \in Nat /\ W = Len(patchLines)
    <2>1. \E R : script \in Seq(R)
        BY Zenon DEF Of
    <2>2. Len(script) \in Nat
        BY <2>1
    <2> QED
        BY <2>2, Zenon
<1>2. size \in [0..n -> Nat] /\ size[n] = W
    BY <1>1, Zenon DEF IsLaidOut
<1>3. k \in 1..n /\ Shown(k) /\ p.line = size[k - 1] + Headers(k) + 1
    BY <1>1, Zenon DEF AtStep
<1>4. k - 1 \in 0..n /\ k \in 0..n /\ n \in 0..n /\ k <= n
    BY <1>1, <1>3
<1>5. PICK first, last, h : first = size[k - 1] /\ last = size[k] /\ h = Headers(k)
    OBVIOUS
<1>6. LinesOf(k, first, last)
    BY <1>1, <1>3, <1>5, Zenon DEF IsLaidOut
<1>7. size[k] <= size[n]
    BY <1>1, <1>4, Zenon DEF IsLaidOut
<1>8. first \in Nat /\ last \in Nat /\ W \in Nat /\ last <= W
    BY <1>2, <1>4, <1>5, <1>7
<1>9. h \in Nat
    <2>1. Headers(k) \in Nat
        BY DEF Headers
    <2> QED
        BY <1>5, <2>1
<1>10. PICK line : line = p.line /\ line = first + h + 1
    BY <1>3, <1>5, Zenon
<1>11. line \in Nat /\ line >= 1 /\ line + 1 = first + h + 2 /\ line + 2 = first + h + 3
    BY <1>8, <1>9, <1>10
<1>12. script[k].line.end \in {"newline", "none", "other"}
    BY <1>1, <1>3, StepIs, Zenon
<1>13. \A s : Said(s).is = "line" /\ Said(s).step = s
    BY DEF Said
<1>14. CASE script[k].line.end = "newline"
    <2>1. last = line /\ patchLines[line] = Said(script[k])
        BY <1>5, <1>6, <1>10, <1>14, Zenon DEF LinesOf
    <2>2. patchLines[line].is = "line" /\ patchLines[line].step = script[k]
        BY <1>13, <2>1, Zenon
    <2>3. script[k].line.end # "none" /\ script[k].line.end # "other"
        BY <1>14
    <2> QED
        BY <1>1, <1>5, <1>8, <1>10, <1>11, <2>1, <2>2, <2>3, Zenon
<1>15. CASE script[k].line.end = "none"
    <2>1. last = line + 1 /\ patchLines[line] = Said(Ended(script[k]))
        <3>1. last = first + h + 2 /\ patchLines[first + h + 1] = Said(Ended(script[k]))
            BY <1>5, <1>6, <1>15, Zenon DEF LinesOf
        <3> QED
            BY <1>10, <1>11, <3>1
    <2>2. patchLines[line].is = "line" /\ patchLines[line].step = Ended(script[k])
        BY <1>13, <2>1, Zenon
    <2>3. script[k].line.end # "newline" /\ script[k].line.end # "other"
        BY <1>15
    <2> QED
        BY <1>1, <1>5, <1>8, <1>10, <1>11, <1>15, <2>1, <2>2, <2>3, Zenon
<1>16. CASE script[k].line.end = "other"
    <2>1. last = line + 2 /\ patchLines[line] = Said(script[k]) /\ patchLines[line + 1] = Rest
        <3>1. last = first + h + 3 /\ patchLines[first + h + 1] = Said(script[k]) /\ patchLines[first + h + 2] = Rest
            BY <1>5, <1>6, <1>16, Zenon DEF LinesOf
        <3> QED
            BY <1>10, <1>11, <3>1
    <2>2. patchLines[line].is = "line"
        BY <1>13, <2>1, Zenon
    <2>3. script[k].line.end # "newline" /\ script[k].line.end # "none"
        BY <1>16
    <2> QED
        BY <1>1, <1>5, <1>8, <1>10, <1>11, <1>16, <2>1, <2>2, <2>3, Zenon
<1> QED
    BY <1>12, <1>14, <1>15, <1>16

LEMMA WordAtHeader ==
    ASSUME NEW size, IsLaidOut(size), NEW p, NEW k, AtHeader(p, size, k)
    PROVE  HeadOf(k, patchLines[p.line]) /\ Shown(k) /\ patchLines[p.line].is = "header"
<1>1. k \in 1..Len(script) /\ FirstOfHunk(k) /\ p.line = size[k - 1] + 1
    BY Zenon DEF AtHeader
<1>2. Shown(k)
    BY <1>1 DEF FirstOfHunk
<1>3. LinesOf(k, size[k - 1], size[k])
    BY <1>1, <1>2, Zenon DEF IsLaidOut
<1> QED
    BY <1>1, <1>2, <1>3, Zenon DEF LinesOf, HeadOf

LEMMA WordAtNote ==
    ASSUME NEW size, IsLaidOut(size), NEW p, NEW k, AtNote(p, size, k)
    PROVE  patchLines[p.line].is = "note"
<1>1. k \in 1..Len(script) /\ Shown(k) /\ script[k].line.end = "none" /\ p.line = size[k]
    BY Zenon DEF AtNote
<1>2. LinesOf(k, size[k - 1], size[k])
    BY <1>1, Zenon DEF IsLaidOut
<1>3. patchLines[p.line] = NoNewline
    BY <1>1, <1>2, Zenon DEF LinesOf
<1> QED
    BY <1>3 DEF NoNewline

LEMMA WordIs ==
    ASSUME NEW L, Of(L), script \in Scripts, NEW size, IsLaidOut(size), NEW p, BeforeLine(p, size)
    PROVE  /\ patchLines[p.line].is = "header" => \E k : AtHeader(p, size, k)
           /\ patchLines[p.line].is = "line" => \E k : AtStep(p, size, k)
           /\ patchLines[p.line].is = "note" => \E k : AtNote(p, size, k)
           /\ patchLines[p.line].is = "rest" => Torn(p)
<1>1. \A k : AtHeader(p, size, k) => patchLines[p.line].is = "header"
    BY WordAtHeader
<1>2. \A k : AtStep(p, size, k) => patchLines[p.line].is = "line"
    <2>1. ASSUME NEW k, AtStep(p, size, k) PROVE patchLines[p.line].is = "line"
        BY <2>1, WordAtStep
    <2> QED
        BY <2>1
<1>3. \A k : AtNote(p, size, k) => patchLines[p.line].is = "note"
    BY WordAtNote
<1>4. Torn(p) => patchLines[p.line].is = "rest"
    <2>1. Torn(p) => patchLines[p.line] = Rest
        BY Zenon DEF Torn
    <2>2. Rest.is = "rest"
        BY DEF Rest
    <2> QED
        BY <2>1, <2>2
<1>5. PICK word : word = patchLines[p.line].is
    OBVIOUS
<1> QED
    BY <1>1, <1>2, <1>3, <1>4 DEF BeforeLine

\* The actions that read, one by one.
LEMMA HeaderIsRead ==
    ASSUME NEW L, Of(L), script \in Scripts, NEW size, IsLaidOut(size), NEW p, NEW k, AtHeader(p, size, k),
           NEW new, new.line = p.line + 1, new.hunks = Put(p.hunks, OpenedBy(patchLines[p.line]))
    PROVE  ReadTo(new, size)
<1>1. PICK n : n = Len(script) /\ n \in Nat
    <2>1. \E R : script \in Seq(R)
        BY Zenon DEF Of
    <2>2. Len(script) \in Nat
        BY <2>1
    <2> QED
        BY <2>2, Zenon
<1>2. k \in 1..n /\ FirstOfHunk(k) /\ p.line = size[k - 1] + 1 /\ Covers(p.hunks, 0, k - 1)
    BY <1>1, Zenon DEF AtHeader
<1>3. PICK word, opened, hs : word = patchLines[p.line] /\ opened = OpenedBy(word) /\ hs = Put(p.hunks, opened)
    OBVIOUS
<1>4. HeadOf(k, word) /\ Shown(k)
    BY <1>3, WordAtHeader, Zenon
<1>5. PICK i \in Nat : i + 1 = k /\ i = k - 1 /\ i < n
    <2>1. k - 1 \in Nat /\ (k - 1) + 1 = k /\ k - 1 < n
        BY <1>1, <1>2
    <2> QED
        BY <2>1
<1>6. HeadOf(i + 1, word) /\ Shown(i + 1) /\ i < Len(script) /\ Covers(p.hunks, 0, i)
    BY <1>1, <1>2, <1>4, <1>5, Zenon
<1>7. PICK old : old = p.hunks
    OBVIOUS
<1>8. Covers(old, 0, i) /\ hs = Put(old, opened) /\ opened = OpenedBy(word)
    BY <1>3, <1>6, <1>7, Zenon
<1>9. /\ IsHunks(hs) /\ Len(hs) \in Nat /\ Len(hs) >= 1
      /\ \E f \in Nat : 1 <= f /\ f <= i + 1 /\ hs[Len(hs)].body = Part(script, f, i)
      /\ Covers(WithStep(hs, script[i + 1]), 0, i + 1)
    BY <1>6, <1>8, NewHunkCovers
<1>10. Ready(hs, k)
    BY <1>5, <1>9, Zenon DEF Ready
<1>11. new.line = size[k - 1] + Headers(k) + 1
    <2>1. Headers(k) = 1
        BY <1>2 DEF Headers
    <2>2. size[k - 1] \in Nat
        <3>1. size \in [0..n -> Nat] /\ k - 1 \in 0..n
            BY <1>1, <1>2 DEF IsLaidOut
        <3> QED
            BY <3>1
    <2> QED
        BY <1>2, <2>1, <2>2
<1>12. AtStep(new, size, k)
    BY <1>1, <1>2, <1>3, <1>4, <1>10, <1>11, Zenon DEF AtStep
<1> QED
    BY <1>2, <1>12, Zenon DEF ReadTo

LEMMA LineIsRead ==
    ASSUME NEW L, Of(L), script \in Scripts, NEW size, IsLaidOut(size), NEW p, NEW k, AtStep(p, size, k),
           NEW new, new.line = p.line + 1, new.hunks = WithStep(p.hunks, patchLines[p.line].step)
    PROVE  ReadTo(new, size)
<1>1. PICK n : n = Len(script) /\ n \in Nat
    <2>1. \E R : script \in Seq(R)
        BY Zenon DEF Of
    <2>2. Len(script) \in Nat
        BY <2>1
    <2> QED
        BY <2>2, Zenon
<1>2. k \in 1..n /\ Shown(k) /\ Ready(p.hunks, k) /\ k \in 0..n
    <2>1. k \in 1..n /\ Shown(k) /\ Ready(p.hunks, k)
        BY <1>1, Zenon DEF AtStep
    <2> QED
        BY <1>1, <2>1
<1>3. /\ script[k].line.end = "newline" => p.line = size[k] /\ patchLines[p.line].step = script[k]
      /\ script[k].line.end = "none" => p.line + 1 = size[k] /\ patchLines[p.line].step = Ended(script[k])
      /\ script[k].line.end = "other" => p.line + 2 = size[k] /\ patchLines[p.line + 1] = Rest
      /\ p.line \in Nat /\ p.line >= 1 /\ size[k] \in Nat /\ size[k] <= Len(patchLines) /\ Len(patchLines) \in Nat
    BY WordAtStep
<1>4. script[k].line.end \in {"newline", "none", "other"}
    BY <1>1, <1>2, StepIs, Zenon
<1>5. Covers(WithStep(p.hunks, script[k]), 0, k)
    BY <1>2, Zenon DEF Ready
<1>6. CASE script[k].line.end = "newline"
    <2>1. new.line = size[k] + 1 /\ new.hunks = WithStep(p.hunks, script[k])
        BY <1>3, <1>6, Zenon
    <2>2. Done(new, size, k)
        BY <1>1, <1>2, <1>5, <2>1, Zenon DEF Done
    <2> QED
        BY <2>2, Zenon DEF ReadTo
<1>7. CASE script[k].line.end = "none"
    <2>1. new.line = size[k] /\ new.hunks = WithStep(p.hunks, Ended(script[k]))
        BY <1>3, <1>7, Zenon
    <2>2. Noted(WithStep(p.hunks, Ended(script[k]))) = WithStep(p.hunks, script[k])
        <3>1. PICK hs, s, e, m : hs = p.hunks /\ s = script[k] /\ e = Ended(s) /\ m = Len(hs)
            OBVIOUS
        <3>2. IsHunks(hs) /\ m \in Nat /\ m = Len(hs) /\ m >= 1
            BY <1>2, <3>1, Zenon DEF Ready
        <3>3. PICK f \in Nat : 1 <= f /\ f <= k /\ hs[m].body = Part(script, f, k - 1)
            BY <1>2, <3>1, Zenon DEF Ready
        <3>4. PICK S : S = StepsOf(L)
            OBVIOUS
        <3>5. script \in Seq(S)
            BY <3>4, Zenon DEF Of
        <3>6. f \in Int /\ k - 1 \in Int /\ 1 <= f /\ f <= (k - 1) + 1 /\ k - 1 <= Len(script)
            BY <1>1, <1>2, <3>3
        <3>7. Part(script, f, k - 1) \in Seq(S)
            BY <3>5, <3>6, PartIs
        <3>8. hs[m].body \in Seq(S) /\ s \in S
            <4>1. script[k] \in S
                BY <1>1, <1>2, <3>5
            <4> QED
                BY <3>1, <3>3, <3>7, <4>1, Zenon
        <3>9. Unended(e) = s
            <4>1. PICK tag, text : s = [tag |-> tag, line |-> [text |-> text, end |-> "none"]]
                <5>1. script[k] = [tag |-> script[k].tag,
                                   line |-> [text |-> script[k].line.text, end |-> script[k].line.end]]
                    BY <1>1, <1>2, StepIs, Zenon
                <5> QED
                    BY <1>7, <3>1, <5>1, Zenon
            <4>2. e = [tag |-> tag, line |-> [text |-> text, end |-> "newline"]]
                BY <3>1, <4>1 DEF Ended
            <4> QED
                BY <4>1, <4>2 DEF Unended
        <3>10. Noted(WithStep(hs, e)) = WithStep(hs, s)
            BY <3>1, <3>2, <3>8, <3>9, NotedIs, Zenon
        <3> QED
            BY <3>1, <3>10, Zenon
    <2>3. AtNote(new, size, k)
        BY <1>1, <1>2, <1>5, <1>7, <2>1, <2>2, Zenon DEF AtNote
    <2> QED
        BY <2>3, Zenon DEF ReadTo
<1>8. CASE script[k].line.end = "other"
    <2>1. p.line + 2 = size[k] /\ patchLines[p.line + 1] = Rest
        BY <1>3, <1>8, Zenon
    <2>2. new.line \in 1..Len(patchLines) /\ patchLines[new.line] = Rest
        BY <1>3, <2>1
    <2>3. k \in DOMAIN script
        <3>1. \E R : script \in Seq(R)
            BY Zenon DEF Of
        <3> QED
            BY <1>1, <1>2, <3>1
    <2>4. Torn(new)
        BY <1>2, <1>8, <2>2, <2>3, Zenon DEF Torn
    <2> QED
        BY <2>4, Zenon DEF ReadTo
<1> QED
    BY <1>4, <1>6, <1>7, <1>8

LEMMA NoteIsRead ==
    ASSUME NEW L, Of(L), NEW size, NEW p, NEW k, AtNote(p, size, k),
           NEW new, new.line = p.line + 1, new.hunks = Noted(p.hunks)
    PROVE  ReadTo(new, size)
<1>1. k \in 1..Len(script) /\ p.line = size[k] /\ Covers(Noted(p.hunks), 0, k)
    BY Zenon DEF AtNote
<1>2. k \in 0..Len(script)
    BY <1>1 DEF Of
<1>3. Done(new, size, k)
    BY <1>1, <1>2, Zenon DEF Done
<1> QED
    BY <1>3, Zenon DEF ReadTo

-----------------------------------------------------------------------------
(* The invariant.                                                          *)
Stage(p, size) ==
    /\ IsPatch(p) /\ p.line \in Nat
    /\ \/ p.pc = "reading" /\ p.position = 0 /\ p.result = <<>> /\ ReadTo(p, size)
       \/ p.pc = "reading" /\ p.line > Len(patchLines) /\ \E m : AppliedTo(p, m)
       \/ /\ p.pc = "refused"
          /\ base = OldOf(script) => \E k \in DOMAIN script : Shown(k) /\ script[k].line.end = "other"
       \/ p.pc = "applied" /\ \E m : AppliedAll(p, m)

PatchInv == script \in Scripts /\ \E L, size : Of(L) /\ IsLaidOut(size) /\ Stage(patch, size)

\* The texts and the diff stay, and with them what is said of them.
Stays == script' = script /\ base' = base /\ patchLines' = patchLines

LEMMA StepsStay ==
    ASSUME Stays
    PROVE  /\ \A k : Shown(k)' <=> Shown(k)
           /\ \A k : FirstOfHunk(k)' <=> FirstOfHunk(k)
           /\ \A k : OldLine(k)' = OldLine(k)
           /\ \A m, k : (Quiet(m, k)' <=> Quiet(m, k)) /\ (Loud(m, k)' <=> Loud(m, k))
           /\ \A k : Headers(k)' = Headers(k)
<1>0. script' = script
    BY DEF Stays
<1>1. \A k : Shown(k)' <=> Shown(k)
    BY <1>0 DEF Shown
<1>2. \A k : FirstOfHunk(k)' <=> FirstOfHunk(k)
    BY <1>1 DEF FirstOfHunk
<1>3. \A k : OldLine(k)' = OldLine(k)
    BY <1>0 DEF OldLine
<1>4. \A m, k : (Quiet(m, k)' <=> Quiet(m, k)) /\ (Loud(m, k)' <=> Loud(m, k))
    BY <1>1 DEF Quiet, Loud
<1>5. \A k : Headers(k)' = Headers(k)
    BY <1>2 DEF Headers
<1> QED
    BY <1>1, <1>2, <1>3, <1>4, <1>5, Zenon

LEMMA CopiesStay ==
    ASSUME Stays
    PROVE  /\ \A m : ElsewhereTo(m)' = ElsewhereTo(m)
           /\ \A m : UpTo(m)' <=> UpTo(m)
           /\ \A L : Of(L) => Of(L)'
<1>0. script' = script /\ base' = base
    BY DEF Stays
<1>1. \A m : ElsewhereTo(m)' = ElsewhereTo(m)
    BY <1>0, StepsStay DEF ElsewhereTo
<1>2. \A m : UpTo(m)' <=> UpTo(m)
    BY <1>0, <1>1, StepsStay DEF UpTo
<1>3. \A L : Of(L) => Of(L)'
    BY <1>0 DEF Of
<1> QED
    BY <1>1, <1>2, <1>3, Zenon

LEMMA CoversStay ==
    ASSUME Stays
    PROVE  \A hs, m, k : Covers(hs, m, k)' <=> Covers(hs, m, k)
<1>0. script' = script
    BY DEF Stays
<1>1. \A hunk, f, l : RangeOf(hunk, f, l)' <=> RangeOf(hunk, f, l)
    BY <1>0, StepsStay DEF RangeOf
<1>2. \A hs, m, k, first, last : CoverIs(hs, m, k, first, last)' <=> CoverIs(hs, m, k, first, last)
    BY <1>1, StepsStay DEF CoverIs
<1> QED
    BY <1>2 DEF Covers

LEMMA LayoutStays ==
    ASSUME Stays, NEW size, IsLaidOut(size)
    PROVE  IsLaidOut(size)'
<1>0. script' = script /\ patchLines' = patchLines
    BY DEF Stays
<1>1. \A k, first, last : LinesOf(k, first, last)' <=> LinesOf(k, first, last)
    BY <1>0, StepsStay DEF LinesOf, HeadOf
<1> QED
    BY <1>0, <1>1, StepsStay DEF IsLaidOut

LEMMA StageStays ==
    ASSUME Stays, NEW p, NEW size, Stage(p, size)
    PROVE  Stage(p, size)'
<1>0. script' = script /\ base' = base /\ patchLines' = patchLines
    BY DEF Stays
<1>1. \A hs, k : Ready(hs, k)' <=> Ready(hs, k)
    BY <1>0, CoversStay DEF Ready
<1>2. \A k : Done(p, size, k)' <=> Done(p, size, k)
    BY <1>0, CoversStay DEF Done
<1>3. \A k : AtStep(p, size, k)' <=> AtStep(p, size, k)
    BY <1>0, <1>1, StepsStay DEF AtStep
<1>4. \A k : AtNote(p, size, k)' <=> AtNote(p, size, k)
    BY <1>0, StepsStay, CoversStay DEF AtNote
<1>5. Torn(p)' <=> Torn(p)
    BY <1>0, StepsStay DEF Torn
<1>6. ReadTo(p, size)' <=> ReadTo(p, size)
    BY <1>2, <1>3, <1>4, <1>5, StepsStay DEF ReadTo
<1>7. \A m : AppliedTo(p, m)' <=> AppliedTo(p, m)
    BY <1>0, StepsStay, CopiesStay, CoversStay DEF AppliedTo
<1>8. \A m : AppliedAll(p, m)' <=> AppliedAll(p, m)
    BY <1>0, StepsStay, CopiesStay DEF AppliedAll
<1> QED
    BY <1>0, <1>6, <1>7, <1>8, StepsStay DEF Stage

LEMMA TextsHaveLines ==
    ASSUME script \in Scripts, base \in {OldOf(script)} \cup OtherBases(OldOf(script))
    PROVE  \E L : Of(L)
<1>1. PICK texts, R : /\ R = [text : texts, end : {"newline", "none", "other"}]
                      /\ script \in Seq([tag : {" ", "-", "+"}, line : R])
    <2>1. IsScripted(script)
        BY PatchAssumption, Zenon
    <2> QED
        BY <2>1, Zenon DEF IsScripted
<1>2. script \in Seq(StepsOf(R))
    BY <1>1, Zenon DEF StepsOf, Tags
<1>3. OldOf(script) \in Seq(R)
    BY <1>2, SidesAre
<1>4. PICK B : base \in Seq(B)
    <2>1. CASE base = OldOf(script)
        BY <1>3, <2>1
    <2>2. CASE base \in OtherBases(OldOf(script))
        <3>1. IsLines(base)
            BY <2>2, PatchAssumption, Zenon
        <3> QED
            BY <3>1, Zenon DEF IsLines
    <2> QED
        BY <2>1, <2>2
<1> DEFINE L == R \cup B
<1>5. R \subseteq L /\ B \subseteq L
    OBVIOUS
<1> HIDE DEF L
<1>6. base \in Seq(L)
    BY <1>4, <1>5
<1>7. script \in Seq(StepsOf(L))
    <2>1. PICK S, T : S = StepsOf(R) /\ T = StepsOf(L)
        OBVIOUS
    <2>2. StepsOf(R) \subseteq StepsOf(L)
        BY <1>5 DEF StepsOf
    <2>3. script \in Seq(S) /\ S \subseteq T
        BY <1>2, <2>1, <2>2, Zenon
    <2>4. script \in Seq(T)
        BY <2>3
    <2> QED
        BY <2>1, <2>4, Zenon
<1> QED
    BY <1>6, <1>7, Zenon DEF Of

LEMMA PatchBegins == PatchInit => PatchInv
<1> SUFFICES ASSUME PatchInit PROVE PatchInv
    OBVIOUS
<1>1. script \in Scripts /\ patchLines = Diff
    BY DEF PatchInit
<1>2. PICK L : Of(L)
    BY TextsHaveLines, Zenon DEF PatchInit
<1>3. PICK size : IsLaidOut(size)
    BY <1>1, <1>2, DiffIsLaidOut
<1>4. PICK p : p = patch
    OBVIOUS
<1>5. p = [pc |-> "reading", line |-> 1, hunks |-> <<>>, position |-> 0, result |-> <<>>]
    BY <1>4 DEF PatchInit, NothingRead
<1>6. IsPatch(p) /\ p.pc = "reading" /\ p.line = 1 /\ p.hunks = <<>> /\ p.position = 0 /\ p.result = <<>>
    BY <1>5 DEF IsPatch
<1>7. PICK hs : hs = p.hunks
    OBVIOUS
<1>8. hs = <<>> /\ hs \in Seq({}) /\ Len(hs) = 0
    BY <1>6, <1>7
<1>9. IsHunks(hs)
    <2>1. \A i \in 1..Len(hs) : FALSE
        BY <1>8
    <2>2. PICK S : S = {}
        OBVIOUS
    <2>3. hs \in Seq(S)
        BY <1>8, <2>2, Zenon
    <2> QED
        BY <2>1, <2>3, HunksAre, Zenon
<1> DEFINE none == [i \in 1..0 |-> 1]
<1>10. CoverIs(hs, 0, 0, none, none)
    <2>1. 1..Len(hs) = {} /\ (0 + 1)..0 = {} /\ 1..0 = {}
        BY <1>8
    <2> QED
        BY <2>1 DEF CoverIs
<1>11. Covers(p.hunks, 0, 0)
    BY <1>7, <1>9, <1>10, Zenon DEF Covers
<1>12. Done(p, size, 0)
    <2>1. 0 \in 0..Len(script)
        BY <1>2 DEF Of
    <2>2. size[0] = 0
        BY <1>3, Zenon DEF IsLaidOut
    <2>3. p.line = size[0] + 1
        BY <1>6, <2>2
    <2> QED
        BY <1>11, <2>1, <2>3, Zenon DEF Done
<1>13. Stage(p, size)
    <2>1. p.line \in Nat
        BY <1>6
    <2> QED
        BY <1>6, <1>12, <2>1, Zenon DEF Stage, ReadTo
<1> QED
    BY <1>1, <1>2, <1>3, <1>4, <1>13, Zenon DEF PatchInv

\* One line is read.
Advances(p, more, q) == q = [[p EXCEPT !.hunks = more] EXCEPT !.line = @ + 1]

LEMMA LineBehind ==
    ASSUME NEW p, IsPatch(p), p.line \in Nat, NEW more, NEW q, Advances(p, more, q)
    PROVE  /\ IsPatch(q) /\ q.line \in Nat /\ q.line = p.line + 1 /\ q.hunks = more
           /\ q.pc = p.pc /\ q.position = p.position /\ q.result = p.result
<1>1. p = [pc |-> p.pc, line |-> p.line, hunks |-> p.hunks, position |-> p.position, result |-> p.result]
    BY DEF IsPatch
<1>2. q = [pc |-> p.pc, line |-> p.line + 1, hunks |-> more, position |-> p.position, result |-> p.result]
    BY <1>1 DEF Advances
<1>3. p.line + 1 \in Nat
    OBVIOUS
<1>4. /\ q.line = p.line + 1 /\ q.hunks = more
      /\ q.pc = p.pc /\ q.position = p.position /\ q.result = p.result
    BY <1>2
<1>5. IsPatch(q)
    BY <1>2, <1>4, Zenon DEF IsPatch
<1> QED
    BY <1>3, <1>4, <1>5, Zenon

LEMMA ALineIsRead ==
    ASSUME script \in Scripts, NEW L, Of(L), NEW size, IsLaidOut(size), NEW p, p = patch, Stage(p, size),
           ReadsHeader \/ ReadsBodyLine \/ ReadsNote
    PROVE  Stays /\ \E q : q = patch' /\ Stage(q, size)
<1>1. p.pc = "reading" /\ p.line <= Len(patchLines) /\ Stays
    BY DEF ReadsHeader, ReadsBodyLine, ReadsNote, Reading, Reads, Stays
<1>2. Len(patchLines) \in Nat
    <2>1. size[Len(script)] \in Nat /\ size[Len(script)] = Len(patchLines)
        BY DEF IsLaidOut, Of
    <2> QED
        BY <2>1
<1>3. IsPatch(p) /\ p.line \in Nat
    BY Zenon DEF Stage
<1>4. p.position = 0 /\ p.result = <<>> /\ ReadTo(p, size)
    <2>1. ~(p.line > Len(patchLines))
        BY <1>1, <1>2, <1>3
    <2> QED
        BY <1>1, <2>1 DEF Stage
<1>5. BeforeLine(p, size)
    BY <1>1, <1>4, NextAfterAll
<1>6. PICK word : word = patchLines[p.line]
    OBVIOUS
<1>7. /\ word.is = "header" => \E k : AtHeader(p, size, k)
      /\ word.is = "line" => \E k : AtStep(p, size, k)
      /\ word.is = "note" => \E k : AtNote(p, size, k)
    BY <1>5, <1>6, WordIs, Zenon
<1>8. PICK more, q : q = patch' /\ Advances(p, more, q) /\ ReadTo(q, size)
    <2>1. CASE ReadsHeader
        <3>1. word.is = "header" /\ patch' = [[p EXCEPT !.hunks = Append(p.hunks, OpenedBy(word))] EXCEPT !.line = @ + 1]
            BY <1>6, <2>1, Zenon DEF ReadsHeader, Reading, Reads
        <3>2. PICK more, q : more = Put(p.hunks, OpenedBy(word)) /\ q = patch'
            OBVIOUS
        <3>3. Advances(p, more, q)
            BY <3>1, <3>2, Zenon DEF Put, Advances
        <3>4. PICK k : AtHeader(p, size, k)
            BY <1>7, <3>1
        <3>5. q.line = p.line + 1 /\ q.hunks = more
            BY <1>3, <3>3, LineBehind
        <3>6. q.hunks = Put(p.hunks, OpenedBy(patchLines[p.line]))
            BY <1>6, <3>2, <3>5, Zenon
        <3>7. ReadTo(q, size)
            BY <3>4, <3>5, <3>6, HeaderIsRead
        <3> QED
            BY <3>2, <3>3, <3>7, Zenon
    <2>2. CASE ReadsBodyLine
        <3>1. word.is = "line" /\ patch' = [[p EXCEPT !.hunks = WithStep(p.hunks, word.step)] EXCEPT !.line = @ + 1]
            BY <1>6, <2>2, Zenon DEF ReadsBodyLine, Reading, Reads
        <3>2. PICK more, q : more = WithStep(p.hunks, word.step) /\ q = patch'
            OBVIOUS
        <3>3. Advances(p, more, q)
            BY <3>1, <3>2, Zenon DEF Advances
        <3>4. PICK k : AtStep(p, size, k)
            BY <1>7, <3>1
        <3>5. q.line = p.line + 1 /\ q.hunks = more
            BY <1>3, <3>3, LineBehind
        <3>6. q.hunks = WithStep(p.hunks, patchLines[p.line].step)
            BY <1>6, <3>2, <3>5, Zenon
        <3>7. ReadTo(q, size)
            BY <3>4, <3>5, <3>6, LineIsRead
        <3> QED
            BY <3>2, <3>3, <3>7, Zenon
    <2>3. CASE ReadsNote
        <3>1. word.is = "note" /\ patch' = [[p EXCEPT !.hunks = Noted(p.hunks)] EXCEPT !.line = @ + 1]
            BY <1>6, <2>3, Zenon DEF ReadsNote, Reading, Reads
        <3>2. PICK more, q : more = Noted(p.hunks) /\ q = patch'
            OBVIOUS
        <3>3. Advances(p, more, q)
            BY <3>1, <3>2, Zenon DEF Advances
        <3>4. PICK k : AtNote(p, size, k)
            BY <1>7, <3>1
        <3>5. q.line = p.line + 1 /\ q.hunks = more
            BY <1>3, <3>3, LineBehind
        <3>6. q.hunks = Noted(p.hunks)
            BY <3>2, <3>5, Zenon
        <3>7. ReadTo(q, size)
            BY <3>4, <3>5, <3>6, NoteIsRead
        <3> QED
            BY <3>2, <3>3, <3>7, Zenon
    <2> QED
        BY <2>1, <2>2, <2>3
<1>9. /\ IsPatch(q) /\ q.line \in Nat
      /\ q.pc = p.pc /\ q.position = p.position /\ q.result = p.result
    BY <1>3, <1>8, LineBehind
<1>10. Stage(q, size)
    BY <1>1, <1>4, <1>8, <1>9, Zenon DEF Stage
<1> QED
    BY <1>1, <1>8, <1>10, Zenon

\* A diff that is refused.
LEMMA RefusalIsRight ==
    ASSUME NEW size, NEW p, p = patch, IsPatch(p), p.line \in Nat, RefusesPatch,
           base = OldOf(script) => \E k \in DOMAIN script : Shown(k) /\ script[k].line.end = "other"
    PROVE  Stays /\ \E q : q = patch' /\ Stage(q, size)
<1>1. Stays
    BY DEF RefusesPatch, Stays
<1>2. p = [pc |-> p.pc, line |-> p.line, hunks |-> p.hunks, position |-> p.position, result |-> p.result]
    BY DEF IsPatch
<1>3. PICK q : q = patch'
    OBVIOUS
<1>4. q = [p EXCEPT !.pc = "refused"]
    BY <1>3, Zenon DEF RefusesPatch
<1>5. q = [pc |-> "refused", line |-> p.line, hunks |-> p.hunks, position |-> p.position, result |-> p.result]
    BY <1>2, <1>4
<1>6. IsPatch(q) /\ q.pc = "refused" /\ q.line = p.line
    BY <1>5 DEF IsPatch
<1>7. Stage(q, size)
    BY <1>6, Zenon DEF Stage
<1> QED
    BY <1>1, <1>3, <1>7, Zenon

LEMMA ALineIsRefused ==
    ASSUME script \in Scripts, NEW L, Of(L), NEW size, IsLaidOut(size), NEW p, p = patch, Stage(p, size),
           NotADiffLine
    PROVE  Stays /\ \E q : q = patch' /\ Stage(q, size)
<1>1. p.pc = "reading" /\ p.line <= Len(patchLines) /\ RefusesPatch /\ patchLines[p.line].is = "rest"
    BY Zenon DEF NotADiffLine, Reading
<1>2. Len(patchLines) \in Nat
    <2>1. size[Len(script)] \in Nat /\ size[Len(script)] = Len(patchLines)
        BY DEF IsLaidOut, Of
    <2> QED
        BY <2>1
<1>3. IsPatch(p) /\ p.line \in Nat
    BY Zenon DEF Stage
<1>4. ReadTo(p, size)
    <2>1. ~(p.line > Len(patchLines))
        BY <1>1, <1>2, <1>3
    <2> QED
        BY <1>1, <2>1 DEF Stage
<1>5. Torn(p)
    <2>1. BeforeLine(p, size)
        BY <1>1, <1>4, NextAfterAll
    <2> QED
        BY <1>1, <2>1, WordIs, Zenon
<1>6. \E k \in DOMAIN script : Shown(k) /\ script[k].line.end = "other"
    BY <1>5, Zenon DEF Torn
<1> QED
    BY <1>1, <1>3, <1>6, RefusalIsRight

\* The diff is read, and some of its hunks are applied.
LEMMA ReadAndApplied ==
    ASSUME script \in Scripts, NEW L, Of(L), NEW size, IsLaidOut(size), NEW p, Stage(p, size),
           p.pc = "reading", p.line > Len(patchLines)
    PROVE  IsPatch(p) /\ p.line \in Nat /\ \E m : AppliedTo(p, m)
<1>1. IsPatch(p) /\ p.line \in Nat
    BY Zenon DEF Stage
<1>2. CASE p.position = 0 /\ p.result = <<>> /\ ReadTo(p, size)
    <2>1. \E m : AppliedTo(p, m)
        BY <1>2, AllIsRead
    <2> QED
        BY <1>1, <2>1
<1>3. CASE \E m : AppliedTo(p, m)
    BY <1>1, <1>3
<1>4. p.pc # "refused" /\ p.pc # "applied"
    OBVIOUS
<1> QED
    BY <1>2, <1>3, <1>4, Zenon DEF Stage

LEMMA AHunkIsApplied ==
    ASSUME script \in Scripts, NEW L, Of(L), NEW size, IsLaidOut(size), NEW p, p = patch, Stage(p, size),
           AppliesHunk
    PROVE  Stays /\ \E q : q = patch' /\ Stage(q, size)
<1>1. p.pc = "reading" /\ p.line > Len(patchLines) /\ p.hunks # <<>> /\ Stays
    BY DEF AppliesHunk, HunksLeft, Stays
<1>2. IsPatch(p) /\ p.line \in Nat /\ \E m : AppliedTo(p, m)
    BY <1>1, ReadAndApplied
<1>3. PICK m : AppliedTo(p, m)
    BY <1>2
<1>4. PICK hunk, hs, from, to, result :
        /\ hunk = Head(p.hunks) /\ hs = Tail(p.hunks) /\ from = StartOf(hunk)
        /\ to = from + Len(OldOf(hunk.body))
        /\ result = Join(Join(p.result, Part(base, p.position + 1, from)), NewOf(hunk.body))
    BY Zenon
<1>5. Stands(hunk)
    BY <1>4, Zenon DEF AppliesHunk, Hunk
<1>6. PICK q : q = patch'
    OBVIOUS
<1>7. q = [p EXCEPT !.hunks = hs, !.position = to, !.result = result]
    BY <1>4, <1>6, Zenon DEF AppliesHunk, Hunk, Join, Part
<1>8. p = [pc |-> p.pc, line |-> p.line, hunks |-> p.hunks, position |-> p.position, result |-> p.result]
    BY <1>2, Zenon DEF IsPatch
<1>9. q = [pc |-> p.pc, line |-> p.line, hunks |-> hs, position |-> to, result |-> result]
    BY <1>7, <1>8
<1>10. IsPatch(q) /\ q.pc = p.pc /\ q.line = p.line /\ q.hunks = hs /\ q.position = to /\ q.result = result
    BY <1>9 DEF IsPatch
<1>11. \E l : AppliedTo(q, l)
    <2>1. /\ q.hunks = Tail(p.hunks) /\ q.position = StartOf(hunk) + Len(OldOf(hunk.body))
          /\ q.result = Join(Join(p.result, Part(base, p.position + 1, StartOf(hunk))), NewOf(hunk.body))
        BY <1>4, <1>10, Zenon
    <2> QED
        BY <1>1, <1>3, <1>4, <1>5, <2>1, HunkApplies, Zenon
<1>12. Stage(q, size)
    BY <1>1, <1>2, <1>10, <1>11, Zenon DEF Stage
<1> QED
    BY <1>1, <1>6, <1>12, Zenon

LEMMA AHunkIsRefused ==
    ASSUME script \in Scripts, NEW L, Of(L), NEW size, IsLaidOut(size), NEW p, p = patch, Stage(p, size),
           DoesNotMatch
    PROVE  Stays /\ \E q : q = patch' /\ Stage(q, size)
<1>1. p.pc = "reading" /\ p.line > Len(patchLines) /\ p.hunks # <<>> /\ RefusesPatch
    BY DEF DoesNotMatch, HunksLeft
<1>2. IsPatch(p) /\ p.line \in Nat /\ \E m : AppliedTo(p, m)
    BY <1>1, ReadAndApplied
<1>3. PICK m : AppliedTo(p, m)
    BY <1>2
<1>4. PICK hunk : hunk = Head(p.hunks)
    OBVIOUS
<1>5. ~Stands(hunk)
    BY <1>4, Zenon DEF DoesNotMatch, Hunk
<1>6. base # OldOf(script)
    <2>1. p.position = patch.position
        BY Zenon
    <2> QED
        BY <1>1, <1>3, <1>4, <1>5, <2>1, HunkStands, Zenon
<1> QED
    BY <1>1, <1>2, <1>6, RefusalIsRight, Zenon

LEMMA TheRestIsApplied ==
    ASSUME script \in Scripts, NEW L, Of(L), NEW size, IsLaidOut(size), NEW p, p = patch, Stage(p, size),
           AppliesRest
    PROVE  Stays /\ \E q : q = patch' /\ Stage(q, size)
<1>1. p.pc = "reading" /\ p.line > Len(patchLines) /\ p.hunks = <<>> /\ Stays
    BY DEF AppliesRest, Stays
<1>2. IsPatch(p) /\ p.line \in Nat /\ \E m : AppliedTo(p, m)
    BY <1>1, ReadAndApplied
<1>3. PICK m : AppliedTo(p, m)
    BY <1>2
<1>4. PICK q, result : q = patch' /\ result = Join(p.result, Part(base, p.position + 1, Len(base)))
    OBVIOUS
<1>5. q = [p EXCEPT !.pc = "applied", !.result = result]
    BY <1>4, Zenon DEF AppliesRest, Join, Part
<1>6. p = [pc |-> p.pc, line |-> p.line, hunks |-> p.hunks, position |-> p.position, result |-> p.result]
    BY <1>2, Zenon DEF IsPatch
<1>7. q = [pc |-> "applied", line |-> p.line, hunks |-> p.hunks, position |-> p.position, result |-> result]
    BY <1>5, <1>6
<1>8. IsPatch(q) /\ q.pc = "applied" /\ q.line = p.line /\ q.result = result
    BY <1>7 DEF IsPatch
<1>9. PICK n : n = Len(script) /\ n \in Nat
    <2>1. \E R : script \in Seq(R)
        BY Zenon DEF Of
    <2>2. Len(script) \in Nat
        BY <2>1
    <2> QED
        BY <2>2, Zenon
<1>10. /\ m \in 0..n /\ (m > 0 => Shown(m)) /\ UpTo(m) /\ p.position = OldLine(m)
       /\ p.result = NewOf(ElsewhereTo(m)) /\ Covers(p.hunks, m, n)
    BY <1>3, <1>9, Zenon DEF AppliedTo
<1>11. Quiet(m, n)
    <2>1. m \in Nat
        BY <1>9, <1>10
    <2> QED
        BY <1>1, <1>9, <1>10, <2>1, NothingLeft
<1>12. AppliedAll(q, m)
    BY <1>4, <1>8, <1>9, <1>10, <1>11, Zenon DEF AppliedAll
<1>13. Stage(q, size)
    BY <1>2, <1>8, <1>12, Zenon DEF Stage
<1> QED
    BY <1>1, <1>4, <1>13, Zenon

LEMMA PatchGoesOn == PatchInv /\ [PatchNext]_patchVars => PatchInv'
<1> SUFFICES ASSUME PatchInv, [PatchNext]_patchVars PROVE PatchInv'
    OBVIOUS
<1>1. script \in Scripts
    BY DEF PatchInv
<1>2. PICK L, size : Of(L) /\ IsLaidOut(size) /\ Stage(patch, size)
    BY DEF PatchInv
<1>3. PICK p : p = patch /\ Stage(p, size)
    BY <1>2
<1>4. Stays /\ \E q : q = patch' /\ Stage(q, size)
    <2>1. CASE UNCHANGED patchVars
        <3>1. Stays /\ patch' = p
            BY <1>3, <2>1 DEF patchVars, Stays
        <3> QED
            BY <1>3, <3>1
    <2>2. CASE ReadsHeader \/ ReadsBodyLine \/ ReadsNote
        BY <1>1, <1>2, <1>3, <2>2, ALineIsRead
    <2>3. CASE NotADiffLine
        BY <1>1, <1>2, <1>3, <2>3, ALineIsRefused
    <2>4. CASE AppliesHunk
        BY <1>1, <1>2, <1>3, <2>4, AHunkIsApplied
    <2>5. CASE DoesNotMatch
        BY <1>1, <1>2, <1>3, <2>5, AHunkIsRefused
    <2>6. CASE AppliesRest
        BY <1>1, <1>2, <1>3, <2>6, TheRestIsApplied
    <2> QED
        BY <2>1, <2>2, <2>3, <2>4, <2>5, <2>6 DEF PatchNext
<1>5. PICK q : q = patch' /\ Stage(q, size)
    BY <1>4
<1>6. Of(L)'
    BY <1>2, <1>4, CopiesStay
<1>7. IsLaidOut(size)'
    BY <1>2, <1>4, LayoutStays
<1>8. Stage(q, size)'
    BY <1>4, <1>5, StageStays
<1>9. script' \in Scripts
    BY <1>1, <1>4 DEF Stays
<1> QED
    BY <1>5, <1>6, <1>7, <1>8, <1>9 DEF PatchInv

LEMMA PatchInvIsEnough == PatchInv => PatchIsRight
<1> SUFFICES ASSUME PatchInv PROVE PatchIsRight
    OBVIOUS
<1>1. PICK L, size : Of(L) /\ IsLaidOut(size) /\ Stage(patch, size)
    BY DEF PatchInv
<1>2. PICK p : p = patch /\ Stage(p, size)
    BY <1>1
<1>3. ChangesWhatItShows
    <2>1. ASSUME p.pc = "applied"
          PROVE  /\ Len(base) >= OldLine(UpToLast)
                 /\ base = OldOf(Elsewhere) /\ p.result = NewOf(Elsewhere)
        <3>1. PICK m : AppliedAll(p, m)
            <4>1. p.pc # "reading" /\ p.pc # "refused"
                BY <2>1
            <4> QED
                BY <1>2, <4>1, Zenon DEF Stage
        <3> QED
            BY <1>1, <3>1, AllIsRight
    <2> QED
        BY <1>2, <2>1, Zenon DEF ChangesWhatItShows
<1>4. AppliesWhereItWasMade
    <2>1. p.pc = "refused" => p.pc # "reading" /\ p.pc # "applied"
        OBVIOUS
    <2> QED
        BY <1>2, <2>1, Zenon DEF AppliesWhereItWasMade, Stage
<1> QED
    BY <1>3, <1>4, Zenon DEF PatchIsRight

(***************************************************************************)
(* For every two texts, and wherever and however the diff of them is read  *)
(* and applied: where apply_unified_diff accepts it, the lines it shows    *)
(* were there, they and no others are changed, and the result is the       *)
(* proposal's; and on the text it was made from it is refused only for a   *)
(* line splitlines cuts at another character than a newline.               *)
(***************************************************************************)
THEOREM ThePatchIsRight == PatchSpec => []PatchIsRight
    BY PatchBegins, PatchGoesOn, PatchInvIsEnough, PTL DEF PatchSpec

=============================================================================
