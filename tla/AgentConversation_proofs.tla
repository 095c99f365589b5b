---------------------- MODULE AgentConversation_proofs ----------------------
(***************************************************************************)
(* For any turns, branches, checkpoints, notes, plans and bounds, and      *)
(* whether or not requests overlap: the conversation keeps its type, no    *)
(* task is in a stage it has not earned and no stored refusal is out of    *)
(* date.  The inductive invariant says so of the file and of every copy in *)
(* flight at once, because a copy is what the file will be next.           *)
(***************************************************************************)
EXTENDS AgentConversation, SequenceTheorems, TLAPS

-----------------------------------------------------------------------------
(***************************************************************************)
(* What the functions of the task state machine preserve, for any set of   *)
(* plans.  A task is sound when it has its type, its stage was earned and  *)
(* the refusal it carries is still true.                                   *)
(***************************************************************************)

Sound(task) == task \in Tasks /\ WorkDone(task) /\ RefusalStillTrue(task)

\* A task nobody started is sound.
LEMMA NoTaskIsSound == Sound(NoTask)
  BY DEF Sound, NoTask, Tasks, Stages, NoRefusal, NoReason, NoPlan, WorkDone, RefusalStillTrue

\* The reason for a refusal depends on the stage, the plan and the outcome of
\* validation alone, and is one of the reasons there are.
LEMMA UnmetTyped ==
  ASSUME NEW task \in Tasks, NEW proposed \in Stages
  PROVE  UnmetCondition(task, proposed) \in Reasons \cup {NoReason}
  BY DEF UnmetCondition, EdgeCondition, GateCondition, Reasons, NoReason

\* A check gives a refusal of the right form, or none.
LEMMA CheckTyped ==
  ASSUME NEW task \in Tasks, NEW proposed \in Stages
  PROVE  /\ CheckTransition(task, proposed) \in Refusals \cup {NoRefusal}
         /\ CheckTransition(task, proposed) = NoRefusal
              <=> UnmetCondition(task, proposed) = NoReason
  <1>1. task.stage \in Stages
    BY DEF Tasks
  <1>2. CASE UnmetCondition(task, proposed) = NoReason
    BY <1>2 DEF CheckTransition
  <1>3. CASE UnmetCondition(task, proposed) # NoReason
    <2>1. UnmetCondition(task, proposed) \in Reasons
      BY <1>3, UnmetTyped
    <2>2. CheckTransition(task, proposed)
            = [current |-> task.stage, requested |-> proposed,
               unmet |-> UnmetCondition(task, proposed)]
      BY <1>3 DEF CheckTransition
    <2>3. CheckTransition(task, proposed) # NoRefusal
      BY <2>2, <1>3 DEF NoRefusal
    <2> QED BY <1>1, <1>3, <2>1, <2>2, <2>3 DEF Refusals
  <1> QED BY <1>2, <1>3

\* Approving a plan while planning keeps a task sound.
LEMMA WithPlanSound ==
  ASSUME NEW task, Sound(task), task.stage = "planning", NEW plan \in Plans
  PROVE  Sound(WithPlan(task, plan))
  BY DEF Sound, WithPlan, Tasks, WorkDone, RefusalStillTrue, NoRefusal

\* So does recording a validation while validating.
LEMMA WithValidationSound ==
  ASSUME NEW task, Sound(task), task.stage = "validation", NEW passed \in BOOLEAN
  PROVE  Sound(WithValidation(task, passed))
  BY DEF Sound, WithValidation, Tasks, WorkDone, RefusalStillTrue, NoRefusal

\* Taking in the evidence of an update leaves the stage alone and the task sound.
LEMMA WithEvidenceSound ==
  ASSUME NEW task, Sound(task), NEW update \in Updates
  PROVE  /\ Sound(WithEvidence(task, update))
         /\ WithEvidence(task, update).stage = task.stage
  <1> DEFINE base == WithPlanNoticed(task, update)
  <1>1. Sound(base) /\ base.stage = task.stage
    <2>1. CASE update.plan # NoPlan /\ task.stage = "planning"
      <3>1. update.plan \in Plans
        BY <2>1 DEF Updates
      <3>2. Sound(WithPlan(task, update.plan))
        BY <2>1, <3>1, WithPlanSound
      <3>3. WithPlan(task, update.plan).stage = task.stage
        BY DEF WithPlan, Sound, Tasks
      <3> QED BY <2>1, <3>2, <3>3 DEF WithPlanNoticed
    <2>2. CASE ~(update.plan # NoPlan /\ task.stage = "planning")
      BY <2>2 DEF WithPlanNoticed
    <2> QED BY <2>1, <2>2
  <1>2. CASE update.validation # "unsaid" /\ task.stage = "validation"
    <2>1. Sound(WithValidation(base, update.validation = "passed"))
      BY <1>1, <1>2, WithValidationSound
    <2>2. WithValidation(base, update.validation = "passed").stage = base.stage
      BY <1>1 DEF WithValidation, Sound, Tasks
    <2> QED BY <1>1, <1>2, <2>1, <2>2 DEF WithEvidence
  <1>3. CASE ~(update.validation # "unsaid" /\ task.stage = "validation")
    BY <1>1, <1>3 DEF WithEvidence
  <1> QED BY <1>2, <1>3

\* A move that is not refused is to the same stage or along an open edge.
LEMMA UnrefusedMove ==
  ASSUME NEW task \in Tasks, NEW proposed \in Stages,
         CheckTransition(task, proposed) = NoRefusal
  PROVE  \/ proposed = task.stage
         \/ /\ proposed \in AllowedTransitions[task.stage]
            /\ proposed = "execution" => task.plan # NoPlan
            /\ proposed = "done" => task.passed
  <1>1. UnmetCondition(task, proposed) = NoReason
    BY CheckTyped
  <1> QED BY <1>1 DEF UnmetCondition, EdgeCondition, GateCondition, CanTransition, NoReason

\* A refusal names the move it refuses, and does not depend on the one
\* recorded before it.
LEMMA RefusalRepeats ==
  ASSUME NEW task \in Tasks, NEW proposed \in Stages,
         CheckTransition(task, proposed) # NoRefusal,
         NEW after, after = [task EXCEPT !.blocked = CheckTransition(task, proposed)]
  PROVE  RefusalStillTrue(after)
  <1>1. after.blocked.requested = proposed
    BY DEF CheckTransition, Tasks
  <1>2. after.stage = task.stage /\ after.plan = task.plan /\ after.passed = task.passed
    BY DEF Tasks
  <1>3. CheckTransition(after, proposed) = CheckTransition(task, proposed)
    BY <1>2 DEF CheckTransition, UnmetCondition, GateCondition
  <1>4. after.blocked = CheckTransition(task, proposed)
    BY DEF Tasks
  <1> QED BY <1>1, <1>3, <1>4 DEF RefusalStillTrue

\* An update, accepted or refused, keeps a task sound.
LEMMA WithUpdateSound ==
  ASSUME NEW task, Sound(task), NEW update \in Updates
  PROVE  Sound(WithUpdate(task, update))
  <1> DEFINE base == WithEvidence(task, update)
             refusal == CheckTransition(base, update.stage)
             moved == [base EXCEPT !.stage = update.stage, !.blocked = NoRefusal]
             held == [base EXCEPT !.blocked = refusal]
  <1>0. Sound(base) /\ base \in Tasks /\ update.stage \in Stages
    BY WithEvidenceSound DEF Sound, Updates
  <1>1. refusal \in Refusals \cup {NoRefusal}
    BY <1>0, CheckTyped
  <1>2. CASE refusal # NoRefusal
    <2>1. held \in Tasks /\ WorkDone(held)
      BY <1>0, <1>1 DEF Sound, Tasks, WorkDone
    <2>2. RefusalStillTrue(held)
      BY <1>0, <1>2, RefusalRepeats
    <2> QED BY <1>2, <2>1, <2>2 DEF Sound, WithUpdate
  <1>3. CASE refusal = NoRefusal
    <2>1. \/ update.stage = base.stage
          \/ /\ update.stage \in AllowedTransitions[base.stage]
             /\ update.stage = "execution" => base.plan # NoPlan
             /\ update.stage = "done" => base.passed
      BY <1>0, <1>3, UnrefusedMove
    <2>2. moved \in Tasks /\ RefusalStillTrue(moved)
      BY <1>0 DEF Tasks, RefusalStillTrue
    <2>3. WorkDone(moved)
      BY <1>0, <2>1 DEF Sound, Tasks, WorkDone, AllowedTransitions, Stages
    <2> QED BY <1>3, <2>2, <2>3 DEF Sound, WithUpdate
  <1> QED BY <1>2, <1>3


-----------------------------------------------------------------------------
\* The conversation.


Good(s) == IsConversation(s) /\ Sound(s.task)

\* Everything the type invariant says but of the conversations.
Shape ==
    /\ file = Unreadable \/ file = OnDisk(conv)
    /\ longTerm \in SUBSET Notes
    /\ usage \in SUBSET Runs
    /\ pc \in [Turns -> Awaits \cup Ended]
    /\ DOMAIN snap = Turns
    /\ active \in [Turns -> ContextStrategy \cup {NotChosen}]
    /\ ops \in 0..MaxOps /\ crashes \in 0..MaxCrashes

AllGood == Good(conv) /\ \A t \in Turns : Good(snap[t])

IInv == Shape /\ AllGood

-----------------------------------------------------------------------------
(* The store.                                                               *)

\* Adding or replacing one entry keeps a dict a dict.
LEMMA WithIsDict ==
  ASSUME NEW Names, NEW Values, NEW dict, IsDict(dict, Names, Values),
         NEW name \in Names, NEW value \in Values
  PROVE  IsDict(With(dict, name, value), Names, Values)
  BY DEF IsDict, With

\* The conversation nobody has had yet is good.
LEMMA NewIsGood == Good(NewConversation)
  <1>1. EmptyHistory \in Histories
    BY DEF EmptyHistory, Histories
  <1>2. IsDict(EmptyDict, BranchNames, Histories) /\ IsDict(EmptyDict, CheckpointNames, Histories)
    BY DEF IsDict, EmptyDict
  <1>3. IsDict(With(EmptyDict, MainBranch, EmptyHistory), BranchNames, Histories)
    BY <1>1, <1>2, WithIsDict, StoreAssumption
  <1>4. MainBranch \in DOMAIN With(EmptyDict, MainBranch, EmptyHistory)
    BY DEF With
  <1>5. Sound(NoTask) /\ NoTask \in Tasks
    BY NoTaskIsSound DEF Sound
  <1>6. NoWorkingMemory \in WorkingMemories
    BY DEF NoWorkingMemory, WorkingMemories
  <1>7. IsConversation(NewConversation)
    BY <1>2, <1>3, <1>4, <1>5, <1>6 DEF IsConversation, NewConversation
  <1> QED BY <1>5, <1>7 DEF Good, NewConversation

\* There is always a branch being talked on.
LEMMA CurrentIsHistory ==
  ASSUME NEW s, Good(s)
  PROVE  CurrentBranch(s) \in Histories /\ s.current \in BranchNames
  BY DEF Good, IsConversation, IsDict, CurrentBranch

\* Each part of a conversation may be replaced by another of its type.
LEMMA WithCurrentGood ==
  ASSUME NEW s, Good(s), NEW h \in Histories
  PROVE  Good(WithCurrent(s, h))
  <1> DEFINE branches == With(s.branches, s.current, h)
  <1>0. s.current \in BranchNames /\ IsDict(s.branches, BranchNames, Histories)
    BY CurrentIsHistory DEF Good, IsConversation
  <1>1. IsDict(branches, BranchNames, Histories)
    BY <1>0, WithIsDict
  <1>2. s.current \in DOMAIN branches
    BY DEF With
  <1>3. WithCurrent(s, h) = [s EXCEPT !.branches = branches]
    BY DEF WithCurrent
  <1> HIDE DEF branches
  <1> QED BY <1>1, <1>2, <1>3 DEF Good, IsConversation

LEMMA WithTaskGood ==
  ASSUME NEW s, Good(s), NEW task, Sound(task)
  PROVE  Good([s EXCEPT !.task = task])
  BY DEF Good, IsConversation, Sound

LEMMA WithWorkingGood ==
  ASSUME NEW s, Good(s), NEW working \in WorkingMemories
  PROVE  Good([s EXCEPT !.working = working])
  BY DEF Good, IsConversation

LEMMA WithStrategyGood ==
  ASSUME NEW s, Good(s), NEW strategy \in ContextStrategy \cup {NotChosen}
  PROVE  Good([s EXCEPT !.strategy = strategy])
  BY DEF Good, IsConversation

LEMMA SwitchedGood ==
  ASSUME NEW s, Good(s), NEW name \in DOMAIN s.branches
  PROVE  Good([s EXCEPT !.current = name])
  BY DEF Good, IsConversation

LEMMA WithCheckpointGood ==
  ASSUME NEW s, Good(s), NEW name \in CheckpointNames
  PROVE  Good(WithCheckpoint(s, name))
  <1> DEFINE checkpoints == With(s.checkpoints, name, CurrentBranch(s))
  <1>1. IsDict(checkpoints, CheckpointNames, Histories)
    BY CurrentIsHistory, WithIsDict DEF Good, IsConversation
  <1>2. WithCheckpoint(s, name) = [s EXCEPT !.checkpoints = checkpoints]
    BY DEF WithCheckpoint
  <1> HIDE DEF checkpoints
  <1> QED BY <1>1, <1>2 DEF Good, IsConversation

LEMMA WithBranchGood ==
  ASSUME NEW s, Good(s), NEW name \in BranchNames, NEW checkpoint \in DOMAIN s.checkpoints
  PROVE  Good(WithBranch(s, name, checkpoint))
  <1> DEFINE branches == With(s.branches, name, s.checkpoints[checkpoint])
  <1>0. IsDict(s.branches, BranchNames, Histories) /\ s.current \in DOMAIN s.branches
    BY DEF Good, IsConversation
  <1>1. s.checkpoints[checkpoint] \in Histories
    BY DEF Good, IsConversation, IsDict
  <1>2. IsDict(branches, BranchNames, Histories)
    BY <1>0, <1>1, WithIsDict
  <1>3. s.current \in DOMAIN branches
    BY <1>0 DEF With
  <1>4. WithBranch(s, name, checkpoint) = [s EXCEPT !.branches = branches]
    BY DEF WithBranch
  <1> HIDE DEF branches
  <1> QED BY <1>2, <1>3, <1>4 DEF Good, IsConversation

LEMMA AnsweredGood ==
  ASSUME NEW s, Good(s), NEW t \in Turns
  PROVE  Good(Answered(s, t))
  <1> DEFINE h == CurrentBranch(s)
             turn == <<UserMessage(t), AssistantMessage(t)>>
             messages == h.messages \o turn
  <1>1. h \in Histories
    BY CurrentIsHistory
  <1>2. turn \in Seq(Messages)
    BY DEF UserMessage, AssistantMessage, Messages
  <1>3. messages \in Seq(Messages)
    BY <1>1, <1>2 DEF Histories
  <1>4. Answered(s, t) = WithCurrent(s, [h EXCEPT !.messages = messages])
    BY DEF Answered
  <1>5. [h EXCEPT !.messages = messages] \in Histories
    <2> HIDE DEF messages, h
    <2> QED BY <1>1, <1>3 DEF Histories
  <1> QED BY <1>4, <1>5, WithCurrentGood

LEMMA CompressedGood ==
  ASSUME NEW s, Good(s)
  PROVE  Good(Compressed(s))
  <1> DEFINE h == CurrentBranch(s)
             splitAt == IF Len(h.messages) > RecentKept THEN Len(h.messages) - RecentKept ELSE 0
             older == {h.messages[i] : i \in 1..splitAt}
             summary == h.summary \cup older
             messages == SubSeq(h.messages, splitAt + 1, Len(h.messages))
  <1>1. h \in Histories /\ h.messages \in Seq(Messages) /\ h.summary \in SUBSET Messages
    BY CurrentIsHistory DEF Histories
  <1>2. splitAt \in Nat /\ splitAt \in 0..Len(h.messages)
    BY <1>1, StoreAssumption
  <1>3. summary \in SUBSET Messages
    BY <1>1, <1>2
  <1>4. messages \in Seq(Messages)
    BY <1>1, <1>2
  <1>5. Compressed(s) = WithCurrent(s, [h EXCEPT !.summary = summary, !.messages = messages])
    BY DEF Compressed
  <1>6. [h EXCEPT !.summary = summary, !.messages = messages] \in Histories
    <2> HIDE DEF messages, summary, h
    <2> QED BY <1>1, <1>3, <1>4 DEF Histories
  <1> QED BY <1>5, <1>6, WithCurrentGood

LEMMA WithFactsGood ==
  ASSUME NEW s, Good(s), NEW facts \in SUBSET Notes
  PROVE  Good(WithFacts(s, facts))
  <1> DEFINE h == CurrentBranch(s)
  <1>1. h \in Histories
    BY CurrentIsHistory
  <1>2. [h EXCEPT !.facts = facts] \in Histories
    BY <1>1 DEF Histories
  <1> QED BY <1>2, WithCurrentGood DEF WithFacts

LEMMA WithDialogueGood ==
  ASSUME NEW s, Good(s), NEW dialogue \in Seq(Messages)
  PROVE  Good(WithDialogue(s, dialogue))
  <1> DEFINE h == CurrentBranch(s)
  <1>1. h \in Histories
    BY CurrentIsHistory
  <1>2. [h EXCEPT !.messages = dialogue, !.summary = {}] \in Histories
    BY <1>1 DEF Histories
  <1> QED BY <1>2, WithCurrentGood DEF WithDialogue

\* What was saved is what is loaded.
LEMMA LoadSaved == ASSUME NEW s PROVE Load(OnDisk(s)) = s
  <1>1. Len(<<s>>) = 1 /\ Len(<<>>) = 0 /\ <<s>>[1] = s
    OBVIOUS
  <1>2. <<s>> # <<>>
    BY <1>1, Zenon
  <1> QED BY <1>1, <1>2 DEF Load, OnDisk, Unreadable

\* A message typed in is a message.
LEMMA DialoguesTyped == Dialogues \subseteq Seq(Messages)
  <1>1. [turn : {Written}, role : {"user", "assistant"}] \subseteq Messages
    BY DEF Messages
  <1>2. ASSUME NEW d \in Dialogues PROVE d \in Seq(Messages)
    <2>1. d \in Seq([turn : {Written}, role : {"user", "assistant"}])
      BY AgentAssumption
    <2> QED BY <1>1, <2>1, SeqMonotonic, Zenon
  <1> QED BY <1>2

-----------------------------------------------------------------------------
(* The steps.  A step of a turn changes one copy or ends the turn.          *)

LEMMA RunsAreTurns == Runs \subseteq Turns /\ Asks \subseteq Turns
  BY AgentAssumption

\* The invariant follows when the file and each copy stay good.
LEMMA CopyReplaced ==
  ASSUME IInv, NEW t \in Turns, NEW s, Good(s), NEW how \in Awaits \cup Ended,
         snap' = [snap EXCEPT ![t] = s], pc' = [pc EXCEPT ![t] = how],
         active' \in [Turns -> ContextStrategy \cup {NotChosen}],
         longTerm' \in SUBSET Notes, UNCHANGED <<file, usage, ops, crashes>>
  PROVE  IInv'
  <1>1. \A u \in Turns : Good(snap'[u])
    BY DEF IInv, AllGood, Shape
  <1> QED BY <1>1 DEF IInv, AllGood, Shape, conv

LEMMA TurnEnded ==
  ASSUME IInv, NEW t \in Turns, NEW how \in Ended, End(t, how)
  PROVE  /\ DOMAIN snap' = Turns /\ \A u \in Turns : Good(snap'[u])
         /\ pc' \in [Turns -> Awaits \cup Ended]
         /\ active' \in [Turns -> ContextStrategy \cup {NotChosen}]
  BY NewIsGood DEF IInv, AllGood, Shape, End

\* Tracking leaves a good conversation on disk.
LEMMA TrackedGood ==
  ASSUME NEW s, Good(s), NEW f \in Tracked(s)
  PROVE  Good(Load(f)) /\ f = OnDisk(Load(f))
  <1>1. CASE f = OnDisk(s)
    BY <1>1, LoadSaved
  <1>2. CASE \E update \in Evidence : f = OnDisk([s EXCEPT !.task = WithUpdate(s.task, update)])
    <2>1. PICK update \in Evidence : f = OnDisk([s EXCEPT !.task = WithUpdate(s.task, update)])
      BY <1>2
    <2>2. Good([s EXCEPT !.task = WithUpdate(s.task, update)])
      BY WithUpdateSound, WithTaskGood, AgentAssumption DEF Good
    <2> QED BY <2>1, <2>2, LoadSaved
  <1> QED BY <1>1, <1>2 DEF Tracked

LEMMA BeginRunStep == ASSUME IInv, NEW t \in Turns, BeginRun(t) PROVE IInv'
  <1>1. Good(conv) /\ conv.strategy \in ContextStrategy \cup {NotChosen}
    BY DEF IInv, AllGood, Good, IsConversation
  <1>2. PICK requested \in Requested \cup {NotChosen} :
          \E strategy \in ResolveStrategy(conv, requested) : active' = [active EXCEPT ![t] = strategy]
    BY DEF BeginRun, conv
  <1>3. ResolveStrategy(conv, requested) \subseteq ContextStrategy \cup {NotChosen}
    BY <1>1, <1>2, AgentAssumption DEF ResolveStrategy, ContextStrategy
  <1>4. active' \in [Turns -> ContextStrategy \cup {NotChosen}]
    BY <1>2, <1>3 DEF IInv, Shape
  <1>5. /\ snap' = [snap EXCEPT ![t] = conv] /\ pc' = [pc EXCEPT ![t] = "asking"]
        /\ longTerm' \in SUBSET Notes /\ UNCHANGED <<file, usage, ops, crashes>>
    BY DEF BeginRun, conv, IInv, Shape
  <1>6. "asking" \in Awaits \cup Ended
    BY DEF Awaits
  <1> QED BY <1>1, <1>4, <1>5, <1>6, CopyReplaced

LEMMA GeminiAnswersStep == ASSUME IInv, NEW t \in Turns, GeminiAnswers(t) PROVE IInv'
  <1> DEFINE s == Answered(snap[t], t)
             how == AfterAnswer(t, s)
  <1>1. Good(s)
    BY AnsweredGood DEF IInv, AllGood
  <1>2. how \in Awaits \cup Ended
    BY DEF AfterAnswer, Awaits
  <1>3. /\ snap' = [snap EXCEPT ![t] = s] /\ pc' = [pc EXCEPT ![t] = how]
        /\ active' \in [Turns -> ContextStrategy \cup {NotChosen}]
        /\ longTerm' \in SUBSET Notes /\ UNCHANGED <<file, usage, ops, crashes>>
    BY DEF GeminiAnswers, IInv, Shape
  <1> HIDE DEF s, how
  <1> QED BY <1>1, <1>2, <1>3, CopyReplaced

LEMMA GeminiFailsStep == ASSUME IInv, NEW t \in Turns, GeminiFails(t) PROVE IInv'
  <1>1. End(t, "failed") /\ UNCHANGED <<file, longTerm, usage, ops, crashes>>
    BY DEF GeminiFails
  <1>2. "failed" \in Ended
    BY DEF Ended
  <1> QED BY <1>1, <1>2, TurnEnded DEF IInv, AllGood, Shape, conv

\* A best-effort call hands a good copy on.
LEMMA GoesStep ==
  ASSUME IInv, NEW t \in Turns, NEW s, Good(s), Goes(t, s), longTerm' \in SUBSET Notes
  PROVE  IInv'
  <1>1. /\ snap' = [snap EXCEPT ![t] = s] /\ pc' = [pc EXCEPT ![t] = "track"]
        /\ active' \in [Turns -> ContextStrategy \cup {NotChosen}]
        /\ UNCHANGED <<file, usage, ops, crashes>>
    BY DEF Goes, IInv, Shape
  <1>2. "track" \in Awaits \cup Ended
    BY DEF Awaits
  <1> QED BY <1>1, <1>2, CopyReplaced

LEMMA BestEffortStep ==
  ASSUME IInv, NEW t \in Turns,
         CompressIfDue(t) \/ RefreshFacts(t) \/ RouteMemory(t) \/ RoutingFails(t)
  PROVE  IInv'
  <1>1. Good(snap[t]) /\ longTerm \in SUBSET Notes
    BY DEF IInv, AllGood, Shape
  <1>2. CASE CompressIfDue(t)
    BY <1>1, <1>2, CompressedGood, GoesStep DEF CompressIfDue
  <1>3. CASE RefreshFacts(t)
    BY <1>1, <1>3, WithFactsGood, GoesStep DEF RefreshFacts
  <1>4. CASE RouteMemory(t)
    BY <1>1, <1>4, WithWorkingGood, GoesStep DEF RouteMemory
  <1>5. CASE RoutingFails(t)
    BY <1>1, <1>5, GoesStep DEF RoutingFails
  <1> QED BY <1>2, <1>3, <1>4, <1>5

LEMMA TrackTaskStep == ASSUME IInv, NEW t \in Runs, TrackTask(t) PROVE IInv'
  <1>1. t \in Turns /\ Good(snap[t])
    BY RunsAreTurns DEF IInv, AllGood
  <1>2. Good(conv') /\ file' = OnDisk(conv')
    BY <1>1, TrackedGood DEF TrackTask, conv
  <1>3. End(t, "answered") /\ "answered" \in Ended
    BY DEF TrackTask, Ended
  <1>4. usage' \in SUBSET Runs /\ UNCHANGED <<longTerm, ops, crashes>>
    BY DEF TrackTask, IInv, Shape
  <1> QED BY <1>1, <1>2, <1>3, <1>4, TurnEnded DEF IInv, AllGood, Shape

LEMMA AskSteps == ASSUME IInv, NEW t \in Turns, BeginAsk(t) \/ Remember(t) \/ Record(t) PROVE IInv'
  <1>1. Good(snap[t]) /\ Good(conv)
    BY DEF IInv, AllGood
  <1>2. CASE BeginAsk(t)
    <2>1. /\ snap' = [snap EXCEPT ![t] = conv] /\ pc' = [pc EXCEPT ![t] = "remember"]
          /\ active' \in [Turns -> ContextStrategy \cup {NotChosen}]
          /\ longTerm' \in SUBSET Notes /\ UNCHANGED <<file, usage, ops, crashes>>
      BY <1>2 DEF BeginAsk, conv, IInv, Shape
    <2>2. "remember" \in Awaits \cup Ended
      BY DEF Awaits
    <2> QED BY <1>1, <2>1, <2>2, CopyReplaced
  <1>3. CASE Remember(t)
    <2>1. PICK working \in WorkingMemories \cup {snap[t].working} :
             snap' = [snap EXCEPT ![t].working = working]
      BY <1>3 DEF Remember
    <2> DEFINE s == [snap[t] EXCEPT !.working = working]
    <2>2. working \in WorkingMemories
      BY <1>1, <2>1 DEF Good, IsConversation
    <2>3. Good(s)
      BY <1>1, <2>2, WithWorkingGood
    <2>4. /\ snap' = [snap EXCEPT ![t] = s] /\ pc' = [pc EXCEPT ![t] = "asking"]
          /\ active' \in [Turns -> ContextStrategy \cup {NotChosen}]
          /\ longTerm' \in SUBSET Notes /\ UNCHANGED <<file, usage, ops, crashes>>
      BY <1>3, <2>1 DEF Remember, IInv, Shape
    <2>5. "asking" \in Awaits \cup Ended
      BY DEF Awaits
    <2> HIDE DEF s
    <2> QED BY <2>3, <2>4, <2>5, CopyReplaced
  <1>4. CASE Record(t)
    <2>1. Good(Answered(snap[t], t))
      BY <1>1, AnsweredGood
    <2>2. Good(conv') /\ file' = OnDisk(conv')
      BY <1>4, <2>1, LoadSaved DEF Record, conv
    <2>3. End(t, "answered") /\ "answered" \in Ended
      BY <1>4 DEF Record, Ended
    <2>4. UNCHANGED <<longTerm, usage, ops, crashes>>
      BY <1>4 DEF Record
    <2> QED BY <2>2, <2>3, <2>4, TurnEnded DEF IInv, AllGood, Shape
  <1> QED BY <1>2, <1>3, <1>4

-----------------------------------------------------------------------------
(* The handlers.                                                            *)

\* Saving a good conversation is all a handler has to do.
LEMMA SaveStep == ASSUME IInv, NEW s, Good(s), Save(s) PROVE IInv'
  <1>1. conv' = s /\ file' = OnDisk(conv')
    BY LoadSaved DEF Save, conv
  <1>2. ops' \in 0..MaxOps
    BY AgentAssumption DEF Save, Request, IInv, Shape
  <1> QED BY <1>1, <1>2 DEF IInv, AllGood, Shape, Save, Request, turnVars

LEMMA SaveLongTermStep ==
  ASSUME IInv, NEW notes \in SUBSET Notes, SaveLongTerm(notes) PROVE IInv'
  <1>1. ops' \in 0..MaxOps
    BY AgentAssumption DEF SaveLongTerm, Request, IInv, Shape
  <1> QED BY <1>1 DEF IInv, AllGood, Shape, SaveLongTerm, Request, turnVars, conv

LEMMA TaskRequestStep == ASSUME IInv, TaskRequest PROVE IInv'
  <1>1. Good(conv) /\ Sound(conv.task)
    BY DEF IInv, AllGood, Good
  <1>2. CASE ClearTaskState
    BY <1>1, <1>2, NoTaskIsSound, WithTaskGood, SaveStep DEF ClearTaskState
  <1>3. CASE RequestTaskTransition
    <2> DEFINE update(stage) == [stage |-> stage, plan |-> NoPlan, validation |-> "unsaid"]
               s(stage) == [conv EXCEPT !.task = WithUpdate(conv.task, update(stage))]
    <2>1. PICK stage \in Moves : Save(s(stage))
      BY <1>3 DEF RequestTaskTransition
    <2>2. update(stage) \in Updates
      BY AgentAssumption DEF Updates
    <2>3. Good(s(stage))
      BY <1>1, <2>2, WithUpdateSound, WithTaskGood
    <2> HIDE DEF s
    <2> QED BY <2>1, <2>3, SaveStep
  <1>4. CASE ApproveTaskPlan
    <2>1. PICK plan \in Plans : Save([conv EXCEPT !.task = WithPlan(conv.task, plan)])
      BY <1>4 DEF ApproveTaskPlan
    <2>2. Sound(WithPlan(conv.task, plan))
      BY <1>1, <1>4, WithPlanSound DEF ApproveTaskPlan
    <2> QED BY <1>1, <2>1, <2>2, WithTaskGood, SaveStep
  <1>5. CASE RecordTaskValidation
    <2>1. PICK passed \in BOOLEAN : Save([conv EXCEPT !.task = WithValidation(conv.task, passed)])
      BY <1>5 DEF RecordTaskValidation
    <2>2. Sound(WithValidation(conv.task, passed))
      BY <1>1, <1>5, WithValidationSound DEF RecordTaskValidation
    <2> QED BY <1>1, <2>1, <2>2, WithTaskGood, SaveStep
  <1> QED BY <1>2, <1>3, <1>4, <1>5 DEF TaskRequest

LEMMA BranchRequestStep == ASSUME IInv, BranchRequest PROVE IInv'
  <1>1. Good(conv)
    BY DEF IInv, AllGood
  <1>2. CASE CreateCheckpoint
    BY <1>1, <1>2, WithCheckpointGood, SaveStep DEF CreateCheckpoint
  <1>3. CASE CreateBranch
    BY <1>1, <1>3, WithBranchGood, SaveStep DEF CreateBranch
  <1>4. CASE SwitchBranch
    BY <1>1, <1>4, SwitchedGood, SaveStep DEF SwitchBranch
  <1> QED BY <1>2, <1>3, <1>4 DEF BranchRequest

LEMMA MemoryRequestStep == ASSUME IInv, MemoryRequest PROVE IInv'
  <1>1. Good(conv) /\ conv.working.entries \in SUBSET Notes
    BY DEF IInv, AllGood, Good, IsConversation, WorkingMemories
  <1>2. CASE UpdateShortTerm
    BY <1>1, <1>2, DialoguesTyped, WithDialogueGood, SaveStep DEF UpdateShortTerm
  <1>3. CASE UpdateWorkingMemory
    <2>1. PICK entries \in {conv.working.entries} \cup SUBSET Notes :
             Save([conv EXCEPT !.working = [entries |-> entries, terms |-> {}]])
      BY <1>3 DEF UpdateWorkingMemory
    <2>2. [entries |-> entries, terms |-> {}] \in WorkingMemories
      BY <1>1, <2>1 DEF WorkingMemories
    <2> QED BY <1>1, <2>1, <2>2, WithWorkingGood, SaveStep
  <1>4. CASE UpdateLongTermMemory
    BY <1>4, SaveLongTermStep DEF UpdateLongTermMemory
  <1>5. CASE ClearMemory
    <2>1. NoWorkingMemory \in WorkingMemories /\ <<>> \in Seq(Messages) /\ {} \in SUBSET Notes
      BY DEF NoWorkingMemory, WorkingMemories
    <2>2. Good([conv EXCEPT !.working = NoWorkingMemory]) /\ Good(WithDialogue(conv, <<>>))
      BY <1>1, <2>1, WithWorkingGood, WithDialogueGood
    <2> QED BY <1>5, <2>1, <2>2, SaveStep, SaveLongTermStep DEF ClearMemory
  <1> QED BY <1>2, <1>3, <1>4, <1>5 DEF MemoryRequest

LEMMA SettingRequestStep == ASSUME IInv, SettingRequest PROVE IInv'
  <1>1. Good(conv) /\ conv.strategy \in ContextStrategy \cup {NotChosen}
    BY DEF IInv, AllGood, Good, IsConversation
  <1>2. CASE ClearHistory
    BY <1>1, <1>2, NewIsGood, WithStrategyGood, SaveStep DEF ClearHistory
  <1>3. CASE SetStrategy
    BY <1>1, <1>3, AgentAssumption, WithStrategyGood, SaveStep DEF SetStrategy
  <1> QED BY <1>2, <1>3 DEF SettingRequest

\* A crash drops every copy and leaves one of the files as it was, torn, or
\* just saved.
LEMMA CrashStep == ASSUME IInv, AnyCrash PROVE IInv'
  <1>1. ASSUME Dies
        PROVE  /\ DOMAIN snap' = Turns /\ \A u \in Turns : Good(snap'[u])
               /\ pc' \in [Turns -> Awaits \cup Ended]
               /\ active' \in [Turns -> ContextStrategy \cup {NotChosen}]
               /\ ops' \in 0..MaxOps /\ crashes' \in 0..MaxCrashes
    BY <1>1, NewIsGood, AgentAssumption DEF Dies, IInv, Shape, Ended
  <1>2. CASE Crash
    BY <1>1, <1>2 DEF Crash, IInv, AllGood, Shape, conv
  <1>3. CASE CrashSavingConversation
    <2>1. file' = Unreadable /\ Good(conv')
      BY <1>3, NewIsGood DEF CrashSavingConversation, conv, Load
    <2> QED BY <1>1, <1>3, <2>1 DEF CrashSavingConversation, IInv, AllGood, Shape
  <1>4. CASE CrashSavingLongTerm
    BY <1>1, <1>4 DEF CrashSavingLongTerm, IInv, AllGood, Shape, conv
  <1>5. CASE \E t \in Runs : CrashAfterSaving(t)
    <2>1. PICK t \in Runs : CrashAfterSaving(t)
      BY <1>5
    <2>2. Good(snap[t])
      BY RunsAreTurns DEF IInv, AllGood
    <2>3. Good(conv') /\ file' = OnDisk(conv')
      BY <2>1, <2>2, TrackedGood DEF CrashAfterSaving, conv
    <2>4. usage' \in SUBSET Runs /\ longTerm' = longTerm
      BY <2>1 DEF CrashAfterSaving, IInv, Shape
    <2> QED BY <1>1, <2>1, <2>3, <2>4 DEF CrashAfterSaving, IInv, AllGood, Shape
  <1> QED BY <1>2, <1>3, <1>4, <1>5 DEF AnyCrash

-----------------------------------------------------------------------------

LEMMA InitIInv == Init => IInv
  <1> SUFFICES ASSUME Init PROVE IInv
    OBVIOUS
  <1>1. Good(conv)
    BY NewIsGood DEF Init, conv, Load
  <1>2. \A t \in Turns : Good(snap[t])
    BY NewIsGood DEF Init
  <1> QED BY <1>1, <1>2, AgentAssumption DEF Init, IInv, AllGood, Shape, Awaits, Ended

LEMMA NextIInv == IInv /\ [Next]_vars => IInv'
  <1> SUFFICES ASSUME IInv, [Next]_vars PROVE IInv'
    OBVIOUS
  <1>1. CASE \E t \in Runs : RunStep(t)
    BY <1>1, RunsAreTurns, BeginRunStep, GeminiAnswersStep, GeminiFailsStep, BestEffortStep,
       TrackTaskStep DEF RunStep
  <1>2. CASE \E t \in Asks : AskStep(t)
    BY <1>2, RunsAreTurns, AskSteps, GeminiFailsStep DEF AskStep
  <1>3. CASE TaskRequest \/ BranchRequest \/ MemoryRequest \/ SettingRequest
    BY <1>3, TaskRequestStep, BranchRequestStep, MemoryRequestStep, SettingRequestStep
  <1>4. CASE AnyCrash
    BY <1>4, CrashStep
  <1>5. CASE UNCHANGED vars
    BY <1>5 DEF vars, IInv, AllGood, Shape, conv
  <1> QED BY <1>1, <1>2, <1>3, <1>4, <1>5 DEF Next

LEMMA IInvImplies == IInv => TypeOK /\ TaskEarned /\ RefusalsStillTrue
  BY DEF IInv, Shape, AllGood, Good, Sound, TypeOK, TaskEarned, RefusalsStillTrue, Copies

LEMMA Inductive == Spec => []IInv
  BY InitIInv, NextIInv, PTL DEF Spec

\* Every variable keeps its type: in particular the conversation that is
\* loaded is always well formed, and so is every copy.
THEOREM TypeCorrect == Spec => []TypeOK
  BY Inductive, IInvImplies, PTL

\* No interleaving, lost update or crash puts a task in a stage whose work was
\* not done.
THEOREM TasksAreEarned == Spec => []TaskEarned
  BY Inductive, IInvImplies, PTL

\* No interleaving, lost update or crash leaves a refusal that is out of date.
THEOREM RefusalsStayTrue == Spec => []RefusalsStillTrue
  BY Inductive, IInvImplies, PTL

-----------------------------------------------------------------------------
(***************************************************************************)
(* When requests do not overlap, the task on disk implements TaskMachine.  *)
(* A turn writes back the task it loaded, so the proof needs to know that  *)
(* the task on disk is still the one it loaded (CopyIsCurrent).            *)
(***************************************************************************)

\* TaskMachine!Progress, of two tasks.
Progresses(a, b) ==
    /\ b.plan = a.plan \/ (a.stage = "planning" /\ b.plan \in Plans)
    /\ b.passed = a.passed \/ (a.stage = "validation" /\ b.passed \in BOOLEAN)
    /\ b.stage = a.stage \/ <<a.stage, b.stage>> \in Machine!Edges
    /\ (b.stage # a.stage /\ b.stage = "execution") => b.plan # NoPlan
    /\ (b.stage # a.stage /\ b.stage = "done") => b.passed

\* The table of moves is the set of edges.
LEMMA TableIsEdges ==
  ASSUME NEW a \in Stages, NEW b \in AllowedTransitions[a] PROVE <<a, b>> \in Machine!Edges
  BY DEF Stages, AllowedTransitions, Machine!Edges

\* Taking in evidence is work of the present stage.
LEMMA EvidenceProgresses ==
  ASSUME NEW task, Sound(task), NEW update \in Updates
  PROVE  /\ Progresses(task, WithEvidence(task, update))
         /\ WithEvidence(task, update).stage = task.stage
  <1> DEFINE base == WithPlanNoticed(task, update)
             result == WithEvidence(task, update)
  <1>1. task \in Tasks /\ update.plan \in Plans \cup {NoPlan}
    BY DEF Sound, Updates
  <1>2. /\ base.stage = task.stage /\ base.passed = task.passed /\ base \in Tasks
        /\ base.plan = task.plan \/ (task.stage = "planning" /\ base.plan \in Plans)
    BY <1>1 DEF WithPlanNoticed, WithPlan, Tasks
  <1>3. /\ result.stage = base.stage /\ result.plan = base.plan
        /\ result.passed = base.passed \/ (task.stage = "validation" /\ result.passed \in BOOLEAN)
    <2> HIDE DEF base
    <2>1. WithEvidence(task, update) =
            IF update.validation # "unsaid" /\ task.stage = "validation"
            THEN WithValidation(base, update.validation = "passed") ELSE base
      BY DEF WithEvidence, base
    <2> QED BY <1>2, <2>1 DEF WithValidation, Tasks
  <1> QED BY <1>2, <1>3 DEF Progresses

\* An update, accepted or refused, is a step of the machine.
LEMMA UpdateProgresses ==
  ASSUME NEW task, Sound(task), NEW update \in Updates
  PROVE  Progresses(task, WithUpdate(task, update))
  <1> DEFINE base == WithEvidence(task, update)
             refusal == CheckTransition(base, update.stage)
  <1>1. /\ base \in Tasks /\ Progresses(task, base) /\ base.stage = task.stage
        /\ update.stage \in Stages
    BY EvidenceProgresses, WithEvidenceSound DEF Sound, Updates
  <1>2. CASE refusal # NoRefusal
    <2>1. WithUpdate(task, update) = [base EXCEPT !.blocked = refusal]
      BY <1>2 DEF WithUpdate
    <2> HIDE DEF base, refusal
    <2> QED BY <1>1, <2>1 DEF Progresses, Tasks
  <1>3. CASE refusal = NoRefusal
    <2>1. WithUpdate(task, update) = [base EXCEPT !.stage = update.stage, !.blocked = NoRefusal]
      BY <1>3 DEF WithUpdate
    <2>2. \/ update.stage = base.stage
          \/ /\ update.stage \in AllowedTransitions[base.stage]
             /\ update.stage = "execution" => base.plan # NoPlan
             /\ update.stage = "done" => base.passed
      BY <1>1, <1>3, UnrefusedMove
    <2>3. update.stage = base.stage \/ <<base.stage, update.stage>> \in Machine!Edges
      BY <1>1, <2>2, TableIsEdges DEF Tasks
    <2> HIDE DEF base, refusal
    <2> QED BY <1>1, <2>1, <2>2, <2>3 DEF Progresses, Tasks
  <1> QED BY <1>2, <1>3

\* Rewriting the branch being talked on leaves the task alone.
LEMMA TaskUntouched ==
  ASSUME NEW s, Good(s), NEW t, NEW facts, NEW dialogue, NEW working
  PROVE  /\ Answered(s, t).task = s.task /\ Compressed(s).task = s.task
         /\ WithFacts(s, facts).task = s.task /\ WithDialogue(s, dialogue).task = s.task
         /\ [s EXCEPT !.working = working].task = s.task
  BY DEF Good, IsConversation, Answered, Compressed, WithFacts, WithDialogue, WithCurrent

LEMMA MachineMoves ==
  ASSUME \/ conv'.task = conv.task
         \/ conv'.task = NoTask
         \/ Progresses(conv.task, conv'.task)
  PROVE  [Machine!Next]_Machine!vars
  <1>1. CASE conv'.task = conv.task
    BY <1>1 DEF Machine!vars
  <1>2. CASE conv'.task = NoTask
    BY <1>2 DEF NoTask, Machine!Next, Machine!Clear
  <1>3. CASE Progresses(conv.task, conv'.task)
    BY <1>3 DEF Progresses, Machine!Next, Machine!Progress, Machine!Work, Machine!Advance
  <1> QED BY <1>1, <1>2, <1>3

Serial == IInv /\ CopyIsCurrent

\* A handler runs only when no turn is in flight.
LEMMA RequestSerial ==
  ASSUME Serial, ~Overlap, Request
  PROVE  CopyIsCurrent'
  <1>1. \A t \in Turns : pc'[t] \notin Awaits
    BY DEF Request, MayStart, turnVars, Awaits, Ended
  <1> QED BY <1>1 DEF CopyIsCurrent

\* When a turn ends, or all of them do, no turn is in flight.
LEMMA EndSerial ==
  ASSUME Serial, ~Overlap, NEW t \in Turns, pc[t] \in Awaits, NEW how \in Ended, End(t, how)
  PROVE  CopyIsCurrent'
  <1>1. \A u \in Turns : pc'[u] \notin Awaits
    BY DEF Serial, CopyIsCurrent, IInv, Shape, End, Awaits, Ended
  <1> QED BY <1>1 DEF CopyIsCurrent

LEMMA DiesSerial ==
  ASSUME Serial, Dies PROVE CopyIsCurrent'
  <1>1. \A u \in Turns : pc'[u] \notin Awaits
    BY DEF Serial, IInv, Shape, Dies, Awaits, Ended
  <1> QED BY <1>1 DEF CopyIsCurrent

\* A turn that goes on keeps the task it has.
LEMMA GoesOnSerial ==
  ASSUME Serial, ~Overlap, NEW t \in Turns, pc[t] \in Awaits, NEW s, s.task = snap[t].task,
         NEW how, snap' = [snap EXCEPT ![t] = s], pc' = [pc EXCEPT ![t] = how], file' = file
  PROVE  CopyIsCurrent'
  BY DEF Serial, CopyIsCurrent, IInv, Shape, conv

\* A turn that begins loads the task there is, while no other is in flight.
LEMMA BeginSerial ==
  ASSUME Serial, ~Overlap, MayStart, NEW t \in Turns, NEW how, snap' = [snap EXCEPT ![t] = conv],
         pc' = [pc EXCEPT ![t] = how], file' = file
  PROVE  CopyIsCurrent'
  <1>1. \A u \in Turns : pc[u] \notin Awaits
    BY DEF MayStart, Awaits, Ended
  <1> QED BY <1>1 DEF Serial, CopyIsCurrent, IInv, Shape, conv

\* Saving a copy of the task on disk, tracked or not, is a step of the machine.
LEMMA TrackedMoves ==
  ASSUME IInv, NEW t \in Turns, snap[t].task = conv.task, file' \in Tracked(snap[t])
  PROVE  [Machine!Next]_Machine!vars
  <1>1. Good(snap[t]) /\ Good(conv)
    BY DEF IInv, AllGood
  <1>2. CASE file' = OnDisk(snap[t])
    <2>1. conv'.task = conv.task
      BY <1>2, LoadSaved DEF conv
    <2> QED BY <2>1, MachineMoves
  <1>3. CASE \E update \in Evidence :
                file' = OnDisk([snap[t] EXCEPT !.task = WithUpdate(snap[t].task, update)])
    <2>1. PICK update \in Evidence :
             file' = OnDisk([snap[t] EXCEPT !.task = WithUpdate(snap[t].task, update)])
      BY <1>3
    <2>2. conv'.task = WithUpdate(conv.task, update)
      BY <1>1, <2>1, LoadSaved DEF conv, Good, IsConversation
    <2>3. Progresses(conv.task, conv'.task)
      BY <1>1, <2>2, UpdateProgresses, AgentAssumption DEF Good
    <2> QED BY <2>3, MachineMoves
  <1> QED BY <1>2, <1>3 DEF Tracked

LEMMA RunMoves ==
  ASSUME Serial, ~Overlap, NEW t \in Runs, RunStep(t)
  PROVE  CopyIsCurrent' /\ [Machine!Next]_Machine!vars
  <1>0. t \in Turns /\ Good(snap[t])
    BY RunsAreTurns DEF Serial, IInv, AllGood
  <1>1. file' = file => [Machine!Next]_Machine!vars
    <2> SUFFICES ASSUME file' = file PROVE conv'.task = conv.task
      BY MachineMoves
    <2> QED BY DEF conv
  <1>2. CASE BeginRun(t)
    BY <1>0, <1>1, <1>2, BeginSerial DEF BeginRun, conv
  <1>3. CASE GeminiAnswers(t)
    <2>1. Answered(snap[t], t).task = snap[t].task /\ pc[t] \in Awaits
      BY <1>0, <1>3, TaskUntouched DEF GeminiAnswers, Awaits
    <2> QED BY <1>0, <1>1, <1>3, <2>1, GoesOnSerial DEF GeminiAnswers
  <1>4. CASE GeminiFails(t)
    <2>1. pc[t] \in Awaits /\ "failed" \in Ended
      BY <1>4 DEF GeminiFails, Awaits, Ended
    <2> QED BY <1>0, <1>1, <1>4, <2>1, EndSerial DEF GeminiFails
  <1>5. CASE CompressIfDue(t) \/ RefreshFacts(t) \/ RouteMemory(t) \/ RoutingFails(t)
    <2>1. PICK s : Goes(t, s) /\ s.task = snap[t].task
      <3>1. CASE CompressIfDue(t)
        BY <1>0, <3>1, TaskUntouched DEF CompressIfDue
      <3>2. CASE RefreshFacts(t)
        BY <1>0, <3>2, TaskUntouched DEF RefreshFacts
      <3>3. CASE RouteMemory(t)
        <4>1. PICK working : Goes(t, [snap[t] EXCEPT !.working = working])
          BY <3>3 DEF RouteMemory
        <4>2. [snap[t] EXCEPT !.working = working].task = snap[t].task
          BY <1>0, TaskUntouched
        <4> QED BY <4>1, <4>2
      <3>4. CASE RoutingFails(t)
        BY <1>0, <3>4 DEF RoutingFails
      <3> QED BY <1>5, <3>1, <3>2, <3>3, <3>4
    <2>2. pc[t] \in Awaits
      BY <1>5 DEF CompressIfDue, RefreshFacts, RouteMemory, RoutingFails, Awaits
    <2> QED BY <1>0, <1>1, <2>1, <2>2, GoesOnSerial DEF Goes
  <1>6. CASE TrackTask(t)
    <2>1. pc[t] \in Awaits /\ "answered" \in Ended /\ End(t, "answered")
      BY <1>6 DEF TrackTask, Awaits, Ended
    <2>2. snap[t].task = conv.task
      BY <1>0, <2>1 DEF Serial, CopyIsCurrent
    <2> QED BY <1>0, <1>6, <2>1, <2>2, EndSerial, TrackedMoves DEF TrackTask, Serial
  <1> QED BY <1>2, <1>3, <1>4, <1>5, <1>6 DEF RunStep

LEMMA AskMoves ==
  ASSUME Serial, ~Overlap, NEW t \in Asks, AskStep(t)
  PROVE  CopyIsCurrent' /\ [Machine!Next]_Machine!vars
  <1>0. t \in Turns /\ Good(snap[t])
    BY RunsAreTurns DEF Serial, IInv, AllGood
  <1>1. file' = file => [Machine!Next]_Machine!vars
    <2> SUFFICES ASSUME file' = file PROVE conv'.task = conv.task
      BY MachineMoves
    <2> QED BY DEF conv
  <1>2. CASE BeginAsk(t)
    BY <1>0, <1>1, <1>2, BeginSerial DEF BeginAsk, conv
  <1>3. CASE Remember(t)
    <2>1. PICK working : snap' = [snap EXCEPT ![t].working = working]
      BY <1>3 DEF Remember
    <2> DEFINE s == [snap[t] EXCEPT !.working = working]
    <2>2. s.task = snap[t].task
      BY <1>0, TaskUntouched
    <2>3. snap' = [snap EXCEPT ![t] = s]
      BY <2>1
    <2>4. /\ pc[t] \in Awaits /\ pc' = [pc EXCEPT ![t] = "asking"]
          /\ file' = file
      BY <1>3 DEF Remember, Awaits
    <2> HIDE DEF s
    <2> QED BY <1>0, <1>1, <2>2, <2>3, <2>4, GoesOnSerial
  <1>4. CASE Record(t)
    <2>1. /\ pc[t] \in Awaits /\ "answered" \in Ended /\ End(t, "answered")
          /\ file' = OnDisk(Answered(snap[t], t))
      BY <1>4 DEF Record, Awaits, Ended
    <2>2. snap[t].task = conv.task
      BY <1>0, <2>1 DEF Serial, CopyIsCurrent
    <2>3. conv'.task = conv.task
      BY <1>0, <2>1, <2>2, TaskUntouched, LoadSaved DEF conv
    <2> QED BY <1>0, <2>1, <2>3, EndSerial, MachineMoves
  <1>5. CASE GeminiFails(t)
    <2>1. pc[t] \in Awaits /\ "failed" \in Ended
      BY <1>5 DEF GeminiFails, Awaits, Ended
    <2> QED BY <1>0, <1>1, <1>5, <2>1, EndSerial DEF GeminiFails
  <1> QED BY <1>2, <1>3, <1>4, <1>5 DEF AskStep

\* What a handler saves is the task it loaded, none, or one the machine allows.
LEMMA RequestMoves ==
  ASSUME Serial, ~Overlap, TaskRequest \/ BranchRequest \/ MemoryRequest \/ SettingRequest
  PROVE  CopyIsCurrent' /\ [Machine!Next]_Machine!vars
  <1>1. Good(conv) /\ Sound(conv.task)
    BY DEF Serial, IInv, AllGood, Good
  <1>2. ASSUME NEW s, Save(s), \/ s.task = conv.task \/ s.task = NoTask
                              \/ Progresses(conv.task, s.task)
        PROVE  CopyIsCurrent' /\ [Machine!Next]_Machine!vars
    <2>1. conv' = s /\ Request
      BY <1>2, LoadSaved DEF Save, conv
    <2> QED BY <1>2, <2>1, RequestSerial, MachineMoves
  <1>3. ASSUME NEW notes, SaveLongTerm(notes)
        PROVE  CopyIsCurrent' /\ [Machine!Next]_Machine!vars
    <2>1. conv' = conv /\ Request
      BY <1>3 DEF SaveLongTerm, conv
    <2>2. conv'.task = conv.task
      BY <2>1
    <2> QED BY <2>1, <2>2, RequestSerial, MachineMoves
  <1>4. ASSUME NEW task PROVE [conv EXCEPT !.task = task].task = task
    BY <1>1 DEF Good, IsConversation
  <1>5. CASE ClearTaskState
    BY <1>2, <1>4, <1>5 DEF ClearTaskState
  <1>6. CASE RequestTaskTransition
    <2> DEFINE update(stage) == [stage |-> stage, plan |-> NoPlan, validation |-> "unsaid"]
               s(stage) == [conv EXCEPT !.task = WithUpdate(conv.task, update(stage))]
    <2>1. PICK stage \in Moves : Save(s(stage))
      BY <1>6 DEF RequestTaskTransition
    <2>2. update(stage) \in Updates
      BY AgentAssumption DEF Updates
    <2>3. Progresses(conv.task, s(stage).task)
      BY <1>1, <1>4, <2>2, UpdateProgresses
    <2> HIDE DEF s
    <2> QED BY <1>2, <2>1, <2>3
  <1>7. CASE ApproveTaskPlan
    <2>1. PICK plan \in Plans : Save([conv EXCEPT !.task = WithPlan(conv.task, plan)])
      BY <1>7 DEF ApproveTaskPlan
    <2>2. Progresses(conv.task, WithPlan(conv.task, plan))
      BY <1>1, <1>7 DEF ApproveTaskPlan, Progresses, WithPlan, Sound, Tasks
    <2> QED BY <1>2, <1>4, <2>1, <2>2
  <1>8. CASE RecordTaskValidation
    <2>1. PICK passed \in BOOLEAN : Save([conv EXCEPT !.task = WithValidation(conv.task, passed)])
      BY <1>8 DEF RecordTaskValidation
    <2>2. Progresses(conv.task, WithValidation(conv.task, passed))
      BY <1>1, <1>8 DEF RecordTaskValidation, Progresses, WithValidation, Sound, Tasks
    <2> QED BY <1>2, <1>4, <2>1, <2>2
  <1>9. CASE BranchRequest
    <2>1. CASE CreateCheckpoint
      <3>1. PICK name : Save(WithCheckpoint(conv, name))
        BY <2>1 DEF CreateCheckpoint
      <3>2. WithCheckpoint(conv, name).task = conv.task
        BY <1>1 DEF WithCheckpoint, Good, IsConversation
      <3> QED BY <1>2, <3>1, <3>2
    <2>2. CASE CreateBranch
      <3>1. PICK name, checkpoint : Save(WithBranch(conv, name, checkpoint))
        BY <2>2 DEF CreateBranch
      <3>2. WithBranch(conv, name, checkpoint).task = conv.task
        BY <1>1 DEF WithBranch, Good, IsConversation
      <3> QED BY <1>2, <3>1, <3>2
    <2>3. CASE SwitchBranch
      <3>1. PICK name : Save([conv EXCEPT !.current = name])
        BY <2>3 DEF SwitchBranch
      <3>2. [conv EXCEPT !.current = name].task = conv.task
        BY <1>1 DEF Good, IsConversation
      <3> QED BY <1>2, <3>1, <3>2
    <2> QED BY <1>9, <2>1, <2>2, <2>3 DEF BranchRequest
  <1>10. CASE MemoryRequest
    <2>1. \/ \E notes : SaveLongTerm(notes)
          \/ \E s : Save(s) /\ s.task = conv.task
      BY <1>1, <1>10, TaskUntouched DEF MemoryRequest, UpdateShortTerm, UpdateWorkingMemory,
         UpdateLongTermMemory, ClearMemory
    <2> QED BY <1>2, <1>3, <2>1
  <1>11. CASE ClearHistory
    <2>1. [NewConversation EXCEPT !.strategy = conv.strategy].task = NoTask
      BY DEF NewConversation
    <2> QED BY <1>2, <1>11, <2>1 DEF ClearHistory
  <1>12. CASE SetStrategy
    <2>1. \E s : Save(s) /\ s.task = conv.task
      BY <1>1, <1>12 DEF SetStrategy, Good, IsConversation
    <2> QED BY <1>2, <2>1
  <1> QED BY <1>5, <1>6, <1>7, <1>8, <1>9, <1>10, <1>11, <1>12 DEF TaskRequest, SettingRequest

LEMMA CrashMoves ==
  ASSUME Serial, ~Overlap, AnyCrash
  PROVE  CopyIsCurrent' /\ [Machine!Next]_Machine!vars
  <1>1. CopyIsCurrent'
    BY DiesSerial DEF AnyCrash, Crash, CrashSavingConversation, CrashSavingLongTerm,
       CrashAfterSaving
  <1>2. CASE file' = file
    <2>1. conv'.task = conv.task
      BY <1>2 DEF conv
    <2> QED BY <1>1, <2>1, MachineMoves
  <1>3. CASE file' = Unreadable
    <2>1. conv'.task = NoTask
      BY <1>3 DEF conv, Load, NewConversation
    <2> QED BY <1>1, <2>1, MachineMoves
  <1>4. CASE \E t \in Runs : CrashAfterSaving(t)
    <2>1. PICK t \in Runs : CrashAfterSaving(t)
      BY <1>4
    <2>2. t \in Turns /\ pc[t] \in Awaits /\ file' \in Tracked(snap[t])
      BY <2>1, RunsAreTurns DEF CrashAfterSaving, Awaits
    <2>3. snap[t].task = conv.task
      BY <2>2 DEF Serial, CopyIsCurrent
    <2> QED BY <1>1, <2>2, <2>3, TrackedMoves DEF Serial
  <1> QED BY <1>2, <1>3, <1>4 DEF AnyCrash, Crash, CrashSavingConversation, CrashSavingLongTerm

LEMMA SerialStep ==
  ASSUME ~Overlap, Serial, [Next]_vars
  PROVE  Serial' /\ [Machine!Next]_Machine!vars
  <1>1. IInv'
    BY NextIInv DEF Serial
  <1>2. CASE UNCHANGED vars
    <2>1. CopyIsCurrent' /\ conv'.task = conv.task
      BY <1>2 DEF vars, Serial, CopyIsCurrent, conv
    <2> QED BY <1>1, <2>1, MachineMoves DEF Serial
  <1>3. CASE Next
    BY <1>1, <1>3, RunMoves, AskMoves, RequestMoves, CrashMoves DEF Next, Serial
  <1> QED BY <1>2, <1>3

LEMMA SerialInit ==
  ASSUME Init PROVE Serial /\ Machine!Init
  <1>1. IInv
    BY InitIInv
  <1>2. CopyIsCurrent
    BY DEF Init, CopyIsCurrent, Awaits
  <1>3. conv.task = NoTask
    BY DEF Init, conv, Load, NewConversation
  <1> QED BY <1>1, <1>2, <1>3 DEF Serial, NoTask, Machine!Init, Machine!Cleared

\* Without overlapping requests the copy a turn works on never falls behind.
THEOREM CopiesAreCurrent == ~Overlap /\ Spec => []CopyIsCurrent
  <1> SUFFICES ASSUME ~Overlap PROVE Spec => []CopyIsCurrent
    OBVIOUS
  <1>1. Init => Serial
    BY SerialInit
  <1>2. Serial /\ [Next]_vars => Serial'
    BY SerialStep
  <1>3. Serial => CopyIsCurrent
    BY DEF Serial
  <1> QED BY <1>1, <1>2, <1>3, PTL DEF Spec

\* Without overlapping requests the task goes one way, through the gates, with
\* one plan: the conversation implements TaskMachine.
THEOREM TaskIsMachine == ~Overlap /\ Spec => TaskMachineSpec
  <1> SUFFICES ASSUME ~Overlap PROVE Spec => TaskMachineSpec
    OBVIOUS
  <1>1. Init => Serial /\ Machine!Init
    BY SerialInit
  <1>2. Serial /\ [Next]_vars => Serial' /\ [Machine!Next]_Machine!vars
    BY SerialStep
  <1> QED BY <1>1, <1>2, PTL DEF Spec, TaskMachineSpec, Machine!Spec

-----------------------------------------------------------------------------
(***************************************************************************)
(* The turns are whole, whatever overlaps.  A turn is asked once, and until *)
(* it is answered no history has a message of it: that is what keeps a     *)
(* question from being recorded twice, and it is said of every copy,       *)
(* because a copy is what the file will be next.                           *)
(***************************************************************************)

Free(h, t) == \A m \in Messages : Holds(h, m) => m.turn # t

\* The turns nobody has answered yet.
Unasked == {t \in Turns : pc[t] \in {"new", "remember", "asking"}}

FineHistory(h, unasked) == h \in Histories /\ WholeTurns(h) /\ \A t \in unasked : Free(h, t)
Fine(s, unasked) == \A h \in HistoriesOf(s) : FineHistory(h, unasked)

WholeInv == IInv /\ Fine(conv, Unasked) /\ \A t \in Turns : Fine(snap[t], Unasked)

LEMMA EmptyIsFine ==
  ASSUME NEW unasked PROVE FineHistory(EmptyHistory, unasked)
  <1>1. EmptyHistory \in Histories /\ EmptyHistory.summary = {} /\ EmptyHistory.messages = <<>>
    BY DEF EmptyHistory, Histories
  <1>2. \A m : ~Holds(EmptyHistory, m)
    BY <1>1 DEF Holds, Elements
  <1> QED BY <1>1, <1>2 DEF FineHistory, WholeTurns, Free

\* After an answer the history holds what it held, and the turn.
LEMMA AnswerHolds ==
  ASSUME NEW h \in Histories, NEW t \in Turns, NEW messages,
         messages = h.messages \o <<UserMessage(t), AssistantMessage(t)>>
  PROVE  /\ [h EXCEPT !.messages = messages] \in Histories
         /\ \A m : Holds([h EXCEPT !.messages = messages], m)
                    <=> Holds(h, m) \/ m \in {UserMessage(t), AssistantMessage(t)}
  <1> DEFINE question == UserMessage(t)
             answer == AssistantMessage(t)
             n == Len(h.messages)
             new == [h EXCEPT !.messages = messages]
  <1>1. h.messages \in Seq(Messages) /\ n \in Nat
    BY DEF Histories
  <1>2. question \in Messages /\ answer \in Messages
    BY DEF UserMessage, AssistantMessage, Messages
  <1> HIDE DEF question, answer
  <1>3. /\ messages \in Seq(Messages) /\ Len(messages) = n + 2
        /\ \A i \in 1..n : messages[i] = h.messages[i]
        /\ messages[n + 1] = question /\ messages[n + 2] = answer
    BY <1>1, <1>2 DEF question, answer
  <1>4. new \in Histories /\ new.messages = messages /\ new.summary = h.summary
    BY <1>3 DEF Histories
  <1> HIDE DEF new
  <1>5. \A m : m \in Elements(messages) <=> m \in Elements(h.messages) \/ m \in {question, answer}
    <2>1. \A i \in 1..(n + 2) : i \in 1..n \/ i = n + 1 \/ i = n + 2
      BY <1>1
    <2>2. 1..n \subseteq 1..(n + 2) /\ n + 1 \in 1..(n + 2) /\ n + 2 \in 1..(n + 2)
      BY <1>1
    <2> QED BY <1>3, <2>1, <2>2 DEF Elements
  <1>6. \A m : Holds(new, m) <=> Holds(h, m) \/ m \in {question, answer}
    BY <1>4, <1>5 DEF Holds
  <1> QED BY <1>4, <1>6 DEF new, question, answer

\* A question and its answer are appended to a history that has neither.
LEMMA AnswerIsWhole ==
  ASSUME NEW unasked, NEW h, FineHistory(h, unasked), NEW t \in unasked, unasked \subseteq Turns,
         NEW messages, messages = h.messages \o <<UserMessage(t), AssistantMessage(t)>>
  PROVE  FineHistory([h EXCEPT !.messages = messages], unasked \ {t})
  <1> DEFINE question == UserMessage(t)
             answer == AssistantMessage(t)
             n == Len(h.messages)
             new == [h EXCEPT !.messages = messages]
  <1>1. h \in Histories /\ h.messages \in Seq(Messages) /\ WholeTurns(h) /\ t \in Turns /\ n \in Nat
    BY DEF FineHistory, Histories
  <1>2. /\ question \in Messages /\ question.turn = t /\ question.role = "user"
        /\ answer \in Messages /\ answer.turn = t /\ answer.role = "assistant" /\ question # answer
    BY <1>1 DEF UserMessage, AssistantMessage, Messages
  <1>3. answer = AssistantMessage(t) /\ question = UserMessage(t)
    OBVIOUS
  <1> HIDE DEF question, answer
  <1>4. /\ messages \in Seq(Messages) /\ Len(messages) = n + 2
        /\ \A i \in 1..n : messages[i] = h.messages[i]
        /\ messages[n + 1] = question /\ messages[n + 2] = answer
    BY <1>1, <1>2 DEF question, answer
  <1>5. /\ new \in Histories /\ new.messages = messages /\ new.summary = h.summary
    BY <1>1, <1>4 DEF Histories
  <1>6. \A m : Holds(new, m) <=> Holds(h, m) \/ m \in {question, answer}
    BY <1>1, <1>3, AnswerHolds
  <1> HIDE DEF new
  <1>7. Free(h, t)
    BY DEF FineHistory
  <1>8. ASSUME NEW i \in 1..n PROVE h.messages[i].turn # t /\ h.messages[i] \in Messages
    <2>1. h.messages[i] \in Messages /\ Holds(h, h.messages[i])
      BY <1>1 DEF Holds, Elements
    <2> QED BY <1>7, <2>1 DEF Free
  <1>9. question \notin h.summary /\ answer \notin h.summary
    BY <1>2, <1>7 DEF Free, Holds
  <1>9a. ASSUME NEW j \in 1..Len(messages) PROVE j \in 1..n \/ j = n + 1 \/ j = n + 2
    <2>1. n \in Nat /\ j \in 1..(n + 2)
      BY <1>1, <1>4
    <2> HIDE DEF n
    <2> QED BY <2>1
  <1>10. ASSUME NEW i \in 1..Len(messages), messages[i].turn \in Turns
         PROVE  /\ messages[i].role = "user" =>
                     i < Len(messages) /\ messages[i + 1] = AssistantMessage(messages[i].turn)
                /\ messages[i] \notin new.summary
                /\ \A j \in 1..Len(messages) : messages[j] = messages[i] => i = j
    <2>1. CASE i \in 1..n
      <3>1. messages[i] = h.messages[i]
        BY <1>4, <2>1
      <3>2. /\ messages[i].role = "user" =>
                 i < n /\ h.messages[i + 1] = AssistantMessage(messages[i].turn)
            /\ messages[i] \notin h.summary
            /\ \A j \in 1..n : h.messages[j] = messages[i] => i = j
        BY <1>1, <1>10, <2>1, <3>1 DEF WholeTurns
      <3>3. i < n => i + 1 \in 1..n /\ messages[i + 1] = h.messages[i + 1]
        BY <1>1, <1>4, <2>1
      <3>4. ASSUME NEW j \in 1..Len(messages), messages[j] = messages[i] PROVE i = j
        <4>1. j \in 1..n \/ j = n + 1 \/ j = n + 2
          BY <1>9a
        <4>2. messages[i].turn # t
          BY <1>8, <2>1, <3>1
        <4>3. j \in 1..n
          BY <1>2, <1>4, <3>4, <4>1, <4>2
        <4> QED BY <1>4, <3>2, <3>4, <4>3
      <3>5. i < n => i < Len(messages)
        BY <1>1, <1>4, <2>1
      <3> QED BY <1>5, <3>2, <3>3, <3>4, <3>5
    <2>2. CASE i = n + 1
      <3>1. messages[i] = question /\ i < Len(messages) /\ i + 1 = n + 2
        BY <1>1, <1>4, <2>2
      <3>2. messages[i + 1] = AssistantMessage(messages[i].turn)
        BY <1>2, <1>3, <1>4, <3>1
      <3>3. ASSUME NEW j \in 1..Len(messages), messages[j] = messages[i] PROVE i = j
        <4>1. j \in 1..n \/ j = n + 1 \/ j = n + 2
          BY <1>9a
        <4>2. j \notin 1..n
          BY <1>2, <1>4, <1>8, <3>1, <3>3
        <4>3. j # n + 2
          BY <1>2, <1>4, <3>1, <3>3
        <4> QED BY <2>2, <4>1, <4>2, <4>3
      <3> QED BY <1>5, <1>9, <3>1, <3>2, <3>3
    <2>3. CASE i = n + 2
      <3>1. messages[i] = answer /\ answer.role # "user"
        BY <1>2, <1>4, <2>3
      <3>3. messages[i].role # "user" /\ messages[i] \notin new.summary
        BY <1>2, <1>5, <1>9, <3>1
      <3>2. ASSUME NEW j \in 1..Len(messages), messages[j] = messages[i] PROVE i = j
        <4>1. j \in 1..n \/ j = n + 1 \/ j = n + 2
          BY <1>9a
        <4>2. j \notin 1..n
          BY <1>2, <1>4, <1>8, <3>1, <3>2
        <4>3. j # n + 1
          BY <1>2, <1>4, <3>1, <3>2
        <4> QED BY <2>3, <4>1, <4>2, <4>3
      <3> QED BY <3>2, <3>3
    <2> QED BY <1>9a, <2>1, <2>2, <2>3
  <1>11. ASSUME NEW u \in Turns PROVE Holds(new, UserMessage(u)) <=> Holds(new, AssistantMessage(u))
    <2>1. Holds(h, UserMessage(u)) <=> Holds(h, AssistantMessage(u))
      BY <1>1 DEF WholeTurns
    <2>2. CASE u = t
      BY <1>3, <1>6, <2>2
    <2>3. CASE u # t
      <3>1. UserMessage(u) \notin {question, answer} /\ AssistantMessage(u) \notin {question, answer}
        BY <1>3, <2>3 DEF UserMessage, AssistantMessage
      <3> QED BY <1>6, <2>1, <3>1
    <2> QED BY <2>2, <2>3
  <1>12. WholeTurns(new)
    BY <1>5, <1>10, <1>11 DEF WholeTurns
  <1>13. ASSUME NEW u \in unasked \ {t} PROVE Free(new, u)
    BY <1>2, <1>6 DEF Free, FineHistory
  <1> QED BY <1>5, <1>12, <1>13 DEF FineHistory, new

\* The first k messages, which are folded away.
Older(h, k) == {h.messages[i] : i \in 1..k}

\* Wherever the transcript is cut, the history holds what it held.
LEMMA CutHolds ==
  ASSUME NEW h \in Histories, NEW k \in 0..Len(h.messages), NEW new,
         new.summary = h.summary \cup Older(h, k),
         new.messages = SubSeq(h.messages, k + 1, Len(h.messages))
  PROVE  \A m : Holds(new, m) <=> Holds(h, m)
  <1> DEFINE n == Len(h.messages)
             summary == new.summary
             messages == new.messages
  <1>1. /\ h.messages \in Seq(Messages) /\ h.summary \in SUBSET Messages
        /\ n \in Nat /\ k \in Nat /\ k <= n
    BY DEF Histories
  <1>2. /\ messages \in Seq(Messages) /\ Len(messages) = n - k
        /\ \A i \in 1..(n - k) : messages[i] = h.messages[k + i]
    BY <1>1
  <1>3. \A i \in 1..k : i \in 1..n /\ h.messages[i] \in Messages
    BY <1>1
  <1>5. new.messages = messages /\ new.summary = summary
    OBVIOUS
  <1>5a. summary = h.summary \cup Older(h, k)
    OBVIOUS
  <1> HIDE DEF summary, messages
  <1>6. \A m : Holds(new, m) <=> Holds(h, m)
    <2>1. ASSUME NEW i \in 1..n PROVE i \in 1..k \/ (i - k \in 1..(n - k) /\ messages[i - k] = h.messages[i])
      <3>1. i \notin 1..k => i - k \in 1..(n - k) /\ k + (i - k) = i
        BY <1>1
      <3> QED BY <1>2, <3>1
    <2>2. ASSUME NEW i \in 1..(n - k) PROVE k + i \in 1..n
      BY <1>1
    <2>3. ASSUME NEW m, Holds(new, m) PROVE Holds(h, m)
      <3>1. CASE m \in summary
        BY <1>3, <1>5a, <3>1 DEF Holds, Elements, Older
      <3>2. CASE m \in Elements(messages)
        BY <1>2, <2>2, <3>2 DEF Holds, Elements
      <3> QED BY <1>5, <2>3, <3>1, <3>2 DEF Holds
    <2>4. ASSUME NEW m, Holds(h, m) PROVE Holds(new, m)
      <3>1. CASE m \in h.summary
        BY <1>5, <1>5a, <3>1 DEF Holds
      <3>2. CASE m \in Elements(h.messages)
        <4>1. PICK i \in 1..n : m = h.messages[i]
          BY <3>2 DEF Elements
        <4>2. CASE i \in 1..k
          BY <1>5, <1>5a, <4>1, <4>2 DEF Holds, Older
        <4>3. CASE i - k \in 1..(n - k) /\ messages[i - k] = h.messages[i]
          BY <1>2, <1>5, <4>1, <4>3 DEF Holds, Elements
        <4> QED BY <2>1, <4>2, <4>3
      <3> QED BY <2>4, <3>1, <3>2 DEF Holds
    <2> QED BY <2>3, <2>4
  <1> QED BY <1>6

\* Wherever the transcript is cut, what was folded away is still accounted for.
LEMMA CutIsWhole ==
  ASSUME NEW unasked, NEW h, FineHistory(h, unasked), NEW k \in 0..Len(h.messages),
         NEW summary, summary = h.summary \cup {h.messages[i] : i \in 1..k},
         NEW messages, messages = SubSeq(h.messages, k + 1, Len(h.messages))
  PROVE  FineHistory([h EXCEPT !.summary = summary, !.messages = messages], unasked)
  <1> DEFINE n == Len(h.messages)
             new == [h EXCEPT !.summary = summary, !.messages = messages]
  <1>1. /\ h \in Histories /\ h.messages \in Seq(Messages) /\ h.summary \in SUBSET Messages
        /\ WholeTurns(h) /\ n \in Nat /\ k \in Nat /\ k <= n
    BY DEF FineHistory, Histories
  <1>2. /\ messages \in Seq(Messages) /\ Len(messages) = n - k
        /\ \A i \in 1..(n - k) : messages[i] = h.messages[k + i]
    BY <1>1
  <1>3. \A i \in 1..k : i \in 1..n /\ h.messages[i] \in Messages
    BY <1>1
  <1>4. summary \in SUBSET Messages
    BY <1>1, <1>3
  <1>5. new \in Histories /\ new.messages = messages /\ new.summary = summary
    BY <1>1, <1>2, <1>4 DEF Histories
  <1>6. \A m : Holds(new, m) <=> Holds(h, m)
    <2>1. h \in Histories /\ new.summary = h.summary \cup Older(h, k)
      BY <1>1, <1>5 DEF Older
    <2>2. new.messages = SubSeq(h.messages, k + 1, Len(h.messages))
      BY <1>5
    <2> HIDE DEF new
    <2> QED BY <2>1, <2>2, CutHolds
  <1> HIDE DEF new
  <1>7. ASSUME NEW i \in 1..Len(messages), messages[i].turn \in Turns
        PROVE  /\ messages[i].role = "user" =>
                    i < Len(messages) /\ messages[i + 1] = AssistantMessage(messages[i].turn)
               /\ messages[i] \notin new.summary
               /\ \A j \in 1..Len(messages) : messages[j] = messages[i] => i = j
    <2> DEFINE g == k + i
    <2>1. i \in Nat /\ i <= n - k /\ g \in 1..n /\ g = k + i /\ messages[i] = h.messages[g]
      BY <1>1, <1>2
    <2> HIDE DEF g
    <2>2. /\ messages[i].role = "user" =>
               g < n /\ h.messages[g + 1] = AssistantMessage(messages[i].turn)
          /\ messages[i] \notin h.summary
          /\ \A j \in 1..n : h.messages[j] = messages[i] => g = j
      BY <1>1, <1>7, <2>1 DEF WholeTurns
    <2>3. ASSUME g < n PROVE i < Len(messages) /\ messages[i + 1] = h.messages[g + 1]
      <3>1. i + 1 \in 1..(n - k) /\ k + (i + 1) = g + 1
        BY <1>1, <2>1, <2>3
      <3>2. messages[i + 1] = h.messages[k + (i + 1)]
        BY <1>2, <3>1
      <3>3. i < n - k
        BY <1>1, <2>1, <3>1
      <3> QED BY <1>2, <3>1, <3>2, <3>3
    <2>4. \A j \in 1..k : h.messages[j] # messages[i]
      <3>1. ASSUME NEW j \in 1..k PROVE j \in 1..n /\ j # g
        BY <1>1, <2>1
      <3> QED BY <2>2, <3>1
    <2>5. ASSUME NEW j \in 1..Len(messages), messages[j] = messages[i] PROVE i = j
      <3>1. k + j \in 1..n /\ h.messages[k + j] = messages[i]
        BY <1>1, <1>2, <2>5
      <3>2. g = k + j
        BY <2>2, <3>1
      <3> QED BY <1>1, <1>2, <2>1, <3>2
    <2>6. messages[i] \notin new.summary
      BY <1>5, <2>2, <2>4
    <2> QED BY <2>2, <2>3, <2>5, <2>6
  <1>8. \A u \in Turns : Holds(new, UserMessage(u)) <=> Holds(new, AssistantMessage(u))
    BY <1>1, <1>6 DEF WholeTurns
  <1>9. WholeTurns(new)
    BY <1>5, <1>7, <1>8 DEF WholeTurns
  <1>10. \A u \in unasked : Free(new, u)
    BY <1>6 DEF Free, FineHistory
  <1> QED BY <1>5, <1>9, <1>10 DEF FineHistory, new

(* Of a whole conversation.                                                 *)

LEMMA FineSmaller ==
  ASSUME NEW unasked, NEW fewer \in SUBSET unasked, NEW s, Fine(s, unasked)
  PROVE  Fine(s, fewer)
  BY DEF Fine, FineHistory

LEMMA FineNew == ASSUME NEW unasked PROVE Fine(NewConversation, unasked)
  <1>1. \A h \in HistoriesOf(NewConversation) : h = EmptyHistory
    BY DEF HistoriesOf, NewConversation, With, EmptyDict
  <1> QED BY <1>1, EmptyIsFine DEF Fine

LEMMA FineSame ==
  ASSUME NEW unasked, NEW s, NEW new, Fine(s, unasked),
         new.branches = s.branches, new.checkpoints = s.checkpoints
  PROVE  Fine(new, unasked)
  BY DEF Fine, HistoriesOf

LEMMA FineWithCurrent ==
  ASSUME NEW unasked, NEW s, Good(s), Fine(s, unasked), NEW h, FineHistory(h, unasked)
  PROVE  Fine(WithCurrent(s, h), unasked)
  <1> DEFINE branches == With(s.branches, s.current, h)
             new == WithCurrent(s, h)
  <1>1. new.branches = branches /\ new.checkpoints = s.checkpoints
    BY DEF WithCurrent, Good, IsConversation
  <1>2. \A b \in DOMAIN branches : branches[b] = h \/ (b \in DOMAIN s.branches /\ branches[b] = s.branches[b])
    BY DEF With
  <1> HIDE DEF branches, new
  <1>3. HistoriesOf(new) \subseteq HistoriesOf(s) \cup {h}
    BY <1>1, <1>2 DEF HistoriesOf
  <1> QED BY <1>3 DEF Fine, new

LEMMA CurrentIsFine ==
  ASSUME NEW unasked, NEW s, Good(s), Fine(s, unasked)
  PROVE  FineHistory(CurrentBranch(s), unasked)
  BY DEF Good, IsConversation, Fine, HistoriesOf, CurrentBranch

LEMMA AnsweredFine ==
  ASSUME NEW unasked \in SUBSET Turns, NEW s, Good(s), Fine(s, unasked), NEW t \in unasked
  PROVE  Fine(Answered(s, t), unasked \ {t})
  <1> DEFINE h == CurrentBranch(s)
             messages == h.messages \o <<UserMessage(t), AssistantMessage(t)>>
  <1>1. FineHistory([h EXCEPT !.messages = messages], unasked \ {t})
    BY CurrentIsFine, AnswerIsWhole
  <1>2. Answered(s, t) = WithCurrent(s, [h EXCEPT !.messages = messages])
    BY DEF Answered
  <1>3. Fine(s, unasked \ {t})
    BY FineSmaller
  <1> QED BY <1>1, <1>2, <1>3, FineWithCurrent

LEMMA CompressedFine ==
  ASSUME NEW unasked, NEW s, Good(s), Fine(s, unasked)
  PROVE  Fine(Compressed(s), unasked)
  <1> DEFINE h == CurrentBranch(s)
             splitAt == IF Len(h.messages) > RecentKept THEN Len(h.messages) - RecentKept ELSE 0
             summary == h.summary \cup {h.messages[i] : i \in 1..splitAt}
             messages == SubSeq(h.messages, splitAt + 1, Len(h.messages))
  <1>1. FineHistory(h, unasked) /\ h.messages \in Seq(Messages)
    BY CurrentIsFine, CurrentIsHistory DEF Histories
  <1>2. splitAt \in 0..Len(h.messages)
    BY <1>1, StoreAssumption
  <1>3. Compressed(s) = WithCurrent(s, [h EXCEPT !.summary = summary, !.messages = messages])
    BY DEF Compressed
  <1> HIDE DEF splitAt
  <1>4. FineHistory([h EXCEPT !.summary = summary, !.messages = messages], unasked)
    BY <1>1, <1>2, CutIsWhole
  <1> QED BY <1>3, <1>4, FineWithCurrent

LEMMA WithFactsFine ==
  ASSUME NEW unasked, NEW s, Good(s), Fine(s, unasked), NEW facts \in SUBSET Notes
  PROVE  Fine(WithFacts(s, facts), unasked)
  <1> DEFINE h == CurrentBranch(s)
             new == [h EXCEPT !.facts = facts]
  <1>1. FineHistory(h, unasked)
    BY CurrentIsFine
  <1> HIDE DEF h
  <1>2. new \in Histories /\ new.messages = h.messages /\ new.summary = h.summary
    BY <1>1 DEF FineHistory, Histories
  <1> HIDE DEF new
  <1>3. FineHistory(new, unasked)
    BY <1>1, <1>2 DEF FineHistory, WholeTurns, Free, Holds
  <1> QED BY <1>3, FineWithCurrent DEF WithFacts, new, h

\* What is typed in belongs to no turn.
LEMMA WithDialogueFine ==
  ASSUME NEW unasked \in SUBSET Turns, NEW s, Good(s), Fine(s, unasked),
         NEW dialogue \in Seq([turn : {Written}, role : {"user", "assistant"}])
  PROVE  Fine(WithDialogue(s, dialogue), unasked)
  <1> DEFINE h == CurrentBranch(s)
             new == [h EXCEPT !.messages = dialogue, !.summary = {}]
  <1>1. h \in Histories
    BY CurrentIsHistory
  <1>2. dialogue \in Seq(Messages)
    <2>1. [turn : {Written}, role : {"user", "assistant"}] \subseteq Messages
      BY DEF Messages
    <2> QED BY <2>1, SeqMonotonic, Zenon
  <1> HIDE DEF h
  <1>3. new \in Histories /\ new.messages = dialogue /\ new.summary = {}
    BY <1>1, <1>2 DEF Histories
  <1> HIDE DEF new
  <1>4. \A i \in 1..Len(dialogue) : dialogue[i].turn = Written
    <2> DEFINE typed == [turn : {Written}, role : {"user", "assistant"}]
    <2>1. \A m \in typed : m.turn = Written
      OBVIOUS
    <2>2. dialogue \in Seq(typed)
      OBVIOUS
    <2> HIDE DEF typed
    <2>3. \A i \in 1..Len(dialogue) : dialogue[i] \in typed
      BY <2>2
    <2> QED BY <2>1, <2>3
  <1>5. \A m : Holds(new, m) => m.turn = Written
    BY <1>3, <1>4 DEF Holds, Elements
  <1>6. Written \notin Turns
    BY StoreAssumption
  <1>7. \A u \in Turns : UserMessage(u).turn = u /\ AssistantMessage(u).turn = u
    BY DEF UserMessage, AssistantMessage
  <1>8. WholeTurns(new)
    BY <1>3, <1>4, <1>5, <1>6, <1>7 DEF WholeTurns
  <1>9. \A u \in unasked : Free(new, u)
    BY <1>5, <1>6 DEF Free
  <1> QED BY <1>3, <1>8, <1>9, FineWithCurrent DEF WithDialogue, FineHistory, new, h

LEMMA BranchingFine ==
  ASSUME NEW unasked, NEW s, Good(s), Fine(s, unasked), NEW name
  PROVE  /\ Fine(WithCheckpoint(s, name), unasked)
         /\ \A c \in DOMAIN s.checkpoints : Fine(WithBranch(s, name, c), unasked)
  <1>1. Fine(WithCheckpoint(s, name), unasked)
    <2> DEFINE new == WithCheckpoint(s, name)
    <2>1. new.branches = s.branches /\ new.checkpoints = With(s.checkpoints, name, CurrentBranch(s))
      BY DEF WithCheckpoint, Good, IsConversation
    <2>2. CurrentBranch(s) \in HistoriesOf(s)
      BY DEF CurrentBranch, Good, IsConversation, HistoriesOf
    <2> HIDE DEF new
    <2>3. HistoriesOf(new) \subseteq HistoriesOf(s)
      BY <2>1, <2>2 DEF HistoriesOf, With
    <2> QED BY <2>3 DEF Fine, new
  <1>2. ASSUME NEW c \in DOMAIN s.checkpoints PROVE Fine(WithBranch(s, name, c), unasked)
    <2> DEFINE new == WithBranch(s, name, c)
    <2>1. new.checkpoints = s.checkpoints /\ new.branches = With(s.branches, name, s.checkpoints[c])
      BY DEF WithBranch, Good, IsConversation
    <2> HIDE DEF new
    <2>2. HistoriesOf(new) \subseteq HistoriesOf(s)
      BY <2>1 DEF HistoriesOf, With
    <2> QED BY <2>2 DEF Fine, new
  <1> QED BY <1>1, <1>2

(* The steps.                                                               *)

\* The other fields of a conversation have no message in them.
LEMMA OtherFields ==
  ASSUME NEW s, Good(s), NEW x
  PROVE  /\ [s EXCEPT !.task = x].branches = s.branches /\ [s EXCEPT !.task = x].checkpoints = s.checkpoints
         /\ [s EXCEPT !.task = x].current = s.current
         /\ [s EXCEPT !.working = x].branches = s.branches
         /\ [s EXCEPT !.working = x].checkpoints = s.checkpoints
         /\ [s EXCEPT !.working = x].current = s.current
         /\ [s EXCEPT !.strategy = x].branches = s.branches
         /\ [s EXCEPT !.strategy = x].checkpoints = s.checkpoints
         /\ [s EXCEPT !.current = x].branches = s.branches
         /\ [s EXCEPT !.current = x].checkpoints = s.checkpoints
  BY DEF Good, IsConversation

LEMMA OtherFieldsFine ==
  ASSUME NEW unasked, NEW s, Good(s), Fine(s, unasked), NEW x
  PROVE  /\ Fine([s EXCEPT !.task = x], unasked) /\ Fine([s EXCEPT !.working = x], unasked)
         /\ Fine([s EXCEPT !.strategy = x], unasked) /\ Fine([s EXCEPT !.current = x], unasked)
  BY OtherFields, FineSame

\* A turn that was answered or failed is never asked again.
LEMMA TurnMoves ==
  ASSUME IInv, NEW t \in Turns, NEW how, pc' = [pc EXCEPT ![t] = how],
         pc[t] \in {"new", "remember", "asking"} \/ how \notin {"new", "remember", "asking"}
  PROVE  /\ Unasked' \subseteq Unasked
         /\ how \notin {"new", "remember", "asking"} => Unasked' = Unasked \ {t}
  BY DEF IInv, Shape, Unasked

LEMMA CopyFine ==
  ASSUME WholeInv, IInv', NEW t \in Turns, NEW s, Fine(s, Unasked'), Unasked' \subseteq Unasked,
         snap' = [snap EXCEPT ![t] = s], file' = file
  PROVE  WholeInv'
  <1> DEFINE fewer == Unasked'
  <1>1. Fine(s, fewer) /\ fewer \in SUBSET Unasked
    OBVIOUS
  <1> HIDE DEF fewer
  <1>2. \A c : Fine(c, Unasked) => Fine(c, fewer)
    BY <1>1, FineSmaller
  <1>3. conv' = conv
    BY DEF conv
  <1>4. ASSUME NEW u \in Turns PROVE Fine(snap'[u], fewer)
    <2>1. snap'[u] = s \/ snap'[u] = snap[u]
      BY DEF WholeInv, IInv, Shape
    <2> QED BY <1>1, <1>2, <2>1 DEF WholeInv
  <1>5. Fine(conv', fewer)
    BY <1>2, <1>3 DEF WholeInv
  <1> QED BY <1>4, <1>5 DEF WholeInv, Fine, FineHistory, fewer

LEMMA FileFine ==
  ASSUME WholeInv, IInv', Fine(conv', Unasked'), Unasked' \subseteq Unasked,
         \A u \in Turns : snap'[u] \in {snap[u], NewConversation}
  PROVE  WholeInv'
  <1> DEFINE fewer == Unasked'
  <1>1. Fine(conv', fewer) /\ fewer \in SUBSET Unasked
    OBVIOUS
  <1> HIDE DEF fewer
  <1>2. \A c : Fine(c, Unasked) => Fine(c, fewer)
    BY <1>1, FineSmaller
  <1>3. \A u \in Turns : Fine(snap'[u], fewer)
    BY <1>2, FineNew DEF WholeInv
  <1> QED BY <1>1, <1>3 DEF WholeInv, Fine, FineHistory, fewer

LEMMA TrackedFine ==
  ASSUME NEW unasked, NEW s, Good(s), Fine(s, unasked), NEW f \in Tracked(s)
  PROVE  Fine(Load(f), unasked)
  <1>1. CASE f = OnDisk(s)
    BY <1>1, LoadSaved
  <1>2. ASSUME NEW update \in Evidence, f = OnDisk([s EXCEPT !.task = WithUpdate(s.task, update)])
        PROVE  Fine(Load(f), unasked)
    <2>1. Fine([s EXCEPT !.task = WithUpdate(s.task, update)], unasked)
      BY OtherFieldsFine
    <2> QED BY <1>2, <2>1, LoadSaved
  <1> QED BY <1>1, <1>2 DEF Tracked

LEMMA RunFine ==
  ASSUME WholeInv, IInv', NEW t \in Runs, RunStep(t)
  PROVE  WholeInv'
  <1>1. t \in Turns /\ Good(snap[t]) /\ Good(conv) /\ Fine(snap[t], Unasked) /\ Fine(conv, Unasked)
    BY RunsAreTurns DEF WholeInv, IInv, AllGood
  <1>2. Unasked \subseteq Turns
    BY DEF Unasked
  <1>3. CASE BeginRun(t)
    <2>1. snap' = [snap EXCEPT ![t] = conv] /\ pc' = [pc EXCEPT ![t] = "asking"] /\ file' = file /\ pc[t] = "new"
      BY <1>3 DEF BeginRun, conv
    <2>2. Unasked' \subseteq Unasked
      BY <1>1, <2>1, TurnMoves DEF WholeInv
    <2>3. Fine(conv, Unasked')
      BY <1>1, <2>2, FineSmaller
    <2> QED BY <1>1, <2>1, <2>2, <2>3, CopyFine
  <1>4. CASE GeminiAnswers(t)
    <2> DEFINE s == Answered(snap[t], t)
               how == AfterAnswer(t, s)
    <2>1. snap' = [snap EXCEPT ![t] = s] /\ pc' = [pc EXCEPT ![t] = how] /\ file' = file /\ pc[t] = "asking"
      BY <1>4 DEF GeminiAnswers
    <2>2. how \notin {"new", "remember", "asking"}
      BY DEF AfterAnswer
    <2>3. Fine(s, Unasked \ {t})
      BY <1>1, <1>2, <2>1, AnsweredFine DEF Unasked
    <2> HIDE DEF s, how
    <2>4. Unasked' = Unasked \ {t}
      BY <1>1, <2>1, <2>2, TurnMoves DEF WholeInv
    <2> QED BY <1>1, <2>1, <2>3, <2>4, CopyFine
  <1>5. CASE CompressIfDue(t) \/ RefreshFacts(t) \/ RouteMemory(t) \/ RoutingFails(t)
    <2>1. PICK s : Goes(t, s) /\ Fine(s, Unasked)
      <3>1. CASE CompressIfDue(t)
        BY <1>1, <3>1, CompressedFine DEF CompressIfDue
      <3>2. CASE RefreshFacts(t)
        BY <1>1, <3>2, WithFactsFine DEF RefreshFacts
      <3>3. CASE RouteMemory(t)
        BY <1>1, <3>3, OtherFieldsFine DEF RouteMemory
      <3>4. CASE RoutingFails(t)
        BY <1>1, <3>4 DEF RoutingFails
      <3> QED BY <1>5, <3>1, <3>2, <3>3, <3>4
    <2>2. snap' = [snap EXCEPT ![t] = s] /\ pc' = [pc EXCEPT ![t] = "track"] /\ file' = file
      BY <2>1 DEF Goes
    <2>3. Unasked' \subseteq Unasked
      BY <1>1, <2>2, TurnMoves DEF WholeInv
    <2>4. Fine(s, Unasked')
      BY <2>1, <2>3, FineSmaller
    <2> QED BY <1>1, <2>2, <2>3, <2>4, CopyFine
  <1>6. CASE GeminiFails(t) \/ TrackTask(t)
    <2>1. /\ \A u \in Turns : snap'[u] \in {snap[u], NewConversation}
          /\ Unasked' \subseteq Unasked
      <3>1. PICK how \in Ended \ {"new"} : End(t, how)
        BY <1>6 DEF GeminiFails, TrackTask, Ended
      <3>2. pc' = [pc EXCEPT ![t] = how] /\ snap' = [snap EXCEPT ![t] = NewConversation]
        BY <3>1 DEF End
      <3>3. how \notin {"new", "remember", "asking"}
        BY <3>1 DEF Ended
      <3> QED BY <1>1, <3>2, <3>3, TurnMoves DEF WholeInv, IInv, Shape
    <2>2. Fine(conv', Unasked)
      <3>1. CASE GeminiFails(t)
        <4>1. conv' = conv
          BY <3>1 DEF GeminiFails, conv
        <4> QED BY <1>1, <4>1
      <3>2. CASE TrackTask(t)
        <4>1. file' \in Tracked(snap[t]) /\ conv' = Load(file')
          BY <3>2 DEF TrackTask, conv
        <4> QED BY <1>1, <4>1, TrackedFine
      <3> QED BY <1>6, <3>1, <3>2
    <2>3. Fine(conv', Unasked')
      BY <2>1, <2>2, FineSmaller
    <2> QED BY <2>1, <2>3, FileFine
  <1> QED BY <1>3, <1>4, <1>5, <1>6 DEF RunStep

LEMMA AskFine ==
  ASSUME WholeInv, IInv', NEW t \in Asks, AskStep(t)
  PROVE  WholeInv'
  <1>1. t \in Turns /\ Good(snap[t]) /\ Good(conv) /\ Fine(snap[t], Unasked) /\ Fine(conv, Unasked)
    BY RunsAreTurns DEF WholeInv, IInv, AllGood
  <1>2. Unasked \subseteq Turns
    BY DEF Unasked
  <1>3. CASE BeginAsk(t)
    <2>1. snap' = [snap EXCEPT ![t] = conv] /\ pc' = [pc EXCEPT ![t] = "remember"] /\ file' = file /\ pc[t] = "new"
      BY <1>3 DEF BeginAsk, conv
    <2>2. Unasked' \subseteq Unasked
      BY <1>1, <2>1, TurnMoves DEF WholeInv
    <2>3. Fine(conv, Unasked')
      BY <1>1, <2>2, FineSmaller
    <2> QED BY <1>1, <2>1, <2>2, <2>3, CopyFine
  <1>4. CASE Remember(t)
    <2>1. PICK working : snap' = [snap EXCEPT ![t].working = working]
      BY <1>4 DEF Remember
    <2> DEFINE s == [snap[t] EXCEPT !.working = working]
    <2>2. snap' = [snap EXCEPT ![t] = s] /\ pc' = [pc EXCEPT ![t] = "asking"] /\ file' = file /\ pc[t] = "remember"
      BY <1>4, <2>1 DEF Remember
    <2>3. Fine(s, Unasked)
      BY <1>1, OtherFieldsFine
    <2> HIDE DEF s
    <2>4. Unasked' \subseteq Unasked
      BY <1>1, <2>2, TurnMoves DEF WholeInv
    <2>5. Fine(s, Unasked')
      BY <2>3, <2>4, FineSmaller
    <2> QED BY <1>1, <2>2, <2>4, <2>5, CopyFine
  <1>5. CASE Record(t) \/ GeminiFails(t)
    <2>1. PICK how \in {"answered", "failed"} :
            /\ End(t, how) /\ pc[t] = "asking"
            /\ \/ file' = file
               \/ file' = OnDisk(Answered(snap[t], t))
      BY <1>5 DEF Record, GeminiFails
    <2>2. pc' = [pc EXCEPT ![t] = how] /\ snap' = [snap EXCEPT ![t] = NewConversation]
      BY <2>1 DEF End
    <2>3. /\ \A u \in Turns : snap'[u] \in {snap[u], NewConversation}
          /\ Unasked' = Unasked \ {t}
      BY <1>1, <2>1, <2>2, TurnMoves DEF WholeInv, IInv, Shape
    <2>4. Fine(conv', Unasked \ {t})
      <3>1. CASE file' = file
        <4>1. conv' = conv
          BY <3>1 DEF conv
        <4> QED BY <1>1, <4>1, FineSmaller
      <3>2. CASE file' = OnDisk(Answered(snap[t], t))
        <4>1. conv' = Answered(snap[t], t)
          BY <3>2, LoadSaved DEF conv
        <4>2. t \in Unasked
          BY <1>1, <2>1 DEF Unasked
        <4> QED BY <1>1, <1>2, <4>1, <4>2, AnsweredFine
      <3> QED BY <2>1, <3>1, <3>2
    <2>5. Fine(conv', Unasked')
      BY <2>3, <2>4
    <2> QED BY <2>3, <2>5, FileFine
  <1> QED BY <1>3, <1>4, <1>5 DEF AskStep

LEMMA RequestFine ==
  ASSUME WholeInv, IInv', TaskRequest \/ BranchRequest \/ MemoryRequest \/ SettingRequest
  PROVE  WholeInv'
  <1>1. Good(conv) /\ Fine(conv, Unasked) /\ Unasked \in SUBSET Turns
    BY DEF WholeInv, IInv, AllGood, Unasked
  <1>2. ASSUME NEW s, Save(s), Fine(s, Unasked) PROVE WholeInv'
    <2>1. conv' = s /\ pc' = pc /\ snap' = snap
      BY <1>2, LoadSaved DEF Save, Request, turnVars, conv
    <2>2. Unasked' = Unasked
      BY <2>1 DEF Unasked
    <2>3. Fine(conv', Unasked')
      BY <1>2, <2>1, <2>2
    <2> QED BY <2>1, <2>2, <2>3, FileFine
  <1>3. ASSUME NEW notes, SaveLongTerm(notes) PROVE WholeInv'
    <2>1. conv' = conv /\ pc' = pc /\ snap' = snap
      BY <1>3 DEF SaveLongTerm, Request, turnVars, conv
    <2>2. Unasked' = Unasked
      BY <2>1 DEF Unasked
    <2>3. Fine(conv', Unasked')
      BY <1>1, <2>1, <2>2
    <2> QED BY <2>1, <2>2, <2>3, FileFine
  <1>4. CASE TaskRequest
    <2>1. PICK task : Save([conv EXCEPT !.task = task])
      BY <1>4 DEF TaskRequest, ClearTaskState, RequestTaskTransition, ApproveTaskPlan, RecordTaskValidation
    <2> QED BY <1>1, <1>2, <2>1, OtherFieldsFine
  <1>5. CASE BranchRequest
    <2>1. CASE CreateCheckpoint
      BY <1>1, <1>2, <2>1, BranchingFine DEF CreateCheckpoint
    <2>2. CASE CreateBranch
      BY <1>1, <1>2, <2>2, BranchingFine DEF CreateBranch
    <2>3. CASE SwitchBranch
      BY <1>1, <1>2, <2>3, OtherFieldsFine DEF SwitchBranch
    <2> QED BY <1>5, <2>1, <2>2, <2>3 DEF BranchRequest
  <1>6. CASE MemoryRequest
    <2>1. CASE UpdateShortTerm
      BY <1>1, <1>2, <2>1, AgentAssumption, WithDialogueFine DEF UpdateShortTerm
    <2>2. CASE UpdateWorkingMemory
      BY <1>1, <1>2, <2>2, OtherFieldsFine DEF UpdateWorkingMemory
    <2>3. CASE UpdateLongTermMemory
      BY <1>3, <2>3 DEF UpdateLongTermMemory
    <2>4. CASE ClearMemory
      <3>0. <<>> \in Seq([turn : {Written}, role : {"user", "assistant"}])
        OBVIOUS
      <3>1. Fine(WithDialogue(conv, <<>>), Unasked)
        BY <1>1, <1>2, <3>0, WithDialogueFine
      <3> QED BY <1>1, <1>2, <1>3, <2>4, <3>1, OtherFieldsFine DEF ClearMemory
    <2> QED BY <1>6, <2>1, <2>2, <2>3, <2>4 DEF MemoryRequest
  <1>7. CASE SettingRequest
    <2>1. CASE ClearHistory
      BY <1>2, <2>1, NewIsGood, FineNew, OtherFieldsFine DEF ClearHistory
    <2>2. CASE SetStrategy
      BY <1>1, <1>2, <2>2, OtherFieldsFine DEF SetStrategy
    <2> QED BY <1>7, <2>1, <2>2 DEF SettingRequest
  <1> QED BY <1>4, <1>5, <1>6, <1>7

LEMMA CrashFine ==
  ASSUME WholeInv, IInv', AnyCrash
  PROVE  WholeInv'
  <1>1. /\ \A u \in Turns : snap'[u] \in {snap[u], NewConversation}
        /\ Unasked' \subseteq Unasked
    <2>1. Dies
      BY DEF AnyCrash, Crash, CrashSavingConversation, CrashSavingLongTerm, CrashAfterSaving
    <2> QED BY <2>1 DEF Dies, Unasked, Awaits, WholeInv, IInv, Shape
  <1>2. Fine(conv', Unasked)
    <2>1. CASE file' = file
      <3>1. conv' = conv
        BY <2>1 DEF conv
      <3> QED BY <3>1 DEF WholeInv
    <2>2. CASE file' = Unreadable
      <3>1. conv' = NewConversation
        BY <2>2 DEF conv, Load
      <3> QED BY <3>1, FineNew
    <2>3. CASE \E t \in Runs : CrashAfterSaving(t)
      <3>1. PICK t \in Runs : file' \in Tracked(snap[t])
        BY <2>3 DEF CrashAfterSaving
      <3>2. Good(snap[t]) /\ Fine(snap[t], Unasked) /\ conv' = Load(file')
        BY RunsAreTurns DEF WholeInv, IInv, AllGood, conv
      <3> QED BY <3>1, <3>2, TrackedFine
    <2> QED BY <2>1, <2>2, <2>3 DEF AnyCrash, Crash, CrashSavingConversation, CrashSavingLongTerm
  <1>3. Fine(conv', Unasked')
    BY <1>1, <1>2, FineSmaller
  <1> QED BY <1>1, <1>3, FileFine

LEMMA WholeInit == Init => WholeInv
  <1> SUFFICES ASSUME Init PROVE WholeInv
    OBVIOUS
  <1>1. conv = NewConversation /\ \A t \in Turns : snap[t] = NewConversation
    BY DEF Init, conv, Load
  <1> QED BY <1>1, InitIInv, FineNew DEF WholeInv

LEMMA WholeNext == WholeInv /\ [Next]_vars => WholeInv'
  <1> SUFFICES ASSUME WholeInv, [Next]_vars PROVE WholeInv'
    OBVIOUS
  <1>1. IInv'
    BY NextIInv DEF WholeInv
  <1>2. CASE UNCHANGED vars
    <2>1. conv' = conv /\ snap' = snap /\ Unasked' = Unasked
      BY <1>2 DEF vars, conv, Unasked
    <2>2. Fine(conv', Unasked')
      BY <2>1 DEF WholeInv
    <2> QED BY <1>1, <2>1, <2>2, FileFine
  <1>3. CASE Next
    BY <1>1, <1>3, RunFine, AskFine, RequestFine, CrashFine DEF Next
  <1> QED BY <1>2, <1>3

\* No question without its answer, no turn twice, in any branch or checkpoint,
\* on disk or in a copy: for any turns that overlap as they like, wherever
\* compression cuts, whatever crashes and whatever is overwritten.
THEOREM TurnsStayWhole == Spec => []TurnsWhole
  <1>1. WholeInv => TurnsWhole
    BY DEF WholeInv, Fine, FineHistory, TurnsWhole, Copies
  <1> QED BY <1>1, WholeInit, WholeNext, PTL DEF Spec

-----------------------------------------------------------------------------
(***************************************************************************)
(* What a client that waits for each answer may rely on.  A turn writes    *)
(* its copy over the file, so the proof says how the copy stands to the    *)
(* file while the turn is at an await: the same branch is talked on, the   *)
(* other branches and the checkpoints are the file's, and whatever turn    *)
(* the file's branch has, the copy's has too, in the transcript or in the  *)
(* summary.  Once it is answered, the copy has the turn itself.            *)
(***************************************************************************)

\* The branches but the current one, and the checkpoints, are the same.
SameElsewhere(s, c) ==
    /\ s.current = c.current /\ s.checkpoints = c.checkpoints
    /\ DOMAIN s.branches = DOMAIN c.branches
    /\ \A b \in DOMAIN c.branches : b # c.current => s.branches[b] = c.branches[b]

TalkedOn(s, c) ==
    /\ SameElsewhere(s, c)
    /\ \A u \in Turns : TurnKept(CurrentBranch(c), u) => TurnKept(CurrentBranch(s), u)

\* The awaits of a run whose answer is in.
HasAnswer == {"compress", "facts", "route", "track"}

CopyTalks ==
    \A t \in Turns :
        /\ pc[t] \in Awaits => TalkedOn(snap[t], conv)
        /\ pc[t] \in HasAnswer => TurnKept(CurrentBranch(snap[t]), t)

TalkInv == Serial /\ CopyTalks

\* What NothingLost and BranchesApart say, of two conversations.
NothingTaken(s, c) ==
    /\ \A b \in DOMAIN c.branches :
          /\ b \in DOMAIN s.branches
          /\ \A t \in Turns : TurnKept(c.branches[b], t) => TurnKept(s.branches[b], t)
    /\ \A k \in DOMAIN c.checkpoints :
          k \in DOMAIN s.checkpoints /\ s.checkpoints[k] = c.checkpoints[k]

NothingMixed(s, c) ==
    \A b \in DOMAIN s.branches :
       \/ b \in DOMAIN c.branches /\ (b = c.current \/ s.branches[b] = c.branches[b])
       \/ b \notin DOMAIN c.branches
          /\ \E k \in DOMAIN c.checkpoints : s.branches[b] = c.checkpoints[k]

LEMMA TalkedOnItself == ASSUME NEW s PROVE TalkedOn(s, s)
  BY DEF TalkedOn, SameElsewhere

LEMMA TalkedOnIsSafe ==
  ASSUME NEW s, NEW c, Good(c), TalkedOn(s, c)
  PROVE  NothingTaken(s, c) /\ NothingMixed(s, c)
  BY DEF TalkedOn, SameElsewhere, NothingTaken, NothingMixed, CurrentBranch, Good, IsConversation

\* Rewriting the branch that is talked on leaves the rest alone.
LEMMA WithCurrentTalks ==
  ASSUME NEW s, NEW c, Good(s), Good(c), TalkedOn(s, c), NEW h,
         \A u \in Turns : TurnKept(CurrentBranch(s), u) => TurnKept(h, u)
  PROVE  TalkedOn(WithCurrent(s, h), c) /\ CurrentBranch(WithCurrent(s, h)) = h
  <1> DEFINE branches == With(s.branches, s.current, h)
             new == WithCurrent(s, h)
  <1>1. new.branches = branches /\ new.checkpoints = s.checkpoints /\ new.current = s.current
    BY DEF WithCurrent, Good, IsConversation
  <1>2. s.current \in DOMAIN s.branches
    BY DEF Good, IsConversation
  <1>3. /\ DOMAIN branches = DOMAIN s.branches /\ branches[s.current] = h
        /\ \A b \in DOMAIN s.branches : b # s.current => branches[b] = s.branches[b]
    BY <1>2 DEF With
  <1> HIDE DEF branches, new
  <1>4. CurrentBranch(new) = h
    BY <1>1, <1>3 DEF CurrentBranch
  <1>5. SameElsewhere(new, c)
    BY <1>1, <1>3 DEF TalkedOn, SameElsewhere
  <1> QED BY <1>4, <1>5 DEF TalkedOn, new

LEMMA AnsweredTalks ==
  ASSUME NEW s, NEW c, Good(s), Good(c), TalkedOn(s, c), NEW t \in Turns
  PROVE  TalkedOn(Answered(s, t), c) /\ TurnKept(CurrentBranch(Answered(s, t)), t)
  <1> DEFINE h == CurrentBranch(s)
             messages == h.messages \o <<UserMessage(t), AssistantMessage(t)>>
             new == [h EXCEPT !.messages = messages]
  <1>1. Answered(s, t) = WithCurrent(s, new)
    BY DEF Answered
  <1>2. \A m : Holds(new, m) <=> Holds(h, m) \/ m \in {UserMessage(t), AssistantMessage(t)}
    BY CurrentIsHistory, AnswerHolds
  <1>3. h = CurrentBranch(s)
    OBVIOUS
  <1> HIDE DEF new, h
  <1>4. TurnKept(new, t) /\ \A u \in Turns : TurnKept(h, u) => TurnKept(new, u)
    BY <1>2 DEF TurnKept
  <1> QED BY <1>1, <1>3, <1>4, WithCurrentTalks

LEMMA CompressedTalks ==
  ASSUME NEW s, NEW c, Good(s), Good(c), TalkedOn(s, c)
  PROVE  /\ TalkedOn(Compressed(s), c)
         /\ \A u \in Turns : TurnKept(CurrentBranch(s), u) => TurnKept(CurrentBranch(Compressed(s)), u)
  <1> DEFINE h == CurrentBranch(s)
             splitAt == IF Len(h.messages) > RecentKept THEN Len(h.messages) - RecentKept ELSE 0
             summary == h.summary \cup {h.messages[i] : i \in 1..splitAt}
             messages == SubSeq(h.messages, splitAt + 1, Len(h.messages))
             new == [h EXCEPT !.summary = summary, !.messages = messages]
  <1>1. h \in Histories /\ h.messages \in Seq(Messages)
    BY CurrentIsHistory DEF Histories
  <1>2. splitAt \in 0..Len(h.messages)
    BY <1>1, StoreAssumption
  <1>3. Compressed(s) = WithCurrent(s, new) /\ h = CurrentBranch(s)
    BY DEF Compressed
  <1>3a. summary = h.summary \cup Older(h, splitAt)
    BY DEF Older
  <1> HIDE DEF splitAt, h, summary
  <1>3b. new.summary = summary /\ new.messages = SubSeq(h.messages, splitAt + 1, Len(h.messages))
    BY <1>1 DEF Histories
  <1> HIDE DEF new
  <1>4. \A m : Holds(new, m) <=> Holds(h, m)
    BY <1>1, <1>2, <1>3a, <1>3b, CutHolds
  <1>5. \A u \in Turns : TurnKept(h, u) => TurnKept(new, u)
    BY <1>4 DEF TurnKept
  <1> QED BY <1>3, <1>5, WithCurrentTalks

LEMMA WithFactsTalks ==
  ASSUME NEW s, NEW c, Good(s), Good(c), TalkedOn(s, c), NEW facts \in SUBSET Notes
  PROVE  /\ TalkedOn(WithFacts(s, facts), c)
         /\ \A u \in Turns :
               TurnKept(CurrentBranch(s), u) => TurnKept(CurrentBranch(WithFacts(s, facts)), u)
  <1> DEFINE h == CurrentBranch(s)
             new == [h EXCEPT !.facts = facts]
  <1>1. h \in Histories
    BY CurrentIsHistory
  <1>2. WithFacts(s, facts) = WithCurrent(s, new) /\ h = CurrentBranch(s)
    BY DEF WithFacts
  <1> HIDE DEF h
  <1>3. new.messages = h.messages /\ new.summary = h.summary
    BY <1>1 DEF Histories
  <1> HIDE DEF new
  <1>4. \A u \in Turns : TurnKept(h, u) => TurnKept(new, u)
    BY <1>3 DEF TurnKept, Holds
  <1> QED BY <1>2, <1>4, WithCurrentTalks

\* Another task, working memory or strategy is no talk.
LEMMA OtherFieldsTalk ==
  ASSUME NEW s, NEW c, Good(s), TalkedOn(s, c), NEW new, new.branches = s.branches,
         new.checkpoints = s.checkpoints, new.current = s.current
  PROVE  TalkedOn(new, c) /\ CurrentBranch(new) = CurrentBranch(s)
  BY DEF TalkedOn, SameElsewhere, CurrentBranch

\* What tracking leaves on disk is the copy, but for its task.
LEMMA TrackedTalks ==
  ASSUME NEW s, NEW c, Good(s), TalkedOn(s, c), NEW f \in Tracked(s)
  PROVE  TalkedOn(Load(f), c) /\ CurrentBranch(Load(f)) = CurrentBranch(s)
  <1>1. CASE f = OnDisk(s)
    BY <1>1, LoadSaved
  <1>2. ASSUME NEW update \in Evidence, f = OnDisk([s EXCEPT !.task = WithUpdate(s.task, update)])
        PROVE  TalkedOn(Load(f), c) /\ CurrentBranch(Load(f)) = CurrentBranch(s)
    <2> DEFINE new == [s EXCEPT !.task = WithUpdate(s.task, update)]
    <2>1. new.branches = s.branches /\ new.checkpoints = s.checkpoints /\ new.current = s.current
      BY OtherFields
    <2>2. Load(f) = new
      BY <1>2, LoadSaved
    <2> HIDE DEF new
    <2> QED BY <2>1, <2>2, OtherFieldsTalk
  <1> QED BY <1>1, <1>2 DEF Tracked

(* The steps, of which a turn's are the only ones while it is answered.     *)

\* Nobody is in flight once a turn has ended, and nobody else while it has not.
LEMMA TalkEnds ==
  ASSUME \A u \in Turns : pc'[u] \notin Awaits PROVE CopyTalks'
  BY DEF CopyTalks, HasAnswer, Awaits

LEMMA TalkGoesOn ==
  ASSUME TalkInv, ~Overlap, NEW t \in Turns, pc[t] \in Awaits, NEW s, TalkedOn(s, conv),
         NEW how, how \in HasAnswer => TurnKept(CurrentBranch(s), t),
         snap' = [snap EXCEPT ![t] = s], pc' = [pc EXCEPT ![t] = how], file' = file
  PROVE  CopyTalks'
  <1>1. conv' = conv /\ \A u \in Turns : u # t => pc'[u] \notin Awaits
    BY DEF TalkInv, Serial, CopyIsCurrent, IInv, Shape, conv
  <1>2. snap'[t] = s /\ pc'[t] = how
    BY DEF TalkInv, Serial, IInv, Shape
  <1>3. HasAnswer \subseteq Awaits
    BY DEF HasAnswer, Awaits
  <1>4. ASSUME NEW u \in Turns
        PROVE  /\ pc'[u] \in Awaits => TalkedOn(snap'[u], conv)
               /\ pc'[u] \in HasAnswer => TurnKept(CurrentBranch(snap'[u]), u)
    BY <1>1, <1>2, <1>3
  <1>5. \A u \in Turns : /\ pc'[u] \in Awaits => TalkedOn(snap'[u], conv')
                         /\ pc'[u] \in HasAnswer => TurnKept(CurrentBranch(snap'[u]), u)
    BY <1>1, <1>4
  <1> QED BY <1>5 DEF CopyTalks, TalkedOn, SameElsewhere, TurnKept, CurrentBranch, Holds

LEMMA TalkBegins ==
  ASSUME TalkInv, ~Overlap, MayStart, NEW t \in Turns, NEW how, how \notin HasAnswer,
         snap' = [snap EXCEPT ![t] = conv], pc' = [pc EXCEPT ![t] = how], file' = file
  PROVE  CopyTalks'
  <1>1. conv' = conv /\ \A u \in Turns : u # t => pc'[u] \notin Awaits
    BY DEF MayStart, Awaits, Ended, TalkInv, Serial, IInv, Shape, conv
  <1>2. snap'[t] = conv /\ pc'[t] = how
    BY DEF TalkInv, Serial, IInv, Shape
  <1>3. HasAnswer \subseteq Awaits
    BY DEF HasAnswer, Awaits
  <1>4. ASSUME NEW u \in Turns
        PROVE  /\ pc'[u] \in Awaits => TalkedOn(snap'[u], conv)
               /\ pc'[u] \in HasAnswer => TurnKept(CurrentBranch(snap'[u]), u)
    BY <1>1, <1>2, <1>3, TalkedOnItself
  <1>5. \A u \in Turns : /\ pc'[u] \in Awaits => TalkedOn(snap'[u], conv')
                         /\ pc'[u] \in HasAnswer => TurnKept(CurrentBranch(snap'[u]), u)
    BY <1>1, <1>4
  <1> QED BY <1>5 DEF CopyTalks, TalkedOn, SameElsewhere, TurnKept, CurrentBranch, Holds

\* The two promises of a step, to be shown of each kind of step.
Promises ==
    /\ file' = file \/ Erases
         \/ /\ NothingTaken(conv', conv)
            /\ \A t \in Turns : pc[t] # "answered" /\ pc'[t] = "answered"
                  => TurnKept(conv'.branches[conv.current], t)
    /\ file' = file \/ ClearHistory \/ CrashSavingConversation \/ NothingMixed(conv', conv)

LEMMA RunTalks ==
  ASSUME TalkInv, ~Overlap, NEW t \in Runs, RunStep(t)
  PROVE  CopyTalks' /\ Promises
  <1>0. t \in Turns /\ Good(snap[t]) /\ Good(conv)
    BY RunsAreTurns DEF TalkInv, Serial, IInv, AllGood
  <1>1. pc[t] \in Awaits => TalkedOn(snap[t], conv)
    BY <1>0 DEF CopyTalks, TalkInv
  <1>1a. pc[t] \in HasAnswer => TurnKept(CurrentBranch(snap[t]), t)
    BY <1>0 DEF CopyTalks, TalkInv
  <1>2. CASE BeginRun(t)
    <2>1. "asking" \notin HasAnswer
      BY DEF HasAnswer
    <2> QED BY <1>0, <1>2, <2>1, TalkBegins DEF BeginRun, conv, Promises
  <1>3. CASE GeminiAnswers(t)
    <2> DEFINE s == Answered(snap[t], t)
    <2>1. pc[t] \in Awaits
      BY <1>3 DEF GeminiAnswers, Awaits
    <2>2. TalkedOn(s, conv) /\ TurnKept(CurrentBranch(s), t)
      BY <1>0, <1>1, <2>1, AnsweredTalks
    <2> HIDE DEF s
    <2>3. snap' = [snap EXCEPT ![t] = s] /\ pc' = [pc EXCEPT ![t] = AfterAnswer(t, s)] /\ file' = file
      BY <1>3 DEF GeminiAnswers, s
    <2> QED BY <1>0, <2>1, <2>2, <2>3, TalkGoesOn DEF Promises
  <1>4. CASE GeminiFails(t)
    <2>1. pc[t] \in Awaits /\ file' = file /\ End(t, "failed")
      BY <1>4 DEF GeminiFails, Awaits
    <2>2. \A u \in Turns : pc'[u] \notin Awaits
      BY <1>0, <2>1 DEF TalkInv, Serial, CopyIsCurrent, IInv, Shape, End, Awaits
    <2> QED BY <2>1, <2>2, TalkEnds DEF Promises
  <1>5. CASE CompressIfDue(t) \/ RefreshFacts(t) \/ RouteMemory(t) \/ RoutingFails(t)
    <2>1. pc[t] \in Awaits /\ pc[t] \in HasAnswer
      BY <1>5 DEF CompressIfDue, RefreshFacts, RouteMemory, RoutingFails, Awaits, HasAnswer
    <2>2. TalkedOn(snap[t], conv) /\ TurnKept(CurrentBranch(snap[t]), t)
      BY <1>1, <1>1a, <2>1
    <2>3. PICK s : Goes(t, s) /\ TalkedOn(s, conv) /\ TurnKept(CurrentBranch(s), t)
      <3>1. CASE CompressIfDue(t)
        BY <1>0, <2>2, <3>1, CompressedTalks DEF CompressIfDue
      <3>2. CASE RefreshFacts(t)
        BY <1>0, <2>2, <3>2, WithFactsTalks DEF RefreshFacts
      <3>3. CASE RouteMemory(t)
        <4>1. PICK working : Goes(t, [snap[t] EXCEPT !.working = working])
          BY <3>3 DEF RouteMemory
        <4> DEFINE new == [snap[t] EXCEPT !.working = working]
        <4>2. /\ new.branches = snap[t].branches /\ new.checkpoints = snap[t].checkpoints
              /\ new.current = snap[t].current
          BY <1>0, OtherFields
        <4>3. Goes(t, new)
          BY <4>1
        <4> HIDE DEF new
        <4>4. TalkedOn(new, conv) /\ CurrentBranch(new) = CurrentBranch(snap[t])
          BY <1>0, <2>2, <4>2, OtherFieldsTalk
        <4> QED BY <2>2, <4>3, <4>4
      <3>4. CASE RoutingFails(t)
        BY <2>2, <3>4 DEF RoutingFails
      <3> QED BY <1>5, <3>1, <3>2, <3>3, <3>4
    <2>4. snap' = [snap EXCEPT ![t] = s] /\ pc' = [pc EXCEPT ![t] = "track"] /\ file' = file
      BY <2>3 DEF Goes
    <2> QED BY <1>0, <2>1, <2>3, <2>4, TalkGoesOn DEF Promises
  <1>6. CASE TrackTask(t)
    <2>1. /\ pc[t] \in Awaits /\ pc[t] \in HasAnswer /\ End(t, "answered")
          /\ file' \in Tracked(snap[t])
      BY <1>6 DEF TrackTask, Awaits, HasAnswer
    <2>2. \A u \in Turns : pc'[u] \notin Awaits /\ (u # t => pc'[u] = pc[u])
      BY <1>0, <2>1 DEF TalkInv, Serial, CopyIsCurrent, IInv, Shape, End, Awaits
    <2>3. conv' = Load(file')
      BY DEF conv
    <2>4. TalkedOn(conv', conv) /\ CurrentBranch(conv') = CurrentBranch(snap[t])
      BY <1>0, <1>1, <2>1, <2>3, TrackedTalks
    <2>5. NothingTaken(conv', conv) /\ NothingMixed(conv', conv)
      BY <1>0, <2>4, TalkedOnIsSafe
    <2>6. TurnKept(conv'.branches[conv.current], t)
      BY <1>1a, <2>1, <2>4 DEF CurrentBranch, TalkedOn, SameElsewhere
    <2>7. \A u \in Turns : pc[u] # "answered" /\ pc'[u] = "answered" => u = t
      BY <2>2
    <2> QED BY <2>2, <2>5, <2>6, <2>7, TalkEnds DEF Promises
  <1> QED BY <1>2, <1>3, <1>4, <1>5, <1>6 DEF RunStep

LEMMA AskTalks ==
  ASSUME TalkInv, ~Overlap, NEW t \in Asks, AskStep(t)
  PROVE  CopyTalks' /\ Promises
  <1>0. t \in Turns /\ Good(snap[t]) /\ Good(conv)
    BY RunsAreTurns DEF TalkInv, Serial, IInv, AllGood
  <1>1. pc[t] \in Awaits => TalkedOn(snap[t], conv)
    BY <1>0 DEF CopyTalks, TalkInv
  <1>2. CASE BeginAsk(t)
    <2>1. "remember" \notin HasAnswer
      BY DEF HasAnswer
    <2> QED BY <1>0, <1>2, <2>1, TalkBegins DEF BeginAsk, conv, Promises
  <1>3. CASE Remember(t)
    <2>1. PICK working : snap' = [snap EXCEPT ![t].working = working]
      BY <1>3 DEF Remember
    <2> DEFINE s == [snap[t] EXCEPT !.working = working]
    <2>2. s.branches = snap[t].branches /\ s.checkpoints = snap[t].checkpoints /\ s.current = snap[t].current
      BY <1>0, OtherFields
    <2>3. snap' = [snap EXCEPT ![t] = s]
      BY <2>1
    <2>4. /\ pc[t] \in Awaits /\ pc' = [pc EXCEPT ![t] = "asking"]
          /\ file' = file
      BY <1>3 DEF Remember, Awaits
    <2> HIDE DEF s
    <2>5. TalkedOn(s, conv)
      BY <1>0, <1>1, <2>2, <2>4, OtherFieldsTalk
    <2>6. "asking" \notin HasAnswer
      BY DEF HasAnswer
    <2> QED BY <1>0, <2>3, <2>4, <2>5, <2>6, TalkGoesOn DEF Promises
  <1>4. CASE Record(t)
    <2>1. /\ pc[t] \in Awaits /\ End(t, "answered") /\ file' = OnDisk(Answered(snap[t], t))
      BY <1>4 DEF Record, Awaits
    <2>2. \A u \in Turns : pc'[u] \notin Awaits /\ (u # t => pc'[u] = pc[u])
      BY <1>0, <2>1 DEF TalkInv, Serial, CopyIsCurrent, IInv, Shape, End, Awaits
    <2>3. conv' = Answered(snap[t], t)
      BY <2>1, LoadSaved DEF conv
    <2>4. TalkedOn(conv', conv) /\ TurnKept(CurrentBranch(conv'), t)
      BY <1>0, <1>1, <2>1, <2>3, AnsweredTalks
    <2>5. NothingTaken(conv', conv) /\ NothingMixed(conv', conv)
      BY <1>0, <2>4, TalkedOnIsSafe
    <2>6. TurnKept(conv'.branches[conv.current], t)
      BY <2>4 DEF CurrentBranch, TalkedOn, SameElsewhere
    <2>7. \A u \in Turns : pc[u] # "answered" /\ pc'[u] = "answered" => u = t
      BY <2>2
    <2> QED BY <2>2, <2>5, <2>6, <2>7, TalkEnds DEF Promises
  <1>5. CASE GeminiFails(t)
    <2>1. pc[t] \in Awaits /\ file' = file /\ End(t, "failed")
      BY <1>5 DEF GeminiFails, Awaits
    <2>2. \A u \in Turns : pc'[u] \notin Awaits
      BY <1>0, <2>1 DEF TalkInv, Serial, CopyIsCurrent, IInv, Shape, End, Awaits
    <2> QED BY <2>1, <2>2, TalkEnds DEF Promises
  <1> QED BY <1>2, <1>3, <1>4, <1>5 DEF AskStep

\* A checkpoint or a branch is added to what there is, as a copy of it.
LEMMA BranchingIsSafe ==
  ASSUME NEW s, Good(s)
  PROVE  /\ \A name \in CheckpointNames \ DOMAIN s.checkpoints :
              /\ NothingTaken(WithCheckpoint(s, name), s)
              /\ NothingMixed(WithCheckpoint(s, name), s)
         /\ \A name \in BranchNames \ DOMAIN s.branches, k \in DOMAIN s.checkpoints :
              NothingTaken(WithBranch(s, name, k), s) /\ NothingMixed(WithBranch(s, name, k), s)
  <1>1. ASSUME NEW name \in CheckpointNames \ DOMAIN s.checkpoints
        PROVE  NothingTaken(WithCheckpoint(s, name), s) /\ NothingMixed(WithCheckpoint(s, name), s)
    <2> DEFINE checkpoints == With(s.checkpoints, name, CurrentBranch(s))
               new == WithCheckpoint(s, name)
    <2>1. new.branches = s.branches /\ new.checkpoints = checkpoints
      BY DEF WithCheckpoint, Good, IsConversation
    <2>2. \A k \in DOMAIN s.checkpoints : k \in DOMAIN checkpoints /\ checkpoints[k] = s.checkpoints[k]
      BY DEF With
    <2> HIDE DEF checkpoints, new
    <2> QED BY <2>1, <2>2 DEF NothingTaken, NothingMixed, new
  <1>2. ASSUME NEW name \in BranchNames \ DOMAIN s.branches, NEW k \in DOMAIN s.checkpoints
        PROVE  NothingTaken(WithBranch(s, name, k), s) /\ NothingMixed(WithBranch(s, name, k), s)
    <2> DEFINE branches == With(s.branches, name, s.checkpoints[k])
               new == WithBranch(s, name, k)
    <2>1. new.branches = branches /\ new.checkpoints = s.checkpoints
      BY DEF WithBranch, Good, IsConversation
    <2>2. /\ \A b \in DOMAIN s.branches : b \in DOMAIN branches /\ branches[b] = s.branches[b]
          /\ \A b \in DOMAIN branches : b \in DOMAIN s.branches \/ b = name
          /\ branches[name] = s.checkpoints[k]
      BY DEF With
    <2> HIDE DEF branches, new
    <2> QED BY <2>1, <2>2 DEF NothingTaken, NothingMixed, new
  <1> QED BY <1>1, <1>2

LEMMA RequestTalks ==
  ASSUME TalkInv, ~Overlap, TaskRequest \/ BranchRequest \/ MemoryRequest \/ SettingRequest
  PROVE  CopyTalks' /\ Promises
  <1>0. Good(conv)
    BY DEF TalkInv, Serial, IInv, AllGood
  <1>1. ASSUME Request PROVE CopyTalks' /\ pc' = pc
    <2>1. \A u \in Turns : pc'[u] \notin Awaits
      BY <1>1 DEF Request, MayStart, turnVars, Awaits, Ended
    <2> QED BY <1>1, <2>1, TalkEnds DEF Request, turnVars
  <1>2. ASSUME NEW s, Save(s) PROVE CopyTalks' /\ pc' = pc /\ conv' = s
    BY <1>1, <1>2, LoadSaved DEF Save, conv
  <1>3. ASSUME NEW s, Save(s), NothingTaken(s, conv), NothingMixed(s, conv)
        PROVE  CopyTalks' /\ Promises
    BY <1>2, <1>3 DEF Promises
  <1>4. ASSUME NEW s, Save(s), s.branches = conv.branches, s.checkpoints = conv.checkpoints
        PROVE  CopyTalks' /\ Promises
    <2>1. NothingTaken(s, conv) /\ NothingMixed(s, conv)
      BY <1>4 DEF NothingTaken, NothingMixed
    <2> QED BY <1>3, <1>4, <2>1
  <1>5. ASSUME NEW notes, SaveLongTerm(notes) PROVE CopyTalks' /\ Promises
    BY <1>1, <1>5 DEF SaveLongTerm, Promises
  <1>6. ASSUME NEW task, Save([conv EXCEPT !.task = task]) PROVE CopyTalks' /\ Promises
    BY <1>0, <1>4, <1>6, OtherFields
  <1>7. ASSUME NEW working, Save([conv EXCEPT !.working = working]) PROVE CopyTalks' /\ Promises
    BY <1>0, <1>4, <1>7, OtherFields
  <1>8. ASSUME NEW dialogue, Save(WithDialogue(conv, dialogue)), Erases
        PROVE  CopyTalks' /\ Promises
    <2> DEFINE h == [CurrentBranch(conv) EXCEPT !.messages = dialogue, !.summary = {}]
               new == WithCurrent(conv, h)
    <2>1. new.branches = With(conv.branches, conv.current, h) /\ conv.current \in DOMAIN conv.branches
      BY <1>0 DEF WithCurrent, Good, IsConversation
    <2>2. Save(new)
      BY <1>8 DEF WithDialogue
    <2> HIDE DEF new, h
    <2>3. NothingMixed(new, conv)
      BY <2>1 DEF NothingMixed, With
    <2> QED BY <1>2, <1>8, <2>2, <2>3 DEF Promises
  <1>9. CASE TaskRequest
    <2>1. PICK task : Save([conv EXCEPT !.task = task])
      BY <1>9 DEF TaskRequest, ClearTaskState, RequestTaskTransition, ApproveTaskPlan, RecordTaskValidation
    <2> QED BY <1>6, <2>1
  <1>10. CASE BranchRequest
    <2>1. CASE CreateCheckpoint
      BY <1>0, <1>3, <2>1, BranchingIsSafe DEF CreateCheckpoint
    <2>2. CASE CreateBranch
      BY <1>0, <1>3, <2>2, BranchingIsSafe DEF CreateBranch
    <2>3. CASE SwitchBranch
      BY <1>0, <1>4, <2>3, OtherFields DEF SwitchBranch
    <2> QED BY <1>10, <2>1, <2>2, <2>3 DEF BranchRequest
  <1>11. CASE MemoryRequest
    <2>1. CASE UpdateShortTerm
      BY <1>8, <2>1 DEF UpdateShortTerm, Erases
    <2>2. CASE UpdateWorkingMemory
      BY <1>7, <2>2 DEF UpdateWorkingMemory
    <2>3. CASE UpdateLongTermMemory
      BY <1>5, <2>3 DEF UpdateLongTermMemory
    <2>4. CASE ClearMemory
      <3>1. Erases
        BY <2>4 DEF Erases
      <3> QED BY <1>5, <1>7, <1>8, <2>4, <3>1 DEF ClearMemory
    <2> QED BY <1>11, <2>1, <2>2, <2>3, <2>4 DEF MemoryRequest
  <1>12. CASE ClearHistory
    <2>1. PICK s : Save(s)
      BY <1>12 DEF ClearHistory
    <2> QED BY <1>2, <1>12, <2>1 DEF Promises, Erases
  <1>13. CASE SetStrategy
    <2>1. PICK strategy : Save([conv EXCEPT !.strategy = strategy])
      BY <1>13 DEF SetStrategy
    <2> QED BY <1>0, <1>4, <2>1, OtherFields
  <1> QED BY <1>9, <1>10, <1>11, <1>12, <1>13 DEF SettingRequest

LEMMA CrashTalks ==
  ASSUME TalkInv, AnyCrash PROVE CopyTalks' /\ Promises
  <1>1. Dies
    BY DEF AnyCrash, Crash, CrashSavingConversation, CrashSavingLongTerm, CrashAfterSaving
  <1>2. \A u \in Turns : pc'[u] \notin Awaits /\ (pc[u] # "answered" => pc'[u] # "answered")
    BY <1>1 DEF Dies, Awaits
  <1>3. CopyTalks'
    BY <1>2, TalkEnds
  <1>4. CASE \E t \in Runs : CrashAfterSaving(t)
    <2>1. PICK t \in Runs : CrashAfterSaving(t)
      BY <1>4
    <2>2. t \in Turns /\ Good(snap[t]) /\ Good(conv) /\ conv' = Load(file') /\ file' \in Tracked(snap[t])
      BY <2>1, RunsAreTurns DEF TalkInv, Serial, IInv, AllGood, CrashAfterSaving, conv
    <2>3. TalkedOn(snap[t], conv)
      BY <2>1, <2>2 DEF TalkInv, CopyTalks, CrashAfterSaving, Awaits
    <2>4. TalkedOn(conv', conv)
      BY <2>2, <2>3, TrackedTalks
    <2>5. NothingTaken(conv', conv) /\ NothingMixed(conv', conv)
      BY <2>2, <2>4, TalkedOnIsSafe
    <2> QED BY <1>2, <1>3, <2>5 DEF Promises
  <1>5. CASE CrashSavingConversation
    BY <1>3, <1>5 DEF Promises, Erases
  <1>6. CASE Crash \/ CrashSavingLongTerm
    BY <1>3, <1>6 DEF Crash, CrashSavingLongTerm, Promises
  <1> QED BY <1>4, <1>5, <1>6 DEF AnyCrash

LEMMA TalkStep ==
  ASSUME ~Overlap, TalkInv, [Next]_vars
  PROVE  TalkInv' /\ Promises
  <1>1. Serial'
    BY SerialStep DEF TalkInv
  <1>2. CASE UNCHANGED vars
    <2>1. conv' = conv /\ pc' = pc /\ snap' = snap /\ file' = file
      BY <1>2 DEF vars, conv
    <2>2. \A u \in Turns : /\ pc'[u] \in Awaits => TalkedOn(snap'[u], conv')
                           /\ pc'[u] \in HasAnswer => TurnKept(CurrentBranch(snap'[u]), u)
      BY <2>1 DEF TalkInv, CopyTalks
    <2>3. CopyTalks'
      BY <2>2 DEF CopyTalks, TalkedOn, SameElsewhere, TurnKept, CurrentBranch, Holds
    <2> QED BY <1>1, <2>1, <2>3 DEF TalkInv, Promises
  <1>3. CASE Next
    BY <1>1, <1>3, RunTalks, AskTalks, RequestTalks, CrashTalks DEF Next, TalkInv
  <1> QED BY <1>2, <1>3

LEMMA TalkInit == ASSUME Init PROVE TalkInv
  <1>1. \A u \in Turns : pc[u] \notin Awaits /\ pc[u] \notin HasAnswer
    BY DEF Init, Awaits, HasAnswer
  <1> QED BY <1>1, SerialInit DEF TalkInv, CopyTalks

LEMMA PromisesKept == ~Overlap /\ Spec => [][Promises]_file
  <1> SUFFICES ASSUME ~Overlap PROVE Spec => [][Promises]_file
    OBVIOUS
  <1>1. Init => TalkInv
    BY TalkInit
  <1>2. TalkInv /\ [Next]_vars => TalkInv' /\ [Promises]_file
    BY TalkStep
  <1> QED BY <1>1, <1>2, PTL DEF Spec

\* For a client that waits for each answer, a turn that is answered is in the
\* branch it was asked on and stays there, and a checkpoint stays what it was,
\* until someone asks for them to be erased.
THEOREM NothingIsLost == ~Overlap /\ Spec => NothingLost
  <1>1. [Promises]_file =>
          [ \/ Erases
            \/ /\ \A t \in Turns : pc[t] # "answered" /\ pc'[t] = "answered"
                     => TurnKept(conv'.branches[conv.current], t)
               /\ \A b \in DOMAIN conv.branches :
                     /\ b \in DOMAIN conv'.branches
                     /\ \A t \in Turns :
                          TurnKept(conv.branches[b], t) => TurnKept(conv'.branches[b], t)
               /\ \A c \in DOMAIN conv.checkpoints :
                     /\ c \in DOMAIN conv'.checkpoints
                     /\ conv'.checkpoints[c] = conv.checkpoints[c] ]_file
    BY DEF Promises, NothingTaken
  <1> QED BY <1>1, PromisesKept, PTL DEF NothingLost

\* For a client that waits for each answer, nothing said on one branch reaches
\* another, and a new branch is the copy of a checkpoint.
THEOREM BranchesStayApart == ~Overlap /\ Spec => BranchesApart
  <1>1. [Promises]_file =>
          [ \/ ClearHistory \/ CrashSavingConversation
            \/ \A b \in DOMAIN conv'.branches :
                 \/ b \in DOMAIN conv.branches
                    /\ (b = conv.current \/ conv'.branches[b] = conv.branches[b])
                 \/ b \notin DOMAIN conv.branches
                    /\ \E c \in DOMAIN conv.checkpoints : conv'.branches[b] = conv.checkpoints[c] ]_file
    BY DEF Promises, NothingMixed
  <1> QED BY <1>1, PromisesKept, PTL DEF BranchesApart
=============================================================================
