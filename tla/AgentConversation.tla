------------------------- MODULE AgentConversation -------------------------
(***************************************************************************)
(* Everyone who writes the agent's conversation file:                      *)
(*                                                                         *)
(*  - POST /agent/chat, JapaneseLearningAgent.run: loads the whole         *)
(*    conversation, asks Gemini several times, and writes the whole        *)
(*    conversation back at the end;                                        *)
(*  - POST /agent/mini-chat, ChatSession.ask: the same file, the same way; *)
(*  - the handlers that load, change and save without awaiting anything.   *)
(*                                                                         *)
(* The server is one event loop, so what runs between two awaits is one    *)
(* step; a turn's awaits are where other requests get in.  A turn works on *)
(* the copy it loaded (snap), never on the file.                           *)
(*                                                                         *)
(* Overlap says whether the clients send a request while another is being  *)
(* answered.  Nothing in the code forbids it.                              *)
(***************************************************************************)
EXTENDS ConversationStore

CONSTANTS
    Runs, Asks,         \* turns of /agent/chat and of /agent/mini-chat
    Overlap,            \* TRUE: requests may overlap
    Requested,          \* strategies a request may name
    Dialogues,          \* what PUT /agent/memory/short_term may write
    Moves,              \* stages POST /agent/task/transition may name
    Evidence,           \* the updates the tracker may propose
    MaxOps,             \* bound: requests other than turns
    MaxCrashes          \* bound: crashes

ASSUME AgentAssumption ==
    /\ Turns = Runs \cup Asks /\ Runs \cap Asks = {}
    /\ Overlap \in BOOLEAN
    /\ Requested \subseteq ContextStrategy
    /\ Dialogues \subseteq Seq([turn : {Written}, role : {"user", "assistant"}])
    /\ Moves \subseteq Stages /\ Evidence \subseteq Updates
    /\ MaxOps \in Nat /\ MaxCrashes \in Nat

VARIABLES
    file,               \* data/agent_history.json
    longTerm,           \* data/agent_long_term_memory.json
    usage,              \* data/agent_usage.json: the turns that were logged
    pc,                 \* the await each turn is at
    snap,               \* the conversation each turn loaded and is changing
    active,             \* the strategy each turn resolved
    ops, crashes

vars == <<file, longTerm, usage, pc, snap, active, ops, crashes>>
turnVars == <<pc, snap, active>>

Awaits == {"asking", "compress", "facts", "route", "track", "remember"}
Ended == {"new", "answered", "failed"}

Init ==
    /\ file = Unreadable /\ longTerm = {} /\ usage = {}
    /\ pc = [t \in Turns |-> "new"]
    /\ snap = [t \in Turns |-> NewConversation]
    /\ active = [t \in Turns |-> NotChosen]
    /\ ops = 0 /\ crashes = 0

MayStart == Overlap \/ \A t \in Turns : pc[t] \in Ended

-----------------------------------------------------------------------------
(* POST /agent/chat                                                         *)

\* A strategy named in the request, else the stored one, else the
\* compression flag's.
ResolveStrategy(s, requested) ==
    CASE requested # NotChosen -> {requested}
      [] requested = NotChosen /\ s.strategy # NotChosen -> {s.strategy}
      [] OTHER -> {"summary", "full"}

BeginRun(t) ==
    /\ pc[t] = "new" /\ MayStart
    /\ snap' = [snap EXCEPT ![t] = Load(file)]
    /\ \E requested \in Requested \cup {NotChosen} :
         \E strategy \in ResolveStrategy(Load(file), requested) :
            active' = [active EXCEPT ![t] = strategy]
    /\ pc' = [pc EXCEPT ![t] = "asking"]
    /\ UNCHANGED <<file, longTerm, usage, ops, crashes>>

\* What is awaited once the answer is in.
AfterAnswer(t, s) ==
    CASE active[t] = "summary" /\ NeedsCompression(s) -> "compress"
      [] active[t] = "sticky_facts" -> "facts"
      [] active[t] = "layered_memory" -> "route"
      [] OTHER -> "track"

\* Gemini answered: both messages are appended to the copy.
GeminiAnswers(t) ==
    /\ pc[t] = "asking"
    /\ LET s == Answered(snap[t], t) IN
         /\ snap' = [snap EXCEPT ![t] = s]
         /\ pc' = [pc EXCEPT ![t] = AfterAnswer(t, s)]
    /\ UNCHANGED <<file, longTerm, usage, active, ops, crashes>>

\* The end of a turn: its copy is dropped.
End(t, how) ==
    /\ pc' = [pc EXCEPT ![t] = how]
    /\ snap' = [snap EXCEPT ![t] = NewConversation]
    /\ active' = [active EXCEPT ![t] = NotChosen]

\* Gemini failed: the error goes to the client and nothing is written.
GeminiFails(t) ==
    /\ pc[t] = "asking"
    /\ End(t, "failed")
    /\ UNCHANGED <<file, longTerm, usage, ops, crashes>>

\* The best-effort call the strategy makes; when it fails, the copy is kept
\* as it is and the turn goes on.
Goes(t, s) ==
    /\ snap' = [snap EXCEPT ![t] = s]
    /\ pc' = [pc EXCEPT ![t] = "track"]
    /\ UNCHANGED <<file, usage, active, ops, crashes>>

CompressIfDue(t) ==
    /\ pc[t] = "compress"
    /\ \E s \in {snap[t], Compressed(snap[t])} : Goes(t, s)
    /\ UNCHANGED longTerm

RefreshFacts(t) ==
    /\ pc[t] = "facts"
    /\ \E facts \in SUBSET Notes : Goes(t, WithFacts(snap[t], facts))
    /\ UNCHANGED longTerm

\* Long-term memory is saved at once, to its own file; working memory waits
\* for the conversation to be saved.
RouteMemory(t) ==
    /\ pc[t] = "route"
    /\ \E working \in WorkingMemories : Goes(t, [snap[t] EXCEPT !.working = working])
    /\ longTerm' \in {longTerm} \cup SUBSET Notes

RoutingFails(t) ==
    /\ pc[t] = "route"
    /\ Goes(t, snap[t])
    /\ UNCHANGED longTerm

\* The file once the copy is saved, as TaskTracker's proposal leaves it or as
\* it is when tracking failed.
Tracked(s) ==
    {OnDisk(s)}
      \cup {OnDisk([s EXCEPT !.task = WithUpdate(s.task, update)]) : update \in Evidence}

\* The copy is written over whatever the file holds by now, and the usage is
\* logged unless that fails.
TrackTask(t) ==
    /\ pc[t] = "track"
    /\ file' \in Tracked(snap[t])
    /\ usage' \in {usage, usage \cup {t}}
    /\ End(t, "answered")
    /\ UNCHANGED <<longTerm, ops, crashes>>

-----------------------------------------------------------------------------
(* POST /agent/mini-chat: the session is built for the request.             *)

BeginAsk(t) ==
    /\ pc[t] = "new" /\ MayStart
    /\ snap' = [snap EXCEPT ![t] = Load(file)]
    /\ pc' = [pc EXCEPT ![t] = "remember"]
    /\ UNCHANGED <<file, longTerm, usage, active, ops, crashes>>

\* The router may rewrite working memory; the chat never writes long-term.
Remember(t) ==
    /\ pc[t] = "remember"
    /\ \E working \in WorkingMemories \cup {snap[t].working} :
         snap' = [snap EXCEPT ![t].working = working]
    /\ pc' = [pc EXCEPT ![t] = "asking"]
    /\ UNCHANGED <<file, longTerm, usage, active, ops, crashes>>

Record(t) ==
    /\ pc[t] = "asking"
    /\ file' = OnDisk(Answered(snap[t], t))
    /\ End(t, "answered")
    /\ UNCHANGED <<longTerm, usage, ops, crashes>>

-----------------------------------------------------------------------------
(* The handlers that do not await: one step each.                           *)

\* Bookkeeping of such a request: at most MaxOps of them.
Request ==
    /\ MayStart /\ ops < MaxOps /\ ops' = ops + 1
    /\ UNCHANGED <<usage, turnVars, crashes>>

Save(s) == Request /\ file' = OnDisk(s) /\ UNCHANGED longTerm
SaveLongTerm(notes) == Request /\ longTerm' = notes /\ UNCHANGED file

\* The conversation such a handler loads.
conv == Load(file)

ClearHistory == Save([NewConversation EXCEPT !.strategy = conv.strategy])

SetStrategy == \E strategy \in Requested : Save([conv EXCEPT !.strategy = strategy])

UpdateShortTerm == \E dialogue \in Dialogues : Save(WithDialogue(conv, dialogue))

\* The request names new entries or leaves them out; the memory is built
\* anew from the four fields the request has, and terms is not one of them.
UpdateWorkingMemory ==
    \E entries \in {conv.working.entries} \cup SUBSET Notes :
        Save([conv EXCEPT !.working = [entries |-> entries, terms |-> {}]])

UpdateLongTermMemory == \E notes \in SUBSET Notes : SaveLongTerm(notes)

ClearMemory ==
    \/ SaveLongTerm({})
    \/ Save([conv EXCEPT !.working = NoWorkingMemory])
    \/ Save(WithDialogue(conv, <<>>))

ClearTaskState == Save([conv EXCEPT !.task = NoTask])

\* A refusal is saved too; the client gets it as a 409.
RequestTaskTransition ==
    \E stage \in Moves :
        Save([conv EXCEPT !.task =
                WithUpdate(@, [stage |-> stage, plan |-> NoPlan, validation |-> "unsaid"])])

ApproveTaskPlan ==
    /\ conv.task.stage = "planning"
    /\ \E plan \in Plans : Save([conv EXCEPT !.task = WithPlan(@, plan)])

RecordTaskValidation ==
    /\ conv.task.stage = "validation"
    /\ \E passed \in BOOLEAN : Save([conv EXCEPT !.task = WithValidation(@, passed)])

\* A name that is taken is a 409, whether the client chose it or not.
CreateCheckpoint ==
    \E name \in CheckpointNames \ DOMAIN conv.checkpoints : Save(WithCheckpoint(conv, name))

\* The new branch is not switched to.
CreateBranch ==
    \E name \in BranchNames \ DOMAIN conv.branches, checkpoint \in DOMAIN conv.checkpoints :
        Save(WithBranch(conv, name, checkpoint))

\* Mutant: the branch is not looked up before it is switched to.
SwitchBranchUnchecked ==
    \E name \in BranchNames : Save([conv EXCEPT !.current = name])

SwitchBranch ==
    \E name \in DOMAIN conv.branches : Save([conv EXCEPT !.current = name])

-----------------------------------------------------------------------------
(* The process dies; systemd starts it again.  Turns in flight are gone.    *)

Dies ==
    /\ crashes < MaxCrashes /\ crashes' = crashes + 1
    /\ pc' = [t \in Turns |-> IF pc[t] \in Awaits THEN "failed" ELSE pc[t]]
    /\ snap' = [t \in Turns |-> NewConversation]
    /\ active' = [t \in Turns |-> NotChosen]
    /\ UNCHANGED ops

Crash == Dies /\ UNCHANGED <<file, longTerm, usage>>

\* In the middle of writing one of the files.
CrashSavingConversation ==
    /\ \/ ops < MaxOps
       \/ \E t \in Runs : pc[t] = "track"
       \/ \E t \in Asks : pc[t] = "asking"
    /\ Dies
    /\ file' = Unreadable
    /\ UNCHANGED <<longTerm, usage>>

\* A file of its own, read as empty when it cannot be read.
CrashSavingLongTerm ==
    /\ ops < MaxOps \/ \E t \in Runs : pc[t] = "route"
    /\ Dies
    /\ longTerm' = {}
    /\ UNCHANGED <<file, usage>>

\* The turn is on disk and its answer never leaves; the usage log it was
\* being appended to may be lost with it.
CrashAfterSaving(t) ==
    /\ pc[t] = "track"
    /\ Dies
    /\ file' \in Tracked(snap[t])
    /\ usage' \in {usage, {}}
    /\ UNCHANGED longTerm

-----------------------------------------------------------------------------

RunStep(t) == BeginRun(t) \/ GeminiAnswers(t) \/ GeminiFails(t) \/ CompressIfDue(t)
                \/ RefreshFacts(t) \/ RouteMemory(t) \/ RoutingFails(t) \/ TrackTask(t)
AskStep(t) == BeginAsk(t) \/ Remember(t) \/ Record(t) \/ GeminiFails(t)

TaskRequest == ClearTaskState \/ RequestTaskTransition \/ ApproveTaskPlan \/ RecordTaskValidation
BranchRequest == CreateCheckpoint \/ CreateBranch \/ SwitchBranch
MemoryRequest == UpdateShortTerm \/ UpdateWorkingMemory \/ UpdateLongTermMemory \/ ClearMemory
SettingRequest == ClearHistory \/ SetStrategy

AnyCrash == Crash \/ CrashSavingConversation \/ CrashSavingLongTerm
              \/ \E t \in Runs : CrashAfterSaving(t)

Next ==
    \/ \E t \in Runs : RunStep(t)
    \/ \E t \in Asks : AskStep(t)
    \/ TaskRequest \/ BranchRequest \/ MemoryRequest \/ SettingRequest
    \/ AnyCrash

Spec == Init /\ [][Next]_vars

-----------------------------------------------------------------------------
TypeOK ==
    /\ file = Unreadable \/ file = OnDisk(conv)
    /\ longTerm \in SUBSET Notes
    /\ usage \in SUBSET Runs
    /\ pc \in [Turns -> Awaits \cup Ended]
    /\ DOMAIN snap = Turns
    /\ IsConversation(conv) /\ \A t \in Turns : IsConversation(snap[t])
    /\ active \in [Turns -> ContextStrategy \cup {NotChosen}]
    /\ ops \in 0..MaxOps /\ crashes \in 0..MaxCrashes

\* The conversations there are: the one on disk and the copies in flight.
Copies == {conv} \cup {snap[t] : t \in Turns}

(***************************************************************************)
(* Whatever overlaps, crashes or is overwritten, the task on disk - and in *)
(* every copy that may yet be written over it - occupies no stage whose    *)
(* work was not done (agent_task_state.check_transition is the only door). *)
(***************************************************************************)
TaskEarned == \A s \in Copies : WorkDone(s.task)

(***************************************************************************)
(* The refusal shown on screen and explained by the next answer            *)
(* (TaskState.blocked) is one the state machine would still give.          *)
(***************************************************************************)
RefusalsStillTrue == \A s \in Copies : RefusalStillTrue(s.task)

(***************************************************************************)
(* No orphaned question, no turn twice, in any branch or checkpoint: run   *)
(* persists a turn only once it was answered, and compression cuts the     *)
(* transcript anywhere.                                                    *)
(***************************************************************************)
TurnsWhole == \A s \in Copies : \A h \in HistoriesOf(s) : WholeTurns(h)

-----------------------------------------------------------------------------
(* What a client that waits for each answer may rely on (Overlap = FALSE).  *)

\* Steps that are meant to take messages, branches or checkpoints away.
Erases == ClearHistory \/ UpdateShortTerm \/ ClearMemory \/ CrashSavingConversation

(***************************************************************************)
(* A turn that is answered is in the branch it was asked on, verbatim or   *)
(* in the summary, and stays there, and every checkpoint stays exactly     *)
(* what was captured, until someone asks for them to be erased.            *)
(***************************************************************************)
NothingLost ==
    [][ \/ Erases
        \/ /\ \A t \in Turns : pc[t] # "answered" /\ pc'[t] = "answered"
                 => TurnKept(conv'.branches[conv.current], t)
           /\ \A b \in DOMAIN conv.branches :
                 /\ b \in DOMAIN conv'.branches
                 /\ \A t \in Turns :
                      TurnKept(conv.branches[b], t) => TurnKept(conv'.branches[b], t)
           /\ \A c \in DOMAIN conv.checkpoints :
                 /\ c \in DOMAIN conv'.checkpoints
                 /\ conv'.checkpoints[c] = conv.checkpoints[c] ]_file

(***************************************************************************)
(* Nothing said on one branch reaches another: a step changes at most the  *)
(* branch being talked on, and a branch that appears is the copy of a      *)
(* checkpoint.                                                             *)
(***************************************************************************)
BranchesApart ==
    [][ \/ ClearHistory \/ CrashSavingConversation
        \/ \A b \in DOMAIN conv'.branches :
             \/ b \in DOMAIN conv.branches
                /\ (b = conv.current \/ conv'.branches[b] = conv.branches[b])
             \/ b \notin DOMAIN conv.branches
                /\ \E c \in DOMAIN conv.checkpoints : conv'.branches[b] = conv.checkpoints[c] ]_file

(***************************************************************************)
(* The task on disk behaves as TaskMachine: one way, through the gates,    *)
(* with one plan.                                                          *)
(***************************************************************************)
Machine == INSTANCE TaskMachine WITH
    stage <- conv.task.stage, plan <- conv.task.plan, passed <- conv.task.passed
TaskMachineSpec == Machine!Spec

(***************************************************************************)
(* What makes that so: one turn at a time, working on the task there is.   *)
(***************************************************************************)
CopyIsCurrent ==
    ~Overlap => \A t, u \in Turns : pc[t] \in Awaits =>
        snap[t].task = conv.task /\ (pc[u] \in Awaits => u = t)

-----------------------------------------------------------------------------
(* What the documentation says and the code does not do.                    *)

(***************************************************************************)
(* routes/agent.py:320 says that both turns of a mini-chat question are on *)
(* disk before it returns, so the next request picks up where it left.     *)
(***************************************************************************)
NextPicksUp ==
    [][ \A t \in Asks :
          /\ pc[t] = "answered" /\ ~(Erases \/ AnyCrash)
          /\ TurnKept(CurrentBranch(conv), t)
          => \E b \in DOMAIN conv'.branches : TurnKept(conv'.branches[b], t) ]_vars

(***************************************************************************)
(* README.md:148-149 says that branches, checkpoints and the chosen        *)
(* strategy come back after a restart.  The file is written in place, and  *)
(* one cut short by the crash is read as a conversation never begun.       *)
(***************************************************************************)
ComesBack ==
    [][ AnyCrash =>
          /\ conv'.strategy = conv.strategy
          /\ DOMAIN conv.branches \subseteq DOMAIN conv'.branches
          /\ DOMAIN conv.checkpoints \subseteq DOMAIN conv'.checkpoints ]_vars

=============================================================================
