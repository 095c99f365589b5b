------------------------- MODULE ConversationStore -------------------------
(***************************************************************************)
(* The shape of the persisted conversation and the ways it is rewritten:   *)
(* src/app/services/agent_history_storage.py, agent_memory.py, and the     *)
(* pure halves of agent_history_compressor.py and of the agent's handlers. *)
(*                                                                         *)
(* A message is the turn it belongs to and its role; what it says does not *)
(* matter.  A summary is the set of messages that were folded into it.     *)
(* The facts and the memory layers hold notes, which are model values.     *)
(***************************************************************************)
EXTENDS TaskState, Sequences

CONSTANTS
    Turns,              \* the learner's messages, one identifier for each
    Written,            \* stands for a turn typed in through PUT /agent/memory/short_term
    BranchNames, MainBranch,
    CheckpointNames,
    Notes,              \* what a fact or an entry of a memory layer may say
    RecentKept,         \* AGENT_RECENT_MESSAGES_KEPT
    Threshold           \* AGENT_SUMMARY_UPDATE_THRESHOLD

ASSUME StoreAssumption ==
    /\ MainBranch \in BranchNames
    /\ Written \notin Turns
    /\ RecentKept \in Nat /\ Threshold \in Nat \ {0}

ContextStrategy == {"full", "summary", "sliding_window", "sticky_facts",
                    "branching", "layered_memory"}
NotChosen == ""         \* ConversationState.strategy until a client chooses

Messages == [turn : Turns \cup {Written}, role : {"user", "assistant"}]
UserMessage(t) == [turn |-> t, role |-> "user"]
AssistantMessage(t) == [turn |-> t, role |-> "assistant"]

Histories == [summary : SUBSET Messages, messages : Seq(Messages), facts : SUBSET Notes]
EmptyHistory == [summary |-> {}, messages |-> <<>>, facts |-> {}]

\* goals, requirements, constraints and decisions are one field here, entries;
\* terms is apart because one writer treats it differently.
WorkingMemories == [entries : SUBSET Notes, terms : SUBSET Notes]
NoWorkingMemory == [entries |-> {}, terms |-> {}]

\* A dict whose keys come from Names.
IsDict(dict, Names, Values) == DOMAIN dict \subseteq Names /\ dict \in [DOMAIN dict -> Values]
EmptyDict == [n \in {} |-> EmptyHistory]
With(dict, name, value) ==
    [n \in DOMAIN dict \cup {name} |-> IF n = name THEN value ELSE dict[n]]

\* ConversationState.  A checkpoint is its history; the name of the branch it
\* was taken on is only reported.
IsConversation(s) ==
    /\ DOMAIN s = {"strategy", "current", "branches", "checkpoints", "working", "task"}
    /\ s.strategy \in ContextStrategy \cup {NotChosen}
    /\ IsDict(s.branches, BranchNames, Histories)
    /\ s.current \in DOMAIN s.branches
    /\ IsDict(s.checkpoints, CheckpointNames, Histories)
    /\ s.working \in WorkingMemories
    /\ s.task \in Tasks

NewConversation ==
    [strategy |-> NotChosen, current |-> MainBranch,
     branches |-> With(EmptyDict, MainBranch, EmptyHistory),
     checkpoints |-> EmptyDict,
     working |-> NoWorkingMemory, task |-> NoTask]

-----------------------------------------------------------------------------
(* The file.  write_text truncates it before it writes, so a process that   *)
(* dies in between leaves something json cannot read: a file holds one      *)
(* conversation, or nothing that can be read.                               *)

OnDisk(s) == <<s>>
Unreadable == <<>>

\* A file that is missing or cannot be read is a conversation that never was.
Load(f) == IF f = Unreadable THEN NewConversation ELSE f[1]

-----------------------------------------------------------------------------
(* Rewriting the branch that is being talked on.                            *)

CurrentBranch(s) == s.branches[s.current]
WithCurrent(s, h) == [s EXCEPT !.branches = With(@, s.current, h)]

Answered(s, t) ==
    LET h == CurrentBranch(s) IN
    WithCurrent(s, [h EXCEPT !.messages = @ \o <<UserMessage(t), AssistantMessage(t)>>])

NeedsCompression(s) == Len(CurrentBranch(s).messages) >= RecentKept + Threshold

\* Mutant: the last message that was folded away stays in the transcript too.
CompressedWithOverlap(s) ==
    LET h == CurrentBranch(s)
        splitAt == Len(h.messages) - RecentKept
    IN  WithCurrent(s, [h EXCEPT !.summary = @ \cup {h.messages[i] : i \in 1..splitAt},
                                 !.messages = SubSeq(@, splitAt, Len(@))])

\* Mutant: the first message after the cut is dropped.
CompressedWithGap(s) ==
    LET h == CurrentBranch(s)
        splitAt == Len(h.messages) - RecentKept
    IN  WithCurrent(s, [h EXCEPT !.summary = @ \cup {h.messages[i] : i \in 1..splitAt},
                                 !.messages = SubSeq(@, splitAt + 2, Len(@))])

\* Everything older than the recent window goes into the summary.
Compressed(s) ==
    LET h == CurrentBranch(s)
        splitAt == IF Len(h.messages) > RecentKept THEN Len(h.messages) - RecentKept ELSE 0
        older == {h.messages[i] : i \in 1..splitAt}
    IN  WithCurrent(s, [h EXCEPT !.summary = @ \cup older,
                                 !.messages = SubSeq(@, splitAt + 1, Len(@))])

WithFacts(s, facts) == WithCurrent(s, [CurrentBranch(s) EXCEPT !.facts = facts])

WithDialogue(s, dialogue) ==
    WithCurrent(s, [CurrentBranch(s) EXCEPT !.messages = dialogue, !.summary = {}])

-----------------------------------------------------------------------------
(* Checkpoints and branches are copies.                                     *)

WithCheckpoint(s, name) == [s EXCEPT !.checkpoints = With(@, name, CurrentBranch(s))]

\* Mutant: a branch starts from what is being talked about now.
WithBranchOfNow(s, name, checkpoint) ==
    [s EXCEPT !.branches = With(@, name, CurrentBranch(s))]

WithBranch(s, name, checkpoint) ==
    [s EXCEPT !.branches = With(@, name, s.checkpoints[checkpoint])]

-----------------------------------------------------------------------------
(* What a history holds, in the transcript or folded into the summary.      *)

Elements(seq) == {seq[i] : i \in 1..Len(seq)}
Holds(h, m) == m \in h.summary \/ m \in Elements(h.messages)
TurnKept(h, t) == Holds(h, UserMessage(t)) /\ Holds(h, AssistantMessage(t))

\* Every history of a conversation: its branches' and its checkpoints'.
HistoriesOf(s) ==
    {s.branches[b] : b \in DOMAIN s.branches}
      \cup {s.checkpoints[c] : c \in DOMAIN s.checkpoints}

(***************************************************************************)
(* No question without its answer, no answer twice: a question kept        *)
(* verbatim is followed by its answer, a message is in the summary or in   *)
(* the transcript and never in both, and whatever was folded away,         *)
(* question and answer are still both accounted for.                       *)
(***************************************************************************)
WholeTurns(h) ==
    /\ \A i \in 1..Len(h.messages) : LET m == h.messages[i] IN
          m.turn \in Turns =>
             /\ m.role = "user" => i < Len(h.messages)
                                   /\ h.messages[i + 1] = AssistantMessage(m.turn)
             /\ m \notin h.summary
             /\ \A j \in 1..Len(h.messages) : h.messages[j] = m => i = j
    /\ \A t \in Turns : Holds(h, UserMessage(t)) <=> Holds(h, AssistantMessage(t))

=============================================================================
