-------------------------- MODULE AgentOverlapMC ---------------------------
(* Requests that overlap, in two instances: two turns of /agent/chat that   *)
(* move a task, with the task's own endpoints; or a turn and a mini-chat    *)
(* question that go on with the conversation, with its branches and memory, *)
(* and no task.                                                             *)
EXTENDS AgentConversationMC

VARIABLE about

aboutVars == <<about, vars>>

AboutInit == about \in {"task", "talk"} /\ Init

\* One of the strategies a request may name, in every copy and on disk.
TaskOnly == conv'.strategy # "layered_memory" /\ \A t \in Runs : active'[t] # "layered_memory"

\* One turn of /agent/chat, and a tracker that proposes nothing.
TalkOnly == pc'[r2] = "new" /\ conv'.task = NoTask

AboutNext ==
    /\ \/ (\E t \in Runs : RunStep(t)) \/ SettingRequest \/ AnyCrash
       \/ about = "task" /\ TaskRequest
       \/ about = "talk" /\ (AskStep(a1) \/ BranchRequest \/ MemoryRequest)
    /\ IF about = "task" THEN TaskOnly ELSE TalkOnly
    /\ UNCHANGED about

AboutSpec == AboutInit /\ [][AboutNext]_aboutVars

=============================================================================
