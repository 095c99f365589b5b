----------------------------- MODULE LocalChat -----------------------------
(***************************************************************************)
(* POST /local-chat, src/app/api/routes/local_llm.py: the guards in front  *)
(* of the model on this machine, and the conversations kept in one file    *)
(* each.                                                                   *)
(*                                                                         *)
(* The handler checks everything, reads the conversation and takes its     *)
(* slot without awaiting, then awaits one generation under a timeout, then *)
(* gives the slot back and saves the turn, again without awaiting.         *)
(*                                                                         *)
(* A turn is two messages that are appended together: it stands in a       *)
(* transcript as the request it answers.  Whether a message is too long or *)
(* too large for the context window is left open here; PromptPlan has the  *)
(* arithmetic.                                                             *)
(***************************************************************************)
EXTENDS RateLimiter

CONSTANTS
    Requests, Conversations, NoConversation,
    MaxConcurrent,      \* LocalChatLimits.max_concurrent
    MaxCrashes          \* bound: crashes

ASSUME LocalChatAssumption ==
    /\ NoConversation \notin Conversations
    /\ MaxConcurrent \in Nat \ {0} /\ MaxCrashes \in Nat
    /\ IsFiniteSet(Requests)

VARIABLES
    pc,                 \* what became of each request
    talk,               \* the conversation it belongs to
    snap,               \* the transcript it read
    active,             \* ConcurrencyGate.active
    busy,               \* LocalChatGuard.busy_conversations
    transcript,         \* conversation -> its file
    answered,           \* conversation -> the requests it answered, in order;
                        \* not in the code
    crashes

chatVars == <<pc, talk, snap, active, busy, transcript, answered, crashes>>
vars == <<chatVars, limiterVars>>

Outcomes == {"answered", "rate_limited", "too_large", "conversation_busy", "busy", "failed"}
Generating == {r \in Requests : pc[r] = "generating"}

Init ==
    /\ LimiterInit
    /\ pc = [r \in Requests |-> "new"]
    /\ talk = [r \in Requests |-> NoConversation]
    /\ snap = [r \in Requests |-> <<>>]
    /\ active = 0 /\ busy = {}
    /\ transcript = [c \in Conversations |-> <<>>]
    /\ answered = [c \in Conversations |-> <<>>]
    /\ crashes = 0

-----------------------------------------------------------------------------
(* The checks, in the order they are made.                                  *)

\* A refusal changes nothing but the limiter.
TurnedAway(r, reason) ==
    /\ pc[r] = "new" /\ pc' = [pc EXCEPT ![r] = reason]
    /\ UNCHANGED <<talk, snap, active, busy, transcript, answered, crashes>>

RateLimited(r) == \E key \in Clients : Refuse(key) /\ TurnedAway(r, "rate_limited")

TooLarge(r) == \E key \in Clients : Grant(key) /\ TurnedAway(r, "too_large")

ConversationBusy(r) ==
    /\ \E key \in Clients : Grant(key)
    /\ \E c \in Conversations : c \in busy
    /\ TurnedAway(r, "conversation_busy")

CanEnter == active < MaxConcurrent

GateBusy(r) ==
    /\ \E key \in Clients : Grant(key)
    /\ \E c \in Conversations \cup {NoConversation} : c \notin busy
    /\ ~CanEnter
    /\ TurnedAway(r, "busy")

\* Mutant: a request without a conversation marks one busy.
StartsMarkingNone(r) ==
    /\ pc[r] = "new" /\ CanEnter
    /\ \E key \in Clients : Grant(key)
    /\ \E c \in (Conversations \cup {NoConversation}) \ busy :
         /\ talk' = [talk EXCEPT ![r] = c]
         /\ snap' = [snap EXCEPT ![r] = IF c = NoConversation THEN <<>> ELSE transcript[c]]
         /\ busy' = busy \cup {c}
    /\ active' = active + 1
    /\ pc' = [pc EXCEPT ![r] = "generating"]
    /\ UNCHANGED <<transcript, answered, crashes>>

\* Mutant: the conversation is not looked up in the busy ones.
StartsRegardless(r) ==
    /\ pc[r] = "new" /\ CanEnter
    /\ \E key \in Clients : Grant(key)
    /\ \E c \in Conversations \cup {NoConversation} :
         /\ talk' = [talk EXCEPT ![r] = c]
         /\ snap' = [snap EXCEPT ![r] = IF c = NoConversation THEN <<>> ELSE transcript[c]]
         /\ busy' = busy \cup ({c} \ {NoConversation})
    /\ active' = active + 1
    /\ pc' = [pc EXCEPT ![r] = "generating"]
    /\ UNCHANGED <<transcript, answered, crashes>>

\* The transcript is read, the slot taken and the conversation marked.
Starts(r) ==
    /\ pc[r] = "new" /\ CanEnter
    /\ \E key \in Clients : Grant(key)
    /\ \E c \in (Conversations \cup {NoConversation}) \ busy :
         /\ talk' = [talk EXCEPT ![r] = c]
         /\ snap' = [snap EXCEPT ![r] = IF c = NoConversation THEN <<>> ELSE transcript[c]]
         /\ busy' = busy \cup ({c} \ {NoConversation})
    /\ active' = active + 1
    /\ pc' = [pc EXCEPT ![r] = "generating"]
    /\ UNCHANGED <<transcript, answered, crashes>>

-----------------------------------------------------------------------------

\* The finally clause: ConcurrencyGate.leave, and the conversation is free.
Leave(r) ==
    /\ active' = IF active = 0 THEN 0 ELSE active - 1
    /\ busy' = busy \ {talk[r]}

\* What a finished request held is dropped.
Done(r, outcome) ==
    /\ pc' = [pc EXCEPT ![r] = outcome]
    /\ talk' = [talk EXCEPT ![r] = NoConversation]
    /\ snap' = [snap EXCEPT ![r] = <<>>]
    /\ UNCHANGED <<crashes, limiterVars>>

\* The transcript that was read, with this turn added, replaces the file.
Answers(r) ==
    /\ pc[r] = "generating"
    /\ Leave(r) /\ Done(r, "answered")
    /\ IF talk[r] = NoConversation THEN UNCHANGED <<transcript, answered>>
       ELSE /\ transcript' = [transcript EXCEPT ![talk[r]] = Append(snap[r], r)]
            /\ answered' = [answered EXCEPT ![talk[r]] = Append(@, r)]

\* Mutant: a slot is given back only with an answer.
GivesUpLeaking(r) ==
    /\ pc[r] = "generating" /\ Done(r, "failed")
    /\ UNCHANGED <<active, busy, transcript, answered>>

\* Ollama said no, or the timeout passed.
GivesUp(r) ==
    /\ pc[r] = "generating"
    /\ Leave(r) /\ Done(r, "failed")
    /\ UNCHANGED <<transcript, answered>>

-----------------------------------------------------------------------------
(* The process dies and is started again with fresh guards.                 *)

Restart ==
    /\ crashes < MaxCrashes /\ crashes' = crashes + 1
    /\ pc' = [r \in Requests |-> IF r \in Generating THEN "failed" ELSE pc[r]]
    /\ talk' = [r \in Requests |-> NoConversation]
    /\ snap' = [r \in Requests |-> <<>>]
    /\ active' = 0 /\ busy' = {}
    /\ seen' = [key \in {} |-> <<>>]
    /\ granted' = [key \in Clients |-> <<>>]
    /\ promised' = [key \in Clients |-> Never]
    /\ UNCHANGED now

Crash == Restart /\ UNCHANGED <<transcript, answered>>

\* While a turn was being saved: the file was truncated already, or whole.
CrashSaving(r) ==
    /\ pc[r] = "generating" /\ talk[r] # NoConversation
    /\ Restart
    /\ \E turns \in {<<>>, Append(snap[r], r)} :
         /\ transcript' = [transcript EXCEPT ![talk[r]] = turns]
         /\ answered' = [answered EXCEPT ![talk[r]] = turns]

-----------------------------------------------------------------------------

Arrives(r) == RateLimited(r) \/ TooLarge(r) \/ ConversationBusy(r) \/ GateBusy(r) \/ Starts(r)
Finishes(r) == Answers(r) \/ GivesUp(r)

Next ==
    \/ \E r \in Requests : Arrives(r) \/ Finishes(r) \/ CrashSaving(r)
    \/ Crash
    \/ Tick /\ UNCHANGED chatVars

Spec == Init /\ [][Next]_vars

\* asyncio.wait_for ends every generation; nothing else is assumed.
FairSpec == Spec /\ \A r \in Requests : WF_vars(Finishes(r))

-----------------------------------------------------------------------------
TypeOK ==
    /\ LimiterTypeOK
    /\ pc \in [Requests -> Outcomes \cup {"new", "generating"}]
    /\ talk \in [Requests -> Conversations \cup {NoConversation}]
    /\ snap \in [Requests -> Seq(Requests)]
    /\ active \in Nat
    /\ busy \subseteq Conversations
    /\ transcript \in [Conversations -> Seq(Requests)]
    /\ answered \in [Conversations -> Seq(Requests)]
    /\ crashes \in 0..MaxCrashes

(***************************************************************************)
(* The counter counts: a slot is in use exactly while a generation runs,   *)
(* so no timeout, error or crash leaks one or gives one back twice, and    *)
(* there are never more than MaxConcurrent generations.                    *)
(***************************************************************************)
SlotsAccounted ==
    /\ active = Cardinality(Generating)
    /\ active <= MaxConcurrent

(***************************************************************************)
(* "A second one for the same conversation is refused rather than allowed  *)
(* to race the first to the file": what a running request read is still    *)
(* what the file holds, and no other request runs in its conversation.     *)
(***************************************************************************)
NoRaceToTheFile ==
    \A r \in Generating : talk[r] # NoConversation =>
        /\ talk[r] \in busy
        /\ snap[r] = transcript[talk[r]]
        /\ \A q \in Generating : talk[q] = talk[r] => q = r

(***************************************************************************)
(* Every turn that was answered is in its conversation, once and in the    *)
(* order the answers were given, unless a crash destroyed the file.        *)
(***************************************************************************)
TranscriptIsAnswers == transcript = answered

\* Nobody is kept out of a conversation that nobody is in.
BusyMeansSomebody == \A c \in busy : \E r \in Generating : talk[r] = c

(***************************************************************************)
(* A service that is full has room again.                                  *)
(***************************************************************************)
RoomAgain == ~CanEnter ~> CanEnter

(***************************************************************************)
(* What a request takes before its generation comes back however that ends *)
(* (the route's finally): no slot leaks, and no conversation is refused as *)
(* busy with nobody in it.                                                 *)
(***************************************************************************)
PlacesAreHeld == SlotsAccounted /\ BusyMeansSomebody

(***************************************************************************)
(* A conversation is one story, although it is read before the generation  *)
(* and written after it: one request at a time, appending to what it read, *)
(* and so every answer in its place.                                       *)
(***************************************************************************)
ConversationsAreWhole == NoRaceToTheFile /\ TranscriptIsAnswers

=============================================================================
