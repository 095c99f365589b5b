----------------------------- MODULE PromptPlan -----------------------------
(***************************************************************************)
(* plan_prompt of src/app/services/local_chat_guard.py: which of the       *)
(* earlier messages go into the prompt.  The loop adds them from the       *)
(* newest back; one action is one pass of it.                              *)
(*                                                                         *)
(* A text is how many characters of each kind it has: dense ones, a token  *)
(* each, and others, three to a token.  Every input a history, a message   *)
(* and a budget can make within the bounds is an initial state.            *)
(***************************************************************************)
EXTENDS Integers, Sequences

CONSTANTS
    Texts,              \* the messages there may be: [dense |-> n, other |-> n]
    MaxHistory,         \* bound: how many messages a conversation has
    Contexts,           \* num_ctx, the context window
    Reserve,            \* tokens kept free for the answer
    Recents,            \* LocalChatLimits.recent_messages
    Wrapper,            \* characters _with_history puts around a history
    Label               \* characters format_transcript puts before a message

ASSUME PromptAssumption ==
    /\ MaxHistory \in Nat /\ Recents \subseteq Nat
    /\ Texts \subseteq [dense : Nat, other : Nat] /\ Wrapper \in Nat /\ Label \in Nat
    /\ Contexts \subseteq Int /\ Reserve \in Int

VARIABLES
    message, history, budget, recent,   \* the arguments
    kept,               \* how many of the newest messages are kept so far
    dropped,
    pc
inputs == <<message, history, budget, recent>>
promptVars == <<inputs, kept, dropped, pc>>

\* Rounded up.
Thirds(n) == (n + 2) \div 3

EstimateTokens(text) == text.dense + Thirds(text.other)

\* The newest k messages.
Newest(k) == SubSeq(history, Len(history) - k + 1, Len(history))

Transcript(texts) ==
    LET Total[i \in 0..Len(texts)] ==
          IF i = 0 THEN [dense |-> 0, other |-> 0]
          ELSE [dense |-> Total[i - 1].dense + texts[i].dense,
                other |-> Total[i - 1].other + texts[i].other + Label]
    IN  Total[Len(texts)]

WithHistory(k) ==
    LET before == Transcript(Newest(k)) IN
    [dense |-> before.dense + message.dense,
     other |-> before.other + message.other + Wrapper]

\* The prompt is the bare message when no history goes with it.
Prompt(k) == IF k = 0 THEN message ELSE WithHistory(k)

Candidates == IF recent < Len(history) THEN recent ELSE Len(history)

PromptInit ==
    /\ message \in Texts /\ recent \in Recents
    /\ \E n \in 0..MaxHistory : history \in [1..n -> Texts]
    /\ \E numCtx \in Contexts : budget = numCtx - Reserve
    /\ kept = 0 /\ dropped = 0 /\ pc = "start"

\* ContextTooLarge: refused, never shortened.
TooLarge ==
    /\ pc = "start"
    /\ budget <= 0 \/ EstimateTokens(message) > budget
    /\ pc' = "refused"
    /\ UNCHANGED <<inputs, kept, dropped>>

Begins ==
    /\ pc = "start"
    /\ budget > 0 /\ EstimateTokens(message) <= budget
    /\ dropped' = Len(history) - Candidates
    /\ pc' = "adding"
    /\ UNCHANGED <<inputs, kept>>

\* Mutant: what joins the messages is not counted.
FitsUnwrapped(k) == EstimateTokens(message) + EstimateTokens(Transcript(Newest(k))) <= budget

Fits(k) == EstimateTokens(WithHistory(k)) <= budget

Adds ==
    /\ pc = "adding" /\ kept < Candidates /\ Fits(kept + 1)
    /\ kept' = kept + 1
    /\ UNCHANGED <<inputs, dropped, pc>>

\* The first message that does not fit ends it, and takes the older ones
\* with it.
Stops ==
    /\ pc = "adding" /\ kept < Candidates /\ ~Fits(kept + 1)
    /\ dropped' = dropped + Candidates - kept
    /\ pc' = "planned"
    /\ UNCHANGED <<inputs, kept>>

RunsOut ==
    /\ pc = "adding" /\ kept = Candidates
    /\ pc' = "planned"
    /\ UNCHANGED <<inputs, kept, dropped>>

PromptNext == TooLarge \/ Begins \/ Adds \/ Stops \/ RunsOut
PromptSpec == PromptInit /\ [][PromptNext]_promptVars

-----------------------------------------------------------------------------
(***************************************************************************)
(* "The rest are dropped and counted, never silently": what was used and   *)
(* what was dropped make the whole history.                                *)
(***************************************************************************)
EveryMessageCounted == pc = "planned" => kept + dropped = Len(history)

(***************************************************************************)
(* What is planned fits the budget with the message whole, no longer       *)
(* stretch of the newest messages would, and the rest are counted.         *)
(***************************************************************************)
PlanIsBest ==
    pc = "planned" =>
        /\ EstimateTokens(Prompt(kept)) <= budget
        /\ \A k \in (kept + 1)..Candidates : ~Fits(k)
        /\ EveryMessageCounted

=============================================================================
