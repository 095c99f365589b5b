------------------------ MODULE AgentConversationMC ------------------------
(* Instances of AgentConversation small enough for TLC.                     *)
EXTENDS AgentConversation

CONSTANTS r1, r2, a1, typed, main, side, c1, p1, p2, n1

MCDialogues == { <<>>, <<[turn |-> typed, role |-> "user"]>> }
NoDialogues == {}

\* Every proposal a tracker could make.
AllEvidence == Updates
NoEvidence == {}

=============================================================================
