------------------------------ MODULE TurnsMC ------------------------------
(* The two kinds of requests that wait for somebody else's answer within    *)
(* limits of their own: local chat requests, and turns that use tools.      *)
(* They share no state; a behaviour has those of one kind.                  *)
EXTENDS LocalChat, ToolRun

VARIABLE kind

turnsVars == <<kind, vars, toolRunVars>>

TurnsInit == kind \in {"local chat", "tools"} /\ Init /\ ToolRunInit

LocalChats(move) == kind = "local chat" /\ move /\ UNCHANGED <<kind, toolRunVars>>
UsesTools(move) == kind = "tools" /\ move /\ UNCHANGED <<kind, vars>>

TurnsNext == LocalChats(Next) \/ UsesTools(ToolRunNext)

TurnsSpec ==
    /\ TurnsInit /\ [][TurnsNext]_turnsVars
    /\ \A r \in Requests : WF_turnsVars(LocalChats(Finishes(r)))
    /\ \A t \in Turns : WF_turnsVars(UsesTools(Goes(t)))

\* The three servers of the chain, one tool each.
ThreeServers == <<"japanese-data", "processing", "storage">>
OneToolEach ==
    [s \in {"japanese-data", "processing", "storage"} |->
        CASE s = "japanese-data" -> {"search"}
          [] s = "processing" -> {"summarize"}
          [] s = "storage" -> {"save_to_file"}]

\* Every variable of the two stays in its type.
TurnsTypeOK == TypeOK /\ ToolRunTypeOK

\* Whoever waits gets on: a full service has room again, and a turn that
\* uses tools gets to its answer, whatever the servers do.
NobodyWaitsForEver == RoomAgain /\ TurnsGetOn

=============================================================================
