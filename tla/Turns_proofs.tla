------------------------------ MODULE Turns_proofs --------------------------
(***************************************************************************)
(* For any number of requests, conversations, slots and crashes: the gate  *)
(* counts right, no two requests race to one file, and a transcript is     *)
(* exactly the answers that were given.                                    *)
(*                                                                         *)
(* The limiter only ever turns requests away, so nothing is assumed of it. *)
(***************************************************************************)
EXTENDS TurnsMC, FiniteSetTheorems, SequenceTheorems,
        WellFoundedInduction, TLAPS


Phases == Outcomes \cup {"new", "generating"}

ChatShape ==
    /\ pc \in [Requests -> Phases]
    /\ talk \in [Requests -> Conversations \cup {NoConversation}]
    /\ DOMAIN snap = Requests
    /\ DOMAIN transcript = Conversations
    /\ answered = transcript

\* Nothing but a generation in the conversation makes it busy.
BusyIsTalk == busy = {talk[r] : r \in Generating} \ {NoConversation}

ChatInv == ChatShape /\ SlotsAccounted /\ BusyIsTalk /\ NoRaceToTheFile

-----------------------------------------------------------------------------

LEMMA GeneratingIsFinite ==
  IsFiniteSet(Generating) /\ Cardinality(Generating) \in Nat
  <1>1. Generating \in SUBSET Requests
    BY DEF Generating
  <1>2. IsFiniteSet(Generating)
    BY <1>1, FS_Subset, LocalChatAssumption
  <1> QED BY <1>2, FS_CardinalityType

\* One request more is generating.
LEMMA OneMore ==
  ASSUME ChatShape, NEW r \in Requests, pc[r] # "generating",
         pc' = [pc EXCEPT ![r] = "generating"]
  PROVE  /\ Generating' = Generating \cup {r}
         /\ Cardinality(Generating') = Cardinality(Generating) + 1
  <1>1. Generating' = Generating \cup {r} /\ r \notin Generating
    BY DEF Generating, ChatShape
  <1> QED BY <1>1, GeneratingIsFinite, FS_AddElement

\* One request less is generating.
LEMMA OneLess ==
  ASSUME ChatShape, NEW r \in Requests, pc[r] = "generating", NEW outcome \in Outcomes,
         pc' = [pc EXCEPT ![r] = outcome]
  PROVE  /\ Generating' = Generating \ {r}
         /\ Cardinality(Generating') = Cardinality(Generating) - 1
         /\ Cardinality(Generating) # 0
  <1>1. Generating' = Generating \ {r} /\ r \in Generating
    BY DEF Generating, ChatShape, Outcomes
  <1>2. Cardinality(Generating) # 0
    BY <1>1, GeneratingIsFinite, FS_EmptySet
  <1> QED BY <1>1, <1>2, GeneratingIsFinite, FS_RemoveElement

LEMMA InitIInv == Init => ChatInv
  <1> SUFFICES ASSUME Init PROVE ChatInv
    OBVIOUS
  <1>1. Generating = {}
    BY DEF Init, Generating
  <1>2. Cardinality(Generating) = 0
    BY <1>1, FS_EmptySet
  <1> QED BY <1>1, <1>2, LocalChatAssumption
          DEF Init, ChatInv, ChatShape, Phases, SlotsAccounted, BusyIsTalk, NoRaceToTheFile

\* A request that is turned away leaves everything to the others.
LEMMA TurnedAwayStep ==
  ASSUME ChatInv, NEW r \in Requests, NEW reason \in Outcomes, TurnedAway(r, reason)
  PROVE  ChatInv'
  <1>1. Generating' = Generating
    BY DEF ChatInv, ChatShape, TurnedAway, Generating, Outcomes
  <1>2. ChatShape'
    BY DEF ChatInv, ChatShape, TurnedAway, Phases
  <1> QED BY <1>1, <1>2 DEF ChatInv, TurnedAway, SlotsAccounted, BusyIsTalk, NoRaceToTheFile

LEMMA StartsStep ==
  ASSUME ChatInv, NEW r \in Requests, Starts(r)
  PROVE  ChatInv'
  <1> USE DEF ChatInv
  <1>1. PICK c \in (Conversations \cup {NoConversation}) \ busy :
           /\ talk' = [talk EXCEPT ![r] = c]
           /\ snap' = [snap EXCEPT ![r] = IF c = NoConversation THEN <<>> ELSE transcript[c]]
           /\ busy' = busy \cup ({c} \ {NoConversation})
    BY DEF Starts
  <1>2. /\ pc[r] # "generating" /\ pc' = [pc EXCEPT ![r] = "generating"]
        /\ active < MaxConcurrent /\ active' = active + 1
        /\ transcript' = transcript /\ answered' = answered
    BY DEF Starts, CanEnter
  <1>3. /\ Generating' = Generating \cup {r} /\ r \notin Generating
        /\ Cardinality(Generating') = Cardinality(Generating) + 1
    BY <1>2, OneMore DEF Generating
  <1>4. ChatShape'
    BY <1>1, <1>2 DEF ChatShape, Phases
  <1>5. SlotsAccounted'
    BY <1>2, <1>3, GeneratingIsFinite, LocalChatAssumption DEF SlotsAccounted
  <1>6. /\ talk'[r] = c
        /\ \A q \in Generating : talk'[q] = talk[q] /\ snap'[q] = snap[q]
    BY <1>1, <1>3 DEF ChatShape, Generating
  <1>7. BusyIsTalk'
    BY <1>1, <1>3, <1>6 DEF BusyIsTalk
  <1>8. ASSUME c # NoConversation, NEW q \in Generating PROVE talk[q] # c
    BY <1>1, <1>8 DEF BusyIsTalk
  <1>9. NoRaceToTheFile'
    <2> SUFFICES ASSUME NEW p \in Generating', talk'[p] # NoConversation
                 PROVE  /\ talk'[p] \in busy' /\ snap'[p] = transcript'[talk'[p]]
                        /\ \A q \in Generating' : talk'[q] = talk'[p] => q = p
      BY DEF NoRaceToTheFile
    <2>1. CASE p = r
      BY <1>1, <1>2, <1>3, <1>6, <1>8, <2>1 DEF ChatShape
    <2>2. CASE p \in Generating
      BY <1>1, <1>2, <1>3, <1>6, <1>8, <2>2 DEF NoRaceToTheFile
    <2> QED BY <1>3, <2>1, <2>2
  <1> QED BY <1>4, <1>5, <1>7, <1>9

\* Whatever ends a generation, if it changes no file but that of its own
\* conversation.
LEMMA EndsStep ==
  ASSUME ChatInv, NEW r \in Requests, NEW outcome \in Outcomes, pc[r] = "generating",
         Leave(r), Done(r, outcome),
         DOMAIN transcript' = Conversations, answered' = transcript',
         \A c \in Conversations \ {talk[r]} : transcript'[c] = transcript[c],
         talk[r] = NoConversation => transcript' = transcript
  PROVE  ChatInv'
  <1> USE DEF ChatInv
  <1>1. /\ Generating' = Generating \ {r} /\ r \in Generating
        /\ Cardinality(Generating') = Cardinality(Generating) - 1
        /\ Cardinality(Generating) # 0
    BY OneLess DEF Done, Generating
  <1>2. ChatShape'
    BY DEF ChatShape, Done, Phases
  <1>3. SlotsAccounted'
    BY <1>1, GeneratingIsFinite, LocalChatAssumption DEF SlotsAccounted, Leave
  <1>4. \A q \in Generating' : talk'[q] = talk[q] /\ snap'[q] = snap[q] /\ q \in Generating /\ q # r
    BY <1>1 DEF Done, ChatShape, Generating
  <1>5. ASSUME NEW q \in Generating', talk[q] # NoConversation PROVE talk[q] # talk[r]
    BY <1>1, <1>4, <1>5 DEF NoRaceToTheFile
  <1>6. BusyIsTalk'
    <2>1. busy' = busy \ {talk[r]}
      BY DEF Leave
    <2> QED BY <1>1, <1>4, <1>5, <2>1 DEF BusyIsTalk
  <1>7. NoRaceToTheFile'
    <2> SUFFICES ASSUME NEW p \in Generating', talk'[p] # NoConversation
                 PROVE  /\ talk'[p] \in busy' /\ snap'[p] = transcript'[talk'[p]]
                        /\ \A q \in Generating' : talk'[q] = talk'[p] => q = p
      BY DEF NoRaceToTheFile
    <2>1. /\ talk[p] \in busy /\ snap[p] = transcript[talk[p]]
          /\ \A q \in Generating : talk[q] = talk[p] => q = p
      BY <1>4 DEF NoRaceToTheFile
    <2>2. talk[p] \in Conversations \ {talk[r]}
      BY <1>4, <1>5 DEF ChatShape, Generating
    <2> QED BY <1>4, <2>1, <2>2 DEF Leave
  <1> QED BY <1>2, <1>3, <1>6, <1>7

LEMMA FinishesStep ==
  ASSUME ChatInv, NEW r \in Requests, Finishes(r)
  PROVE  ChatInv'
  <1>1. CASE GivesUp(r)
    <2>1. /\ pc[r] = "generating" /\ Leave(r) /\ Done(r, "failed")
          /\ transcript' = transcript /\ answered' = answered
      BY <1>1 DEF GivesUp
    <2> QED BY <2>1, EndsStep DEF ChatInv, ChatShape, Outcomes
  <1>2. CASE Answers(r)
    <2>1. pc[r] = "generating" /\ Leave(r) /\ Done(r, "answered")
      BY <1>2 DEF Answers
    <2>2. CASE talk[r] = NoConversation
      <3>1. transcript' = transcript /\ answered' = answered
        BY <1>2, <2>2 DEF Answers
      <3> QED BY <2>1, <3>1, EndsStep DEF ChatInv, ChatShape, Outcomes
    <2>3. CASE talk[r] # NoConversation
      <3>1. /\ transcript' = [transcript EXCEPT ![talk[r]] = Append(snap[r], r)]
            /\ answered' = [answered EXCEPT ![talk[r]] = Append(@, r)]
        BY <1>2, <2>3 DEF Answers
      <3>2. snap[r] = transcript[talk[r]] /\ answered = transcript
        BY <2>1, <2>3 DEF ChatInv, ChatShape, NoRaceToTheFile, Generating
      <3>3. answered' = transcript' /\ DOMAIN transcript' = Conversations
        BY <3>1, <3>2 DEF ChatInv, ChatShape
      <3>4. \A c \in Conversations \ {talk[r]} : transcript'[c] = transcript[c]
        BY <3>1 DEF ChatInv, ChatShape
      <3> QED BY <2>1, <2>3, <3>3, <3>4, EndsStep DEF Outcomes
    <2> QED BY <2>2, <2>3
  <1> QED BY <1>1, <1>2 DEF Finishes

LEMMA RestartStep ==
  ASSUME ChatInv, Restart, DOMAIN transcript' = Conversations, answered' = transcript'
  PROVE  ChatInv'
  <1>1. Generating' = {}
    BY DEF ChatInv, ChatShape, Restart, Generating
  <1>2. Cardinality(Generating') = 0
    BY <1>1, FS_EmptySet
  <1>3. ChatShape'
    BY DEF ChatInv, ChatShape, Restart, Phases, Outcomes, Generating
  <1> QED BY <1>1, <1>2, <1>3, LocalChatAssumption
          DEF ChatInv, Restart, SlotsAccounted, BusyIsTalk, NoRaceToTheFile

LEMMA NextIInv == ChatInv /\ [Next]_vars => ChatInv'
  <1> SUFFICES ASSUME ChatInv, [Next]_vars PROVE ChatInv'
    OBVIOUS
  <1>1. ASSUME NEW r \in Requests, Arrives(r) PROVE ChatInv'
    <2>1. CASE Starts(r)
      BY <2>1, StartsStep
    <2>2. CASE ~Starts(r)
      <3>1. PICK reason \in Outcomes : TurnedAway(r, reason)
        BY <1>1, <2>2 DEF Arrives, RateLimited, TooLarge, ConversationBusy, GateBusy, Outcomes
      <3> QED BY <3>1, TurnedAwayStep
    <2> QED BY <2>1, <2>2
  <1>2. ASSUME NEW r \in Requests, Finishes(r) PROVE ChatInv'
    BY <1>2, FinishesStep
  <1>3. ASSUME NEW r \in Requests, CrashSaving(r) PROVE ChatInv'
    <2>1. PICK turns : /\ transcript' = [transcript EXCEPT ![talk[r]] = turns]
                       /\ answered' = [answered EXCEPT ![talk[r]] = turns]
      BY <1>3 DEF CrashSaving
    <2>2. Restart
      BY <1>3 DEF CrashSaving
    <2> QED BY <2>1, <2>2, RestartStep DEF ChatInv, ChatShape
  <1>4. CASE Crash
    BY <1>4, RestartStep DEF Crash, ChatInv, ChatShape
  <1>5. CASE UNCHANGED chatVars
    BY <1>5 DEF chatVars, ChatInv, ChatShape, SlotsAccounted, BusyIsTalk, NoRaceToTheFile, Generating
  <1> QED BY <1>1, <1>2, <1>3, <1>4, <1>5 DEF Next, vars

LEMMA Inductive == Spec => []ChatInv
  BY InitIInv, NextIInv, PTL DEF Spec

-----------------------------------------------------------------------------

\* The gate counts the generations that run, and there are never too many:
\* no order of answers, timeouts, refusals and crashes leaks a slot.
THEOREM SlotsAreAccounted == Spec => []SlotsAccounted
  <1>1. ChatInv => SlotsAccounted
    BY DEF ChatInv
  <1> QED BY <1>1, Inductive, PTL

\* No two requests of one conversation run at once, and what one has read is
\* what it will append to.
THEOREM NobodyRaces == Spec => []NoRaceToTheFile
  <1>1. ChatInv => NoRaceToTheFile
    BY DEF ChatInv
  <1> QED BY <1>1, Inductive, PTL

\* A conversation's file is the answers that were given in it, in order.
THEOREM TranscriptsAreAnswers == Spec => []TranscriptIsAnswers
  <1>1. ChatInv => TranscriptIsAnswers
    BY DEF ChatInv, ChatShape, TranscriptIsAnswers
  <1> QED BY <1>1, Inductive, PTL

\* A conversation that is refused as busy is one somebody is being answered in.
THEOREM BusyIsSomebody == Spec => []BusyMeansSomebody
  <1>1. ChatInv => BusyMeansSomebody
    BY DEF ChatInv, BusyIsTalk, BusyMeansSomebody
  <1> QED BY <1>1, Inductive, PTL

\* Conversations are whole whatever overlaps, times out or crashes.
THEOREM ConversationsStayWhole == Spec => []ConversationsAreWhole
  BY NobodyRaces, TranscriptsAreAnswers, PTL DEF ConversationsAreWhole

\* What a request takes is given back, once, in every order.
THEOREM PlacesAreGivenBack == Spec => []PlacesAreHeld
  BY SlotsAreAccounted, BusyIsSomebody, PTL DEF PlacesAreHeld


-----------------------------------------------------------------------------
(***************************************************************************)
(* For any number of turns, servers, tools and failures: a server that     *)
(* fails costs only its own tools, what a chain saved is one chain, and,   *)
(* as long as saves do not overlap, the name that was told holds it.       *)
(***************************************************************************)

CallOutcomes == {"ok", "error", "unusable", "unavailable", "notOffered"}

\* The steps that begin with a discovery, and those with a call still ahead.
Discovering == {"tools", "route", "call", "report"}
Ahead == {"route", "call", "calling"}
Steps == {"idle", "calling", "done"} \cup Discovering

RunShape ==
    /\ known \subseteq Names
    /\ asking \in [Turns -> DOMAIN Servers \cup {0}]
    /\ table \in [Turns -> SUBSET Names] /\ trouble \in [Turns -> SUBSET Names]
    /\ step \in [Turns -> Steps]
    /\ chain \in [Turns -> BOOLEAN]
    /\ plan \in [Turns -> Seq(Tools)] /\ results \in [Turns -> Seq(CallOutcomes)]
    /\ \A r \in Turns : asking[r] # 0 => step[r] \in Discovering

\* Results are of the first calls of the plan, and there are none before it.
InPlan(r) ==
    /\ step[r] \in {"idle", "tools"} => results[r] = <<>> /\ ~chain[r]
    /\ Len(results[r]) <= Len(plan[r])
    /\ step[r] \in Ahead => Len(results[r]) < Len(plan[r])

\* A discovery has a server's tools, or the server failed while the turn ran.
Reached(r) ==
    /\ asking[r] # 0 =>
         \A i \in DOMAIN Servers : i < asking[r] => Servers[i] \in known \cup trouble[r]
    /\ step[r] \in Discovering /\ asking[r] = 0 => Names \subseteq table[r] \cup trouble[r]

Blamed(r) ==
    \A i \in DOMAIN results[r] :
        results[r][i] \in {"notOffered", "unavailable"} =>
            \E s \in trouble[r] : plan[r][i] \in Offers[s]

TurnIsRight(r) == InPlan(r) /\ Reached(r) /\ Blamed(r)

\* Only a call of the tool that saves has a file to write.
SavesRight ==
    /\ saving \in [Turns -> Nat]
    /\ \A r \in Turns : saving[r] # 0 => step[r] = "calling" /\ Tool(r) = "save_to_file"

RunInv == RunShape /\ SavesRight /\ \A r \in Turns : TurnIsRight(r)

-----------------------------------------------------------------------------
(* Servers and their order.                                                *)

LEMMA ServersAreNumbered == DOMAIN Servers \subseteq Nat \ {0} /\ \A i \in DOMAIN Servers : Servers[i] \in Names
  BY RegistryAssumption DEF Names

LEMMA LeastIndex ==
  ASSUME NEW left, left \subseteq Nat, left # {}
  PROVE  \E i \in left : \A j \in left : i <= j
  <1> DEFINE Less == {pair \in Nat \X Nat : pair[1] < pair[2]}
  <1>1. IsWellFoundedOn(Less, Nat)
    BY NatLessThanWellFounded DEF OpToRel
  <1>2. PICK i \in left : \A j \in left : <<j, i>> \notin Less
    <2> HIDE DEF Less
    <2> QED BY <1>1, WFMin, Zenon
  <1>3. ASSUME NEW j \in left PROVE i <= j
    <2>1. j < i => <<j, i>> \in Less
      OBVIOUS
    <2> QED BY <1>2, <2>1
  <1> QED BY <1>3

\* The next server to ask is one that was not offered, with none before it.
LEMMA NextIsFirst ==
  ASSUME NEW offered, NEW from \in Nat
  PROVE  LET next == NextToAsk(offered, from)
         IN  /\ next \in DOMAIN Servers \cup {0}
             /\ \A i \in DOMAIN Servers :
                  i >= from /\ (next = 0 \/ i < next) => Servers[i] \in offered
  <1> DEFINE left == {i \in DOMAIN Servers : i >= from /\ Servers[i] \notin offered}
  <1> DEFINE First(k) == k \in left /\ \A j \in left : k <= j
  <1>1. CASE left = {}
    <2>1. NextToAsk(offered, from) = 0
      BY <1>1 DEF NextToAsk
    <2> QED BY <1>1, <2>1
  <1>2. CASE left # {}
    <2>1. left \subseteq Nat
      BY ServersAreNumbered
    <2>2. \E i \in left : \A j \in left : i <= j
      <3> HIDE DEF left
      <3> QED BY <1>2, <2>1, LeastIndex
    <2>3. NextToAsk(offered, from) = CHOOSE i \in left : \A j \in left : i <= j
      BY <1>2 DEF NextToAsk
    <2>4. First(NextToAsk(offered, from))
      <3> HIDE DEF left
      <3> QED BY <2>2, <2>3
    <2>5. NextToAsk(offered, from) \in DOMAIN Servers /\ NextToAsk(offered, from) # 0
      BY <2>4, ServersAreNumbered
    <2>6. ASSUME NEW i \in DOMAIN Servers, i >= from, i < NextToAsk(offered, from)
          PROVE  Servers[i] \in offered
      <3>1. i \in Nat /\ NextToAsk(offered, from) \in Nat
        BY <2>5, ServersAreNumbered
      <3> QED BY <2>4, <2>6, <3>1
    <2> QED BY <2>5, <2>6
  <1> QED BY <1>1, <1>2

\* server_of finds a server whenever one that was offered has the tool.
LEMMA ServerHasTool ==
  ASSUME NEW tool, NEW offered
  PROVE  LET i == ServerOf(tool, offered)
         IN  /\ i # 0 => i \in DOMAIN Servers /\ Servers[i] \in offered /\ tool \in Offers[Servers[i]]
             /\ i = 0 => \A s \in Names : s \in offered => tool \notin Offers[s]
  <1> DEFINE having == {i \in DOMAIN Servers : Servers[i] \in offered /\ tool \in Offers[Servers[i]]}
  <1>1. CASE having = {}
    <2>1. ServerOf(tool, offered) = 0
      BY <1>1 DEF ServerOf
    <2> QED BY <1>1, <2>1 DEF Names
  <1>2. CASE having # {}
    <2>1. having \subseteq Nat
      BY ServersAreNumbered
    <2>2. \E i \in having : \A j \in having : i <= j
      <3> HIDE DEF having
      <3> QED BY <1>2, <2>1, LeastIndex
    <2>3. ServerOf(tool, offered) = CHOOSE i \in having : \A j \in having : i <= j
      BY <1>2 DEF ServerOf
    <2>4. ServerOf(tool, offered) \in having
      <3> HIDE DEF having
      <3> QED BY <2>2, <2>3
    <2> QED BY <2>4, ServersAreNumbered
  <1> QED BY <1>1, <1>2

\* A tool of some server is found as soon as all servers are offered.
LEMMA SomeServerHas ==
  ASSUME NEW tool \in Tools
  PROVE  LET i == ServerOf(tool, Names)
         IN  i # 0 /\ Servers[i] \in Names /\ tool \in Offers[Servers[i]]
  <1>1. PICK s \in Names : tool \in Offers[s]
    BY DEF Tools
  <1>2. ServerOf(tool, Names) # 0
    BY <1>1, ServerHasTool
  <1> QED BY <1>2, ServerHasTool

-----------------------------------------------------------------------------
(* What the steps have in common, and what each leaves of the invariant.   *)

\* A discovery of turn t waits for a server with none missing before it, or
\* has all servers but those in faults.
Reaches(t, servers, faults) ==
    /\ asking'[t] # 0 =>
         \A i \in DOMAIN Servers : i < asking'[t] => Servers[i] \in servers \cup faults
    /\ asking'[t] = 0 => Names \subseteq table'[t] \cup faults

\* Nobody else's discovery moves.
OnlyAsks(t) ==
    /\ asking' \in [Turns -> DOMAIN Servers \cup {0}] /\ table' \in [Turns -> SUBSET Names]
    /\ \A q \in Turns : q # t => asking'[q] = asking[q] /\ table'[q] = table[q]

LEMMA DiscoveryReaches ==
  ASSUME RunShape, NEW t \in Turns, NEW offered \in SUBSET Names, NEW from \in Nat, NEW faults,
         \A i \in DOMAIN Servers : i < from => Servers[i] \in offered \cup faults,
         Discover(t, offered, from)
  PROVE  OnlyAsks(t) /\ Reaches(t, offered, faults)
  <1> DEFINE next == NextToAsk(offered, from)
  <1>1. /\ next \in DOMAIN Servers \cup {0}
        /\ \A i \in DOMAIN Servers : i >= from /\ (next = 0 \/ i < next) => Servers[i] \in offered
    BY NextIsFirst
  <1>2. /\ asking' = [asking EXCEPT ![t] = next]
        /\ table' = IF next = 0 THEN [table EXCEPT ![t] = offered] ELSE table
    BY DEF Discover
  <1>3. \A i \in DOMAIN Servers : next = 0 \/ i < next => Servers[i] \in offered \cup faults
    <2>1. SUFFICES ASSUME NEW i \in DOMAIN Servers, next = 0 \/ i < next, ~(i < from)
                   PROVE  Servers[i] \in offered
      OBVIOUS
    <2>2. i >= from
      BY <2>1, ServersAreNumbered
    <2> QED BY <1>1, <2>1, <2>2
  <1>4. asking'[t] = next /\ (next = 0 => table'[t] = offered)
    BY <1>2 DEF RunShape
  <1>5. OnlyAsks(t)
    <2> HIDE DEF next
    <2> QED BY <1>1, <1>2 DEF RunShape, OnlyAsks
  <1> HIDE DEF next
  <1> QED BY <1>3, <1>4, <1>5 DEF Reaches, Names

\* From the beginning, nothing comes before.
LEMMA GoingOnReaches ==
  ASSUME RunShape, NEW t \in Turns, NEW what \in Discovering, NEW offered \in SUBSET Names,
         NEW faults, GoesOn(t, what, offered)
  PROVE  /\ OnlyAsks(t) /\ Reaches(t, offered, faults)
         /\ step' = [step EXCEPT ![t] = what]
  <1>1. Discover(t, offered, 1) /\ step' = [step EXCEPT ![t] = what]
    BY DEF GoesOn
  <1>2. \A i \in DOMAIN Servers : ~(i < 1)
    BY ServersAreNumbered
  <1> QED BY <1>1, <1>2, DiscoveryReaches

\* What a turn is to others: no server is forgotten that did not fail them.
Spares(t) ==
    /\ \A q \in Turns : trouble[q] \subseteq trouble'[q] \/ q = t
    /\ \A q \in Turns : known \subseteq known' \cup trouble'[q] \/ q = t
    /\ \A q \in Turns : q # t =>
         /\ step'[q] = step[q] /\ plan'[q] = plan[q]
         /\ results'[q] = results[q] /\ chain'[q] = chain[q]

LEMMA OthersStayRight ==
  ASSUME NEW t \in Turns, NEW q \in Turns, q # t, TurnIsRight(q), OnlyAsks(t), Spares(t)
  PROVE  TurnIsRight(q)'
  <1>1. /\ step'[q] = step[q] /\ plan'[q] = plan[q] /\ results'[q] = results[q] /\ chain'[q] = chain[q]
        /\ asking'[q] = asking[q] /\ table'[q] = table[q]
        /\ trouble[q] \subseteq trouble'[q] /\ known \subseteq known' \cup trouble'[q]
    BY DEF OnlyAsks, Spares
  <1>2. InPlan(q)'
    BY <1>1 DEF TurnIsRight, InPlan
  <1>3. Reached(q)'
    BY <1>1 DEF TurnIsRight, Reached
  <1>4. Blamed(q)'
    BY <1>1 DEF TurnIsRight, Blamed
  <1> QED BY <1>2, <1>3, <1>4 DEF TurnIsRight

\* What a step of turn t has to show.
Lands(t) == RunShape' /\ TurnIsRight(t)' /\ OnlyAsks(t) /\ Spares(t)

\* A call that is recorded: one more result, and the next call, or none.
LEMMA RecordedLands ==
  ASSUME RunInv, NEW t \in Turns, step[t] \in {"call", "calling"}, asking[t] = 0,
         NEW how \in CallOutcomes, Recorded(t, how, known'),
         known' \subseteq Names, trouble' \in [Turns -> SUBSET Names],
         \A q \in Turns : trouble[q] \subseteq trouble'[q] /\ known \subseteq known' \cup trouble'[q],
         how \in {"notOffered", "unavailable"} => \E s \in trouble'[t] : Tool(t) \in Offers[s],
         chain' = chain, plan' = plan
  PROVE  Lands(t)
  <1> USE DEF RunInv
  <1>0. /\ InPlan(t) /\ Blamed(t) /\ Len(results[t]) < Len(plan[t])
        /\ results[t] \in Seq(CallOutcomes) /\ plan[t] \in Seq(Tools) /\ chain[t] \in BOOLEAN
    BY DEF RunShape, TurnIsRight, InPlan, Ahead
  <1>1. results' = [results EXCEPT ![t] = Append(@, how)]
    BY DEF Recorded
  <1>2. /\ results' \in [Turns -> Seq(CallOutcomes)]
        /\ results'[t] = Append(results[t], how)
        /\ Len(results'[t]) = Len(results[t]) + 1
        /\ \A q \in Turns : q # t => results'[q] = results[q]
    BY <1>1 DEF RunShape
  <1>3. /\ OnlyAsks(t)
        /\ \/ step' = [step EXCEPT ![t] = "done"] /\ asking' = asking
           \/ /\ Reaches(t, known', trouble'[t])
              /\ \E what \in {"route", "call", "report"} :
                    /\ step' = [step EXCEPT ![t] = what]
                    /\ what # "report" => Len(results[t]) + 1 # Len(plan[t])
    <2>1. CASE chain[t] /\ (Stops(how) \/ Last(t))
      <3>1. Ends(t)
        BY <2>1 DEF Recorded
      <3> QED BY <3>1 DEF Ends, OnlyAsks, RunShape
    <2>2. CASE ~(chain[t] /\ (Stops(how) \/ Last(t)))
      <3> DEFINE what == IF chain[t] THEN "route" ELSE IF Last(t) THEN "report" ELSE "call"
      <3>1. GoesOn(t, what, known')
        BY <2>2 DEF Recorded
      <3>2. what \in {"route", "call", "report"} /\ (what # "report" => Len(results[t]) + 1 # Len(plan[t]))
        BY <2>2 DEF Last
      <3> HIDE DEF what
      <3>3. RunShape /\ what \in Discovering /\ known' \in SUBSET Names
        BY <3>2 DEF Discovering
      <3>4. OnlyAsks(t) /\ Reaches(t, known', trouble'[t]) /\ step' = [step EXCEPT ![t] = what]
        BY <3>1, <3>3, GoingOnReaches
      <3> QED BY <3>2, <3>4
    <2> QED BY <2>1, <2>2
  <1>4. /\ step' \in [Turns -> Steps]
        /\ step'[t] \in {"done", "route", "call", "report"}
        /\ asking'[t] # 0 => step'[t] \in Discovering
        /\ step'[t] \in Ahead => Len(results[t]) + 1 # Len(plan[t])
        /\ step'[t] \in Discovering => Reaches(t, known', trouble'[t])
        /\ \A q \in Turns : q # t => step'[q] = step[q]
    BY <1>3 DEF RunShape, Steps, Discovering, Ahead, OnlyAsks
  <1>5. RunShape'
    BY <1>2, <1>3, <1>4 DEF RunShape, OnlyAsks
  <1>6. InPlan(t)'
    BY <1>0, <1>2, <1>4 DEF InPlan
  <1>7. Reached(t)'
    BY <1>3, <1>4, <1>5 DEF Reached, Reaches, RunShape
  <1>8. Blamed(t)'
    <2>1. SUFFICES ASSUME NEW i \in DOMAIN results'[t], results'[t][i] \in {"notOffered", "unavailable"}
                   PROVE  \E s \in trouble'[t] : plan'[t][i] \in Offers[s]
      BY DEF Blamed
    <2>2. CASE i \in DOMAIN results[t]
      <3>1. results'[t][i] = results[t][i]
        BY <1>0, <1>2, <2>2
      <3> QED BY <1>0, <2>1, <2>2, <3>1 DEF Blamed
    <2>3. CASE i \notin DOMAIN results[t]
      <3>1. i = Len(results[t]) + 1 /\ results'[t][i] = how
        BY <1>0, <1>2, <2>1, <2>3
      <3> QED BY <2>1, <3>1 DEF Tool
    <2> QED BY <2>2, <2>3
  <1>9. Spares(t)
    BY <1>2, <1>4 DEF Spares
  <1> QED BY <1>3, <1>5, <1>6, <1>7, <1>8, <1>9 DEF Lands, TurnIsRight

\* A turn that goes on without a call: its results stay what they are.
LEMMA GoingOnLands ==
  ASSUME RunInv, NEW t \in Turns, NEW what \in Discovering, GoesOn(t, what, known),
         known' = known, results' = results,
         chain' \in [Turns -> BOOLEAN], plan' \in [Turns -> Seq(Tools)], trouble' \in [Turns -> SUBSET Names],
         \A q \in Turns : q # t => chain'[q] = chain[q] /\ plan'[q] = plan[q] /\ trouble'[q] = trouble[q],
         results[t] = <<>> \/ (plan' = plan /\ trouble' = trouble),
         what = "tools" => results[t] = <<>> /\ ~chain'[t],
         Len(results[t]) <= Len(plan'[t]), what \in Ahead => Len(results[t]) < Len(plan'[t])
  PROVE  Lands(t)
  <1>1. RunShape /\ TurnIsRight(t) /\ known \in SUBSET Names
    BY DEF RunInv, RunShape
  <1>2. OnlyAsks(t) /\ Reaches(t, known, trouble'[t]) /\ step' = [step EXCEPT ![t] = what]
    BY <1>1, GoingOnReaches
  <1>3. /\ step' \in [Turns -> Steps] /\ step'[t] = what /\ \A q \in Turns : q # t => step'[q] = step[q]
    BY <1>1, <1>2 DEF RunShape, Steps
  <1>4. RunShape'
    BY <1>1, <1>2, <1>3 DEF RunShape, OnlyAsks
  <1>5. InPlan(t)'
    BY <1>1, <1>3 DEF InPlan, Discovering
  <1>6. Reached(t)'
    BY <1>2 DEF Reached, Reaches
  <1>7. Blamed(t)'
    <2>1. CASE results[t] = <<>>
      BY <2>1 DEF Blamed
    <2>2. CASE plan' = plan /\ trouble' = trouble
      BY <1>1, <2>2 DEF Blamed, TurnIsRight
    <2> QED BY <2>1, <2>2
  <1>8. Spares(t)
    BY <1>3 DEF Spares
  <1> QED BY <1>2, <1>4, <1>5, <1>6, <1>7, <1>8 DEF Lands, TurnIsRight

\* A turn that ends, for which nothing more is looked up.
LEMMA EndingLands ==
  ASSUME RunInv, NEW t \in Turns, asking[t] = 0, Ends(t),
         UNCHANGED <<known, trouble, chain, plan, results>>
  PROVE  Lands(t)
  <1>1. RunShape /\ TurnIsRight(t)
    BY DEF RunInv
  <1>2. /\ step' = [step EXCEPT ![t] = "done"] /\ table' = [table EXCEPT ![t] = {}] /\ asking' = asking
    BY DEF Ends
  <1>3. OnlyAsks(t)
    BY <1>1, <1>2 DEF OnlyAsks, RunShape
  <1>4. step' \in [Turns -> Steps] /\ step'[t] = "done" /\ \A q \in Turns : q # t => step'[q] = step[q]
    BY <1>1, <1>2 DEF RunShape, Steps
  <1>5. RunShape'
    BY <1>1, <1>2, <1>3, <1>4 DEF RunShape, OnlyAsks
  <1>6. InPlan(t)' /\ Reached(t)' /\ Blamed(t)'
    BY <1>1, <1>2, <1>4 DEF TurnIsRight, InPlan, Reached, Blamed, Ahead, Discovering
  <1>7. Spares(t)
    BY <1>4 DEF Spares
  <1> QED BY <1>3, <1>5, <1>6, <1>7 DEF Lands, TurnIsRight

-----------------------------------------------------------------------------
(* The steps of a turn.                                                    *)

LEMMA BeginsLands ==
  ASSUME RunInv, NEW t \in Turns, Begins(t)
  PROVE  Lands(t)
  <1>1. RunShape /\ InPlan(t)
    BY DEF RunInv, TurnIsRight
  <1>2. /\ GoesOn(t, "tools", known) /\ trouble' = [trouble EXCEPT ![t] = {}]
        /\ UNCHANGED <<known, chain, plan, results>>
    BY DEF Begins
  <1>3. results[t] = <<>> /\ ~chain[t] /\ Len(results[t]) <= Len(plan[t])
    BY <1>1 DEF Begins, InPlan
  <1>4. /\ trouble' \in [Turns -> SUBSET Names] /\ \A q \in Turns : q # t => trouble'[q] = trouble[q]
    BY <1>1, <1>2 DEF RunShape
  <1>5. chain' \in [Turns -> BOOLEAN] /\ plan' \in [Turns -> Seq(Tools)]
    BY <1>1, <1>2 DEF RunShape
  <1>6. "tools" \in Discovering /\ "tools" \notin Ahead
    BY DEF Discovering, Ahead
  <1>7. known' = known /\ chain' = chain /\ plan' = plan /\ results' = results
    BY <1>2
  <1>8. ~chain'[t] /\ Len(results[t]) <= Len(plan'[t])
    BY <1>3, <1>7
  <1>9. \A q \in Turns : q # t => chain'[q] = chain[q] /\ plan'[q] = plan[q] /\ trouble'[q] = trouble[q]
    BY <1>4, <1>7
  <1>10. results[t] = <<>> \/ (plan' = plan /\ trouble' = trouble)
    BY <1>3
  <1> QED
    <2> DEFINE what == "tools"
    <2>1. /\ what \in Discovering /\ GoesOn(t, what, known)
          /\ what = "tools" => results[t] = <<>> /\ ~chain'[t]
          /\ what \in Ahead => Len(results[t]) < Len(plan'[t])
      BY <1>2, <1>3, <1>6, <1>8
    <2> HIDE DEF what
    <2> QED BY <1>4, <1>5, <1>7, <1>8, <1>9, <1>10, <2>1, GoingOnLands

LEMMA ListedLands ==
  ASSUME RunInv, NEW t \in Turns, RequestListed(t)
  PROVE  Lands(t)
  <1>1. RunShape /\ TurnIsRight(t)
    BY DEF RunInv
  <1>2. /\ asking[t] # 0 /\ known' = known \cup {Servers[asking[t]]}
        /\ Discover(t, known', asking[t] + 1)
        /\ UNCHANGED <<trouble, step, chain, plan, results>>
    BY DEF RequestListed, Listed, turnVars
  <1>3. asking[t] \in DOMAIN Servers /\ asking[t] \in Nat /\ known' \in SUBSET Names
    BY <1>1, <1>2, ServersAreNumbered DEF RunShape
  <1>4. ASSUME NEW i \in DOMAIN Servers, i < asking[t] + 1
        PROVE  Servers[i] \in known' \cup trouble[t]
    <2>1. i \in Nat
      BY ServersAreNumbered
    <2>2. CASE i = asking[t]
      BY <1>2, <2>2
    <2>3. CASE i # asking[t]
      BY <1>1, <1>2, <1>3, <1>4, <2>1, <2>3 DEF TurnIsRight, Reached
    <2> QED BY <2>2, <2>3
  <1>5. OnlyAsks(t) /\ Reaches(t, known', trouble[t])
    <2>1. asking[t] + 1 \in Nat
      BY <1>3
    <2> QED BY <1>1, <1>2, <1>3, <1>4, <2>1, DiscoveryReaches
  <1>6. step[t] \in Discovering
    BY <1>1, <1>2 DEF RunShape
  <1>7. RunShape'
    BY <1>1, <1>2, <1>3, <1>5, <1>6 DEF RunShape, OnlyAsks
  <1>8. InPlan(t)' /\ Reached(t)' /\ Blamed(t)'
    BY <1>1, <1>2, <1>5 DEF TurnIsRight, InPlan, Reached, Blamed, Reaches
  <1>9. Spares(t)
    BY <1>2 DEF Spares
  <1> QED BY <1>5, <1>7, <1>8, <1>9 DEF Lands, TurnIsRight

LEMMA NotListedLands ==
  ASSUME RunInv, NEW t \in Turns, RequestNotListed(t)
  PROVE  Lands(t)
  <1>1. RunShape /\ TurnIsRight(t)
    BY DEF RunInv
  <1>2. /\ asking[t] # 0 /\ Failing(Servers[asking[t]])
        /\ Discover(t, known, asking[t] + 1)
        /\ UNCHANGED <<known, step, chain, plan, results>>
    BY DEF RequestNotListed, NotListed, turnVars
  <1>3. asking[t] \in DOMAIN Servers /\ asking[t] \in Nat /\ known \in SUBSET Names
        /\ Servers[asking[t]] \in Names
    BY <1>1, <1>2, ServersAreNumbered DEF RunShape
  <1>4. /\ trouble' \in [Turns -> SUBSET Names]
        /\ \A q \in Turns : trouble'[q] = trouble[q] \cup {Servers[asking[t]]}
    BY <1>1, <1>2, <1>3 DEF Failing, RunShape
  <1>5. ASSUME NEW i \in DOMAIN Servers, i < asking[t] + 1
        PROVE  Servers[i] \in known \cup trouble'[t]
    <2>1. i \in Nat
      BY ServersAreNumbered
    <2>2. CASE i = asking[t]
      BY <1>4, <2>2
    <2>3. CASE i # asking[t]
      BY <1>1, <1>2, <1>3, <1>4, <1>5, <2>1, <2>3 DEF TurnIsRight, Reached
    <2> QED BY <2>2, <2>3
  <1>6. OnlyAsks(t) /\ Reaches(t, known, trouble'[t])
    BY <1>1, <1>2, <1>3, <1>5, DiscoveryReaches
  <1>7. step[t] \in Discovering
    BY <1>1, <1>2 DEF RunShape
  <1>8. RunShape'
    BY <1>1, <1>2, <1>4, <1>6, <1>7 DEF RunShape, OnlyAsks
  <1>9. InPlan(t)' /\ Reached(t)' /\ Blamed(t)'
    BY <1>1, <1>2, <1>4, <1>6 DEF TurnIsRight, InPlan, Reached, Blamed, Reaches
  <1>10. Spares(t)
    BY <1>2, <1>4 DEF Spares
  <1> QED BY <1>6, <1>8, <1>9, <1>10 DEF Lands, TurnIsRight

\* A plan is made once the tools are listed, when there are no results yet.
LEMMA PlanningLands ==
  ASSUME RunInv, NEW t \in Turns, step[t] = "tools", NEW what \in {"route", "call"}, GoesOn(t, what, known),
         NEW calls \in Seq(Tools), calls # <<>>, plan' = [plan EXCEPT ![t] = calls],
         NEW whole \in BOOLEAN, chain' = [chain EXCEPT ![t] = whole],
         UNCHANGED <<known, trouble, results>>
  PROVE  Lands(t)
  <1>1. RunShape /\ results[t] = <<>>
    BY DEF RunInv, TurnIsRight, InPlan
  <1>2. /\ plan' \in [Turns -> Seq(Tools)] /\ plan'[t] = calls
        /\ chain' \in [Turns -> BOOLEAN] /\ trouble' \in [Turns -> SUBSET Names]
        /\ \A q \in Turns : q # t => plan'[q] = plan[q] /\ chain'[q] = chain[q] /\ trouble'[q] = trouble[q]
    BY <1>1 DEF RunShape
  <1>3. Len(results[t]) = 0
    BY <1>1
  <1>4. Len(calls) > 0
    BY EmptySeq
  <1>5. known' = known /\ results' = results /\ what \in Discovering /\ what # "tools"
    BY DEF Discovering
  <1>6. Len(results[t]) <= Len(plan'[t]) /\ Len(results[t]) < Len(plan'[t])
    BY <1>2, <1>3, <1>4
  <1> QED BY <1>1, <1>2, <1>5, <1>6, GoingOnLands

LEMMA StagesAreTools == Stages \in Seq(Tools) /\ Len(Stages) = 3
  <1>1. Len(Stages) = 3 /\ DOMAIN Stages = 1..3
    BY DEF Stages
  <1>2. \A i \in 1..3 : Stages[i] \in Tools
    BY <1>1, ToolAssumption
  <1>3. Stages[1] = "search" /\ Stages[2] = "summarize" /\ Stages[3] = "save_to_file"
    BY DEF Stages
  <1>4. "search" \in Tools /\ "summarize" \in Tools /\ "save_to_file" \in Tools
    BY <1>2, <1>3
  <1> QED BY <1>1, <1>4 DEF Stages

LEMMA PlansChainLands ==
  ASSUME RunInv, NEW t \in Turns, PlansChain(t)
  PROVE  Lands(t)
  <1>1. /\ step[t] = "tools" /\ GoesOn(t, "route", known) /\ chain' = [chain EXCEPT ![t] = TRUE]
        /\ UNCHANGED <<known, trouble, results>>
    BY DEF PlansChain, Found
  <1>2. PICK furthest \in 2..Len(Stages) : plan' = [plan EXCEPT ![t] = SubSeq(Stages, 1, furthest)]
    BY DEF PlansChain
  <1>3. furthest \in Int /\ 2 <= furthest /\ furthest <= 3
    BY StagesAreTools
  <1>4. \A i \in 1..furthest : Stages[i] \in Tools
    <2>1. ASSUME NEW i \in 1..furthest PROVE i \in 1..Len(Stages)
      BY <1>3, StagesAreTools
    <2>2. \A i \in 1..Len(Stages) : Stages[i] \in Tools
      BY StagesAreTools, ElementOfSeq
    <2> QED BY <2>1, <2>2
  <1>5. /\ SubSeq(Stages, 1, furthest) \in Seq(Tools)
        /\ Len(SubSeq(Stages, 1, furthest)) = furthest
    BY <1>3, <1>4, SubSeqProperties
  <1>6. SubSeq(Stages, 1, furthest) # <<>>
    BY <1>3, <1>5
  <1> QED BY <1>1, <1>2, <1>5, <1>6, PlanningLands

LEMMA PlansCallsLands ==
  ASSUME RunInv, NEW t \in Turns, PlansCalls(t)
  PROVE  Lands(t)
  <1>1. /\ step[t] = "tools" /\ GoesOn(t, "call", known) /\ UNCHANGED <<known, trouble, results, chain>>
    BY DEF PlansCalls, Found
  <1>2. PICK n \in 1..MaxCalls : \E calls \in [1..n -> Called] : plan' = [plan EXCEPT ![t] = calls]
    BY DEF PlansCalls
  <1>3. PICK calls \in [1..n -> Called] : plan' = [plan EXCEPT ![t] = calls]
    BY <1>2
  <1>4. n \in Nat \ {0} /\ Called \subseteq Tools
    BY ToolAssumption
  <1>5. calls \in Seq(Tools) /\ Len(calls) = n
    BY <1>3, <1>4
  <1>6. calls # <<>>
    BY <1>4, <1>5
  <1>7. chain[t] \in BOOLEAN /\ chain' = [chain EXCEPT ![t] = chain[t]]
    BY <1>1 DEF RunInv, RunShape
  <1> QED BY <1>1, <1>3, <1>5, <1>6, <1>7, PlanningLands

LEMMA RoutesLands ==
  ASSUME RunInv, NEW t \in Turns, Routes(t)
  PROVE  Lands(t)
  <1>1. /\ step[t] = "route" /\ GoesOn(t, "call", known)
        /\ known' = known /\ trouble' = trouble /\ chain' = chain /\ plan' = plan /\ results' = results
    BY DEF Routes, Found
  <1>2. RunShape /\ InPlan(t) /\ "call" \in Discovering
    BY DEF RunInv, TurnIsRight, Discovering
  <1>3. Len(results[t]) < Len(plan'[t]) /\ Len(results[t]) <= Len(plan'[t])
    BY <1>1, <1>2 DEF InPlan, Ahead
  <1>4. /\ chain' \in [Turns -> BOOLEAN] /\ plan' \in [Turns -> Seq(Tools)]
        /\ trouble' \in [Turns -> SUBSET Names]
    BY <1>1, <1>2 DEF RunShape
  <1> QED BY <1>1, <1>2, <1>3, <1>4, GoingOnLands

LEMMA SendsLands ==
  ASSUME RunInv, NEW t \in Turns, Sends(t)
  PROVE  Lands(t)
  <1>1. /\ step[t] = "call" /\ asking[t] = 0
        /\ step' = [step EXCEPT ![t] = "calling"] /\ table' = [table EXCEPT ![t] = {}]
        /\ UNCHANGED <<known, asking, trouble, chain, plan, results>>
    BY DEF Sends, Found
  <1>2. RunShape /\ TurnIsRight(t)
    BY DEF RunInv
  <1>3. OnlyAsks(t)
    BY <1>1, <1>2 DEF OnlyAsks, RunShape
  <1>4. step' \in [Turns -> Steps] /\ step'[t] = "calling" /\ \A q \in Turns : q # t => step'[q] = step[q]
    BY <1>1, <1>2 DEF RunShape, Steps
  <1>5. RunShape'
    BY <1>1, <1>2, <1>3, <1>4 DEF RunShape, OnlyAsks
  <1>6. InPlan(t)' /\ Reached(t)' /\ Blamed(t)'
    BY <1>1, <1>2, <1>4 DEF TurnIsRight, InPlan, Reached, Blamed, Ahead, Discovering
  <1>7. Spares(t)
    BY <1>1, <1>4 DEF Spares
  <1> QED BY <1>3, <1>5, <1>6, <1>7 DEF Lands, TurnIsRight

\* A tool that is called for is one that some server has.
LEMMA ToolIsOffered ==
  ASSUME RunInv, NEW t \in Turns, step[t] \in Ahead
  PROVE  Tool(t) \in Tools
  <1>1. /\ plan[t] \in Seq(Tools) /\ results[t] \in Seq(CallOutcomes)
        /\ Len(results[t]) < Len(plan[t])
    BY DEF RunInv, RunShape, TurnIsRight, InPlan
  <1> QED BY <1>1 DEF Tool

LEMMA NotOfferedLands ==
  ASSUME RunInv, NEW t \in Turns, NotOffered(t)
  PROVE  Lands(t)
  <1>1. /\ step[t] = "call" /\ asking[t] = 0 /\ ServerOf(Tool(t), table[t]) = 0
        /\ Recorded(t, "notOffered", known) /\ known' = known /\ trouble' = trouble
        /\ chain' = chain /\ plan' = plan
    BY DEF NotOffered, Found
  <1>2. RunShape /\ Reached(t)
    BY DEF RunInv, TurnIsRight
  <1>3. Tool(t) \in Tools
    BY <1>1, ToolIsOffered DEF Ahead
  <1>4. PICK s \in Names : Tool(t) \in Offers[s]
    BY <1>3 DEF Tools
  <1>5. s \notin table[t]
    BY <1>1, <1>4, ServerHasTool
  <1>6. s \in trouble[t]
    BY <1>1, <1>2, <1>5 DEF Reached, Discovering
  <1>7. known' \subseteq Names /\ trouble' \in [Turns -> SUBSET Names] /\ Recorded(t, "notOffered", known')
    BY <1>1, <1>2 DEF RunShape
  <1>8. \E bad \in trouble'[t] : Tool(t) \in Offers[bad]
    BY <1>1, <1>4, <1>6
  <1>9. "notOffered" \in CallOutcomes
    BY DEF CallOutcomes
  <1> QED BY <1>1, <1>7, <1>8, <1>9, RecordedLands

\* No discovery is open while a tool is called.
LEMMA CallingAsksNobody ==
  ASSUME RunInv, NEW t \in Turns, step[t] = "calling"
  PROVE  asking[t] = 0
  BY DEF RunInv, RunShape, Discovering

LEMMA CutOffLands ==
  ASSUME RunInv, NEW t \in Turns, CutOff(t)
  PROVE  Lands(t)
  <1>1. /\ step[t] = "calling" /\ Failing(Calling(t)) /\ known' = Forgets(Calling(t))
        /\ Recorded(t, "unavailable", known') /\ chain' = chain /\ plan' = plan
    BY DEF CutOff
  <1>2. RunShape
    BY DEF RunInv
  <1>3. Tool(t) \in Tools
    BY <1>1, ToolIsOffered DEF Ahead
  <1>4. Calling(t) \in Names /\ Tool(t) \in Offers[Calling(t)]
    BY <1>3, SomeServerHas DEF Calling
  <1>5. /\ trouble' \in [Turns -> SUBSET Names]
        /\ \A q \in Turns : trouble'[q] = trouble[q] \cup {Calling(t)}
    BY <1>1, <1>2, <1>4 DEF Failing, RunShape
  <1>6. known' \subseteq Names /\ \A q \in Turns : known \subseteq known' \cup trouble'[q]
    BY <1>1, <1>2, <1>5 DEF Forgets, RunShape
  <1>7. "unavailable" \in CallOutcomes /\ asking[t] = 0
    BY <1>1, CallingAsksNobody DEF CallOutcomes
  <1>8. \E bad \in trouble'[t] : Tool(t) \in Offers[bad]
    BY <1>4, <1>5
  <1>9. \A q \in Turns : trouble[q] \subseteq trouble'[q] /\ known \subseteq known' \cup trouble'[q]
    BY <1>5, <1>6
  <1> QED BY <1>1, <1>5, <1>6, <1>7, <1>8, <1>9, RecordedLands

\* A tool that answers, whatever it says.
LEMMA AnsweredLands ==
  ASSUME RunInv, NEW t \in Turns, step[t] = "calling",
         NEW how \in {"ok", "error", "unusable"}, Recorded(t, how, known),
         UNCHANGED <<known, trouble, chain, plan>>
  PROVE  Lands(t)
  <1>1. /\ known' = known /\ trouble' = trouble /\ chain' = chain /\ plan' = plan
        /\ known' \subseteq Names /\ trouble' \in [Turns -> SUBSET Names]
    BY DEF RunInv, RunShape
  <1>2. asking[t] = 0 /\ how \in CallOutcomes /\ how \notin {"notOffered", "unavailable"}
    BY CallingAsksNobody DEF CallOutcomes
  <1>3. Recorded(t, how, known')
    BY <1>1
  <1> QED BY <1>1, <1>2, <1>3, RecordedLands

\* A save that goes on is nobody else's business.
LEMMA SavingLands ==
  ASSUME RunInv, NEW t \in Turns,
         UNCHANGED <<known, asking, table, trouble, step, chain, plan, results>>
  PROVE  Lands(t)
  <1>1. RunShape' /\ TurnIsRight(t)'
    BY DEF RunInv, RunShape, TurnIsRight, InPlan, Reached, Blamed
  <1>2. OnlyAsks(t) /\ Spares(t)
    BY DEF RunInv, RunShape, OnlyAsks, Spares
  <1> QED BY <1>1, <1>2 DEF Lands

LEMMA StepLands ==
  ASSUME RunInv, NEW t \in Turns, Begins(t) \/ Goes(t)
  PROVE  Lands(t)
  <1>1. CASE Begins(t)
    BY <1>1, BeginsLands
  <1>2. CASE RequestListed(t) \/ RequestNotListed(t)
    BY <1>2, ListedLands, NotListedLands
  <1>3. CASE WithoutTools(t) \/ Reports(t)
    BY <1>3, EndingLands DEF WithoutTools, Reports, Found
  <1>4. CASE PlansChain(t) \/ PlansCalls(t)
    BY <1>4, PlansChainLands, PlansCallsLands
  <1>5. CASE Routes(t) \/ Sends(t)
    BY <1>5, RoutesLands, SendsLands
  <1>6. CASE NotOffered(t) \/ CutOff(t)
    BY <1>6, NotOfferedLands, CutOffLands
  <1>7. CASE ReportsError(t)
    BY <1>7, AnsweredLands DEF ReportsError
  <1>8. CASE AnswersUnusably(t)
    BY <1>8, AnsweredLands DEF AnswersUnusably
  <1>9. CASE ServerAnswers(t)
    BY <1>9, AnsweredLands DEF ServerAnswers
  <1>10. CASE Picks(t) \/ Writes(t)
    BY <1>10, SavingLands DEF Picks, Writes, registryVars
  <1>11. CASE SaysSaved(t)
    BY <1>11, AnsweredLands DEF SaysSaved, RunInv, SavesRight
  <1> QED
    BY <1>1, <1>2, <1>3, <1>4, <1>5, <1>6, <1>7, <1>8, <1>9, <1>10, <1>11 DEF Goes

\* A call ends with its save: nothing is left to write behind it.
LEMMA SavesStayRight ==
  ASSUME RunInv, NEW t \in Turns, Begins(t) \/ Goes(t)
  PROVE  SavesRight'
  <1>1. Spares(t) /\ RunShape /\ SavesRight
    BY StepLands DEF Lands, RunInv
  <1>2. CASE /\ saving' \in [Turns -> Nat] /\ saving'[t] = 0
             /\ \A q \in Turns : q # t => saving'[q] = saving[q]
    <2>1. SUFFICES ASSUME NEW q \in Turns, saving'[q] # 0
                   PROVE  step'[q] = "calling" /\ Tool(q)' = "save_to_file"
      BY <1>2 DEF SavesRight
    <2>2. q # t /\ saving[q] # 0
      BY <1>2, <2>1
    <2>3. step'[q] = step[q] /\ plan'[q] = plan[q] /\ results'[q] = results[q]
      BY <1>1, <2>2 DEF Spares
    <2>4. Tool(q)' = Tool(q)
      BY <2>3 DEF Tool
    <2> QED BY <1>1, <2>2, <2>3, <2>4 DEF SavesRight
  <1>3. CASE saving' = saving /\ saving[t] = 0
    BY <1>1, <1>2, <1>3 DEF SavesRight, RunShape
  <1>4. CASE Begins(t) \/ RequestListed(t) \/ RequestNotListed(t)
    BY <1>1, <1>3, <1>4 DEF Begins, RequestListed, RequestNotListed, Listed, NotListed,
          turnVars, SavesRight, RunShape, Discovering
  <1>5. CASE WithoutTools(t) \/ Reports(t) \/ PlansChain(t) \/ PlansCalls(t) \/ Routes(t) \/ Sends(t) \/ NotOffered(t)
    BY <1>1, <1>3, <1>5 DEF WithoutTools, Reports, PlansChain, PlansCalls, Routes, Sends, NotOffered,
          Found, SavesRight
  <1>6. CASE ReportsError(t) \/ AnswersUnusably(t) \/ ServerAnswers(t)
    BY <1>1, <1>3, <1>6 DEF ReportsError, AnswersUnusably, ServerAnswers, SavesRight
  <1>7. CASE CutOff(t) \/ SaysSaved(t)
    BY <1>1, <1>2, <1>7 DEF CutOff, SaysSaved, SavesRight
  <1>8. CASE Picks(t)
    <2>1. PICK name \in FreeName : saving' = [saving EXCEPT ![t] = name]
      BY <1>8 DEF Picks
    <2>2. name \in Nat
      BY ToolAssumption DEF FreeName
    <2>3. step[t] = "calling" /\ Tool(t) = "save_to_file" /\ UNCHANGED <<step, plan, results>>
      BY <1>8 DEF Picks
    <2> QED BY <1>1, <2>1, <2>2, <2>3 DEF SavesRight, Tool
  <1>9. CASE Writes(t)
    <2>1. UNCHANGED <<saving, step, plan, results>>
      BY <1>9 DEF Writes
    <2> QED BY <1>1, <2>1 DEF SavesRight, Tool
  <1> QED BY <1>4, <1>5, <1>6, <1>7, <1>8, <1>9 DEF Goes

-----------------------------------------------------------------------------
LEMMA InitIsRight == ToolRunInit => RunInv
  <1> SUFFICES ASSUME ToolRunInit PROVE RunInv
    OBVIOUS
  <1>1. /\ known = {} /\ asking = [r \in Turns |-> 0] /\ table = [r \in Turns |-> {}]
        /\ trouble = [r \in Turns |-> {}] /\ step = [r \in Turns |-> "idle"]
        /\ chain = [r \in Turns |-> FALSE] /\ plan = [r \in Turns |-> <<>>]
        /\ results = [r \in Turns |-> <<>>] /\ saving = [r \in Turns |-> 0]
    BY DEF ToolRunInit, RegistryInit
  <1>2. RunShape
    BY <1>1 DEF RunShape, Steps
  <1>3. \A r \in Turns : TurnIsRight(r)
    BY <1>1 DEF TurnIsRight, InPlan, Reached, Blamed, Ahead, Discovering
  <1>4. SavesRight
    BY <1>1 DEF SavesRight
  <1> QED BY <1>2, <1>3, <1>4 DEF RunInv

LEMMA NextIsRight == RunInv /\ [ToolRunNext]_toolRunVars => RunInv'
  <1> SUFFICES ASSUME RunInv, [ToolRunNext]_toolRunVars PROVE RunInv'
    OBVIOUS
  <1>1. CASE ToolRunNext
    <2>1. PICK t \in Turns : Begins(t) \/ Goes(t)
      BY <1>1 DEF ToolRunNext
    <2>2. Lands(t) /\ SavesRight'
      BY <2>1, StepLands, SavesStayRight
    <2>3. \A q \in Turns : q # t => TurnIsRight(q)'
      BY <2>2, OthersStayRight DEF Lands, RunInv
    <2> QED BY <2>2, <2>3 DEF RunInv, Lands
  <1>2. CASE UNCHANGED toolRunVars
    BY <1>2 DEF RunInv, RunShape, SavesRight, TurnIsRight, InPlan, Reached, Blamed, Tool,
          toolRunVars, registryVars, turnVars
  <1> QED BY <1>1, <1>2

LEMMA AlwaysRight == ToolRunSpec => []RunInv
  BY InitIsRight, NextIsRight, PTL DEF ToolRunSpec

(***************************************************************************)
(* A server that cannot be reached costs only its own tools: whoever is    *)
(* told that a tool is not offered or not available had its server fail    *)
(* somebody while the turn ran.  A discovery is a copy of a cache others   *)
(* change; what it misses is what failed, and nothing else.                *)
(***************************************************************************)
THEOREM FailuresStayTheirOwn == ToolRunSpec => []OnlyItsOwnTools
  <1>1. RunInv => OnlyItsOwnTools
    BY DEF RunInv, TurnIsRight, Blamed, OnlyItsOwnTools
  <1> QED BY <1>1, AlwaysRight, PTL

-----------------------------------------------------------------------------
(* What a chain keeps, and what is saved of it.                            *)

\* A chain goes on only from stages that were ok, with what they found.
ChainIsRight(r) ==
    chain[r] =>
        /\ Len(plan[r]) <= 3 /\ \A i \in 1..Len(plan[r]) : plan[r][i] = Stages[i]
        /\ step[r] \in Ahead =>
             /\ \A i \in 1..Len(results[r]) : results[r][i] = "ok"
             /\ Len(results[r]) >= 1 => findings[r] = r
             /\ Len(results[r]) >= 2 => summary[r] = r

SavedRight(name) ==
    LET saved == files[name]
    IN  /\ saved.by \in Turns /\ step[saved.by] \notin {"idle", "tools"}
        /\ chain[saved.by] =>
             /\ saved.findings = saved.by /\ saved.summary = saved.by
             /\ Len(results[saved.by]) >= 2
             /\ results[saved.by][1] = "ok" /\ results[saved.by][2] = "ok"

SInv ==
    /\ RunInv
    /\ DOMAIN findings = Turns /\ DOMAIN summary = Turns
    /\ \A r \in Turns : ChainIsRight(r)
    /\ \A name \in DOMAIN files : SavedRight(name)

LEMMA RecordedEnds ==
  ASSUME RunInv, NEW t \in Turns, NEW how \in CallOutcomes, NEW offered, Recorded(t, how, offered)
  PROVE  /\ results'[t] = Append(results[t], how)
         /\ \A q \in Turns : q # t => results'[q] = results[q]
         /\ step'[t] \notin {"idle", "tools"} /\ \A q \in Turns : q # t => step'[q] = step[q]
         /\ chain[t] /\ Stops(how) => step'[t] = "done"
  BY DEF RunInv, RunShape, Recorded, Ends, GoesOn

\* Once planned, a turn's chain is chosen and its results only grow.
Grows(q) ==
    step[q] \notin {"idle", "tools"} =>
        /\ step'[q] \notin {"idle", "tools"} /\ chain'[q] = chain[q]
        /\ Len(results'[q]) >= Len(results[q])
        /\ \A i \in 1..Len(results[q]) : results'[q][i] = results[q][i]

LEMMA TurnsGrow ==
  ASSUME RunInv, NEW t \in Turns, Begins(t) \/ Goes(t), NEW q \in Turns
  PROVE  Grows(q)
  <1>1. Spares(t) /\ RunShape /\ results[q] \in Seq(CallOutcomes) /\ Len(results[q]) \in Nat
    BY StepLands DEF Lands, RunInv, RunShape
  <1>2. CASE q # t
    BY <1>1, <1>2 DEF Spares, Grows
  <1> SUFFICES ASSUME q = t PROVE Grows(t)
    BY <1>2
  <1>3. CASE UNCHANGED <<step, chain, results>>
    BY <1>1, <1>3 DEF Grows
  <1>4. CASE step[t] \in {"idle", "tools"}
    BY <1>4 DEF Grows
  <1>5. CASE UNCHANGED <<chain, results>> /\ step'[t] \in {"done", "call", "calling"}
    BY <1>1, <1>5 DEF Grows
  <1>6. ASSUME NEW how \in CallOutcomes, NEW offered, Recorded(t, how, offered), chain' = chain
        PROVE  Grows(t)
    <2>1. results'[t] = Append(results[t], how) /\ step'[t] \notin {"idle", "tools"}
      BY <1>6, RecordedEnds
    <2> QED BY <1>1, <1>6, <2>1 DEF Grows
  <1>7. CASE Begins(t) \/ PlansChain(t) \/ PlansCalls(t) \/ WithoutTools(t)
    BY <1>4, <1>7 DEF Begins, PlansChain, PlansCalls, WithoutTools, Found
  <1>8. CASE RequestListed(t) \/ RequestNotListed(t) \/ Picks(t) \/ Writes(t)
    BY <1>3, <1>8 DEF RequestListed, RequestNotListed, Picks, Writes, turnVars
  <1>9. CASE Routes(t) \/ Sends(t) \/ Reports(t)
    BY <1>1, <1>5, <1>9 DEF Routes, Sends, Reports, Ends, GoesOn, RunShape
  <1>10. CASE NotOffered(t) \/ CutOff(t) \/ ReportsError(t) \/ AnswersUnusably(t) \/ ServerAnswers(t) \/ SaysSaved(t)
    BY <1>6, <1>10 DEF NotOffered, CutOff, ReportsError, AnswersUnusably, ServerAnswers, SaysSaved, CallOutcomes
  <1> QED BY <1>7, <1>8, <1>9, <1>10 DEF Goes

LEMMA StagesDiffer ==
  /\ Stages[1] = "search" /\ Stages[2] = "summarize" /\ Stages[3] = "save_to_file"
  BY DEF Stages

LEMMA ThreeStages ==
  ASSUME NEW n \in Nat, NEW m \in Nat, n < m, m <= 3
  PROVE  n \in 0..2 /\ n + 1 \in 1..m
  OBVIOUS

LEMMA FirstTwo ==
  ASSUME NEW S, NEW s \in Seq(S), Len(s) >= 2
  PROVE  SubSeq(s, 1, 2) = <<s[1], s[2]>>
  <1>1. s[1] \in S /\ s[2] \in S
    BY ElementOfSeq
  <1>2. \A i \in 1..2 : s[i] \in S
    BY <1>1
  <1>3. /\ SubSeq(s, 1, 2) \in Seq(S) /\ Len(SubSeq(s, 1, 2)) = 2
        /\ \A i \in 1..2 : SubSeq(s, 1, 2)[i] = s[i]
    BY <1>2, SubSeqProperties
  <1>4. <<s[1], s[2]>> \in Seq(S) /\ Len(<<s[1], s[2]>>) = 2
    BY <1>1
  <1>5. \A i \in 1..2 : <<s[1], s[2]>>[i] = s[i]
    OBVIOUS
  <1> QED BY <1>3, <1>4, <1>5, SeqEqual

\* Where the chain is tells the stage that is called.
LEMMA ToolIsStage ==
  ASSUME RunInv, NEW t \in Turns, chain[t], ChainIsRight(t), step[t] \in Ahead
  PROVE  /\ Len(results[t]) \in 0..2 /\ Tool(t) = Stages[Len(results[t]) + 1]
         /\ Tool(t) = "search" => Len(results[t]) = 0
         /\ Tool(t) = "summarize" => Len(results[t]) = 1
         /\ Tool(t) = "save_to_file" => Len(results[t]) = 2
  <1>1. /\ plan[t] \in Seq(Tools) /\ results[t] \in Seq(CallOutcomes)
        /\ Len(results[t]) < Len(plan[t]) /\ Len(plan[t]) <= 3
        /\ \A i \in 1..Len(plan[t]) : plan[t][i] = Stages[i]
    BY DEF RunInv, RunShape, TurnIsRight, InPlan, ChainIsRight
  <1>2. Len(results[t]) \in Nat /\ Len(plan[t]) \in Nat
    BY <1>1
  <1>3. Len(results[t]) \in 0..2 /\ Len(results[t]) + 1 \in 1..Len(plan[t])
    <2>1. Len(results[t]) < Len(plan[t]) /\ Len(plan[t]) <= 3
      BY <1>1
    <2> QED BY <1>2, <2>1, ThreeStages
  <1>4. Tool(t) = Stages[Len(results[t]) + 1]
    BY <1>1, <1>3 DEF Tool
  <1>5. CASE Len(results[t]) = 0
    BY <1>4, <1>5, StagesDiffer
  <1>6. CASE Len(results[t]) = 1
    BY <1>4, <1>6, StagesDiffer
  <1>7. CASE Len(results[t]) = 2
    BY <1>4, <1>7, StagesDiffer
  <1> QED BY <1>3, <1>4, <1>5, <1>6, <1>7

\* A stage that did its work is the last, or the next one has its result.
LEMMA StageIsKept ==
  ASSUME SInv, NEW t \in Turns, step[t] = "calling", Recorded(t, "ok", known),
         chain' = chain, plan' = plan,
         chain[t] /\ Tool(t) = "search" => findings'[t] = t /\ summary'[t] = summary[t],
         chain[t] /\ Tool(t) = "summarize" => findings'[t] = findings[t] /\ summary'[t] = findings[t],
         chain[t] /\ Tool(t) = "save_to_file" => findings'[t] = findings[t] /\ summary'[t] = summary[t]
  PROVE  ChainIsRight(t)'
  <1>1. RunInv /\ ChainIsRight(t) /\ step[t] \in Ahead /\ results[t] \in Seq(CallOutcomes)
    BY DEF SInv, RunInv, RunShape, Ahead
  <1>2. results'[t] = Append(results[t], "ok")
    BY <1>1, RecordedEnds DEF CallOutcomes
  <1> SUFFICES ASSUME chain[t] PROVE ChainIsRight(t)'
    BY DEF ChainIsRight
  <1> DEFINE n == Len(results[t])
  <1>3. /\ n \in 0..2
        /\ Tool(t) \in {"search", "summarize", "save_to_file"}
        /\ Tool(t) = "search" => n = 0
        /\ Tool(t) = "summarize" => n = 1
        /\ Tool(t) = "save_to_file" => n = 2
    <2>1. n \in 0..2 /\ Tool(t) = Stages[n + 1]
      BY <1>1, ToolIsStage
    <2> HIDE DEF n
    <2>2. n = 0 \/ n = 1 \/ n = 2
      BY <2>1
    <2>3. Tool(t) \in {"search", "summarize", "save_to_file"}
      BY <2>1, <2>2, StagesDiffer
    <2> QED BY <1>1, <2>1, <2>3, ToolIsStage DEF n
  <1>4. /\ n >= 1 => findings[t] = t
        /\ n >= 2 => summary[t] = t
        /\ \A i \in 1..n : results[t][i] = "ok"
        /\ Len(plan[t]) <= 3 /\ \A i \in 1..Len(plan[t]) : plan[t][i] = Stages[i]
    BY <1>1 DEF ChainIsRight
  <1>5. Len(results'[t]) = n + 1 /\ \A i \in 1..(n + 1) : results'[t][i] = "ok"
    BY <1>1, <1>2, <1>4
  <1>6. findings'[t] = t /\ (n + 1 >= 2 => summary'[t] = t)
    <2> HIDE DEF n
    <2>1. CASE Tool(t) = "search"
      <3>1. n = 0 /\ findings'[t] = t
        BY <1>3, <2>1
      <3> QED BY <3>1
    <2>2. CASE Tool(t) = "summarize"
      <3>1. n = 1
        BY <1>3, <2>2
      <3>2. findings[t] = t
        BY <1>4, <3>1
      <3>3. findings'[t] = findings[t] /\ summary'[t] = findings[t]
        BY <2>2
      <3> QED BY <3>2, <3>3
    <2>3. CASE Tool(t) = "save_to_file"
      <3>1. n = 2
        BY <1>3, <2>3
      <3>2. findings[t] = t /\ summary[t] = t
        BY <1>4, <3>1
      <3>3. findings'[t] = findings[t] /\ summary'[t] = summary[t]
        BY <2>3
      <3> QED BY <3>2, <3>3
    <2> QED BY <1>3, <2>1, <2>2, <2>3
  <1> HIDE DEF n
  <1> QED BY <1>4, <1>5, <1>6 DEF ChainIsRight

LEMMA ChainsStayRight ==
  ASSUME SInv, NEW t \in Turns, Begins(t) \/ Goes(t)
  PROVE  /\ DOMAIN findings' = Turns /\ DOMAIN summary' = Turns
         /\ \A q \in Turns : ChainIsRight(q)'
  <1>1. RunInv /\ RunShape /\ TurnIsRight(t) /\ Spares(t) /\ Lands(t) /\ ChainIsRight(t)
    BY StepLands DEF Lands, SInv, RunInv
  <1>2. /\ findings' = findings /\ summary' = summary
        \/ /\ ServerAnswers(t)
           /\ DOMAIN findings' = Turns /\ DOMAIN summary' = Turns
           /\ \A q \in Turns : q # t => findings'[q] = findings[q] /\ summary'[q] = summary[q]
    BY DEF SInv, Goes, Begins, RequestListed, RequestNotListed, turnVars, WithoutTools, Reports,
       PlansChain, PlansCalls, Routes, Sends, NotOffered, CutOff, ReportsError, AnswersUnusably,
       ServerAnswers, Keeps, Picks, Writes, SaysSaved
  <1>3. ASSUME NEW q \in Turns, q # t PROVE ChainIsRight(q)'
    BY <1>1, <1>2, <1>3 DEF SInv, ChainIsRight, Spares
  <1>4. ChainIsRight(t)'
    <2>1. CASE ~chain'[t]
      BY <2>1 DEF ChainIsRight
    <2>2. CASE UNCHANGED <<chain, plan, findings, summary>> /\ step'[t] \notin Ahead
      BY <1>1, <2>2 DEF ChainIsRight
    <2>3. CASE UNCHANGED <<chain, plan, results, findings, summary>> /\ step[t] \in Ahead
      BY <1>1, <2>3 DEF ChainIsRight
    <2>4. CASE UNCHANGED <<chain, plan, step, results, findings, summary>>
      BY <1>1, <2>4 DEF ChainIsRight
    <2>5. CASE Begins(t) \/ PlansCalls(t)
      BY <1>1, <2>1, <2>5 DEF Begins, PlansCalls, Found, TurnIsRight, InPlan
    <2>6. CASE WithoutTools(t) \/ Reports(t)
      BY <1>1, <2>2, <2>6 DEF WithoutTools, Reports, Ends, RunShape, Ahead
    <2>7. CASE PlansChain(t)
      <3>1. step[t] = "tools" /\ results' = results
        BY <2>7 DEF PlansChain, Found
      <3>2. Len(results'[t]) = 0
        BY <1>1, <3>1 DEF TurnIsRight, InPlan
      <3>3. PICK furthest \in 2..Len(Stages) : plan' = [plan EXCEPT ![t] = SubSeq(Stages, 1, furthest)]
        BY <2>7 DEF PlansChain
      <3>4. furthest \in Int /\ 2 <= furthest /\ furthest <= 3
        BY StagesAreTools
      <3>5. \A i \in 1..furthest : Stages[i] \in Tools
        BY <3>4, StagesAreTools
      <3>6. /\ Len(SubSeq(Stages, 1, furthest)) = furthest
            /\ \A i \in 1..furthest : SubSeq(Stages, 1, furthest)[i] = Stages[i]
        BY <3>4, <3>5, SubSeqProperties
      <3>7. plan'[t] = SubSeq(Stages, 1, furthest)
        BY <1>1, <3>3 DEF RunShape
      <3> QED BY <3>2, <3>4, <3>6, <3>7 DEF ChainIsRight
    <2>8. CASE Routes(t) \/ Sends(t)
      BY <2>3, <2>8 DEF Routes, Sends, Found, Ahead
    <2>9. CASE RequestListed(t) \/ RequestNotListed(t) \/ Picks(t) \/ Writes(t)
      BY <2>4, <2>9 DEF RequestListed, RequestNotListed, turnVars, Picks, Writes
    <2>10. CASE NotOffered(t) \/ CutOff(t) \/ ReportsError(t) \/ AnswersUnusably(t)
      <3>1. PICK how \in CallOutcomes \ {"ok"} : \E offered : Recorded(t, how, offered)
        BY <2>10 DEF NotOffered, CutOff, ReportsError, AnswersUnusably, CallOutcomes
      <3>2. UNCHANGED <<chain, plan, findings, summary>>
        BY <2>10 DEF NotOffered, CutOff, ReportsError, AnswersUnusably
      <3>3. chain[t] => step'[t] = "done"
        BY <1>1, <3>1, RecordedEnds DEF Stops
      <3> QED BY <2>1, <2>2, <3>2, <3>3 DEF Ahead
    <2>11. CASE ServerAnswers(t)
      BY <2>11, StageIsKept DEF ServerAnswers, Keeps, SInv
    <2>12. CASE SaysSaved(t)
      <3>1. step[t] = "calling" /\ Tool(t) = "save_to_file"
        BY <1>1, <2>12 DEF SaysSaved, RunInv, SavesRight
      <3> QED BY <2>12, <3>1, StageIsKept DEF SaysSaved
    <2> QED BY <2>5, <2>6, <2>7, <2>8, <2>9, <2>10, <2>11, <2>12 DEF Goes
  <1> QED BY <1>2, <1>3, <1>4 DEF SInv

\* What was saved stays, and what is saved now is the chain's.
LEMMA FilesStayRight ==
  ASSUME SInv, NEW t \in Turns, Begins(t) \/ Goes(t), NEW name \in DOMAIN files'
  PROVE  SavedRight(name)'
  <1>1. RunInv /\ \A q \in Turns : Grows(q) /\ results[q] \in Seq(CallOutcomes) /\ Len(results[q]) \in Nat
    BY TurnsGrow DEF SInv, RunInv, RunShape
  <1>2. CASE name \in DOMAIN files /\ files'[name] = files[name]
    <2> DEFINE saver == files[name].by
    <2>1. SavedRight(name) /\ saver \in Turns /\ step[saver] \notin {"idle", "tools"}
      BY <1>2 DEF SInv, SavedRight
    <2>2. Grows(saver)
      BY <1>1, <2>1
    <2>3. /\ step'[saver] \notin {"idle", "tools"} /\ chain'[saver] = chain[saver]
          /\ Len(results'[saver]) >= Len(results[saver])
          /\ \A i \in 1..Len(results[saver]) : results'[saver][i] = results[saver][i]
      BY <2>1, <2>2 DEF Grows
    <2>4. chain'[saver] => /\ Len(results'[saver]) >= 2
                           /\ results'[saver][1] = "ok" /\ results'[saver][2] = "ok"
      <3>1. SUFFICES ASSUME chain[saver]
                     PROVE  /\ Len(results'[saver]) >= 2
                            /\ results'[saver][1] = "ok" /\ results'[saver][2] = "ok"
        BY <2>3
      <3>2. Len(results[saver]) >= 2 /\ results[saver][1] = "ok" /\ results[saver][2] = "ok"
        BY <2>1, <3>1 DEF SavedRight
      <3>3. Len(results[saver]) \in Nat /\ Len(results'[saver]) \in Nat
        BY <1>1, <2>1, StepLands DEF Lands, RunShape
      <3>4. 1 \in 1..Len(results[saver]) /\ 2 \in 1..Len(results[saver])
        BY <3>2, <3>3
      <3> QED BY <2>3, <3>2, <3>3, <3>4
    <2> QED BY <1>2, <2>1, <2>3, <2>4 DEF SavedRight
  <1>3. CASE ~(name \in DOMAIN files /\ files'[name] = files[name])
    <2>1. Writes(t)
      BY <1>3 DEF Goes, Begins, RequestListed, RequestNotListed, turnVars, WithoutTools, Reports,
         PlansChain, PlansCalls, Routes, Sends, NotOffered, CutOff, ReportsError, AnswersUnusably,
         ServerAnswers, Picks, SaysSaved
    <2>2. /\ saving[t] # 0 /\ files' = [other \in DOMAIN files \cup {saving[t]} |->
                                 IF other = saving[t] THEN Given(t) ELSE files[other]]
          /\ UNCHANGED <<step, chain, results>>
      BY <2>1 DEF Writes
    <2>3. files'[name] = Given(t)
      BY <1>3, <2>2
    <2>4. step[t] = "calling" /\ Tool(t) = "save_to_file" /\ ChainIsRight(t)
      BY <1>1, <2>2 DEF RunInv, SavesRight, SInv
    <2>5. CASE ~chain[t]
      BY <2>2, <2>3, <2>4, <2>5 DEF SavedRight, Given
    <2>6. CASE chain[t]
      <3>1. Len(results[t]) = 2
        BY <1>1, <2>4, <2>6, ToolIsStage DEF Ahead
      <3>2. /\ findings[t] = t /\ summary[t] = t
            /\ results[t][1] = "ok" /\ results[t][2] = "ok"
        BY <2>4, <2>6, <3>1 DEF ChainIsRight, Ahead
      <3>3. Given(t) = [by |-> t, findings |-> t, summary |-> t]
        BY <2>6, <3>2 DEF Given
      <3> QED BY <2>2, <2>3, <2>4, <2>6, <3>1, <3>2, <3>3 DEF SavedRight
    <2> QED BY <2>5, <2>6
  <1> QED BY <1>2, <1>3

LEMMA AlwaysSaved == ToolRunSpec => []SInv
  <1>1. ToolRunInit => SInv
    <2>1. SUFFICES ASSUME ToolRunInit PROVE SInv
      OBVIOUS
    <2> QED BY <2>1, InitIsRight DEF SInv, ToolRunInit, ChainIsRight
  <1>2. SInv /\ [ToolRunNext]_toolRunVars => SInv'
    <2>1. SUFFICES ASSUME SInv, [ToolRunNext]_toolRunVars PROVE SInv'
      OBVIOUS
    <2>2. RunInv'
      BY <2>1, NextIsRight DEF SInv
    <2>3. CASE ToolRunNext
      <3>1. PICK t \in Turns : Begins(t) \/ Goes(t)
        BY <2>3 DEF ToolRunNext
      <3> QED BY <2>1, <2>2, <3>1, ChainsStayRight, FilesStayRight DEF SInv
    <2>4. CASE UNCHANGED toolRunVars
      BY <2>1, <2>2, <2>4 DEF SInv, ChainIsRight, SavedRight, toolRunVars, registryVars, turnVars
    <2> QED BY <2>1, <2>3, <2>4
  <1> QED BY <1>1, <1>2, PTL DEF ToolRunSpec

(***************************************************************************)
(* What a chain saved is one chain: its own search's findings, the summary *)
(* of those, after two stages that were ok.  A stage that failed or gave   *)
(* nothing usable ends the chain, so nothing of it reaches a file.         *)
(***************************************************************************)
THEOREM SavedChainsAreWhole == ToolRunSpec => []SavedIsOneChain
  <1>1. SInv => SavedIsOneChain
    <2>1. SUFFICES ASSUME SInv, NEW name \in DOMAIN files, chain[files[name].by]
                   PROVE  /\ files[name].findings = files[name].by
                          /\ files[name].summary = files[name].findings
                          /\ SubSeq(results[files[name].by], 1, 2) = <<"ok", "ok">>
      BY DEF SavedIsOneChain
    <2> DEFINE done == results[files[name].by]
    <2>2. /\ files[name].findings = files[name].by /\ files[name].summary = files[name].by
          /\ done \in Seq(CallOutcomes) /\ Len(done) >= 2 /\ done[1] = "ok" /\ done[2] = "ok"
      BY <2>1 DEF SInv, SavedRight, RunInv, RunShape
    <2>3. SubSeq(done, 1, 2) = <<done[1], done[2]>>
      <3> HIDE DEF done
      <3> QED BY <2>2, FirstTwo
    <2> QED BY <2>2, <2>3
  <1> QED BY <1>1, AlwaysSaved, PTL

-----------------------------------------------------------------------------
(* The name that was told, as long as saves do not overlap.                *)

IsThere(name, r) == name \in DOMAIN files /\ files[name].by = r

\* One save is under way at most, and its name is free until it writes.
OneSave ==
    /\ wrote \in [Turns -> BOOLEAN] /\ told \in [Turns -> Nat]
    /\ \A r, q \in Turns : saving[r] # 0 /\ saving[q] # 0 => r = q
    /\ \A r \in Turns : wrote[r] => saving[r] # 0 /\ IsThere(saving[r], r)
    /\ \A r \in Turns : saving[r] # 0 /\ ~wrote[r] => saving[r] \notin DOMAIN files

ToldRight == \A r \in Turns : told[r] # 0 => IsThere(told[r], r)

TInv == ~SavesOverlap /\ RunInv /\ OneSave /\ ToldRight

LEMMA SaveIsKept ==
  ASSUME TInv, NEW t \in Turns, Begins(t) \/ Goes(t)
  PROVE  OneSave' /\ ToldRight'
  <1>1. OneSave /\ SavesRight /\ ToldRight
    BY DEF TInv, RunInv
  <1>2. CASE UNCHANGED <<saving, wrote, told, files>>
    BY <1>1, <1>2 DEF OneSave, ToldRight, IsThere
  <1>3. CASE Begins(t) \/ RequestListed(t) \/ RequestNotListed(t) \/ WithoutTools(t) \/ Reports(t)
             \/ PlansChain(t) \/ PlansCalls(t) \/ Routes(t) \/ Sends(t) \/ NotOffered(t)
             \/ ReportsError(t) \/ AnswersUnusably(t) \/ ServerAnswers(t)
    BY <1>2, <1>3 DEF Begins, RequestListed, RequestNotListed, turnVars, WithoutTools, Reports,
       PlansChain, PlansCalls, Routes, Sends, NotOffered, ReportsError, AnswersUnusably, ServerAnswers
  <1>4. CASE CutOff(t)
    <2>1. /\ saving' = [saving EXCEPT ![t] = 0] /\ wrote' = [wrote EXCEPT ![t] = FALSE]
          /\ told' = told /\ files' = files
      BY <1>4 DEF CutOff
    <2> QED BY <1>1, <2>1 DEF OneSave, ToldRight, SavesRight, IsThere
  <1>5. CASE Picks(t)
    <2>1. PICK name \in FreeName : saving' = [saving EXCEPT ![t] = name]
      BY <1>5 DEF Picks
    <2>2. name \in Nat \ {0} /\ name \notin DOMAIN files
      BY ToolAssumption DEF FreeName
    <2>3. /\ \A q \in Turns : saving[q] = 0
          /\ wrote' = wrote /\ told' = told /\ files' = files
      BY <1>5 DEF Picks, TInv
    <2>4. \A q \in Turns : ~wrote[q] /\ saving'[q] = IF q = t THEN name ELSE 0
      BY <1>1, <2>1, <2>3 DEF OneSave, SavesRight
    <2> QED BY <1>1, <2>2, <2>3, <2>4 DEF OneSave, ToldRight, IsThere
  <1>6. CASE Writes(t)
    <2>1. /\ saving[t] # 0 /\ ~wrote[t] /\ saving' = saving /\ told' = told
          /\ files' = [name \in DOMAIN files \cup {saving[t]} |->
                         IF name = saving[t] THEN Given(t) ELSE files[name]]
          /\ wrote' = [wrote EXCEPT ![t] = TRUE]
      BY <1>6 DEF Writes
    <2>2. saving[t] \notin DOMAIN files
      BY <1>1, <2>1 DEF OneSave
    <2>3. \A name, r : IsThere(name, r) => IsThere(name, r)'
      BY <2>1, <2>2 DEF IsThere
    <2>4. IsThere(saving[t], t)'
      BY <2>1 DEF IsThere, Given
    <2>5. \A r \in Turns : r # t => saving[r] = 0 /\ ~wrote[r] /\ wrote'[r] = wrote[r]
      BY <1>1, <2>1 DEF OneSave
    <2>6. wrote' \in [Turns -> BOOLEAN] /\ wrote'[t]
      BY <1>1, <2>1 DEF OneSave
    <2>7. \A r \in Turns : wrote'[r] => saving[r] # 0 /\ IsThere(saving[r], r)'
      BY <2>1, <2>4, <2>5
    <2>8. OneSave'
      BY <1>1, <2>1, <2>5, <2>6, <2>7 DEF OneSave
    <2>9. ToldRight'
      BY <1>1, <2>1, <2>3 DEF ToldRight
    <2> QED BY <2>8, <2>9
  <1>7. CASE SaysSaved(t)
    <2>1. /\ saving[t] # 0 /\ wrote[t] /\ files' = files
          /\ told' = [told EXCEPT ![t] = saving[t]]
          /\ saving' = [saving EXCEPT ![t] = 0] /\ wrote' = [wrote EXCEPT ![t] = FALSE]
      BY <1>7 DEF SaysSaved
    <2>2. IsThere(saving[t], t)
      BY <1>1, <2>1 DEF OneSave
    <2> QED BY <1>1, <2>1, <2>2 DEF OneSave, ToldRight, SavesRight, IsThere
  <1> QED BY <1>3, <1>4, <1>5, <1>6, <1>7 DEF Goes

(***************************************************************************)
(* When saves do not overlap, the name the learner was told holds that     *)
(* turn's file: a save cut off after its write leaves a file nobody is     *)
(* told of, and the next save takes another name.                          *)
(***************************************************************************)
THEOREM ToldFilesAreThere == ~SavesOverlap /\ ToolRunSpec => []ToldIsThere
  <1>1. ~SavesOverlap /\ ToolRunInit => TInv
    <2>1. SUFFICES ASSUME ~SavesOverlap, ToolRunInit PROVE TInv
      OBVIOUS
    <2> QED BY <2>1, InitIsRight DEF TInv, ToolRunInit, OneSave, ToldRight
  <1>2. TInv /\ [ToolRunNext]_toolRunVars => TInv'
    <2>1. SUFFICES ASSUME TInv, [ToolRunNext]_toolRunVars PROVE TInv'
      OBVIOUS
    <2>2. RunInv'
      BY <2>1, NextIsRight DEF TInv
    <2>3. CASE ToolRunNext
      <3>1. PICK t \in Turns : Begins(t) \/ Goes(t)
        BY <2>3 DEF ToolRunNext
      <3> QED BY <2>1, <2>2, <3>1, SaveIsKept DEF TInv
    <2>4. CASE UNCHANGED toolRunVars
      BY <2>1, <2>2, <2>4 DEF TInv, OneSave, ToldRight, IsThere, toolRunVars, turnVars
    <2> QED BY <2>1, <2>3, <2>4
  <1>3. TInv => ToldIsThere
    BY DEF TInv, ToldRight, IsThere, ToldIsThere
  <1> QED BY <1>1, <1>2, <1>3, PTL DEF ToolRunSpec

(***************************************************************************)
(* For every number of turns and failures, as long as saves do not         *)
(* overlap: what is saved and what is told of it are true.                 *)
(***************************************************************************)
THEOREM SavesAreTrue == ~SavesOverlap /\ ToolRunSpec => []SavedIsTrue
  BY SavedChainsAreWhole, ToldFilesAreThere, PTL DEF SavedIsTrue


-----------------------------------------------------------------------------
(* The types of both.  First the limiter, which knows times that were.     *)

LEMMA SeqWider ==
  ASSUME NEW S, NEW T, S \subseteq T, NEW s \in Seq(S)
  PROVE  s \in Seq(T)
  OBVIOUS

LEMMA YoungTyped ==
  ASSUME now \in Nat, NEW times \in Seq(0..now)
  PROVE  Young(times) \in Seq(0..now)
  <1> DEFINE First(i) == /\ \A j \in 1..(i - 1) : now - times[j] >= Window
                         /\ i <= Len(times) => now - times[i] < Window
             first == CHOOSE i \in 1..(Len(times) + 1) : First(i)
             Stays == {i \in 1..(Len(times) + 1) : i <= Len(times) => now - times[i] < Window}
  <1>1. Window \in Nat /\ Len(times) \in Nat
    BY LimiterAssumption
  <1>2. Len(times) + 1 \in Stays /\ Stays \subseteq Nat
    BY <1>1
  <1>3. PICK x \in Stays : \A y \in Stays : x <= y
    <2> HIDE DEF Stays
    <2> QED BY <1>2, LeastIndex
  <1>4. x \in 1..(Len(times) + 1) /\ First(x)
    <2>1. x \in 1..(Len(times) + 1) /\ (x <= Len(times) => now - times[x] < Window)
      OBVIOUS
    <2>2. ASSUME NEW j \in 1..(x - 1) PROVE now - times[j] >= Window
      <3>1. j \in 1..Len(times) /\ ~(x <= j)
        BY <1>1, <2>1, <2>2
      <3>2. j \notin Stays
        BY <1>3, <3>1
      <3>3. times[j] \in 0..now
        BY <3>1
      <3> QED BY <1>1, <3>1, <3>2, <3>3
    <2> QED BY <2>1, <2>2
  <1>5. first \in 1..(Len(times) + 1)
    <2> HIDE DEF First
    <2> QED BY <1>4
  <1>6. Young(times) = SubSeq(times, first, Len(times))
    BY DEF Young
  <1> HIDE DEF first
  <1> QED BY <1>1, <1>5, <1>6

LEMMA RetryTyped ==
  ASSUME now \in Nat, NEW key, Young(SeenBy(key)) \in Seq(0..now), ~Allowed(key)
  PROVE  RetryAfter(key) \in Int
  <1>1. Window \in Nat /\ Second \in Nat \ {0} /\ Limit \in Nat \ {0}
    BY LimiterAssumption
  <1>2. Young(SeenBy(key))[1] \in 0..now
    <2>1. Len(Young(SeenBy(key))) \in Nat /\ ~(Len(Young(SeenBy(key))) < Limit)
      BY DEF Allowed
    <2>2. 1 \in 1..Len(Young(SeenBy(key)))
      BY <1>1, <2>1
    <2> QED BY <2>2
  <1> DEFINE a == Window - (now - Young(SeenBy(key))[1])
  <1>3. a + Second - 1 \in Int
    BY <1>1, <1>2
  <1>4. CeilDiv(a, Second) \in Int
    BY <1>1, <1>3, Z3 DEF CeilDiv
  <1> QED BY <1>4 DEF RetryAfter

LEMMA SeenTyped ==
  ASSUME LimiterTypeOK, NEW key \in Clients
  PROVE  now \in Nat /\ SeenBy(key) \in Seq(0..now) /\ Young(SeenBy(key)) \in Seq(0..now)
  <1>1. now \in Nat
    BY LimiterAssumption DEF LimiterTypeOK
  <1>2. SeenBy(key) \in Seq(0..now)
    <2>1. <<>> \in Seq(0..now)
      OBVIOUS
    <2>2. key \in DOMAIN seen => seen[key] \in Seq(0..now)
      BY DEF LimiterTypeOK
    <2> QED BY <2>1, <2>2, Zenon DEF SeenBy
  <1> QED BY <1>1, <1>2, YoungTyped

\* What is remembered stays typed when one address is remembered anew.
LEMMA RememberedTyped ==
  ASSUME LimiterTypeOK, NEW key \in Clients, NEW times \in Seq(0..now)
  PROVE  LET map == Remembered(key, times)
         IN  DOMAIN map \subseteq Clients /\ \A k \in DOMAIN map : map[k] \in Seq(0..now)
  BY DEF LimiterTypeOK, Remembered

LEMMA ForgottenTyped ==
  ASSUME NEW map, DOMAIN map \subseteq Clients, \A k \in DOMAIN map : map[k] \in Seq(0..now)
  PROVE  LET left == Forgotten(map)
         IN  DOMAIN left \subseteq Clients /\ \A k \in DOMAIN left : left[k] \in Seq(0..now)
  <1> DEFINE kept == {k \in DOMAIN map : map[k] # <<>> /\ now - map[k][Len(map[k])] < Window}
  <1>1. Forgotten(map) = map \/ Forgotten(map) = [k \in kept |-> map[k]]
    BY DEF Forgotten
  <1>2. kept \subseteq DOMAIN map
    OBVIOUS
  <1> HIDE DEF kept
  <1> QED BY <1>1, <1>2

LEMMA RefuseTyped ==
  ASSUME LimiterTypeOK, NEW key \in Clients, Refuse(key)
  PROVE  LimiterTypeOK'
  <1>1. now \in Nat /\ Young(SeenBy(key)) \in Seq(0..now)
    BY SeenTyped
  <1>2. /\ ~Allowed(key) /\ now' = now /\ granted' = granted
        /\ seen' = Remembered(key, Young(SeenBy(key)))
        /\ promised' = [promised EXCEPT ![key] = now + Second * RetryAfter(key)]
    BY DEF Refuse
  <1>3. now + Second * RetryAfter(key) \in Int
    BY <1>1, <1>2, RetryTyped, LimiterAssumption
  <1>4. promised' \in [Clients -> Int]
    BY <1>2, <1>3 DEF LimiterTypeOK
  <1>5. DOMAIN seen' \subseteq Clients /\ \A k \in DOMAIN seen' : seen'[k] \in Seq(0..now)
    BY <1>1, <1>2, RememberedTyped
  <1> QED BY <1>2, <1>4, <1>5 DEF LimiterTypeOK

LEMMA GrantTyped ==
  ASSUME LimiterTypeOK, NEW key \in Clients, Grant(key)
  PROVE  LimiterTypeOK'
  <1>1. now \in Nat /\ Young(SeenBy(key)) \in Seq(0..now)
    BY SeenTyped
  <1> DEFINE times == Append(Young(SeenBy(key)), now)
             map == Remembered(key, times)
  <1>2. /\ now' = now /\ granted' = [granted EXCEPT ![key] = Append(@, now)]
        /\ seen' = Forgotten(map) /\ promised' = [promised EXCEPT ![key] = Never]
    BY DEF Grant
  <1>3. now \in 0..now /\ Never \in Int
    BY <1>1 DEF Never
  <1>4. times \in Seq(0..now)
    BY <1>1, <1>3
  <1> HIDE DEF times
  <1>5. DOMAIN map \subseteq Clients /\ \A k \in DOMAIN map : map[k] \in Seq(0..now)
    BY <1>4, RememberedTyped
  <1> HIDE DEF map
  <1>6. DOMAIN seen' \subseteq Clients /\ \A k \in DOMAIN seen' : seen'[k] \in Seq(0..now)
    BY <1>2, <1>5, ForgottenTyped
  <1>7. granted' \in [Clients -> Seq(0..now)] /\ promised' \in [Clients -> Int]
    <2> DEFINE allTimes == Seq(0..now)
    <2>1. granted \in [Clients -> allTimes] /\ Append(granted[key], now) \in allTimes
      BY <1>3 DEF LimiterTypeOK
    <2> HIDE DEF allTimes
    <2>2. granted' \in [Clients -> allTimes]
      BY <1>2, <2>1
    <2>3. promised' \in [Clients -> Int]
      BY <1>2, <1>3 DEF LimiterTypeOK
    <2> QED BY <2>2, <2>3 DEF allTimes
  <1> QED BY <1>2, <1>6, <1>7 DEF LimiterTypeOK

LEMMA TickTyped ==
  ASSUME LimiterTypeOK, Tick
  PROVE  LimiterTypeOK'
  <1>1. now \in 0..MaxTime /\ MaxTime \in Nat /\ now < MaxTime /\ now' = now + 1
        /\ seen' = seen /\ granted' = granted /\ promised' = promised
    BY LimiterAssumption DEF LimiterTypeOK, Tick
  <1>2. now' \in 0..MaxTime /\ 0..now \subseteq 0..now'
    BY <1>1
  <1>3. ASSUME NEW s \in Seq(0..now) PROVE s \in Seq(0..now')
    BY <1>2, SeqWider
  <1>4. \A k \in DOMAIN seen : seen[k] \in Seq(0..now')
    BY <1>3 DEF LimiterTypeOK
  <1>5. granted \in [Clients -> Seq(0..now')]
    BY <1>3 DEF LimiterTypeOK
  <1> QED BY <1>1, <1>2, <1>4, <1>5 DEF LimiterTypeOK

LEMMA ForgetsTyped ==
  ASSUME LimiterTypeOK, now' = now, seen' = [key \in {} |-> <<>>],
         granted' = [key \in Clients |-> <<>>], promised' = [key \in Clients |-> Never]
  PROVE  LimiterTypeOK'
  <1>1. Never \in Int /\ <<>> \in Seq(0..now)
    BY DEF Never
  <1> QED BY <1>1 DEF LimiterTypeOK

-----------------------------------------------------------------------------
(* The requests of the local chat.                                         *)

\* All of TypeOK but the limiter's part.
ChatTyped ==
    /\ pc \in [Requests -> Phases]
    /\ talk \in [Requests -> Conversations \cup {NoConversation}]
    /\ snap \in [Requests -> Seq(Requests)]
    /\ active \in Nat
    /\ busy \subseteq Conversations
    /\ transcript \in [Conversations -> Seq(Requests)]
    /\ answered \in [Conversations -> Seq(Requests)]
    /\ crashes \in 0..MaxCrashes

LEMMA TypeIsBoth == TypeOK <=> LimiterTypeOK /\ ChatTyped
  BY DEF TypeOK, ChatTyped, Phases

LEMMA InitTyped == Init => TypeOK
  <1> SUFFICES ASSUME Init PROVE TypeOK
    OBVIOUS
  <1>1. LimiterTypeOK
    <2>1. <<>> \in Seq(0..0) /\ Never \in Int /\ MaxTime \in Nat
      BY LimiterAssumption DEF Never
    <2> QED BY <2>1 DEF Init, LimiterInit, LimiterTypeOK
  <1>2. ChatTyped
    <2>1. <<>> \in Seq(Requests) /\ 0 \in 0..MaxCrashes
      BY LocalChatAssumption
    <2> QED BY <2>1 DEF Init, ChatTyped, Phases
  <1> QED BY <1>1, <1>2, TypeIsBoth

LEMMA ArrivesTyped ==
  ASSUME TypeOK, NEW r \in Requests, Arrives(r)
  PROVE  TypeOK'
  <1>1. LimiterTypeOK'
    <2>1. \E key \in Clients : Refuse(key) \/ Grant(key)
      BY DEF Arrives, RateLimited, TooLarge, ConversationBusy, GateBusy, Starts
    <2> QED BY <2>1, RefuseTyped, GrantTyped, TypeIsBoth
  <1>2. ChatTyped
    BY TypeIsBoth
  <1>3. CASE \E reason \in Outcomes : TurnedAway(r, reason)
    <2>1. PICK reason \in Outcomes : TurnedAway(r, reason)
      BY <1>3
    <2>2. pc' = [pc EXCEPT ![r] = reason] /\ reason \in Phases
      BY <2>1 DEF TurnedAway, Phases
    <2>3. pc' \in [Requests -> Phases]
      BY <1>2, <2>2 DEF ChatTyped
    <2>4. UNCHANGED <<talk, snap, active, busy, transcript, answered, crashes>>
      BY <2>1 DEF TurnedAway
    <2>5. ChatTyped'
      BY <1>2, <2>3, <2>4 DEF ChatTyped
    <2> QED BY <1>1, <2>5 DEF TypeOK, ChatTyped, Phases
  <1>4. CASE Starts(r)
    <2>1. PICK c \in (Conversations \cup {NoConversation}) \ busy :
            /\ talk' = [talk EXCEPT ![r] = c]
            /\ snap' = [snap EXCEPT ![r] = IF c = NoConversation THEN <<>> ELSE transcript[c]]
            /\ busy' = busy \cup ({c} \ {NoConversation})
      BY <1>4 DEF Starts
    <2> DEFINE read == IF c = NoConversation THEN <<>> ELSE transcript[c]
    <2>2. read \in Seq(Requests)
      <3>1. <<>> \in Seq(Requests) /\ (c # NoConversation => transcript[c] \in Seq(Requests))
        BY <1>2, <2>1 DEF ChatTyped
      <3> QED BY <3>1, Zenon
    <2> HIDE DEF read
    <2>3. snap' \in [Requests -> Seq(Requests)] /\ talk' \in [Requests -> Conversations \cup {NoConversation}]
      BY <1>2, <2>1, <2>2 DEF ChatTyped, read
    <2>4. pc' \in [Requests -> Phases] /\ active' \in Nat /\ busy' \subseteq Conversations
      <3>1. pc' = [pc EXCEPT ![r] = "generating"] /\ "generating" \in Phases /\ active' = active + 1
        BY <1>4 DEF Starts, Phases
      <3> QED BY <1>2, <2>1, <3>1 DEF ChatTyped
    <2>5. UNCHANGED <<transcript, answered, crashes>>
      BY <1>4 DEF Starts
    <2>6. ChatTyped'
      BY <1>2, <2>3, <2>4, <2>5 DEF ChatTyped
    <2> QED BY <1>1, <2>6 DEF TypeOK, ChatTyped, Phases
  <1>5. (\E reason \in Outcomes : TurnedAway(r, reason)) \/ Starts(r)
    BY DEF Arrives, RateLimited, TooLarge, ConversationBusy, GateBusy, Outcomes
  <1> QED BY <1>3, <1>4, <1>5

LEMMA FinishesTyped ==
  ASSUME TypeOK, NEW r \in Requests, Finishes(r)
  PROVE  TypeOK'
  <1>1. ChatTyped /\ LimiterTypeOK
    BY TypeIsBoth
  <1>2. LimiterTypeOK'
    <2>1. UNCHANGED limiterVars
      BY DEF Finishes, Answers, GivesUp, Done
    <2> QED BY <1>1, <2>1 DEF limiterVars, LimiterTypeOK
  <1>3. /\ pc' \in [Requests -> Phases] /\ talk' \in [Requests -> Conversations \cup {NoConversation}]
        /\ active' \in Nat /\ busy' \subseteq Conversations /\ crashes' \in 0..MaxCrashes
    <2>1. PICK outcome \in Outcomes : Leave(r) /\ Done(r, outcome)
      BY DEF Finishes, Answers, GivesUp, Outcomes
    <2>2. outcome \in Phases
      BY DEF Phases
    <2>3. pc' = [pc EXCEPT ![r] = outcome] /\ talk' = [talk EXCEPT ![r] = NoConversation] /\ crashes' = crashes
      BY <2>1 DEF Done
    <2>4. active' \in Nat /\ busy' \subseteq Conversations
      BY <1>1, <2>1 DEF Leave, ChatTyped
    <2> QED BY <1>1, <2>2, <2>3, <2>4 DEF ChatTyped
  <1>4. snap' \in [Requests -> Seq(Requests)]
    <2>1. snap' = [snap EXCEPT ![r] = <<>>] /\ <<>> \in Seq(Requests)
      BY DEF Finishes, Answers, GivesUp, Done
    <2> QED BY <1>1, <2>1 DEF ChatTyped
  <1>5. transcript' \in [Conversations -> Seq(Requests)] /\ answered' \in [Conversations -> Seq(Requests)]
    <2>1. CASE Answers(r) /\ talk[r] # NoConversation
      <3>1. /\ transcript' = [transcript EXCEPT ![talk[r]] = Append(snap[r], r)]
            /\ answered' = [answered EXCEPT ![talk[r]] = Append(answered[talk[r]], r)]
        BY <2>1 DEF Answers
      <3>2. talk[r] \in Conversations
        BY <1>1, <2>1 DEF ChatTyped
      <3>3. Append(snap[r], r) \in Seq(Requests) /\ Append(answered[talk[r]], r) \in Seq(Requests)
        BY <1>1, <3>2, AppendProperties DEF ChatTyped
      <3> QED BY <1>1, <3>1, <3>2, <3>3 DEF ChatTyped
    <2>2. CASE ~(Answers(r) /\ talk[r] # NoConversation)
      <3>1. UNCHANGED <<transcript, answered>>
        BY <2>2 DEF Finishes, Answers, GivesUp
      <3> QED BY <1>1, <3>1 DEF ChatTyped
    <2> QED BY <2>1, <2>2
  <1>6. ChatTyped'
    BY <1>3, <1>4, <1>5 DEF ChatTyped
  <1> QED BY <1>2, <1>6 DEF TypeOK, ChatTyped, Phases

LEMMA RestartTyped ==
  ASSUME TypeOK, Restart,
         transcript' \in [Conversations -> Seq(Requests)], answered' \in [Conversations -> Seq(Requests)]
  PROVE  TypeOK'
  <1>1. ChatTyped /\ LimiterTypeOK
    BY TypeIsBoth
  <1>2. LimiterTypeOK'
    BY <1>1, ForgetsTyped DEF Restart
  <1>3. pc' \in [Requests -> Phases] /\ talk' \in [Requests -> Conversations \cup {NoConversation}]
    BY <1>1 DEF Restart, ChatTyped, Phases, Outcomes
  <1>4. snap' \in [Requests -> Seq(Requests)] /\ active' \in Nat /\ busy' \subseteq Conversations
    <2>1. <<>> \in Seq(Requests)
      OBVIOUS
    <2> QED BY <2>1 DEF Restart
  <1>5. crashes' \in 0..MaxCrashes
    BY <1>1, LocalChatAssumption DEF Restart, ChatTyped
  <1>6. ChatTyped'
    BY <1>3, <1>4, <1>5 DEF ChatTyped
  <1> QED BY <1>2, <1>6 DEF TypeOK, ChatTyped, Phases

LEMMA CrashTyped ==
  ASSUME TypeOK, Crash \/ \E r \in Requests : CrashSaving(r)
  PROVE  TypeOK'
  <1>1. ChatTyped
    BY TypeIsBoth
  <1>2. CASE Crash
    BY <1>1, <1>2, RestartTyped DEF Crash, ChatTyped
  <1>3. CASE \E r \in Requests : CrashSaving(r)
    <2>1. PICK r \in Requests : CrashSaving(r)
      BY <1>3
    <2>2. PICK turns \in {<<>>, Append(snap[r], r)} :
            /\ transcript' = [transcript EXCEPT ![talk[r]] = turns]
            /\ answered' = [answered EXCEPT ![talk[r]] = turns]
      BY <2>1 DEF CrashSaving
    <2>3. turns \in Seq(Requests)
      <3>1. <<>> \in Seq(Requests) /\ Append(snap[r], r) \in Seq(Requests)
        BY <1>1, AppendProperties DEF ChatTyped
      <3> QED BY <3>1, Zenon
    <2>4. transcript' \in [Conversations -> Seq(Requests)] /\ answered' \in [Conversations -> Seq(Requests)]
      BY <1>1, <2>2, <2>3 DEF ChatTyped
    <2> QED BY <2>1, <2>4, RestartTyped DEF CrashSaving
  <1> QED BY <1>2, <1>3

LEMMA NextTyped == TypeOK /\ [Next]_vars => TypeOK'
  <1> SUFFICES ASSUME TypeOK, [Next]_vars PROVE TypeOK'
    OBVIOUS
  <1>1. CASE Tick /\ UNCHANGED chatVars
    BY <1>1, TickTyped DEF TypeOK, chatVars
  <1>2. CASE UNCHANGED vars
    BY <1>2 DEF TypeOK, LimiterTypeOK, vars, chatVars, limiterVars
  <1> QED BY <1>1, <1>2, ArrivesTyped, FinishesTyped, CrashTyped DEF Next

-----------------------------------------------------------------------------
(* The turns that use tools.                                               *)

FilesTyped ==
    /\ failures \in 0..MaxFailures
    /\ saving \in [Turns -> 0..MaxNames] /\ wrote \in [Turns -> BOOLEAN]
    /\ told \in [Turns -> 0..MaxNames]
    /\ DOMAIN files \subseteq 1..MaxNames

RunTyped == RunInv /\ FilesTyped

LEMMA RunIsTyped == RunTyped => ToolRunTypeOK
  BY DEF RunTyped, FilesTyped, RunInv, RunShape, SavesRight, TurnIsRight, InPlan, Steps, Discovering,
         ToolRunTypeOK, RegistryTypeOK

LEMMA InitRunTyped == ToolRunInit => RunTyped
  <1> SUFFICES ASSUME ToolRunInit PROVE RunTyped
    OBVIOUS
  <1>1. 0 \in 0..MaxNames /\ 0 \in 0..MaxFailures
    BY ToolAssumption, RegistryAssumption
  <1> QED BY <1>1, InitIsRight DEF ToolRunInit, RegistryInit, RunTyped, FilesTyped

LEMMA TurnFilesTyped ==
  ASSUME FilesTyped, NEW t \in Turns, Begins(t) \/ Goes(t)
  PROVE  FilesTyped'
  <1>1. MaxNames \in Nat /\ MaxFailures \in Nat /\ 0 \in 0..MaxNames
    BY ToolAssumption, RegistryAssumption
  <1>2. CASE CutOff(t)
    <2>1. /\ failures < MaxFailures /\ failures' = failures + 1 /\ told' = told /\ files' = files
          /\ saving' = [saving EXCEPT ![t] = 0] /\ wrote' = [wrote EXCEPT ![t] = FALSE]
      BY <1>2 DEF CutOff
    <2>2. failures' \in 0..MaxFailures
      BY <1>1, <2>1 DEF FilesTyped
    <2> QED BY <1>1, <2>1, <2>2 DEF FilesTyped
  <1>3. CASE Picks(t)
    <2>1. /\ failures' = failures /\ told' = told /\ files' = files /\ wrote' = wrote
          /\ \E name \in FreeName : saving' = [saving EXCEPT ![t] = name]
      BY <1>3 DEF Picks, registryVars
    <2>2. FreeName \subseteq 0..MaxNames
      BY <1>1 DEF FreeName
    <2> QED BY <2>1, <2>2 DEF FilesTyped
  <1>4. CASE Writes(t)
    <2>1. /\ failures' = failures /\ told' = told /\ saving' = saving /\ saving[t] # 0
          /\ DOMAIN files' = DOMAIN files \cup {saving[t]}
          /\ wrote' = [wrote EXCEPT ![t] = TRUE]
      BY <1>4 DEF Writes, registryVars
    <2>2. saving[t] \in 1..MaxNames
      BY <1>1, <2>1 DEF FilesTyped
    <2> QED BY <2>1, <2>2 DEF FilesTyped
  <1>5. CASE SaysSaved(t)
    <2>1. /\ failures' = failures /\ files' = files
          /\ told' = [told EXCEPT ![t] = saving[t]]
          /\ saving' = [saving EXCEPT ![t] = 0] /\ wrote' = [wrote EXCEPT ![t] = FALSE]
      BY <1>5 DEF SaysSaved
    <2> QED BY <1>1, <2>1 DEF FilesTyped
  <1>6. CASE ~(CutOff(t) \/ Picks(t) \/ Writes(t) \/ SaysSaved(t))
    <2>1. UNCHANGED <<failures, saving, wrote, told, files>>
      BY <1>6 DEF Begins, Goes, RequestListed, RequestNotListed, Listed, NotListed, WithoutTools, PlansChain,
                  PlansCalls, Routes, Sends, NotOffered, ReportsError, AnswersUnusably, ServerAnswers, Reports,
                  turnVars
    <2> QED BY <2>1 DEF FilesTyped
  <1> QED BY <1>2, <1>3, <1>4, <1>5, <1>6

LEMMA NextRunTyped == RunTyped /\ [ToolRunNext]_toolRunVars => RunTyped'
  <1> SUFFICES ASSUME RunTyped, [ToolRunNext]_toolRunVars PROVE RunTyped'
    OBVIOUS
  <1>1. RunInv'
    BY NextIsRight DEF RunTyped
  <1>2. FilesTyped'
    <2>1. CASE ToolRunNext
      BY <2>1, TurnFilesTyped DEF ToolRunNext, RunTyped
    <2>2. CASE UNCHANGED toolRunVars
      BY <2>2 DEF toolRunVars, turnVars, registryVars, RunTyped, FilesTyped
    <2> QED BY <2>1, <2>2
  <1> QED BY <1>1, <1>2 DEF RunTyped

(***************************************************************************)
(* Every variable of the two stays in its type, for any number of clients, *)
(* requests, turns, servers and failures: no address but a client's is     *)
(* remembered, only conversations are busy (local_chat_guard.py), and a    *)
(* turn never has more results than it planned calls                       *)
(* (japanese_learning_agent.py:_use_tools).                                *)
(***************************************************************************)
THEOREM TurnsStayTyped == TurnsSpec => []TurnsTypeOK
  <1>1. TurnsInit => TypeOK /\ RunTyped
    BY InitTyped, InitRunTyped DEF TurnsInit
  <1>2. TypeOK /\ RunTyped /\ [TurnsNext]_turnsVars => (TypeOK /\ RunTyped)'
    <2> SUFFICES ASSUME TypeOK, RunTyped, [TurnsNext]_turnsVars PROVE TypeOK' /\ RunTyped'
      OBVIOUS
    <2>1. [Next]_vars /\ [ToolRunNext]_toolRunVars
      BY DEF TurnsNext, turnsVars, LocalChats, UsesTools
    <2> QED BY <2>1, NextTyped, NextRunTyped
  <1>3. TypeOK /\ RunTyped => TurnsTypeOK
    BY RunIsTyped DEF TurnsTypeOK
  <1> QED BY <1>1, <1>2, <1>3, PTL DEF TurnsSpec
=============================================================================
