---------------------------- MODULE Parts_proofs ----------------------------
(***************************************************************************)
(* The parts that work each by itself, for any constants: the limiter is   *)
(* exact and its Retry-After long enough, a prompt is planned without      *)
(* losing a message silently, the chunks of a document are its text, and   *)
(* a search says what it did not look at.                                  *)
(***************************************************************************)
EXTENDS RateLimiter, PromptPlan, Chunking, FileSearch, TLAPS, WellFoundedInduction,
        FiniteSetTheorems, SequenceTheorems

\* A set of naturals that is not empty has a least element.
LEMMA LeastNatural ==
    ASSUME NEW T, T \subseteq Nat, T # {}
    PROVE  \E x \in T : \A y \in T : x <= y
<1> DEFINE R == {ss \in Nat \X Nat : ss[1] < ss[2]}
<1>1. IsWellFoundedOn(R, Nat)
    BY NatLessThanWellFounded DEF OpToRel
<1>2. \E x \in T : \A y \in T : ~ (<<y, x>> \in R)
    <2> HIDE DEF R
    <2> QED
        BY <1>1, WFMin, Zenon
<1>3. PICK x \in T : \A y \in T : ~ (<<y, x>> \in R)
    BY <1>2
<1>4. ASSUME NEW y \in T PROVE x <= y
    <2>1. x \in Nat /\ y \in Nat
        OBVIOUS
    <2>2. y < x => <<y, x>> \in R
        BY <2>1
    <2> QED
        BY <1>3, <2>1, <2>2
<1> QED
    BY <1>4

-----------------------------------------------------------------------------
(* RateLimiter.                                                             *)

\* tail is the end of all, and what comes before it left the window.
EndOf(tail, all) ==
    /\ tail \in Seq(Int) /\ Len(tail) <= Len(all)
    /\ \A i \in 1..Len(tail) : tail[i] = all[Len(all) - Len(tail) + i]
    /\ \A i \in 1..(Len(all) - Len(tail)) : now - all[i] >= Window

\* Times are in order, and none is still to come.
TimesAscend(times) ==
    /\ times \in Seq(Int)
    /\ \A i \in 1..Len(times) : times[i] <= now
    /\ \A i, j \in 1..Len(times) : i <= j => times[i] <= times[j]

Spaced(times) ==
    \A i \in 1..(Len(times) - Limit) : times[i + Limit] - times[i] >= Window

(***************************************************************************)
(* What the limiter remembers of an address is the end of what it let in,  *)
(* and what it no longer remembers left the window.                        *)
(***************************************************************************)
OnlyOldAreForgotten ==
    /\ now \in Nat
    /\ DOMAIN granted = Clients /\ DOMAIN seen \subseteq Clients
    /\ \A key \in Clients : /\ TimesAscend(granted[key])
                            /\ Spaced(granted[key])
                            /\ EndOf(SeenBy(key), granted[key])

\* The request Young cuts at exists, and what it cuts off left the window.
LEMMA YoungIsEnd ==
    ASSUME NEW times \in Seq(Int), now \in Int, Window \in Int
    PROVE  /\ EndOf(Young(times), times)
           /\ Len(Young(times)) > 0 => now - Young(times)[1] < Window
<1> DEFINE Stays == {i \in 1..(Len(times) + 1) : i <= Len(times) => now - times[i] < Window}
           First(i) == /\ \A j \in 1..(i - 1) : now - times[j] >= Window
                       /\ i <= Len(times) => now - times[i] < Window
           first == CHOOSE i \in 1..(Len(times) + 1) : First(i)
<1>1. Len(times) + 1 \in Stays /\ Stays \subseteq Nat
    OBVIOUS
<1>2. PICK x \in Stays : \A y \in Stays : x <= y
    <2> HIDE DEF Stays
    <2> QED
        BY <1>1, LeastNatural
<1>3. First(x) /\ x \in 1..(Len(times) + 1)
    <2>1. x \in 1..(Len(times) + 1)
        OBVIOUS
    <2>2. ASSUME NEW j \in 1..(x - 1) PROVE now - times[j] >= Window
        <3>1. j \in 1..Len(times) /\ ~(x <= j)
            BY <2>1
        <3>2. j \notin Stays
            BY <3>1, <1>2
        <3> QED
            BY <3>1, <3>2
    <2> QED
        BY <2>1, <2>2
<1>4. First(first) /\ first \in 1..(Len(times) + 1)
    <2> HIDE DEF First
    <2> QED
        BY <1>3
<1>5. Young(times) = SubSeq(times, first, Len(times))
    BY DEF Young
<1> HIDE DEF first
<1>6. /\ Young(times) \in Seq(Int)
      /\ Len(Young(times)) = Len(times) - first + 1
      /\ \A i \in 1..Len(Young(times)) : Young(times)[i] = times[first + i - 1]
    BY <1>4, <1>5
<1> HIDE DEF Stays
<1>7. EndOf(Young(times), times)
    BY <1>4, <1>6 DEF EndOf
<1>8. Len(Young(times)) > 0 => now - Young(times)[1] < Window
    <2>1. SUFFICES ASSUME Len(Young(times)) > 0 PROVE now - Young(times)[1] < Window
        OBVIOUS
    <2>2. Young(times)[1] = times[first] /\ first <= Len(times)
        BY <1>4, <1>6, <2>1
    <2> QED
        BY <1>4, <2>2
<1> QED
    BY <1>7, <1>8

\* What is the end of an end is an end.
LEMMA EndOfEnd ==
    ASSUME NEW a \in Seq(Int), NEW b \in Seq(Int), NEW all \in Seq(Int),
           EndOf(a, b), EndOf(b, all)
    PROVE  EndOf(a, all)
<1>1. /\ Len(a) \in Nat /\ Len(b) \in Nat /\ Len(all) \in Nat
      /\ Len(a) <= Len(b) /\ Len(b) <= Len(all)
    BY DEF EndOf
<1>2. ASSUME NEW i \in 1..Len(a) PROVE a[i] = all[Len(all) - Len(a) + i]
    <2>1. a[i] = b[Len(b) - Len(a) + i] /\ Len(b) - Len(a) + i \in 1..Len(b)
        BY <1>1 DEF EndOf
    <2>2. b[Len(b) - Len(a) + i] = all[Len(all) - Len(b) + (Len(b) - Len(a) + i)]
        BY <2>1 DEF EndOf
    <2> QED
        BY <1>1, <2>1, <2>2
<1>3. ASSUME NEW i \in 1..(Len(all) - Len(a)) PROVE now - all[i] >= Window
    <2>1. CASE i <= Len(all) - Len(b)
        BY <1>1, <2>1 DEF EndOf
    <2>2. CASE i > Len(all) - Len(b)
        <3> DEFINE j == i - (Len(all) - Len(b))
        <3>1. j \in 1..(Len(b) - Len(a)) /\ j \in 1..Len(b)
            BY <1>1, <2>2
        <3>2. now - b[j] >= Window
            BY <3>1 DEF EndOf
        <3>3. b[j] = all[Len(all) - Len(b) + j] /\ Len(all) - Len(b) + j = i
            BY <1>1, <3>1 DEF EndOf
        <3> QED
            BY <3>2, <3>3
    <2> QED
        BY <1>1, <2>1, <2>2
<1> QED
    BY <1>1, <1>2, <1>3 DEF EndOf

\* To cut what left the window keeps an end an end.
LEMMA YoungOfEnd ==
    ASSUME NEW tail, NEW all, TimesAscend(all), EndOf(tail, all), now \in Int
    PROVE  EndOf(Young(tail), all)
<1>1. tail \in Seq(Int) /\ all \in Seq(Int) /\ Window \in Int
    BY LimiterAssumption DEF EndOf, TimesAscend
<1>2. EndOf(Young(tail), tail)
    BY <1>1, YoungIsEnd
<1>3. Young(tail) \in Seq(Int)
    BY <1>2 DEF EndOf
<1> QED
    BY <1>1, <1>2, <1>3, EndOfEnd

(***************************************************************************)
(* The step that lets a request in: the request Limit places back is among *)
(* those that left the window.                                             *)
(***************************************************************************)
LEMMA AppendKeepsSpaced ==
    ASSUME NEW tail, NEW all, TimesAscend(all), Spaced(all), EndOf(tail, all),
           Len(tail) < Limit, now \in Int,
           Limit \in Nat \ {0}, Window \in Nat
    PROVE  /\ TimesAscend(Append(all, now)) /\ Spaced(Append(all, now))
           /\ EndOf(Append(tail, now), Append(all, now))
<1> DEFINE more == Append(all, now)
           later == Append(tail, now)
<1>1. /\ all \in Seq(Int) /\ tail \in Seq(Int)
      /\ Len(all) \in Nat /\ Len(tail) \in Nat /\ Len(tail) <= Len(all)
    BY DEF EndOf, TimesAscend
<1>2. /\ more \in Seq(Int) /\ Len(more) = Len(all) + 1
      /\ \A i \in 1..Len(all) : more[i] = all[i]
      /\ more[Len(all) + 1] = now
    BY <1>1
<1>3. /\ later \in Seq(Int) /\ Len(later) = Len(tail) + 1
      /\ \A i \in 1..Len(tail) : later[i] = tail[i]
      /\ later[Len(tail) + 1] = now
    BY <1>1
<1> HIDE DEF more, later
<1>4. TimesAscend(more)
    <2>1. ASSUME NEW i \in 1..(Len(all) + 1) PROVE more[i] <= now
        <3>1. CASE i = Len(all) + 1
            BY <1>2, <3>1
        <3>2. CASE i \in 1..Len(all)
            BY <1>2, <3>2 DEF TimesAscend
        <3> QED
            BY <1>1, <3>1, <3>2
    <2>2. ASSUME NEW i \in 1..(Len(all) + 1), NEW j \in 1..(Len(all) + 1), i <= j
          PROVE  more[i] <= more[j]
        <3>1. CASE j = Len(all) + 1
            BY <1>2, <2>1, <3>1
        <3>2. CASE j \in 1..Len(all)
            <4>1. i \in 1..Len(all)
                BY <1>1, <2>2, <3>2
            <4> QED
                BY <1>2, <2>2, <3>2, <4>1 DEF TimesAscend
        <3> QED
            BY <1>1, <3>1, <3>2
    <2> QED
        BY <1>2, <2>1, <2>2 DEF TimesAscend
<1>5. Spaced(more)
    <2>1. SUFFICES ASSUME NEW i \in 1..(Len(all) + 1 - Limit)
                   PROVE  more[i + Limit] - more[i] >= Window
        BY <1>1, <1>2 DEF Spaced
    <2>2. i \in 1..Len(all) /\ more[i] = all[i]
        BY <1>1, <1>2
    <2>3. CASE i + Limit = Len(all) + 1
        <3>1. i \in 1..(Len(all) - Len(tail))
            BY <1>1, <2>3
        <3> QED
            BY <1>2, <2>2, <2>3, <3>1 DEF EndOf
    <2>4. CASE i + Limit # Len(all) + 1
        <3>1. i \in 1..(Len(all) - Limit) /\ i + Limit \in 1..Len(all)
            BY <1>1, <2>4
        <3> QED
            BY <1>2, <2>2, <3>1 DEF Spaced
    <2> QED
        BY <2>3, <2>4
<1>6. EndOf(later, more)
    <2>1. ASSUME NEW i \in 1..(Len(tail) + 1)
          PROVE  later[i] = more[Len(all) - Len(tail) + i]
        <3>1. CASE i = Len(tail) + 1
            BY <1>1, <1>2, <1>3, <3>1
        <3>2. CASE i \in 1..Len(tail)
            <4>1. Len(all) - Len(tail) + i \in 1..Len(all)
                BY <1>1, <3>2
            <4> QED
                BY <1>2, <1>3, <3>2, <4>1 DEF EndOf
        <3>3. i = Len(tail) + 1 \/ i \in 1..Len(tail)
            BY <1>1
        <3> QED
            BY <3>1, <3>2, <3>3
    <2>2. ASSUME NEW i \in 1..(Len(all) - Len(tail))
          PROVE  now - more[i] >= Window
        <3>1. i \in 1..Len(all)
            BY <1>1
        <3> QED
            BY <1>2, <3>1 DEF EndOf
    <2>3. Len(more) - Len(later) = Len(all) - Len(tail) /\ Len(later) <= Len(more)
        BY <1>1, <1>2, <1>3
    <2> QED
        BY <1>2, <1>3, <2>1, <2>2, <2>3 DEF EndOf
<1> QED
    BY <1>4, <1>5, <1>6 DEF more, later

-----------------------------------------------------------------------------
\* Nothing was let in, and nothing is remembered.
LEMMA InitForgetsOnlyOld == LimiterInit => OnlyOldAreForgotten
<1> SUFFICES ASSUME LimiterInit PROVE OnlyOldAreForgotten
    OBVIOUS
<1>1. now = 0 /\ DOMAIN seen = {} /\ granted = [key \in Clients |-> <<>>]
    BY DEF LimiterInit
<1>2. ASSUME NEW key \in Clients
      PROVE  TimesAscend(granted[key]) /\ Spaced(granted[key]) /\ EndOf(SeenBy(key), granted[key])
    <2>1. granted[key] = <<>> /\ SeenBy(key) = <<>>
        BY <1>1 DEF SeenBy
    <2> QED
        BY <1>1, <2>1, LimiterAssumption DEF TimesAscend, Spaced, EndOf
<1> QED
    BY <1>1, <1>2 DEF OnlyOldAreForgotten

(***************************************************************************)
(* Times only get older.                                                   *)
(***************************************************************************)
LEMMA TickForgetsOnlyOld ==
    ASSUME OnlyOldAreForgotten, Tick
    PROVE  OnlyOldAreForgotten'
<1>1. now \in Nat /\ now' = now + 1 /\ seen' = seen /\ granted' = granted
    BY DEF Tick, OnlyOldAreForgotten
<1>2. ASSUME NEW key \in Clients
      PROVE  /\ TimesAscend(granted[key])' /\ Spaced(granted[key])'
             /\ EndOf(SeenBy(key), granted[key])'
    <2>1. /\ TimesAscend(granted[key]) /\ Spaced(granted[key])
          /\ EndOf(SeenBy(key), granted[key])
        BY DEF OnlyOldAreForgotten
    <2>2. SeenBy(key)' = SeenBy(key)
        BY <1>1 DEF SeenBy
    <2>3. TimesAscend(granted[key])'
        BY <1>1, <2>1 DEF TimesAscend
    <2>4. Spaced(granted[key])'
        BY <1>1, <2>1 DEF Spaced
    <2>5. EndOf(SeenBy(key), granted[key])'
        BY <1>1, <2>1, <2>2, LimiterAssumption DEF EndOf, TimesAscend
    <2> QED
        BY <2>3, <2>4, <2>5
<1> QED
    BY <1>1, <1>2 DEF OnlyOldAreForgotten

\* A refused request pops only what left the window, and adds nothing.
LEMMA RefuseForgetsOnlyOld ==
    ASSUME OnlyOldAreForgotten, NEW client \in Clients, Refuse(client)
    PROVE  OnlyOldAreForgotten'
<1>1. /\ now \in Nat /\ now' = now /\ granted' = granted
      /\ seen' = Remembered(client, Young(SeenBy(client)))
      /\ DOMAIN seen \subseteq Clients
    BY DEF Refuse, OnlyOldAreForgotten
<1>2. DOMAIN seen' \subseteq Clients
    BY <1>1 DEF Remembered
<1>3. ASSUME NEW key \in Clients
      PROVE  /\ TimesAscend(granted[key])' /\ Spaced(granted[key])'
             /\ EndOf(SeenBy(key), granted[key])'
    <2>1. /\ TimesAscend(granted[key]) /\ Spaced(granted[key])
          /\ EndOf(SeenBy(key), granted[key]) /\ SeenBy(key) \in Seq(Int)
        BY DEF OnlyOldAreForgotten, EndOf
    <2>2. EndOf(Young(SeenBy(key)), granted[key])
        BY <1>1, <2>1, YoungOfEnd
    <2>3. SeenBy(key)' = SeenBy(key) \/ SeenBy(key)' = Young(SeenBy(key))
        BY <1>1 DEF SeenBy, Remembered
    <2> QED
        BY <1>1, <2>1, <2>2, <2>3 DEF TimesAscend, Spaced, EndOf
<1> QED
    BY <1>1, <1>2, <1>3 DEF OnlyOldAreForgotten

(***************************************************************************)
(* An address that is forgotten has only requests that left the window.    *)
(***************************************************************************)
LEMMA ForgettingIsSafe ==
    ASSUME NEW map, NEW key \in DOMAIN map, NEW all, TimesAscend(all), EndOf(map[key], all),
           key \notin DOMAIN Forgotten(map), now \in Int
    PROVE  EndOf(<<>>, all)
<1> DEFINE tail == map[key]
<1>1. /\ all \in Seq(Int) /\ tail \in Seq(Int)
      /\ Len(all) \in Nat /\ Len(tail) \in Nat /\ Len(tail) <= Len(all)
    BY DEF EndOf, TimesAscend
<1>2. tail = <<>> \/ ~(now - tail[Len(tail)] < Window)
    BY DEF Forgotten
<1>3. CASE tail = <<>>
    BY <1>3
<1>4. CASE tail # <<>>
    <2>1. Len(tail) \in 1..Len(tail) /\ Len(all) \in 1..Len(all)
        BY <1>1, <1>4
    <2>2. tail[Len(tail)] = all[Len(all)]
        BY <1>1, <2>1 DEF EndOf
    <2>3. now - all[Len(all)] >= Window
        BY <1>1, <1>2, <1>4, <2>1, <2>2, LimiterAssumption
    <2>4. ASSUME NEW i \in 1..Len(all) PROVE now - all[i] >= Window
        <3>1. all[i] <= all[Len(all)]
            BY <1>1, <2>1 DEF TimesAscend
        <3> QED
            BY <1>1, <2>1, <2>3, <3>1, LimiterAssumption
    <2> QED
        BY <1>1, <2>4 DEF EndOf
<1> QED
    BY <1>3, <1>4

\* The request let in, and every address forgotten because of it.
LEMMA GrantForgetsOnlyOld ==
    ASSUME OnlyOldAreForgotten, NEW client \in Clients, Grant(client)
    PROVE  OnlyOldAreForgotten'
<1> DEFINE times == Append(Young(SeenBy(client)), now)
           map == Remembered(client, times)
           all(key) == IF key = client THEN Append(granted[key], now) ELSE granted[key]
<1>1. /\ now \in Nat /\ now' = now /\ seen' = Forgotten(map)
      /\ Len(Young(SeenBy(client))) < Limit
      /\ DOMAIN seen \subseteq Clients
      /\ DOMAIN granted' = Clients
      /\ \A key \in Clients : granted'[key] = all(key)
    BY DEF Grant, Allowed, OnlyOldAreForgotten
<1>2. /\ DOMAIN map = DOMAIN seen \cup {client}
      /\ \A key \in DOMAIN map : map[key] = IF key = client THEN times ELSE seen[key]
    BY DEF Remembered
<1>3. /\ DOMAIN Forgotten(map) \subseteq DOMAIN map
      /\ \A key \in DOMAIN Forgotten(map) : Forgotten(map)[key] = map[key]
    <2> HIDE DEF map
    <2> QED
        BY DEF Forgotten
<1>4. ASSUME NEW key \in Clients
      PROVE  /\ TimesAscend(all(key)) /\ Spaced(all(key))
             /\ key \in DOMAIN map => EndOf(map[key], all(key))
             /\ key \notin DOMAIN map => EndOf(<<>>, all(key))
    <2>1. /\ TimesAscend(granted[key]) /\ Spaced(granted[key])
          /\ EndOf(SeenBy(key), granted[key]) /\ SeenBy(key) \in Seq(Int)
        BY DEF OnlyOldAreForgotten, EndOf
    <2>2. CASE key = client
        <3>1. EndOf(Young(SeenBy(client)), granted[client])
            BY <1>1, <2>1, <2>2, YoungOfEnd
        <3>2. /\ TimesAscend(Append(granted[client], now)) /\ Spaced(Append(granted[client], now))
              /\ EndOf(times, Append(granted[client], now))
            BY <1>1, <2>1, <2>2, <3>1, AppendKeepsSpaced, LimiterAssumption
        <3> QED
            BY <1>2, <2>2, <3>2
    <2>3. CASE key # client
        <3>1. all(key) = granted[key]
            BY <2>3
        <3>2. /\ key \in DOMAIN map => map[key] = SeenBy(key)
              /\ key \notin DOMAIN map => SeenBy(key) = <<>>
            BY <1>2, <2>3 DEF SeenBy
        <3> HIDE DEF all, map
        <3> QED
            BY <2>1, <3>1, <3>2
    <2> QED
        BY <2>2, <2>3
<1> HIDE DEF map, times, all
<1>5. ASSUME NEW key \in Clients
      PROVE  /\ TimesAscend(granted[key])' /\ Spaced(granted[key])'
             /\ EndOf(SeenBy(key), granted[key])'
    <2>1. EndOf(SeenBy(key)', all(key))
        <3>1. CASE key \in DOMAIN seen'
            BY <1>1, <1>3, <1>4, <3>1 DEF SeenBy
        <3>2. CASE key \notin DOMAIN seen'
            <4>1. SeenBy(key)' = <<>>
                BY <3>2 DEF SeenBy
            <4>2. CASE key \in DOMAIN map
                BY <1>1, <1>4, <3>2, <4>1, <4>2, ForgettingIsSafe
            <4>3. CASE key \notin DOMAIN map
                BY <1>4, <4>1, <4>3
            <4> QED
                BY <4>2, <4>3
        <3> QED
            BY <3>1, <3>2
    <2>2. granted'[key] = all(key) /\ TimesAscend(all(key)) /\ Spaced(all(key))
        BY <1>1, <1>4
    <2> QED
        BY <1>1, <2>1, <2>2 DEF TimesAscend, Spaced, EndOf
<1>6. DOMAIN seen' \subseteq Clients
    BY <1>1, <1>2, <1>3
<1> QED
    BY <1>1, <1>5, <1>6 DEF OnlyOldAreForgotten

\* The invariant is inductive.
LEMMA StepForgetsOnlyOld ==
    OnlyOldAreForgotten /\ [LimiterNext]_limiterVars => OnlyOldAreForgotten'
<1> SUFFICES ASSUME OnlyOldAreForgotten, [LimiterNext]_limiterVars
             PROVE  OnlyOldAreForgotten'
    OBVIOUS
<1>1. CASE Tick
    BY <1>1, TickForgetsOnlyOld
<1>2. ASSUME NEW key \in Clients, Refuse(key) PROVE OnlyOldAreForgotten'
    BY <1>2, RefuseForgetsOnlyOld
<1>3. ASSUME NEW key \in Clients, Grant(key) PROVE OnlyOldAreForgotten'
    BY <1>3, GrantForgetsOnlyOld
<1>4. CASE UNCHANGED limiterVars
    BY <1>4 DEF limiterVars, OnlyOldAreForgotten, TimesAscend, Spaced, EndOf, SeenBy
<1> QED
    BY <1>1, <1>2, <1>3, <1>4 DEF LimiterNext

(***************************************************************************)
(* The limiter is exact: for any number of addresses and any limits, no    *)
(* window holds more than Limit requests of one address.                   *)
(***************************************************************************)
THEOREM LimitIsExact == LimiterSpec => []AtMostLimitPerWindow
<1>1. LimiterInit => OnlyOldAreForgotten
    BY InitForgetsOnlyOld
<1>2. OnlyOldAreForgotten /\ [LimiterNext]_limiterVars => OnlyOldAreForgotten'
    BY StepForgetsOnlyOld
<1>3. OnlyOldAreForgotten => AtMostLimitPerWindow
    BY DEF OnlyOldAreForgotten, AtMostLimitPerWindow, Spaced
<1> QED
    BY <1>1, <1>2, <1>3, PTL DEF LimiterSpec

-----------------------------------------------------------------------------
(***************************************************************************)
(* Retry-After is long enough.  Nothing is let in after a refusal until    *)
(* its promise is taken back, so the promise can be held against the       *)
(* requests that were let in: it lies a window after the oldest of the     *)
(* last Limit of them.                                                     *)
(***************************************************************************)
Oldest(times) == times[Len(times) - Limit + 1]

PromisesAreLate ==
    /\ DOMAIN promised = Clients
    /\ \A key \in Clients : promised[key] # Never =>
          /\ Len(granted[key]) >= Limit
          /\ promised[key] \in Int /\ promised[key] - Oldest(granted[key]) >= Window

WaitInv == OnlyOldAreForgotten /\ PromisesAreLate

\* Rounded up, the seconds are enough.
LEMMA CeilDivIsEnough ==
    ASSUME NEW a \in Nat \ {0}, NEW b \in Nat \ {0}
    PROVE  CeilDiv(a, b) \in Nat /\ b * CeilDiv(a, b) >= a
<1> DEFINE c == a + b - 1
<1>1. c \in Nat
    OBVIOUS
<1>2. c = a + b - 1
    OBVIOUS
<1> HIDE DEF c
<1>3. c \div b \in Int
    BY <1>1, Z3
<1>4. b * (c \div b) <= c /\ c < b * (c \div b) + b
    BY <1>1, Z3
<1>5. CeilDiv(a, b) = c \div b
    BY <1>2 DEF CeilDiv
<1> DEFINE q == c \div b
<1> HIDE DEF q
<1>6. q \in Int /\ b * q <= c /\ c < b * q + b
    BY <1>3, <1>4 DEF q
<1>7. b * q \in Int
    BY <1>6
<1>8. b * q >= a
    BY <1>2, <1>6, <1>7
<1>9. q \in Nat
    <2>1. ASSUME q < 0 PROVE b * q <= 0
        BY <1>6, <2>1, Z3
    <2> QED
        BY <1>6, <1>7, <1>8, <2>1
<1> QED
    BY <1>5, <1>8, <1>9 DEF q

\* The wait a refusal names is at least the rest of the window.
LEMMA RetryIsEnough ==
    ASSUME NEW key, NEW rest \in Nat \ {0}, rest = Window - (now - Young(SeenBy(key))[1])
    PROVE  RetryAfter(key) \in Nat \ {0} /\ Second * RetryAfter(key) >= rest
<1>1. Second \in Nat \ {0}
    BY LimiterAssumption
<1> DEFINE seconds == CeilDiv(rest, Second)
<1>2. seconds \in Nat /\ Second * seconds >= rest
    BY <1>1, CeilDivIsEnough
<1>3. RetryAfter(key) = IF seconds < 1 THEN 1 ELSE seconds
    BY DEF RetryAfter
<1> HIDE DEF seconds
<1>4. seconds # 0
    BY <1>1, <1>2
<1> QED
    BY <1>2, <1>3, <1>4

\* A full window holds exactly Limit requests, the last ones let in.
LEMMA FullWindow ==
    ASSUME NEW young, NEW all, TimesAscend(all), Spaced(all), EndOf(young, all), now \in Int,
           Limit \in Nat \ {0}, Window \in Nat, Len(young) >= Limit,
           now - young[1] < Window
    PROVE  Len(young) = Limit /\ Len(all) >= Limit /\ young[1] = Oldest(all) /\ young[1] <= now
<1>1. /\ all \in Seq(Int) /\ young \in Seq(Int)
      /\ Len(all) \in Nat /\ Len(young) \in Nat /\ Len(young) <= Len(all)
    BY DEF EndOf, TimesAscend
<1> DEFINE i == Len(all) - Len(young) + 1
<1>2. i \in 1..Len(all) /\ young[1] = all[i] /\ all[i] \in Int
    <2>1. 1 \in 1..Len(young) /\ Len(all) - Len(young) + 1 \in 1..Len(all)
        BY <1>1
    <2>2. young[1] = all[Len(all) - Len(young) + 1]
        BY <2>1 DEF EndOf
    <2> QED
        BY <1>1, <2>1, <2>2
<1>3. Len(young) = Limit
    <2>1. SUFFICES ASSUME Len(young) > Limit PROVE FALSE
        BY <1>1
    <2>2. i \in 1..(Len(all) - Limit) /\ i + Limit \in 1..Len(all)
        BY <1>1, <2>1
    <2>3. all[i + Limit] - all[i] >= Window
        BY <2>2 DEF Spaced
    <2>4. all[i + Limit] <= now /\ all[i + Limit] \in Int
        BY <1>1, <2>2 DEF TimesAscend
    <2> QED
        BY <1>2, <2>3, <2>4
<1> QED
    BY <1>1, <1>2, <1>3 DEF Oldest, TimesAscend

\* Once the last Limit requests' oldest has left the window there is room.
LEMMA RoomAfterWindow ==
    ASSUME OnlyOldAreForgotten, NEW key \in Clients,
           Len(granted[key]) >= Limit, now - Oldest(granted[key]) >= Window
    PROVE  Allowed(key)
<1> DEFINE young == Young(SeenBy(key))
<1>1. /\ now \in Int /\ TimesAscend(granted[key]) /\ Spaced(granted[key])
      /\ EndOf(SeenBy(key), granted[key]) /\ SeenBy(key) \in Seq(Int)
      /\ Limit \in Nat \ {0} /\ Window \in Nat
    BY LimiterAssumption DEF OnlyOldAreForgotten, EndOf
<1>2. EndOf(young, granted[key])
    BY <1>1, YoungOfEnd
<1>3. Len(young) > 0 => now - young[1] < Window
    BY <1>1, YoungIsEnd
<1> HIDE DEF young
<1>4. SUFFICES ASSUME ~(Len(young) < Limit) PROVE FALSE
    BY DEF Allowed, young
<1>5. young \in Seq(Int) /\ Len(young) \in Nat
    BY <1>2 DEF EndOf
<1>6. Len(young) >= Limit /\ now - young[1] < Window
    BY <1>1, <1>3, <1>4, <1>5
<1>7. young[1] = Oldest(granted[key])
    BY <1>1, <1>2, <1>6, FullWindow
<1>8. young[1] \in Int
    BY <1>1, <1>5, <1>6
<1> QED
    BY <1>1, <1>6, <1>7, <1>8

LEMMA RefuseIsLate ==
    ASSUME WaitInv, NEW client \in Clients, Refuse(client)
    PROVE  PromisesAreLate'
<1> DEFINE young == Young(SeenBy(client))
<1>1. /\ now \in Nat /\ TimesAscend(granted[client]) /\ Spaced(granted[client])
      /\ EndOf(SeenBy(client), granted[client]) /\ SeenBy(client) \in Seq(Int)
      /\ Limit \in Nat \ {0} /\ Window \in Nat \ {0} /\ Second \in Nat \ {0}
    BY LimiterAssumption DEF WaitInv, OnlyOldAreForgotten, EndOf
<1>2. EndOf(young, granted[client])
    BY <1>1, YoungOfEnd
<1>3. Len(young) > 0 => now - young[1] < Window
    BY <1>1, YoungIsEnd
<1>4. ~(Len(young) < Limit)
    BY DEF Refuse, Allowed
<1> DEFINE wait == RetryAfter(client)
           rest == Window - (now - young[1])
<1>5. /\ granted' = granted /\ promised' = [promised EXCEPT ![client] = now + Second * wait]
    BY DEF Refuse
<1>6. rest = Window - (now - Young(SeenBy(client))[1])
    OBVIOUS
<1> HIDE DEF young
<1>7. young \in Seq(Int) /\ Len(young) \in Nat
    BY <1>2 DEF EndOf
<1>8. Len(young) >= Limit /\ now - young[1] < Window /\ young[1] \in Int
    BY <1>1, <1>3, <1>4, <1>7
<1>9. Len(granted[client]) >= Limit /\ young[1] = Oldest(granted[client]) /\ young[1] <= now
    BY <1>1, <1>2, <1>8, FullWindow
<1>10. rest \in Nat \ {0}
    BY <1>1, <1>8, <1>9
<1>10a. rest = Window - (now - young[1])
    OBVIOUS
<1> HIDE DEF rest
<1>11. wait \in Nat \ {0} /\ Second * wait >= rest
    BY <1>6, <1>10, RetryIsEnough
<1> HIDE DEF wait
<1> DEFINE later == Second * wait
<1>12. later \in Int
    BY <1>1, <1>11
<1>13. promised' = [promised EXCEPT ![client] = now + later] /\ later >= rest
    BY <1>5, <1>11
<1> HIDE DEF later
<1>14. now + later \in Int /\ now + later - Oldest(granted[client]) >= Window
    BY <1>1, <1>8, <1>9, <1>10, <1>10a, <1>12, <1>13
<1>14a. Oldest(granted[client]) \in Int /\ Window \in Int /\ now \in Int
    BY <1>1, <1>8, <1>9
<1>15. PromisesAreLate /\ DOMAIN promised = Clients
    BY DEF WaitInv, PromisesAreLate
<1>16. /\ DOMAIN promised' = Clients /\ promised'[client] = now + later
       /\ \A key \in Clients : key # client => promised'[key] = promised[key]
    BY <1>13, <1>15
<1>17. ASSUME NEW key \in Clients, promised'[key] # Never
       PROVE  /\ Len(granted[key]) >= Limit
              /\ promised'[key] \in Int /\ promised'[key] - Oldest(granted[key]) >= Window
    <2>1. CASE key = client
        <3>1. promised'[key] = now + later /\ granted[key] = granted[client]
            BY <1>16, <2>1
        <3> QED
            BY <1>1, <1>9, <1>12, <1>14, <1>14a, <3>1
    <2>2. CASE key # client
        BY <1>15, <1>16, <1>17, <2>2 DEF PromisesAreLate
    <2> QED
        BY <2>1, <2>2
<1> QED
    BY <1>5, <1>16, <1>17 DEF PromisesAreLate, Oldest

LEMMA GrantIsLate ==
    ASSUME WaitInv, NEW client \in Clients, Grant(client)
    PROVE  PromisesAreLate'
<1>1. /\ promised' = [promised EXCEPT ![client] = Never]
      /\ granted' = [granted EXCEPT ![client] = Append(@, now)]
    BY DEF Grant
<1>2. \A key \in Clients : promised'[key] # Never =>
           promised'[key] = promised[key] /\ granted'[key] = granted[key]
    BY <1>1 DEF WaitInv, PromisesAreLate, OnlyOldAreForgotten
<1> QED
    BY <1>1, <1>2 DEF WaitInv, PromisesAreLate, Oldest

LEMMA StepIsLate ==
    ASSUME WaitInv, [LimiterNext]_limiterVars PROVE WaitInv'
<1>1. OnlyOldAreForgotten'
    BY StepForgetsOnlyOld DEF WaitInv
<1>2. CASE granted' = granted /\ promised' = promised
    BY <1>1, <1>2 DEF WaitInv, PromisesAreLate, Oldest
<1>3. ASSUME NEW key \in Clients, Refuse(key) PROVE WaitInv'
    BY <1>1, <1>3, RefuseIsLate DEF WaitInv
<1>4. ASSUME NEW key \in Clients, Grant(key) PROVE WaitInv'
    BY <1>1, <1>4, GrantIsLate DEF WaitInv
<1> QED
    BY <1>2, <1>3, <1>4 DEF LimiterNext, Tick, limiterVars

\* A client that waits as long as Retry-After says is let in, for any limits
\* and any length of a second: the rounding never sends it back too early.
THEOREM WaitingIsEnough == LimiterSpec => []WaitIsEnough
<1>1. LimiterInit => WaitInv
    BY InitForgetsOnlyOld DEF LimiterInit, WaitInv, PromisesAreLate
<1>2. WaitInv /\ [LimiterNext]_limiterVars => WaitInv'
    BY StepIsLate
<1>3. WaitInv => WaitIsEnough
    <2> SUFFICES ASSUME WaitInv, NEW key \in Clients, promised[key] # Never, now >= promised[key]
                 PROVE  Allowed(key)
        BY DEF WaitIsEnough
    <2>1. /\ Len(granted[key]) >= Limit
          /\ promised[key] \in Int /\ promised[key] - Oldest(granted[key]) >= Window
          /\ OnlyOldAreForgotten
        BY DEF WaitInv, PromisesAreLate
    <2>2. Oldest(granted[key]) \in Int /\ now \in Nat
        <3>1. granted[key] \in Seq(Int) /\ now \in Nat
            BY <2>1 DEF OnlyOldAreForgotten, TimesAscend
        <3>2. Len(granted[key]) - Limit + 1 \in 1..Len(granted[key])
            BY <2>1, <3>1, LimiterAssumption
        <3> QED
            BY <3>1, <3>2 DEF Oldest
    <2>3. now - Oldest(granted[key]) >= Window
        BY <2>1, <2>2, LimiterAssumption
    <2> QED
        BY <2>1, <2>3, RoomAfterWindow
<1> QED
    BY <1>1, <1>2, <1>3, PTL DEF LimiterSpec

-----------------------------------------------------------------------------
(* PromptPlan.                                                              *)

HowMany == Len(history)

\* What the loop has counted so far.
Counted ==
    /\ history \in Seq(Texts) /\ recent \in Nat
    /\ kept \in Nat /\ dropped \in Nat
    /\ kept <= Candidates
    /\ pc = "adding" => dropped = HowMany - Candidates
    /\ pc = "planned" => kept + dropped = HowMany
    /\ pc = "start" => kept = 0 /\ dropped = 0

(***************************************************************************)
(* The candidates of the loop are messages of the history.                 *)
(***************************************************************************)
LEMMA CandidatesAreOfHistory ==
    ASSUME history \in Seq(Texts), recent \in Nat
    PROVE  /\ HowMany \in Nat /\ Candidates \in Nat
           /\ Candidates <= HowMany
BY DEF HowMany, Candidates

\* Before the loop nothing is kept and nothing dropped.
LEMMA InitCounts == PromptInit => Counted
<1> SUFFICES ASSUME PromptInit PROVE Counted
    OBVIOUS
<1>1. recent \in Nat
    BY PromptAssumption DEF PromptInit
<1>2. PICK n \in 0..MaxHistory : history \in [1..n -> Texts]
    BY DEF PromptInit
<1>3. history \in Seq(Texts)
    BY <1>2, PromptAssumption
<1>4. kept = 0 /\ dropped = 0 /\ pc = "start"
    BY DEF PromptInit
<1> QED
    BY <1>1, <1>3, <1>4, CandidatesAreOfHistory DEF Counted

\* Every step counts the message it looks at as kept or dropped.
LEMMA StepCounts == Counted /\ [PromptNext]_promptVars => Counted'
<1> SUFFICES ASSUME Counted, [PromptNext]_promptVars PROVE Counted'
    OBVIOUS
<1>1. /\ HowMany \in Nat /\ Candidates \in Nat /\ Candidates <= HowMany
    BY CandidatesAreOfHistory DEF Counted
<1>2. ASSUME UNCHANGED inputs
      PROVE  /\ history' = history /\ recent' = recent
             /\ HowMany' = HowMany /\ Candidates' = Candidates
    BY <1>2 DEF inputs, HowMany, Candidates
<1>3. CASE TooLarge
    BY <1>1, <1>2, <1>3 DEF TooLarge, Counted
<1>4. CASE Begins
    BY <1>1, <1>2, <1>4 DEF Begins, Counted, HowMany
<1>5. CASE Adds
    BY <1>1, <1>2, <1>5 DEF Adds, Counted
<1>6. CASE Stops
    BY <1>1, <1>2, <1>6 DEF Stops, Counted
<1>7. CASE RunsOut
    BY <1>1, <1>2, <1>7 DEF RunsOut, Counted
<1>8. CASE UNCHANGED promptVars
    BY <1>1, <1>2, <1>8 DEF promptVars, Counted
<1> QED
    BY <1>3, <1>4, <1>5, <1>6, <1>7, <1>8 DEF PromptNext

(***************************************************************************)
(* What plan_prompt used and what it dropped make the whole history: a     *)
(* message is never dropped silently.                                      *)
(***************************************************************************)
THEOREM MessagesAreCounted == PromptSpec => []EveryMessageCounted
<1>1. PromptInit => Counted
    BY InitCounts
<1>2. Counted /\ [PromptNext]_promptVars => Counted'
    BY StepCounts
<1>3. Counted => EveryMessageCounted
    BY DEF Counted, EveryMessageCounted, HowMany
<1> QED
    BY <1>1, <1>2, <1>3, PTL DEF PromptSpec


(***************************************************************************)
(* The plan is the best one.  The loop stops at the first message that     *)
(* does not fit; that no longer stretch fits either is because a longer    *)
(* stretch never estimates at less, which takes an induction over the      *)
(* messages, since the transcript is added up from the oldest.             *)
(***************************************************************************)

\* Induction up to n, of a set.
LEMMA InductionTo ==
    ASSUME NEW n \in Nat, NEW S, 0 \in S, \A i \in 0..n : i < n /\ i \in S => i + 1 \in S
    PROVE  \A i \in 0..n : i \in S
<1> DEFINE T == {i \in 0..n : i \notin S}
<1>1. SUFFICES ASSUME T # {} PROVE FALSE
    OBVIOUS
<1>2. T \subseteq Nat
    OBVIOUS
<1>3. PICK x \in T : \A y \in T : x <= y
    <2> HIDE DEF T
    <2> QED
        BY <1>1, <1>2, LeastNatural
<1>4. x # 0 /\ x - 1 \in 0..n /\ x - 1 < n /\ ~(x <= x - 1)
    OBVIOUS
<1>5. x - 1 \in S
    BY <1>3, <1>4
<1>6. (x - 1) + 1 \in S /\ (x - 1) + 1 = x
    BY <1>4, <1>5
<1> QED
    BY <1>6

Sizes == [dense : Nat, other : Nat]
Nothing == [dense |-> 0, other |-> 0]
Plus(total, text) ==
    [dense |-> total.dense + text.dense, other |-> total.other + text.other + Label]

\* g adds up the first n texts.
Sums(g, texts, n) ==
    /\ g \in [0..n -> Sizes] /\ g[0] = Nothing
    /\ \A i \in 1..n : g[i] = Plus(g[i - 1], texts[i])

LEMMA PlusIsSize == ASSUME NEW a \in Sizes, NEW b \in Sizes PROVE Plus(a, b) \in Sizes
    BY PromptAssumption DEF Plus, Sizes

LEMMA SumsExist ==
    ASSUME NEW texts \in Seq(Sizes) PROVE \E g : Sums(g, texts, Len(texts))
<1> DEFINE n == Len(texts)
           S == {i \in 0..n : \E g : Sums(g, texts, i)}
<1>1. n \in Nat
    OBVIOUS
<1>2. 0 \in S
    <2> DEFINE g == [i \in 0..0 |-> Nothing]
    <2>1. g \in [0..0 -> Sizes] /\ g[0] = Nothing
        BY DEF Nothing, Sizes
    <2> HIDE DEF g
    <2>2. Sums(g, texts, 0)
        BY <2>1 DEF Sums
    <2> QED
        BY <1>1, <2>2
<1>3. ASSUME NEW i \in 0..n, i < n, i \in S PROVE i + 1 \in S
    <2>1. PICK g : Sums(g, texts, i)
        BY <1>3
    <2>2. i + 1 \in 1..n /\ texts[i + 1] \in Sizes /\ i \in 0..i
        BY <1>1, <1>3
    <2> DEFINE more == [j \in 0..(i + 1) |-> IF j = i + 1 THEN Plus(g[i], texts[i + 1]) ELSE g[j]]
    <2>3. g[i] \in Sizes /\ Plus(g[i], texts[i + 1]) \in Sizes
        BY <2>1, <2>2, PlusIsSize DEF Sums
    <2>4. ASSUME NEW j \in 0..(i + 1) PROVE more[j] \in Sizes
        <3>1. j # i + 1 => j \in 0..i
            BY <2>2
        <3> QED
            BY <2>1, <2>3, <3>1 DEF Sums
    <2>5. more \in [0..(i + 1) -> Sizes]
        <3> HIDE DEF Plus
        <3> QED
            BY <2>4
    <2>6. more[0] = Nothing
        <3>1. 0 \in 0..(i + 1) /\ 0 # i + 1
            BY <2>2
        <3> QED
            BY <2>1, <3>1 DEF Sums
    <2>7. ASSUME NEW j \in 1..(i + 1) PROVE more[j] = Plus(more[j - 1], texts[j])
        <3>1. j \in 0..(i + 1) /\ j - 1 \in 0..(i + 1) /\ j - 1 # i + 1
            BY <2>2
        <3>2. CASE j = i + 1
            <4>1. j - 1 = i
                BY <2>2, <3>2
            <4> QED
                BY <3>1, <3>2, <4>1
        <3>3. CASE j # i + 1
            <4>1. j \in 1..i
                BY <2>2, <3>3
            <4>2. g[j] = Plus(g[j - 1], texts[j])
                BY <2>1, <4>1 DEF Sums
            <4> QED
                BY <3>1, <3>3, <4>2
        <3> QED
            BY <3>2, <3>3
    <2> HIDE DEF more
    <2>8. Sums(more, texts, i + 1)
        BY <2>5, <2>6, <2>7 DEF Sums
    <2> QED
        BY <1>1, <2>2, <2>8
<1>4. \A i \in 0..n : i \in S
    <2> HIDE DEF S
    <2> QED
        BY <1>1, <1>2, <1>3, InductionTo
<1> QED
    BY <1>1, <1>4

\* The function the transcript's length is read from is such a g.
LEMMA TranscriptSums ==
    ASSUME NEW texts \in Seq(Sizes)
    PROVE  \E g : Sums(g, texts, Len(texts)) /\ Transcript(texts) = g[Len(texts)]
<1> DEFINE n == Len(texts)
           Upto(g, i) == IF i = 0 THEN [dense |-> 0, other |-> 0]
                         ELSE [dense |-> g[i - 1].dense + texts[i].dense,
                               other |-> g[i - 1].other + texts[i].other + Label]
           Is(g) == g = [i \in 0..n |-> Upto(g, i)]
           total == CHOOSE g : Is(g)
<1>1. Transcript(texts) = total[n]
    BY DEF Transcript
<1>2. PICK g : Sums(g, texts, n)
    BY SumsExist
<1>3. n \in Nat /\ \A i \in 1..n : texts[i] \in Sizes
    OBVIOUS
<1>4. ASSUME NEW i \in 0..n PROVE g[i] = Upto(g, i)
    <2>1. CASE i = 0
        BY <1>2, <2>1 DEF Sums, Nothing
    <2>2. CASE i # 0
        <3>1. i \in 1..n
            BY <1>3, <2>2
        <3> QED
            BY <1>2, <2>2, <3>1 DEF Sums, Plus
    <2> QED
        BY <2>1, <2>2
<1>5. Is(g)
    <2>1. g = [i \in 0..n |-> g[i]]
        BY <1>2 DEF Sums
    <2> HIDE DEF Upto
    <2> QED
        BY <1>4, <2>1
<1>6. Is(total)
    <2> HIDE DEF Is
    <2> QED
        BY <1>5
<1> HIDE DEF total
<1>7. DOMAIN total = 0..n /\ \A i \in 0..n : total[i] = Upto(total, i)
    <2> HIDE DEF Upto
    <2> QED
        BY <1>6
<1>8. total[0] = Nothing /\ \A i \in 1..n : total[i] = Plus(total[i - 1], texts[i])
    <2>1. 0 \in 0..n /\ \A i \in 1..n : i \in 0..n /\ i # 0
        BY <1>3
    <2>2. total[0] = Nothing
        BY <1>7, <2>1 DEF Nothing
    <2>3. ASSUME NEW i \in 1..n PROVE total[i] = Plus(total[i - 1], texts[i])
        BY <1>7, <2>1 DEF Plus
    <2> QED
        BY <2>2, <2>3
<1> HIDE DEF Is, Upto
<1> DEFINE S == {i \in 0..n : total[i] \in Sizes}
<1>9. 0 \in S
    BY <1>3, <1>8 DEF Nothing, Sizes
<1>10. ASSUME NEW i \in 0..n, i < n, i \in S PROVE i + 1 \in S
    <2>1. i + 1 \in 1..n /\ (i + 1) - 1 = i /\ i + 1 \in 0..n
        BY <1>3, <1>10
    <2>2. total[i + 1] = Plus(total[i], texts[i + 1]) /\ texts[i + 1] \in Sizes
        BY <1>3, <1>8, <2>1
    <2> QED
        BY <1>10, <2>1, <2>2, PlusIsSize
<1>11. \A i \in 0..n : i \in S
    <2> HIDE DEF S
    <2> QED
        BY <1>3, <1>9, <1>10, InductionTo
<1>12. total = [i \in 0..n |-> total[i]]
    BY <1>6, <1>7 DEF Is
<1>13. total \in [0..n -> Sizes]
    BY <1>11, <1>12
<1>14. Sums(total, texts, n)
    BY <1>8, <1>13 DEF Sums
<1> QED
    BY <1>1, <1>14

\* One message more in front makes no transcript shorter.
LEMMA LongerIsMore ==
    ASSUME NEW texts \in Seq(Sizes), NEW longer \in Seq(Sizes), Len(longer) = Len(texts) + 1,
           \A i \in 1..Len(texts) : longer[i + 1] = texts[i]
    PROVE  /\ Transcript(texts) \in Sizes /\ Transcript(longer) \in Sizes
           /\ Transcript(texts).dense <= Transcript(longer).dense
           /\ Transcript(texts).other <= Transcript(longer).other
<1> DEFINE n == Len(texts)
<1>0. n \in Nat
    OBVIOUS
<1>1. PICK g : Sums(g, texts, n) /\ Transcript(texts) = g[n]
    BY TranscriptSums
<1>2. PICK h : Sums(h, longer, Len(longer)) /\ Transcript(longer) = h[Len(longer)]
    BY TranscriptSums
<1>3. Sums(h, longer, n + 1) /\ Transcript(longer) = h[n + 1]
    BY <1>2
<1> DEFINE AtMost(a, b) == a.dense <= b.dense /\ a.other <= b.other
           S == {i \in 0..n : AtMost(g[i], h[i + 1])}
<1>4. /\ \A i \in 0..n : g[i] \in Sizes /\ h[i + 1] \in Sizes
      /\ \A i \in 1..n : texts[i] \in Sizes
    <2>1. \A i \in 0..n : i + 1 \in 0..(n + 1)
        BY <1>0
    <2>2. g \in [0..n -> Sizes] /\ h \in [0..(n + 1) -> Sizes]
        BY <1>1, <1>3 DEF Sums
    <2>3. \A i \in 1..n : texts[i] \in Sizes
        OBVIOUS
    <2> QED
        BY <2>1, <2>2, <2>3
<1>5. 0 \in S
    <2>1. g[0] = Nothing /\ 0 \in 0..n /\ h[0 + 1] \in Sizes
        BY <1>0, <1>1, <1>4 DEF Sums
    <2>2. \A size \in Sizes : AtMost(Nothing, size)
        BY DEF Nothing, Sizes
    <2> HIDE DEF AtMost
    <2>3. AtMost(g[0], h[0 + 1])
        BY <2>1, <2>2
    <2> QED
        BY <2>1, <2>3
<1>6. ASSUME NEW i \in 0..n, i < n, i \in S PROVE i + 1 \in S
    <2>1. /\ i + 1 \in 1..n /\ (i + 1) - 1 = i /\ i + 2 \in 1..(n + 1) /\ (i + 2) - 1 = i + 1
          /\ (i + 1) + 1 = i + 2 /\ i + 1 \in 0..n
        BY <1>0, <1>6
    <2>2. g[i + 1] = Plus(g[i], texts[i + 1])
        BY <1>1, <2>1 DEF Sums
    <2>3. h[i + 2] = Plus(h[i + 1], longer[i + 2])
        BY <1>3, <2>1 DEF Sums
    <2>4. longer[i + 2] = texts[i + 1]
        BY <2>1
    <2>5. g[i] \in Sizes /\ h[i + 1] \in Sizes /\ texts[i + 1] \in Sizes /\ AtMost(g[i], h[i + 1])
        BY <1>4, <1>6, <2>1
    <2>6. \A a, b, t \in Sizes : AtMost(a, b) => AtMost(Plus(a, t), Plus(b, t))
        BY PromptAssumption DEF Plus, Sizes
    <2> HIDE DEF AtMost
    <2>7. AtMost(g[i + 1], h[i + 2])
        BY <2>2, <2>3, <2>4, <2>5, <2>6
    <2> QED
        BY <2>1, <2>7
<1>7. \A i \in 0..n : i \in S
    <2> HIDE DEF S
    <2> QED
        BY <1>0, <1>5, <1>6, InductionTo
<1>8. n \in 0..n /\ g[n] \in Sizes /\ h[n + 1] \in Sizes /\ AtMost(g[n], h[n + 1])
    BY <1>0, <1>4, <1>7
<1> QED
    BY <1>1, <1>3, <1>8

\* A longer stretch of the history never estimates at less.
LEMMA StretchGrows ==
    ASSUME history \in Seq(Sizes), message \in Sizes, NEW k \in Nat, k < Len(history)
    PROVE  /\ EstimateTokens(WithHistory(k)) \in Int /\ EstimateTokens(WithHistory(k + 1)) \in Int
           /\ EstimateTokens(WithHistory(k)) <= EstimateTokens(WithHistory(k + 1))
<1> DEFINE n == Len(history)
           texts == Newest(k)
           longer == Newest(k + 1)
<1>1. n \in Nat /\ k + 1 \in 1..n
    OBVIOUS
<1>2. /\ texts \in Seq(Sizes) /\ Len(texts) = k
      /\ \A i \in 1..k : texts[i] = history[n - k + 1 + i - 1]
    BY <1>1 DEF Newest
<1>3. /\ longer \in Seq(Sizes) /\ Len(longer) = k + 1
      /\ \A i \in 1..(k + 1) : longer[i] = history[n - (k + 1) + 1 + i - 1]
    BY <1>1 DEF Newest
<1>4. ASSUME NEW i \in 1..Len(texts) PROVE longer[i + 1] = texts[i]
    <2>1. i \in 1..k /\ i + 1 \in 1..(k + 1)
        BY <1>1, <1>2
    <2>2. n - (k + 1) + 1 + (i + 1) - 1 = n - k + 1 + i - 1
        BY <1>1, <2>1
    <2> QED
        BY <1>2, <1>3, <2>1, <2>2
<1> DEFINE a == Transcript(texts)
           b == Transcript(longer)
<1>5. a \in Sizes /\ b \in Sizes /\ a.dense <= b.dense /\ a.other <= b.other
    <2> HIDE DEF texts, longer
    <2> QED
        BY <1>2, <1>3, <1>4, LongerIsMore
<1>6. /\ WithHistory(k) = [dense |-> a.dense + message.dense, other |-> a.other + message.other + Wrapper]
      /\ WithHistory(k + 1) =
            [dense |-> b.dense + message.dense, other |-> b.other + message.other + Wrapper]
    BY DEF WithHistory
<1> HIDE DEF a, b
<1>7. /\ a.dense \in Nat /\ b.dense \in Nat /\ a.other \in Nat /\ b.other \in Nat
      /\ message.dense \in Nat /\ message.other \in Nat /\ Wrapper \in Nat
    BY <1>5, PromptAssumption DEF Sizes
<1>8. \A p, q \in Nat : p <= q => Thirds(p) \in Int /\ Thirds(q) \in Int /\ Thirds(p) <= Thirds(q)
    BY DEF Thirds
<1> DEFINE p == a.other + message.other + Wrapper
           q == b.other + message.other + Wrapper
<1>8a. \A x, y, v, w \in Nat : x <= y =>
            x + v + w \in Nat /\ y + v + w \in Nat /\ x + v + w <= y + v + w
    OBVIOUS
<1>9. p \in Nat /\ q \in Nat /\ p <= q
    <2>1. a.other <= b.other
        BY <1>5
    <2> QED
        BY <1>7, <1>8a, <2>1
<1>10. /\ EstimateTokens(WithHistory(k)) = a.dense + message.dense + Thirds(p)
       /\ EstimateTokens(WithHistory(k + 1)) = b.dense + message.dense + Thirds(q)
    BY <1>6 DEF EstimateTokens
<1> HIDE DEF p, q
<1>11. Thirds(p) \in Int /\ Thirds(q) \in Int /\ Thirds(p) <= Thirds(q)
    BY <1>8, <1>9
<1>12. a.dense <= b.dense
    BY <1>5
<1>13. \A x, y, v \in Nat, i, j \in Int : x <= y /\ i <= j =>
            x + v + i \in Int /\ y + v + j \in Int /\ x + v + i <= y + v + j
    OBVIOUS
<1> QED
    BY <1>7, <1>10, <1>11, <1>12, <1>13

\* So when one more message does not fit, no longer stretch does.
LEMMA NoLongerFits ==
    ASSUME history \in Seq(Sizes), message \in Sizes, budget \in Int, NEW k \in Nat \ {0}, ~Fits(k)
    PROVE  \A j \in k..Len(history) : ~Fits(j)
<1> DEFINE n == Len(history) - k
           S == {i \in 0..n : ~Fits(k + i)}
<1>1. CASE k <= Len(history)
    <2>1. n \in Nat
        BY <1>1
    <2>2. 0 \in S
        <3>1. k + 0 = k /\ 0 \in 0..n
            BY <2>1
        <3> QED
            BY <3>1
    <2>3. ASSUME NEW i \in 0..n, i < n, i \in S PROVE i + 1 \in S
        <3>1. k + i \in Nat /\ k + i < Len(history) /\ k + (i + 1) = (k + i) + 1 /\ i + 1 \in 0..n
            BY <1>1, <2>1, <2>3
        <3>2. ~Fits(k + i)
            BY <2>3
        <3> DEFINE m == k + i
        <3>3. m \in Nat /\ m < Len(history) /\ ~Fits(m)
            BY <3>1, <3>2
        <3>4. k + (i + 1) = m + 1
            BY <3>1
        <3> HIDE DEF m
        <3>5. ~Fits(m + 1)
            BY <3>3, StretchGrows DEF Fits
        <3> QED
            BY <3>1, <3>4, <3>5
    <2>4. \A i \in 0..n : i \in S
        <3> HIDE DEF S, n
        <3> QED
            BY <2>1, <2>2, <2>3, InductionTo
    <2>5. ASSUME NEW j \in k..Len(history) PROVE ~Fits(j)
        <3>1. j - k \in 0..n /\ k + (j - k) = j
            BY <1>1
        <3>2. ~Fits(k + (j - k))
            BY <2>4, <3>1
        <3> QED
            BY <3>1, <3>2
    <2> QED
        BY <2>5
<1>2. CASE ~(k <= Len(history))
    BY <1>2
<1> QED
    BY <1>1, <1>2

\* What is kept fits, and what the loop has refused does not.
PlanInv ==
    /\ Counted
    /\ message \in Sizes /\ history \in Seq(Sizes) /\ budget \in Int
    /\ pc \in {"adding", "planned"} => EstimateTokens(Prompt(kept)) <= budget
    /\ pc = "planned" => \A k \in (kept + 1)..Candidates : ~Fits(k)

LEMMA InitPlans == PromptInit => PlanInv
<1> SUFFICES ASSUME PromptInit PROVE PlanInv
    OBVIOUS
<1>1. Counted
    BY InitCounts
<1>2. message \in Sizes /\ Texts \subseteq Sizes /\ pc = "start"
    BY PromptAssumption DEF PromptInit, Sizes
<1>3. PICK numCtx \in Contexts : budget = numCtx - Reserve
    BY DEF PromptInit
<1>4. budget \in Int
    BY <1>3, PromptAssumption
<1>5. history \in Seq(Sizes)
    <2>1. PICK n \in 0..MaxHistory : history \in [1..n -> Texts]
        BY DEF PromptInit
    <2>2. n \in Nat /\ history \in [1..n -> Sizes]
        BY <1>2, <2>1, PromptAssumption
    <2> QED
        BY <2>2
<1> QED
    BY <1>1, <1>2, <1>4, <1>5 DEF PlanInv

LEMMA StepPlans == PlanInv /\ [PromptNext]_promptVars => PlanInv'
<1> SUFFICES ASSUME PlanInv, [PromptNext]_promptVars PROVE PlanInv'
    OBVIOUS
<1>1. Counted'
    BY StepCounts DEF PlanInv
<1>2. UNCHANGED inputs
    BY DEF PromptNext, TooLarge, Begins, Adds, Stops, RunsOut, promptVars
<1>3. message' = message /\ history' = history /\ budget' = budget /\ recent' = recent
    BY <1>2 DEF inputs
<1>4. /\ Candidates' = Candidates
      /\ \A k : Fits(k)' = Fits(k) /\ EstimateTokens(Prompt(k))' = EstimateTokens(Prompt(k))
    BY <1>3 DEF Candidates, Fits, Prompt, WithHistory, Newest, EstimateTokens, Transcript
<1>5. /\ kept \in Nat /\ Candidates \in Nat /\ Candidates <= Len(history) /\ Len(history) \in Nat
      /\ kept <= Candidates
    BY CandidatesAreOfHistory DEF PlanInv, Counted, HowMany
<1>6. ASSUME pc' \in {"adding", "planned"} => EstimateTokens(Prompt(kept'))  <= budget,
             pc' = "planned" => \A k \in (kept' + 1)..Candidates : ~Fits(k)
      PROVE  PlanInv'
    <2>1. EstimateTokens(Prompt(kept))' = EstimateTokens(Prompt(kept'))
        BY <1>3 DEF Prompt, WithHistory, Newest, EstimateTokens
    <2>1a. pc' \in {"adding", "planned"} => EstimateTokens(Prompt(kept))' <= budget'
        BY <1>3, <1>6, <2>1
    <2>2. pc' = "planned" => \A k \in (kept' + 1)..Candidates' : ~Fits(k)'
        BY <1>4, <1>6
    <2> QED
        BY <1>1, <1>3, <2>1a, <2>2 DEF PlanInv
<1>7. CASE TooLarge
    BY <1>6, <1>7 DEF TooLarge
<1>8. CASE Begins
    <2>1. pc' = "adding" /\ kept' = kept /\ kept = 0 /\ EstimateTokens(message) <= budget
        BY <1>8 DEF Begins, PlanInv, Counted
    <2>2. Prompt(kept') = message
        BY <2>1 DEF Prompt
    <2> QED
        BY <1>6, <2>1, <2>2
<1>9. CASE Adds
    <2>1. pc' = "adding" /\ kept' = kept + 1 /\ Fits(kept + 1)
        BY <1>9 DEF Adds, PlanInv
    <2>2. Prompt(kept') = WithHistory(kept')
        BY <1>5, <2>1 DEF Prompt
    <2> QED
        BY <1>6, <2>1, <2>2 DEF Fits
<1>10. CASE Stops
    <2>1. pc' = "planned" /\ kept' = kept /\ ~Fits(kept + 1) /\ pc = "adding"
        BY <1>10 DEF Stops
    <2>2. kept + 1 \in Nat \ {0}
        BY <1>5
    <2>3. \A k \in (kept + 1)..Len(history) : ~Fits(k)
        BY <2>1, <2>2, NoLongerFits DEF PlanInv
    <2>4. (kept + 1)..Candidates \subseteq (kept + 1)..Len(history)
        BY <1>5
    <2> QED
        BY <1>6, <2>1, <2>3, <2>4 DEF PlanInv
<1>11. CASE RunsOut
    <2>1. pc' = "planned" /\ kept' = kept /\ kept = Candidates /\ pc = "adding"
        BY <1>11 DEF RunsOut
    <2>2. (kept + 1)..Candidates = {}
        BY <1>5, <2>1
    <2> QED
        BY <1>6, <2>1, <2>2 DEF PlanInv
<1>12. CASE UNCHANGED promptVars
    BY <1>6, <1>12 DEF PlanInv, promptVars
<1> QED
    BY <1>7, <1>8, <1>9, <1>10, <1>11, <1>12 DEF PromptNext

\* What is planned fits the budget, no longer stretch of the newest messages
\* would, and the rest are counted: for any history, message, budget and limit.
THEOREM ThePlanIsBest == PromptSpec => []PlanIsBest
<1>1. PlanInv => PlanIsBest
    BY DEF PlanInv, Counted, PlanIsBest, EveryMessageCounted, HowMany
<1> QED
    BY <1>1, InitPlans, StepPlans, PTL DEF PromptSpec

-----------------------------------------------------------------------------
(* Finite sets of numbers, in order.                                        *)

UpTo(S, b) == {c \in S : c <= b}

\* Whoever is higher in a set has more of it below.
LEMMA HigherHasMore ==
    ASSUME NEW S, S \subseteq Int, IsFiniteSet(S), NEW a \in S, NEW b \in S
    PROVE  /\ Cardinality(UpTo(S, a)) \in 1..Cardinality(S)
           /\ a < b => Cardinality(UpTo(S, a)) < Cardinality(UpTo(S, b))
           /\ Cardinality(UpTo(S, a)) = Cardinality(UpTo(S, b)) => a = b
<1>1. ASSUME NEW x \in S
      PROVE  /\ UpTo(S, x) \subseteq S /\ IsFiniteSet(UpTo(S, x))
             /\ Cardinality(UpTo(S, x)) \in Nat
             /\ Cardinality(UpTo(S, x)) <= Cardinality(S)
             /\ Cardinality(UpTo(S, x)) > 0
    <2>1. UpTo(S, x) \subseteq S /\ x \in UpTo(S, x)
        BY DEF UpTo
    <2>2. /\ IsFiniteSet(UpTo(S, x)) /\ Cardinality(UpTo(S, x)) \in Nat
          /\ Cardinality(UpTo(S, x)) <= Cardinality(S)
        BY <2>1, FS_Subset, FS_CardinalityType
    <2>3. Cardinality(UpTo(S, x)) # 0
        BY <2>1, <2>2, FS_EmptySet
    <2> QED
        BY <2>1, <2>2, <2>3
<1>2. ASSUME NEW x \in S, NEW y \in S, x < y
      PROVE  Cardinality(UpTo(S, x)) < Cardinality(UpTo(S, y))
    <2>1. UpTo(S, x) \subseteq UpTo(S, y) /\ y \in UpTo(S, y) /\ y \notin UpTo(S, x)
        <3>1. x \in Int /\ y \in Int
            OBVIOUS
        <3>2. ASSUME NEW c \in S, c <= x PROVE c <= y
            BY <1>2, <3>1, <3>2
        <3>3. UpTo(S, x) \subseteq UpTo(S, y)
            BY <3>2 DEF UpTo
        <3>4. y <= y /\ ~(y <= x)
            BY <1>2, <3>1
        <3> QED
            BY <3>3, <3>4 DEF UpTo
    <2>2. UpTo(S, x) # UpTo(S, y)
        BY <2>1
    <2>3. /\ Cardinality(UpTo(S, x)) <= Cardinality(UpTo(S, y))
          /\ Cardinality(UpTo(S, x)) # Cardinality(UpTo(S, y))
        BY <1>1, <2>1, <2>2, FS_Subset
    <2> QED
        BY <1>1, <2>3
<1>3. Cardinality(S) \in Nat
    BY FS_CardinalityType
<1>4. a \in Int /\ b \in Int
    OBVIOUS
<1>5. a < b => Cardinality(UpTo(S, a)) < Cardinality(UpTo(S, b))
    BY <1>2
<1>6. b < a => Cardinality(UpTo(S, b)) < Cardinality(UpTo(S, a))
    BY <1>2
<1>7. Cardinality(UpTo(S, a)) \in Nat /\ Cardinality(UpTo(S, b)) \in Nat
    BY <1>1
<1> QED
    BY <1>1, <1>3, <1>4, <1>5, <1>6, <1>7

\* There is a first, a second, and so on to the last.
LEMMA EveryPlaceIsHeld ==
    ASSUME NEW S, S \subseteq Int, IsFiniteSet(S), NEW k \in 1..Cardinality(S)
    PROVE  \E b \in S : Cardinality(UpTo(S, b)) = k
<1> DEFINE N == Cardinality(S)
           rank == [b \in S |-> Cardinality(UpTo(S, b))]
<1>1. N \in Nat /\ IsFiniteSet(1..N) /\ Cardinality(1..N) = N
    BY FS_CardinalityType, FS_Interval
<1>2. rank \in Injection(S, 1..N)
    <2>1. rank \in [S -> 1..N]
        BY HigherHasMore
    <2>2. \A a, b \in S : rank[a] = rank[b] => a = b
        BY HigherHasMore
    <2> QED
        BY <2>1, <2>2 DEF Injection, IsInjective
<1>3. rank \in Surjection(S, 1..N)
    BY <1>1, <1>2, FS_Injection
<1>4. PICK b \in S : rank[b] = k
    BY <1>3 DEF Surjection
<1> QED
    BY <1>4

-----------------------------------------------------------------------------
(* Chunking: the blocks of a document.                                      *)

IsText(text) == text.length \in Nat /\ text.starts \subseteq 1..text.length
BeginsAt(text) == {1} \cup text.starts
NthOf(S, k) == CHOOSE b \in S : Cardinality(UpTo(S, b)) = k

Pieces == [section : Nat, from : Int, to : Int]

LEMMA NthIsThere ==
    ASSUME NEW S, S \subseteq Int, IsFiniteSet(S), NEW k \in 1..Cardinality(S)
    PROVE  NthOf(S, k) \in S /\ Cardinality(UpTo(S, NthOf(S, k))) = k
<1>1. \E b \in S : Cardinality(UpTo(S, b)) = k
    BY EveryPlaceIsHeld
<1> QED
    BY <1>1 DEF NthOf

LEMMA NthAscends ==
    ASSUME NEW S, S \subseteq Int, IsFiniteSet(S),
           NEW j \in 1..Cardinality(S), NEW k \in 1..Cardinality(S), j < k
    PROVE  NthOf(S, j) < NthOf(S, k)
<1>1. /\ NthOf(S, j) \in S /\ Cardinality(UpTo(S, NthOf(S, j))) = j
      /\ NthOf(S, k) \in S /\ Cardinality(UpTo(S, NthOf(S, k))) = k
    BY NthIsThere
<1>2. NthOf(S, j) \in Int /\ NthOf(S, k) \in Int
    BY <1>1
<1>3. CASE NthOf(S, k) < NthOf(S, j)
    <2>1. Cardinality(UpTo(S, NthOf(S, k))) < Cardinality(UpTo(S, NthOf(S, j)))
        BY <1>1, <1>3, HigherHasMore
    <2> QED
        BY <1>1, <2>1
<1>4. CASE NthOf(S, k) = NthOf(S, j)
    BY <1>1, <1>4
<1> QED
    BY <1>2, <1>3, <1>4

LEMMA BeginsAreFinite ==
    ASSUME NEW text, IsText(text)
    PROVE  /\ BeginsAt(text) \subseteq Int /\ IsFiniteSet(BeginsAt(text))
           /\ Cardinality(BeginsAt(text)) \in Nat \ {0}
           /\ \A b \in BeginsAt(text) : 1 <= b /\ b <= text.length + 1
<1>1. BeginsAt(text) \subseteq 1..(text.length + 1)
    BY DEF IsText, BeginsAt
<1>2. IsFiniteSet(1..(text.length + 1))
    <2>1. 1 \in Int /\ text.length + 1 \in Int
        BY DEF IsText
    <2> QED
        BY ONLY <2>1, FS_Interval
<1>3. IsFiniteSet(BeginsAt(text)) /\ Cardinality(BeginsAt(text)) \in Nat
    BY <1>1, <1>2, FS_Subset, FS_CardinalityType
<1>4. Cardinality(BeginsAt(text)) # 0
    BY <1>3, FS_EmptySet DEF BeginsAt
<1> QED
    BY <1>1, <1>3, <1>4 DEF IsText

\* The first place that begins something is the first character's.
LEMMA FirstIsFirst ==
    ASSUME NEW text, IsText(text)
    PROVE  NthOf(BeginsAt(text), 1) = 1
<1> DEFINE S == BeginsAt(text)
<1>1. S \subseteq Int /\ IsFiniteSet(S) /\ 1 \in 1..Cardinality(S) /\ 1 \in S
    BY BeginsAreFinite DEF BeginsAt
<1>2. NthOf(S, 1) \in S /\ Cardinality(UpTo(S, NthOf(S, 1))) = 1
    BY <1>1, NthIsThere
<1>3. 1 <= NthOf(S, 1) /\ NthOf(S, 1) \in Int
    BY <1>1, <1>2, BeginsAreFinite
<1>4. CASE 1 < NthOf(S, 1)
    <2>1. Cardinality(UpTo(S, 1)) \in 1..Cardinality(S) /\ Cardinality(UpTo(S, 1)) < 1
        BY <1>1, <1>2, <1>4, HigherHasMore
    <2>2. Cardinality(S) \in Nat
        BY BeginsAreFinite
    <2> QED
        BY <2>1, <2>2
<1> QED
    BY <1>3, <1>4

(***************************************************************************)
(* blocks_of: the blocks are not empty but for an empty document's, follow *)
(* each other without a gap, and are together the whole text.              *)
(***************************************************************************)
THEOREM BlocksAreTheText ==
    ASSUME NEW text, IsText(text)
    PROVE  /\ BlocksOf(text) \in Seq(Pieces) /\ Len(BlocksOf(text)) \in Nat \ {0}
           /\ BlocksOf(text)[1].from = 1
           /\ BlocksOf(text)[Len(BlocksOf(text))].to = text.length
           /\ \A k \in 1..Len(BlocksOf(text)) :
                /\ BlocksOf(text)[k].section = BlocksOf(text)[k].from
                /\ 1 <= BlocksOf(text)[k].from
                /\ BlocksOf(text)[k].from <= BlocksOf(text)[k].to + 1
                /\ k < Len(BlocksOf(text)) =>
                     /\ BlocksOf(text)[k + 1].from = BlocksOf(text)[k].to + 1
                     /\ BlocksOf(text)[k].from <= BlocksOf(text)[k].to
<1> DEFINE S == BeginsAt(text)
           N == Cardinality(S)
           nth == [k \in 1..N |-> NthOf(S, k)]
           B == BlocksOf(text)
<1>1. B = [k \in 1..N |-> [section |-> NthOf(S, k), from |-> NthOf(S, k),
                           to |-> IF k < N THEN NthOf(S, k + 1) - 1 ELSE text.length]]
    BY DEF BlocksOf, BeginsAt, NthOf, UpTo
<1>2. S \subseteq Int /\ IsFiniteSet(S) /\ N \in Nat \ {0} /\ text.length \in Nat
    BY BeginsAreFinite DEF IsText
<1>3. \A k \in 1..N : nth[k] \in Int /\ 1 <= nth[k] /\ nth[k] <= text.length + 1
    BY <1>2, NthIsThere, BeginsAreFinite
<1>4. \A k \in 1..N : k < N => nth[k] < nth[k + 1]
    <2>1. ASSUME NEW k \in 1..N, k < N PROVE nth[k] < nth[k + 1]
        <3>1. k + 1 \in 1..N /\ k < k + 1
            BY <1>2, <2>1
        <3> QED
            BY <1>2, <3>1, NthAscends
    <2> QED
        BY <2>1
<1>5. nth[1] = 1
    BY <1>2, FirstIsFirst
<1>6. B = [k \in 1..N |-> [section |-> nth[k], from |-> nth[k],
                           to |-> IF k < N THEN nth[k + 1] - 1 ELSE text.length]]
    <2>1. ASSUME NEW k \in 1..N
          PROVE  nth[k] = NthOf(S, k) /\ (k < N => nth[k + 1] = NthOf(S, k + 1))
        BY <1>2
    <2> HIDE DEF nth, N, S
    <2> QED
        BY <1>1, <2>1
<1> HIDE DEF S, N, nth
<1>7. \A k \in 1..N : B[k] \in Pieces
    BY <1>2, <1>3, <1>6 DEF Pieces
<1>8. Len(B) = N /\ B \in Seq(Pieces)
    BY <1>2, <1>6, <1>7
<1> QED
    BY <1>2, <1>3, <1>4, <1>5, <1>6, <1>8

-----------------------------------------------------------------------------
(* Chunking: what a piece holds, and what is behind a cut.                  *)

Within(piece, bigger) == bigger.from <= piece.from /\ piece.to <= bigger.to

\* What is around a piece that is not blank is not blank.
LEMMA InkIsKept ==
    ASSUME NEW text, NEW piece, NEW bigger,
           piece.from \in Int, piece.to \in Int, bigger.from \in Int, bigger.to \in Int,
           Within(piece, bigger), Stripped(text, piece) > 0
    PROVE  Stripped(text, bigger) > 0 /\ Stripped(text, bigger) # 0
<1> DEFINE I == (bigger.from..bigger.to) \ text.blank
           low == {c - bigger.from : c \in I}
           high == {bigger.to - c : c \in I}
<1>1. (piece.from..piece.to) \ text.blank # {}
    <2>1. CASE (piece.from..piece.to) \ text.blank = {}
        <3>1. Stripped(text, piece) = 0
            BY <2>1 DEF Stripped
        <3> QED
            BY <3>1
    <2> QED
        BY <2>1
<1>2. (piece.from..piece.to) \subseteq (bigger.from..bigger.to)
    BY DEF Within
<1>3. I # {} /\ I \subseteq Int
    BY <1>1, <1>2
<1>4. PICK first \in I : \A c \in I : first <= c
    <2>1. low \subseteq Nat /\ low # {}
        BY <1>3
    <2>2. PICK x \in low : \A y \in low : x <= y
        BY <2>1, LeastNatural
    <2>3. PICK first \in I : x = first - bigger.from
        BY <2>2
    <2>4. ASSUME NEW c \in I PROVE first <= c
        <3>1. x <= c - bigger.from
            BY <2>2
        <3> QED
            BY <1>3, <2>3, <3>1
    <2> QED
        BY <2>3, <2>4
<1>5. PICK last \in I : \A c \in I : c <= last
    <2>1. high \subseteq Nat /\ high # {}
        BY <1>3
    <2>2. PICK x \in high : \A y \in high : x <= y
        BY <2>1, LeastNatural
    <2>3. PICK last \in I : x = bigger.to - last
        BY <2>2
    <2>4. ASSUME NEW c \in I PROVE c <= last
        <3>1. x <= bigger.to - c
            BY <2>2
        <3> QED
            BY <1>3, <2>3, <3>1
    <2> QED
        BY <2>3, <2>4
<1> DEFINE theLast == CHOOSE l \in I : \A c \in I : c <= l
           theFirst == CHOOSE f \in I : \A c \in I : f <= c
<1>6. theLast \in I /\ theFirst \in I /\ theFirst <= theLast
    BY <1>4, <1>5
<1>7. Stripped(text, bigger) = 1 + theLast - theFirst
    BY <1>3 DEF Stripped
<1> HIDE DEF theLast, theFirst, I
<1> QED
    BY <1>3, <1>6, <1>7

(***************************************************************************)
(* coalesce: every block behind this one is in what was kept, or waits;    *)
(* and what was kept ends before what waits begins.                        *)
(***************************************************************************)
Coalescing(blocks, n, pending, merged) ==
    /\ n \in 1..(Len(blocks) + 1)
    /\ pending \in Pieces /\ merged \in Seq(Pieces)
    /\ \A k \in 1..(n - 1) :
         \/ \E m \in 1..Len(merged) : Within(blocks[k], merged[m])
         \/ pending # None /\ Within(blocks[k], pending)
    /\ \A m \in 1..Len(merged) :
         /\ n > 1 /\ merged[m].from <= merged[m].to + 1
         /\ merged[m].to <= blocks[n - 1].to
    /\ pending # None =>
         /\ n > 1 /\ pending.section > 0
         /\ pending.to = blocks[n - 1].to /\ pending.from <= pending.to + 1
         /\ \A m \in 1..Len(merged) : merged[m].to < pending.from

\* What blocks_of makes of a text.
AreBlocks(blocks) ==
    /\ blocks \in Seq(Pieces)
    /\ \A k \in 1..Len(blocks) :
         /\ blocks[k].section = blocks[k].from
         /\ 1 <= blocks[k].from /\ blocks[k].from <= blocks[k].to + 1
         /\ k < Len(blocks) => blocks[k + 1].from = blocks[k].to + 1

JoinedTo(block, pending) == IF pending = None THEN block ELSE [pending EXCEPT !.to = block.to]

\* The next block, joined to what waits, ends where it does.
LEMMA JoinedIsNext ==
    ASSUME NEW blocks, AreBlocks(blocks), NEW n, NEW pending, NEW merged,
           Coalescing(blocks, n, pending, merged), n <= Len(blocks)
    PROVE  LET joined == JoinedTo(blocks[n], pending)
           IN  /\ joined \in Pieces /\ joined.section > 0
               /\ joined.to = blocks[n].to /\ joined.from <= joined.to + 1
               /\ Within(blocks[n], joined)
               /\ pending # None => Within(pending, joined)
               /\ \A m \in 1..Len(merged) :
                    merged[m].to < joined.from /\ merged[m].to <= blocks[n].to
<1> DEFINE joined == JoinedTo(blocks[n], pending)
<1>1. n \in Nat \ {0} /\ n \in 1..Len(blocks) /\ blocks[n] \in Pieces /\ pending \in Pieces
    BY DEF Coalescing, AreBlocks
<1>2. /\ blocks[n].section > 0 /\ blocks[n].from <= blocks[n].to + 1
      /\ blocks[n].from \in Int /\ blocks[n].to \in Int
    BY <1>1 DEF AreBlocks, Pieces
<1>3. n > 1 => n - 1 \in 1..Len(blocks) /\ blocks[n - 1].to + 1 = blocks[n].from
               /\ blocks[n - 1].to \in Int
    <2> SUFFICES ASSUME n > 1
                 PROVE  n - 1 \in 1..Len(blocks) /\ blocks[n - 1].to + 1 = blocks[n].from
                        /\ blocks[n - 1].to \in Int
        OBVIOUS
    <2>1. Len(blocks) \in Nat
        BY DEF AreBlocks
    <2>2. n - 1 \in 1..Len(blocks) /\ n - 1 < Len(blocks) /\ (n - 1) + 1 = n
        BY <1>1, <2>1
    <2>3. blocks[(n - 1) + 1].from = blocks[n - 1].to + 1 /\ blocks[n - 1] \in Pieces
        BY <2>2 DEF AreBlocks
    <2> QED
        BY <2>2, <2>3 DEF Pieces
<1>4. \A m \in 1..Len(merged) :
        merged[m].to \in Int /\ n > 1 /\ merged[m].to <= blocks[n - 1].to
    <2>1. \A m \in 1..Len(merged) : merged[m] \in Pieces
        BY DEF Coalescing
    <2> QED
        BY <2>1 DEF Coalescing, Pieces
<1>5. CASE pending = None
    <2>1. joined = blocks[n]
        BY <1>5 DEF JoinedTo
    <2> QED
        BY <1>1, <1>2, <1>3, <1>4, <1>5, <2>1 DEF Within
<1>6. CASE pending # None
    <2>1. /\ joined \in Pieces /\ joined.section = pending.section
          /\ joined.from = pending.from /\ joined.to = blocks[n].to
        BY <1>1, <1>2, <1>6 DEF JoinedTo, Pieces
    <2>2. /\ n > 1 /\ pending.section > 0
          /\ pending.to = blocks[n - 1].to /\ pending.from <= pending.to + 1
          /\ \A m \in 1..Len(merged) : merged[m].to < pending.from
          /\ pending.from \in Int /\ pending.to \in Int
        BY <1>1, <1>6 DEF Coalescing, Pieces
    <2> QED
        BY <1>2, <1>3, <1>4, <2>1, <2>2 DEF Within
<1> QED
    BY <1>5, <1>6

LEMMA WithinIsTransitive ==
    ASSUME NEW p, NEW q, NEW r, Within(p, q), Within(q, r),
           p \in Pieces, q \in Pieces, r \in Pieces
    PROVE  Within(p, r)
BY DEF Within, Pieces

\* It may wait for the one after it.
LEMMA CoalescingWaits ==
    ASSUME NEW blocks, AreBlocks(blocks), NEW n, NEW pending, NEW merged,
           Coalescing(blocks, n, pending, merged), n <= Len(blocks)
    PROVE  Coalescing(blocks, n + 1, JoinedTo(blocks[n], pending), merged)
<1> DEFINE joined == JoinedTo(blocks[n], pending)
<1>1. n \in Nat \ {0} /\ n \in 1..Len(blocks) /\ blocks \in Seq(Pieces) /\ pending \in Pieces
    BY DEF Coalescing, AreBlocks
<1>2. /\ joined \in Pieces /\ joined.section > 0
      /\ joined.to = blocks[n].to /\ joined.from <= joined.to + 1
      /\ Within(blocks[n], joined)
      /\ pending # None => Within(pending, joined)
      /\ \A m \in 1..Len(merged) :
           merged[m].to < joined.from /\ merged[m].to <= blocks[n].to
    BY JoinedIsNext
<1> HIDE DEF joined
<1>3. ASSUME NEW k \in 1..n
      PROVE  \/ \E m \in 1..Len(merged) : Within(blocks[k], merged[m])
             \/ Within(blocks[k], joined)
    <2>1. CASE k = n
        BY <1>2, <2>1
    <2>2. CASE k # n
        <3>1. k \in 1..(n - 1) /\ blocks[k] \in Pieces
            BY <1>1, <2>2
        <3>2. \/ \E m \in 1..Len(merged) : Within(blocks[k], merged[m])
              \/ pending # None /\ Within(blocks[k], pending)
            BY <3>1 DEF Coalescing
        <3> QED
            BY <1>1, <1>2, <3>1, <3>2, WithinIsTransitive
    <2> QED
        BY <2>1, <2>2
<1>4. joined # None
    BY <1>2 DEF None
<1>5. n + 1 \in 1..(Len(blocks) + 1) /\ (n + 1) - 1 = n /\ n + 1 > 1
    BY <1>1
<1>6. merged \in Seq(Pieces) /\ \A m \in 1..Len(merged) : merged[m].from <= merged[m].to + 1
    BY DEF Coalescing
<1>7. Coalescing(blocks, n + 1, joined, merged)
    BY <1>2, <1>3, <1>4, <1>5, <1>6 DEF Coalescing
<1> QED
    BY <1>7 DEF joined

\* Or it is kept, and nothing waits.
LEMMA CoalescingKeeps ==
    ASSUME NEW blocks, AreBlocks(blocks), NEW n, NEW pending, NEW merged,
           Coalescing(blocks, n, pending, merged), n <= Len(blocks)
    PROVE  Coalescing(blocks, n + 1, None, Append(merged, JoinedTo(blocks[n], pending)))
<1> DEFINE joined == JoinedTo(blocks[n], pending)
           joins == Append(merged, joined)
<1>1. /\ n \in Nat \ {0} /\ n \in 1..Len(blocks) /\ blocks \in Seq(Pieces) /\ pending \in Pieces
      /\ merged \in Seq(Pieces)
    BY DEF Coalescing, AreBlocks
<1>2. /\ joined \in Pieces
      /\ joined.to = blocks[n].to /\ joined.from <= joined.to + 1
      /\ Within(blocks[n], joined)
      /\ pending # None => Within(pending, joined)
      /\ \A m \in 1..Len(merged) : merged[m].to <= blocks[n].to
      /\ blocks[n].to \in Int
    BY <1>1, JoinedIsNext DEF Pieces
<1> HIDE DEF joined
<1>3. /\ joins \in Seq(Pieces) /\ Len(joins) = Len(merged) + 1
      /\ \A m \in 1..Len(merged) : joins[m] = merged[m]
      /\ joins[Len(merged) + 1] = joined
    BY <1>1, <1>2
<1> HIDE DEF joins
<1>4. ASSUME NEW k \in 1..n
      PROVE  \E m \in 1..Len(joins) : Within(blocks[k], joins[m])
    <2>1. CASE k = n
        BY <1>1, <1>2, <1>3, <2>1
    <2>2. CASE k # n
        <3>1. k \in 1..(n - 1) /\ blocks[k] \in Pieces
            BY <1>1, <2>2
        <3>2. CASE \E m \in 1..Len(merged) : Within(blocks[k], merged[m])
            BY <1>1, <1>3, <3>2
        <3>3. CASE pending # None /\ Within(blocks[k], pending)
            <4>1. Within(blocks[k], joined)
                BY <1>1, <1>2, <3>1, <3>3, WithinIsTransitive
            <4> QED
                BY <1>1, <1>3, <4>1
        <3> QED
            BY <3>1, <3>2, <3>3 DEF Coalescing
    <2> QED
        BY <2>1, <2>2
<1>5. n + 1 \in 1..(Len(blocks) + 1) /\ (n + 1) - 1 = n /\ n + 1 > 1
    BY <1>1
<1>6. ASSUME NEW m \in 1..Len(joins)
      PROVE  joins[m].from <= joins[m].to + 1 /\ joins[m].to <= blocks[n].to
    <2>1. CASE m \in 1..Len(merged)
        BY <1>2, <1>3, <2>1 DEF Coalescing
    <2>2. CASE m = Len(merged) + 1
        BY <1>2, <1>3, <2>2
    <2> QED
        BY <1>1, <1>3, <2>1, <2>2
<1>7. None \in Pieces
    BY DEF None, Pieces
<1>8. Coalescing(blocks, n + 1, None, joins)
    BY <1>3, <1>4, <1>5, <1>6, <1>7 DEF Coalescing
<1> QED
    BY <1>8 DEF joined, joins

WithTail(merged, tail) ==
    CASE tail = None -> merged
      [] tail # None /\ Len(merged) = 0 -> <<tail>>
      [] OTHER -> [merged EXCEPT ![Len(merged)].to = tail.to]

\* When the blocks are over, every one of them is in what was kept.
LEMMA CoalescingEnds ==
    ASSUME NEW blocks, AreBlocks(blocks), NEW n, NEW pending, NEW merged,
           Coalescing(blocks, n, pending, merged), n > Len(blocks)
    PROVE  /\ WithTail(merged, pending) \in Seq(Pieces)
           /\ \A k \in 1..Len(blocks) :
                \E m \in 1..Len(WithTail(merged, pending)) :
                    Within(blocks[k], WithTail(merged, pending)[m])
<1> DEFINE all == WithTail(merged, pending)
           last == Len(merged)
<1>1. /\ n = Len(blocks) + 1 /\ blocks \in Seq(Pieces) /\ Len(blocks) \in Nat
      /\ pending \in Pieces /\ merged \in Seq(Pieces) /\ last \in Nat
    BY DEF Coalescing, AreBlocks
<1>2. \A k \in 1..Len(blocks) :
        \/ \E m \in 1..Len(merged) : Within(blocks[k], merged[m])
        \/ pending # None /\ Within(blocks[k], pending)
    BY <1>1 DEF Coalescing
<1>3. CASE pending = None
    BY <1>1, <1>2, <1>3 DEF WithTail
<1>4. CASE pending # None /\ last = 0
    <2>1. all = <<pending>>
        BY <1>4 DEF WithTail
    <2>2. all \in Seq(Pieces) /\ Len(all) = 1 /\ all[1] = pending
        BY <1>1, <2>1
    <2> QED
        BY <1>2, <1>4, <2>2
<1>5. CASE pending # None /\ last # 0
    <2>1. all = [merged EXCEPT ![last].to = pending.to]
        BY <1>5 DEF WithTail
    <2>2. last \in 1..Len(merged) /\ merged[last] \in Pieces
        BY <1>1, <1>5
    <2>3. [merged[last] EXCEPT !.to = pending.to] \in Pieces
        BY <1>1, <2>2 DEF Pieces
    <2>4. /\ all \in Seq(Pieces) /\ Len(all) = last
          /\ \A m \in 1..last : m # last => all[m] = merged[m]
          /\ all[last] = [merged[last] EXCEPT !.to = pending.to]
        BY <1>1, <2>1, <2>2, <2>3
    <2>5. Within(merged[last], all[last]) /\ Within(pending, all[last])
        <3>1. /\ merged[last].to < pending.from
              /\ merged[last].from <= merged[last].to + 1
              /\ pending.from <= pending.to + 1
            BY <1>5, <2>2 DEF Coalescing
        <3>2. /\ all[last].to = pending.to /\ all[last].from = merged[last].from
              /\ merged[last].to \in Int /\ merged[last].from \in Int
              /\ pending.to \in Int /\ pending.from \in Int
            BY <1>1, <2>2, <2>4 DEF Pieces
        <3> QED
            BY <3>1, <3>2 DEF Within
    <2>6. ASSUME NEW m \in 1..last PROVE Within(merged[m], all[m])
        <3>1. CASE m = last
            BY <2>5, <3>1
        <3>2. CASE m # last
            <4>1. merged[m] \in Pieces /\ all[m] = merged[m]
                BY <1>1, <2>4, <3>2
            <4> QED
                BY <4>1 DEF Within, Pieces
        <3> QED
            BY <3>1, <3>2
    <2>7. ASSUME NEW k \in 1..Len(blocks)
          PROVE  \E m \in 1..Len(all) : Within(blocks[k], all[m])
        <3>1. blocks[k] \in Pieces
            BY <1>1
        <3>2. CASE \E m \in 1..Len(merged) : Within(blocks[k], merged[m])
            <4>1. PICK m \in 1..Len(merged) : Within(blocks[k], merged[m])
                BY <3>2
            <4>2. merged[m] \in Pieces /\ all[m] \in Pieces /\ Within(merged[m], all[m])
                BY <1>1, <2>4, <2>6
            <4>3. Within(blocks[k], all[m])
                BY <3>1, <4>1, <4>2, WithinIsTransitive
            <4> QED
                BY <2>4, <4>3
        <3>3. CASE pending # None /\ Within(blocks[k], pending)
            <4>1. Within(blocks[k], all[last])
                BY <1>1, <2>2, <2>4, <2>5, <3>1, <3>3, WithinIsTransitive
            <4> QED
                BY <2>2, <2>4, <4>1
        <3> QED
            BY <1>2, <3>2, <3>3
    <2> QED
        BY <2>4, <2>7
<1> QED
    BY <1>3, <1>4, <1>5

-----------------------------------------------------------------------------
(* Chunking: the chunks so far.                                             *)

ChunkSet ==
    [id : {FileSlug(corpus[d].file) : d \in 1..Len(corpus)} \X Nat, doc : Nat,
     section : Nat, from : Int, to : Int, position : Nat]

Cuttings ==
    [pc : {"document", "coalesce", "block", "windows", "refused", "cut"},
     doc : Nat \ {0}, next : Nat \ {0}, pending : Pieces, merged : Seq(Pieces),
     window : Int, own : Nat, chunks : Seq(ChunkSet)]

CuttingType ==
    /\ cutting \in Cuttings
    /\ corpus \in Corpora /\ setting \in Settings
    /\ cutting.pc \in {"coalesce", "block", "windows"} => cutting.doc \in 1..Len(corpus)

\* The rows are in order, and a document's chunks are numbered below n.
Numbered(chunks, doc, n) ==
    \A k \in 1..Len(chunks) :
        /\ chunks[k].position = k - 1
        /\ chunks[k].doc \in 1..Len(corpus) /\ chunks[k].doc <= doc
        /\ chunks[k].id[1] = FileSlug(corpus[chunks[k].doc].file)
        /\ chunks[k].doc = doc => chunks[k].id[2] < n
        /\ \A j \in 1..(k - 1) :
             chunks[j].doc = chunks[k].doc => chunks[j].id[2] # chunks[k].id[2]

AreNumbered ==
    \E n \in Nat :
        /\ Numbered(cutting.chunks, cutting.doc, n)
        /\ cutting.pc = "document" => n = 0
        /\ cutting.pc \in {"coalesce", "block", "windows"} => n = cutting.own

CoveredBy(chunks, d, piece) ==
    \E k \in 1..Len(chunks) : chunks[k].doc = d /\ Within(piece, chunks[k])

AllCovered(chunks, d) == \A piece \in Stretches(corpus[d]) : CoveredBy(chunks, d, piece)

BlocksAreJoined ==
    cutting.pc = "coalesce" =>
        /\ setting.strategy # "fixed-size"
        /\ Coalescing(BlocksOf(Document), cutting.next, cutting.pending, cutting.merged)

(***************************************************************************)
(* What is behind is whole: of the documents before this one everything,   *)
(* and of this one what is in a block before the next, or begins before    *)
(* the next window; and everything is in some block.                       *)
(***************************************************************************)
Behind ==
    /\ \A d \in 1..Len(corpus) : d < cutting.doc => AllCovered(cutting.chunks, d)
    /\ cutting.pc = "cut" => cutting.doc > Len(corpus)
    /\ cutting.pc \in {"block", "windows"} =>
         \A piece \in Stretches(Document) :
            /\ \E m \in 1..Len(cutting.merged) : Within(piece, cutting.merged[m])
            /\ \A m \in 1..Len(cutting.merged) :
                 m < cutting.next /\ Within(piece, cutting.merged[m]) =>
                     CoveredBy(cutting.chunks, cutting.doc, piece)
    /\ cutting.pc = "windows" =>
         /\ cutting.next <= Len(cutting.merged)
         /\ \A piece \in Stretches(Document) :
              Within(piece, Block) /\ piece.from < cutting.window =>
                  CoveredBy(cutting.chunks, cutting.doc, piece)

ChunkingInv == CuttingType /\ AreNumbered /\ BlocksAreJoined /\ (Step > 0 => Behind)

LEMMA IsCutting ==
    ASSUME NEW c, NEW old \in Cuttings,
           DOMAIN c = DOMAIN old, c = [f \in DOMAIN old |-> c[f]],
           c.pc \in {"document", "coalesce", "block", "windows", "refused", "cut"},
           c.doc \in Nat \ {0}, c.next \in Nat \ {0}, c.pending \in Pieces,
           c.merged \in Seq(Pieces), c.window \in Int, c.own \in Nat,
           c.chunks \in Seq(ChunkSet)
    PROVE  c \in Cuttings
<1>1. DOMAIN old = {"pc", "doc", "next", "pending", "merged", "window", "own", "chunks"}
    BY DEF Cuttings
<1>2. c = [f \in DOMAIN c |-> c[f]]
    OBVIOUS
<1> QED
    BY <1>1, <1>2 DEF Cuttings

\* The arguments are what the assumptions say, and no step changes them.
LEMMA ArgumentsAreRight ==
    ASSUME CuttingType
    PROVE  /\ setting.size \in Nat /\ setting.overlap \in Int /\ Step \in Int
           /\ Len(corpus) \in Nat
           /\ \A d \in 1..Len(corpus) :
                IsText(corpus[d]) /\ AreBlocks(BlocksOf(corpus[d]))
<1>1. setting.size \in Nat /\ setting.overlap \in Int
    BY ChunkingAssumption DEF CuttingType
<1>2. corpus \in Seq({corpus[d] : d \in DOMAIN corpus})
    BY ChunkingAssumption DEF CuttingType
<1>3. Len(corpus) \in Nat /\ DOMAIN corpus = 1..Len(corpus)
    BY <1>2
<1>4. ASSUME NEW d \in 1..Len(corpus) PROVE IsText(corpus[d])
    BY <1>3, ChunkingAssumption DEF CuttingType, IsText
<1>5. ASSUME NEW d \in 1..Len(corpus) PROVE AreBlocks(BlocksOf(corpus[d]))
    <2>1. IsText(corpus[d])
        BY <1>4
    <2> QED
        BY <2>1, BlocksAreTheText DEF AreBlocks
<1> QED
    BY <1>1, <1>3, <1>4, <1>5 DEF Step

LEMMA StretchesStay ==
    ASSUME corpus' = corpus, setting' = setting
    PROVE  /\ Step' = Step /\ Cuttings' = Cuttings
           /\ \A d : Stretches(corpus[d])' = Stretches(corpus[d])
<1>1. Step' = Step /\ Cuttings' = Cuttings
    BY DEF Step, Cuttings, ChunkSet
<1>2. ASSUME NEW d PROVE Stretches(corpus[d])' = Stretches(corpus[d])
    BY DEF Stretches
<1> QED
    BY <1>1, <1>2

LEMMA StretchIsShort ==
    ASSUME CuttingType, NEW d \in 1..Len(corpus), NEW piece \in Stretches(corpus[d])
    PROVE  /\ piece.from \in Int /\ piece.to \in Int /\ piece.from <= piece.to
           /\ 1 <= piece.from /\ piece.to <= corpus[d].length
           /\ piece.to <= piece.from + setting.overlap
           /\ Stripped(corpus[d], piece) > 0
           /\ setting.strategy # "fixed-size" =>
                \E k \in 1..Len(BlocksOf(corpus[d])) : Within(piece, BlocksOf(corpus[d])[k])
<1>1. corpus[d].length \in Nat /\ setting.overlap \in Int
    BY ArgumentsAreRight DEF IsText
<1>2. /\ piece \in [from : 1..corpus[d].length, to : 1..corpus[d].length]
      /\ 1 <= Length(piece) /\ Length(piece) <= setting.overlap + 1
      /\ Stripped(corpus[d], piece) > 0
      /\ setting.strategy # "fixed-size" =>
           \E k \in 1..Len(BlocksOf(corpus[d])) : Within(piece, BlocksOf(corpus[d])[k])
    BY DEF Stretches, Within
<1>3. piece.from \in 1..corpus[d].length /\ piece.to \in 1..corpus[d].length
    BY <1>2
<1> QED
    BY <1>1, <1>2, <1>3 DEF Length

LEMMA AppendCovers ==
    ASSUME NEW S, NEW chunks \in Seq(S), NEW c \in S, NEW d, NEW piece,
           CoveredBy(chunks, d, piece) \/ (c.doc = d /\ Within(piece, c))
    PROVE  CoveredBy(Append(chunks, c), d, piece)
<1>1. /\ Len(Append(chunks, c)) = Len(chunks) + 1 /\ Len(chunks) \in Nat
      /\ Append(chunks, c)[Len(chunks) + 1] = c
      /\ \A k \in 1..Len(chunks) : Append(chunks, c)[k] = chunks[k]
    OBVIOUS
<1>2. CASE CoveredBy(chunks, d, piece)
    BY <1>1, <1>2 DEF CoveredBy
<1>3. CASE c.doc = d /\ Within(piece, c)
    BY <1>1, <1>3 DEF CoveredBy
<1> QED
    BY <1>2, <1>3

\* A chunk more is the next row, and its document's next.
LEMMA ChunkIsNext ==
    ASSUME CuttingType, cutting.doc \in 1..Len(corpus),
           Numbered(cutting.chunks, cutting.doc, cutting.own), NEW piece \in Pieces
    PROVE  /\ Chunk(piece) \in ChunkSet
           /\ Chunk(piece).doc = cutting.doc
           /\ Chunk(piece).from = piece.from /\ Chunk(piece).to = piece.to
           /\ Append(cutting.chunks, Chunk(piece)) \in Seq(ChunkSet)
           /\ Numbered(Append(cutting.chunks, Chunk(piece)), cutting.doc, cutting.own + 1)
<1> DEFINE c == Chunk(piece)
           old == cutting.chunks
           new == Append(old, c)
           slug == FileSlug(corpus[cutting.doc].file)
<1>1. old \in Seq(ChunkSet) /\ Len(old) \in Nat /\ cutting.own \in Nat /\ cutting.doc \in Nat
    BY DEF CuttingType, Cuttings
<1>2. /\ c = [id |-> <<slug, cutting.own>>, doc |-> cutting.doc, section |-> piece.section,
              from |-> piece.from, to |-> piece.to, position |-> Len(old)]
    BY DEF Chunk, Document
<1>3. c.id = <<slug, cutting.own>> /\ c.doc = cutting.doc /\ c.position = Len(old)
      /\ c.from = piece.from /\ c.to = piece.to
    BY <1>2
<1>4. c \in ChunkSet
    <2>1. slug \in {FileSlug(corpus[d].file) : d \in 1..Len(corpus)}
        OBVIOUS
    <2>2. piece.section \in Nat /\ piece.from \in Int /\ piece.to \in Int
        BY DEF Pieces
    <2> HIDE DEF slug
    <2> QED
        BY <1>1, <1>2, <2>1, <2>2 DEF ChunkSet
<1> HIDE DEF c
<1>5. /\ new \in Seq(ChunkSet) /\ Len(new) = Len(old) + 1
      /\ \A k \in 1..Len(old) : new[k] = old[k]
      /\ new[Len(old) + 1] = c
    BY <1>1, <1>4
<1> HIDE DEF new
<1>6. ASSUME NEW k \in 1..Len(old)
      PROVE  /\ old[k].id[2] \in Nat /\ old[k].doc \in Nat
             /\ old[k].doc = cutting.doc => old[k].id[2] < cutting.own
    <2>1. old[k] \in ChunkSet
        BY <1>1
    <2> QED
        BY <2>1 DEF Numbered, ChunkSet
<1>7. ASSUME NEW k \in 1..Len(new)
      PROVE  /\ new[k].position = k - 1
             /\ new[k].doc \in 1..Len(corpus) /\ new[k].doc <= cutting.doc
             /\ new[k].id[1] = FileSlug(corpus[new[k].doc].file)
             /\ new[k].doc = cutting.doc => new[k].id[2] < cutting.own + 1
             /\ \A j \in 1..(k - 1) :
                  new[j].doc = new[k].doc => new[j].id[2] # new[k].id[2]
    <2>1. CASE k \in 1..Len(old)
        <3>1. new[k] = old[k] /\ \A j \in 1..(k - 1) : new[j] = old[j]
            BY <1>1, <1>5, <2>1
        <3>2. old[k].doc = cutting.doc => old[k].id[2] < cutting.own + 1
            BY <1>1, <1>6, <2>1
        <3>3. /\ old[k].position = k - 1
              /\ old[k].doc \in 1..Len(corpus) /\ old[k].doc <= cutting.doc
              /\ old[k].id[1] = FileSlug(corpus[old[k].doc].file)
              /\ \A j \in 1..(k - 1) :
                   old[j].doc = old[k].doc => old[j].id[2] # old[k].id[2]
            BY <2>1 DEF Numbered
        <3> QED
            BY <3>1, <3>2, <3>3
    <2>2. CASE k = Len(old) + 1
        <3>1. new[k] = c /\ \A j \in 1..(k - 1) : new[j] = old[j]
            BY <1>1, <1>5, <2>2
        <3>2. c.id[1] = slug /\ c.id[2] = cutting.own
            BY <1>3
        <3>3. \A j \in 1..(k - 1) : old[j].doc = cutting.doc => old[j].id[2] # cutting.own
            BY <1>1, <1>6, <2>2
        <3>4. cutting.own < cutting.own + 1 /\ k - 1 = Len(old) /\ cutting.doc <= cutting.doc
            BY <1>1, <2>2
        <3> QED
            BY <1>3, <3>1, <3>2, <3>3, <3>4
    <2> QED
        BY <1>1, <1>5, <2>1, <2>2
<1>8. Numbered(new, cutting.doc, cutting.own + 1)
    BY <1>7 DEF Numbered
<1> QED
    BY <1>3, <1>4, <1>5, <1>8 DEF c, new

-----------------------------------------------------------------------------
(* Chunking: the steps.                                                     *)

LEMMA InitIsWhole == ChunkingInit => ChunkingInv
<1> SUFFICES ASSUME ChunkingInit PROVE ChunkingInv
    OBVIOUS
<1>1. None \in Pieces
    BY DEF None, Pieces
<1>2. CuttingType
    BY <1>1 DEF ChunkingInit, NothingCut, CuttingType, Cuttings
<1>3. cutting.pc = "document" /\ cutting.chunks = <<>> /\ cutting.doc = 1
    BY DEF ChunkingInit, NothingCut
<1>4. AreNumbered
    BY <1>3 DEF AreNumbered, Numbered
<1>5. BlocksAreJoined /\ Behind
    BY <1>3 DEF BlocksAreJoined, Behind
<1> QED
    BY <1>2, <1>4, <1>5 DEF ChunkingInv

\* A step that cuts nothing off and leaves the arguments keeps what is behind.
LEMMA StaysNumbered ==
    ASSUME AreNumbered, CuttingType, corpus' = corpus,
           cutting'.chunks = cutting.chunks, cutting'.doc = cutting.doc,
           \/ cutting'.pc = cutting.pc /\ cutting'.own = cutting.own
           \/ cutting'.pc \in {"refused", "cut"}
           \/ cutting.pc = "document" /\ cutting'.own = 0 /\ cutting'.pc # "document"
           \/ /\ cutting.pc \in {"coalesce", "block", "windows"} /\ cutting'.own = cutting.own
              /\ cutting'.pc \in {"coalesce", "block", "windows"}
    PROVE  AreNumbered'
<1>1. PICK n \in Nat :
        /\ Numbered(cutting.chunks, cutting.doc, n)
        /\ cutting.pc = "document" => n = 0
        /\ cutting.pc \in {"coalesce", "block", "windows"} => n = cutting.own
    BY DEF AreNumbered
<1>2. Numbered(cutting.chunks, cutting.doc, n)'
    BY <1>1 DEF Numbered
<1>3. /\ cutting'.pc = "document" => n = 0
      /\ cutting'.pc \in {"coalesce", "block", "windows"} => n = cutting'.own
    BY <1>1
<1> QED
    BY <1>2, <1>3 DEF AreNumbered

LEMMA CoversStay ==
    ASSUME corpus' = corpus, setting' = setting, cutting'.chunks = cutting.chunks,
           \A d \in 1..Len(corpus) : d < cutting.doc => AllCovered(cutting.chunks, d)
    PROVE  \A d \in 1..Len(corpus) : d < cutting.doc => AllCovered(cutting.chunks, d)'
<1>1. ASSUME NEW d \in 1..Len(corpus), d < cutting.doc
      PROVE  AllCovered(cutting.chunks, d)'
    <2>1. Stretches(corpus[d])' = Stretches(corpus[d])
        BY StretchesStay
    <2>2. AllCovered(cutting.chunks, d)
        BY <1>1
    <2> QED
        BY <2>1, <2>2 DEF AllCovered, CoveredBy
<1> QED
    BY <1>1

LEMMA RefusesIsWhole == ChunkingInv /\ (Refuses \/ AllCut) => ChunkingInv'
<1> SUFFICES ASSUME ChunkingInv, Refuses \/ AllCut PROVE ChunkingInv'
    OBVIOUS
<1>1. /\ corpus' = corpus /\ setting' = setting
      /\ cutting.pc = "document"
      /\ \/ cutting'.pc = "refused"
         \/ cutting'.pc = "cut" /\ cutting.doc > Len(corpus)
      /\ \E how \in {"refused", "cut"} : cutting' = [cutting EXCEPT !.pc = how]
    BY DEF ChunkingInv, CuttingType, Cuttings, Refuses, AllCut
<1>2. CuttingType'
    <2>1. cutting' \in Cuttings
        BY <1>1 DEF ChunkingInv, CuttingType, Cuttings
    <2> QED
        BY <1>1, <2>1, StretchesStay DEF ChunkingInv, CuttingType
<1>3. cutting'.chunks = cutting.chunks /\ cutting'.doc = cutting.doc
    BY <1>1 DEF ChunkingInv, CuttingType, Cuttings
<1>4. AreNumbered'
    BY <1>1, <1>3, StaysNumbered DEF ChunkingInv
<1>5. BlocksAreJoined'
    BY <1>1 DEF BlocksAreJoined
<1>6. ASSUME Step' > 0 PROVE Behind'
    <2>1. Step > 0 /\ Behind
        BY <1>1, <1>6, StretchesStay DEF ChunkingInv
    <2>2. \A d \in 1..Len(corpus) : d < cutting.doc => AllCovered(cutting.chunks, d)'
        BY <1>1, <1>3, <2>1, CoversStay DEF Behind
    <2> QED
        BY <1>1, <1>3, <2>2 DEF Behind
<1> QED
    BY <1>2, <1>4, <1>5, <1>6 DEF ChunkingInv

LEMMA BeginsDocumentIsWhole == ChunkingInv /\ BeginsDocument => ChunkingInv'
<1> SUFFICES ASSUME ChunkingInv, BeginsDocument PROVE ChunkingInv'
    OBVIOUS
<1> DEFINE all == [section |-> 0, from |-> 1, to |-> Document.length]
<1>1. /\ corpus' = corpus /\ setting' = setting /\ cutting.pc = "document"
      /\ cutting.doc \in 1..Len(corpus) /\ cutting.doc \in Nat \ {0}
    BY ArgumentsAreRight DEF ChunkingInv, CuttingType, Cuttings, BeginsDocument
<1>2. IsText(Document) /\ AreBlocks(BlocksOf(Document)) /\ Len(BlocksOf(Document)) \in Nat
    BY <1>1, ArgumentsAreRight DEF ChunkingInv, Document, AreBlocks
<1>3. all \in Pieces /\ None \in Pieces
    BY <1>2 DEF IsText, Pieces, None
<1>4. /\ cutting'.chunks = cutting.chunks /\ cutting'.doc = cutting.doc
      /\ cutting'.own = 0 /\ cutting'.next = 1
    BY DEF ChunkingInv, CuttingType, Cuttings, BeginsDocument
<1>5. \/ /\ setting.strategy = "fixed-size"
         /\ cutting'.pc = "windows" /\ cutting'.window = 1 /\ cutting'.merged = <<all>>
      \/ /\ setting.strategy # "fixed-size"
         /\ cutting'.pc = "coalesce" /\ cutting'.pending = None /\ cutting'.merged = <<>>
    BY DEF ChunkingInv, CuttingType, Cuttings, BeginsDocument
<1>6. CuttingType'
    <2> HIDE DEF all
    <2>1. <<all>> \in Seq(Pieces) /\ <<>> \in Seq(Pieces)
        BY <1>3
    <2>2. cutting \in Cuttings /\ cutting.pending \in Pieces /\ cutting.window \in Int
          /\ cutting.chunks \in Seq(ChunkSet)
        BY DEF ChunkingInv, CuttingType, Cuttings
    <2>3. /\ DOMAIN cutting' = DOMAIN cutting
          /\ cutting' = [f \in DOMAIN cutting |-> cutting'[f]]
          /\ cutting'.pending \in {cutting.pending, None}
          /\ cutting'.window \in {cutting.window, 1}
        BY <2>2 DEF BeginsDocument, Cuttings
    <2>4. /\ cutting'.pc \in {"document", "coalesce", "block", "windows", "refused", "cut"}
          /\ cutting'.doc \in Nat \ {0} /\ cutting'.next \in Nat \ {0}
          /\ cutting'.pending \in Pieces /\ cutting'.merged \in Seq(Pieces)
          /\ cutting'.window \in Int /\ cutting'.own \in Nat
          /\ cutting'.chunks \in Seq(ChunkSet)
        <3>1. cutting'.pc \in {"document", "coalesce", "block", "windows", "refused", "cut"}
            BY <1>4, <1>5
        <3>2. cutting'.doc \in Nat \ {0} /\ cutting'.next \in Nat \ {0} /\ cutting'.own \in Nat
            BY <1>1, <1>4, <2>2
        <3>3. cutting'.pending \in Pieces /\ cutting'.merged \in Seq(Pieces)
            BY <1>1, <1>3, <1>5, <2>1, <2>2, <2>3
        <3>4. cutting'.window \in Int /\ cutting'.chunks \in Seq(ChunkSet)
            BY <1>4, <2>2, <2>3
        <3> QED
            BY <3>1, <3>2, <3>3, <3>4
    <2>5. cutting' \in Cuttings
        BY <2>2, <2>3, <2>4, IsCutting
    <2> QED
        BY <1>1, <1>4, <2>5, StretchesStay DEF ChunkingInv, CuttingType
<1>7. AreNumbered'
    BY <1>1, <1>4, <1>5, StaysNumbered DEF ChunkingInv
<1>8. Document' = Document
    BY <1>1, <1>4 DEF Document
<1>9. BlocksAreJoined'
    <2>1. Coalescing(BlocksOf(Document), 1, None, <<>>)
        BY <1>2, <1>3 DEF Coalescing
    <2> QED
        BY <1>1, <1>4, <1>5, <1>8, <2>1 DEF BlocksAreJoined
<1>10. ASSUME Step' > 0 PROVE Behind'
    <2>1. Step > 0 /\ Behind
        BY <1>1, <1>10, StretchesStay DEF ChunkingInv
    <2>2. \A d \in 1..Len(corpus) : d < cutting.doc => AllCovered(cutting.chunks, d)'
        BY <1>1, <1>4, <2>1, CoversStay DEF Behind
    <2>3. CASE cutting'.pc = "coalesce"
        BY <1>1, <1>4, <2>2, <2>3 DEF Behind
    <2>4. CASE cutting'.pc = "windows"
        <3>1. /\ setting.strategy = "fixed-size" /\ cutting'.window = 1
              /\ cutting'.merged = <<all>> /\ cutting'.next = 1
            BY <1>4, <1>5, <2>4
        <3>2. Stretches(Document)' = Stretches(Document)
            BY <1>1, <1>8, StretchesStay DEF Document
        <3>3. ASSUME NEW piece \in Stretches(Document)
              PROVE  /\ Within(piece, all)
                     /\ piece.from \in Int /\ ~(piece.from < 1)
            BY <1>1, StretchIsShort DEF ChunkingInv, Document, Within
        <3>4. Len(cutting'.merged) = 1 /\ cutting'.merged[1] = all
            BY <3>1
        <3> HIDE DEF all
        <3> QED
            BY <1>1, <1>4, <2>2, <2>4, <3>1, <3>2, <3>3, <3>4 DEF Behind, Block
    <2> QED
        BY <1>5, <2>3, <2>4
<1> QED
    BY <1>6, <1>7, <1>9, <1>10 DEF ChunkingInv

LEMMA CoalescesIsWhole == ChunkingInv /\ Coalesces => ChunkingInv'
<1> SUFFICES ASSUME ChunkingInv, Coalesces PROVE ChunkingInv'
    OBVIOUS
<1> DEFINE blocks == BlocksOf(Document)
           joined == JoinedTo(blocks[cutting.next], cutting.pending)
<1>1. /\ corpus' = corpus /\ setting' = setting /\ cutting.pc = "coalesce"
      /\ cutting.doc \in 1..Len(corpus) /\ cutting.next \in Nat \ {0}
      /\ cutting.next <= Len(blocks) /\ cutting.merged \in Seq(Pieces)
    BY DEF ChunkingInv, CuttingType, Cuttings, Coalesces
<1>2. /\ AreBlocks(blocks) /\ setting.strategy # "fixed-size"
      /\ Coalescing(blocks, cutting.next, cutting.pending, cutting.merged)
    BY <1>1, ArgumentsAreRight DEF ChunkingInv, Document, BlocksAreJoined
<1>3. joined = Joined /\ joined \in Pieces /\ None \in Pieces
    <2>1. joined = Joined
        BY DEF JoinedTo, Joined
    <2>2. joined \in Pieces
        BY <1>1, <1>2, JoinedIsNext
    <2>3. None \in Pieces
        BY DEF None, Pieces
    <2> QED
        BY <2>1, <2>2, <2>3
<1>4. /\ cutting'.chunks = cutting.chunks /\ cutting'.doc = cutting.doc
      /\ cutting'.own = cutting.own /\ cutting'.next = cutting.next + 1
      /\ cutting'.pc = "coalesce"
    BY <1>1 DEF ChunkingInv, CuttingType, Cuttings, Coalesces
<1>5. \/ cutting'.pending = joined /\ cutting'.merged = cutting.merged
      \/ cutting'.pending = None /\ cutting'.merged = Append(cutting.merged, joined)
    <2> HIDE DEF joined
    <2> QED
        BY <1>3 DEF ChunkingInv, CuttingType, Cuttings, Coalesces
<1>6. CuttingType'
    <2> HIDE DEF joined, blocks
    <2>1. Append(cutting.merged, joined) \in Seq(Pieces)
        BY <1>1, <1>3
    <2>2. /\ cutting \in Cuttings /\ cutting.doc \in Nat \ {0} /\ cutting.own \in Nat
          /\ cutting.window \in Int /\ cutting.chunks \in Seq(ChunkSet)
        BY DEF ChunkingInv, CuttingType, Cuttings
    <2>3. /\ DOMAIN cutting' = DOMAIN cutting
          /\ cutting' = [f \in DOMAIN cutting |-> cutting'[f]]
          /\ cutting'.window = cutting.window
        BY <2>2 DEF Coalesces, Cuttings
    <2>4. /\ cutting'.pc \in {"document", "coalesce", "block", "windows", "refused", "cut"}
          /\ cutting'.doc \in Nat \ {0} /\ cutting'.next \in Nat \ {0}
          /\ cutting'.pending \in Pieces /\ cutting'.merged \in Seq(Pieces)
          /\ cutting'.window \in Int /\ cutting'.own \in Nat
          /\ cutting'.chunks \in Seq(ChunkSet)
        <3>1. cutting'.pc \in {"document", "coalesce", "block", "windows", "refused", "cut"}
            BY <1>4, <1>5
        <3>2. cutting'.doc \in Nat \ {0} /\ cutting'.next \in Nat \ {0} /\ cutting'.own \in Nat
            BY <1>1, <1>4, <2>2
        <3>3. cutting'.pending \in Pieces /\ cutting'.merged \in Seq(Pieces)
            BY <1>1, <1>3, <1>5, <2>1, <2>2, <2>3
        <3>4. cutting'.window \in Int /\ cutting'.chunks \in Seq(ChunkSet)
            BY <1>4, <2>2, <2>3
        <3> QED
            BY <3>1, <3>2, <3>3, <3>4
    <2>5. cutting' \in Cuttings
        BY <2>2, <2>3, <2>4, IsCutting
    <2> QED
        BY <1>1, <1>4, <2>5, StretchesStay DEF ChunkingInv, CuttingType
<1>7. AreNumbered'
    BY <1>1, <1>4, StaysNumbered DEF ChunkingInv
<1>8. Document' = Document
    BY <1>1, <1>4 DEF Document
<1>9. BlocksAreJoined'
    <2>1. /\ Coalescing(blocks, cutting.next + 1, joined, cutting.merged)
          /\ Coalescing(blocks, cutting.next + 1, None, Append(cutting.merged, joined))
        BY <1>1, <1>2, CoalescingWaits, CoalescingKeeps
    <2>2. Coalescing(blocks, cutting'.next, cutting'.pending, cutting'.merged)
        BY <1>4, <1>5, <2>1
    <2> QED
        BY <1>1, <1>2, <1>8, <2>2 DEF BlocksAreJoined
<1>10. ASSUME Step' > 0 PROVE Behind'
    <2>1. Step > 0 /\ Behind
        BY <1>1, <1>10, StretchesStay DEF ChunkingInv
    <2>2. \A d \in 1..Len(corpus) : d < cutting.doc => AllCovered(cutting.chunks, d)'
        BY <1>1, <1>4, <2>1, CoversStay DEF Behind
    <2> QED
        BY <1>1, <1>4, <2>2 DEF Behind
<1> QED
    BY <1>6, <1>7, <1>9, <1>10 DEF ChunkingInv

LEMMA StretchWithin ==
    ASSUME NEW p, p.from \in Int, p.to \in Int, NEW q \in Pieces, NEW r \in Pieces,
           Within(p, q), Within(q, r)
    PROVE  Within(p, r)
BY DEF Within, Pieces

LEMMA CoalescedIsWhole == ChunkingInv /\ Coalesced => ChunkingInv'
<1> SUFFICES ASSUME ChunkingInv, Coalesced PROVE ChunkingInv'
    OBVIOUS
<1> DEFINE blocks == BlocksOf(Document)
           all == WithTail(cutting.merged, cutting.pending)
<1>1. /\ corpus' = corpus /\ setting' = setting /\ cutting.pc = "coalesce"
      /\ cutting.doc \in 1..Len(corpus) /\ cutting.next > Len(blocks)
      /\ cutting \in Cuttings
    BY DEF ChunkingInv, CuttingType, Coalesced
<1>2. /\ AreBlocks(blocks) /\ setting.strategy # "fixed-size"
      /\ Coalescing(blocks, cutting.next, cutting.pending, cutting.merged)
    BY <1>1, ArgumentsAreRight DEF ChunkingInv, Document, BlocksAreJoined
<1>3. /\ all \in Seq(Pieces) /\ None \in Pieces
      /\ \A k \in 1..Len(blocks) : \E m \in 1..Len(all) : Within(blocks[k], all[m])
    <2>1. None \in Pieces
        BY DEF None, Pieces
    <2> QED
        BY <1>1, <1>2, <2>1, CoalescingEnds
<1>4. cutting' = [cutting EXCEPT !.pc = "block", !.next = 1, !.pending = None, !.merged = all]
    BY DEF Coalesced, WithTail
<1> HIDE DEF all
<1>5. /\ cutting'.chunks = cutting.chunks /\ cutting'.doc = cutting.doc
      /\ cutting'.own = cutting.own /\ cutting'.next = 1 /\ cutting'.pc = "block"
      /\ cutting'.pending = None /\ cutting'.merged = all /\ cutting'.window = cutting.window
      /\ DOMAIN cutting' = DOMAIN cutting
      /\ cutting' = [f \in DOMAIN cutting |-> cutting'[f]]
    BY <1>1, <1>4 DEF Cuttings
<1>6. CuttingType'
    <2>1. /\ cutting.doc \in Nat \ {0} /\ cutting.own \in Nat
          /\ cutting.window \in Int /\ cutting.chunks \in Seq(ChunkSet)
        BY <1>1 DEF Cuttings
    <2>2. cutting' \in Cuttings
        BY <1>1, <1>3, <1>5, <2>1, IsCutting
    <2> QED
        BY <1>1, <1>5, <2>2, StretchesStay DEF ChunkingInv, CuttingType
<1>7. AreNumbered'
    BY <1>1, <1>5, StaysNumbered DEF ChunkingInv
<1>8. BlocksAreJoined'
    BY <1>5 DEF BlocksAreJoined
<1>9. ASSUME Step' > 0 PROVE Behind'
    <2>1. Step > 0 /\ Behind
        BY <1>1, <1>9, StretchesStay DEF ChunkingInv
    <2>2. \A d \in 1..Len(corpus) : d < cutting.doc => AllCovered(cutting.chunks, d)'
        BY <1>1, <1>5, <2>1, CoversStay DEF Behind
    <2>3. Stretches(Document)' = Stretches(Document)
        BY <1>1, <1>5, StretchesStay DEF Document
    <2>4. ASSUME NEW piece \in Stretches(Document)
          PROVE  \E m \in 1..Len(all) : Within(piece, all[m])
        <3>1. piece.from \in Int /\ piece.to \in Int
              /\ \E k \in 1..Len(blocks) : Within(piece, blocks[k])
            BY <1>1, <1>2, StretchIsShort DEF ChunkingInv, Document
        <3>2. PICK k \in 1..Len(blocks) : Within(piece, blocks[k])
            BY <3>1
        <3>3. PICK m \in 1..Len(all) : Within(blocks[k], all[m])
            BY <1>3
        <3>4. blocks[k] \in Pieces /\ all[m] \in Pieces
            BY <1>2, <1>3 DEF AreBlocks
        <3>5. Within(piece, all[m])
            BY <3>1, <3>2, <3>3, <3>4, StretchWithin
        <3> QED
            BY <3>5
    <2>5. \A m \in 1..Len(all) : ~(m < 1)
        BY <1>3
    <2> QED
        BY <1>1, <1>5, <2>2, <2>3, <2>4, <2>5 DEF Behind
<1> QED
    BY <1>6, <1>7, <1>8, <1>9 DEF ChunkingInv

\* A chunk more: what was whole is whole, and what is in it.
LEMMA ChunkIsMore ==
    ASSUME ChunkingInv, cutting.pc \in {"block", "windows"}, NEW new \in Pieces,
           corpus' = corpus, setting' = setting, cutting'.doc = cutting.doc,
           cutting'.own = cutting.own + 1,
           cutting'.chunks = Append(cutting.chunks, Chunk(new)),
           cutting'.pc \in {"block", "windows"}
    PROVE  /\ cutting'.chunks \in Seq(ChunkSet)
           /\ AreNumbered'
           /\ \A d, piece : CoveredBy(cutting.chunks, d, piece)
                                => CoveredBy(cutting'.chunks, d, piece)
           /\ \A piece : Within(piece, new) => CoveredBy(cutting'.chunks, cutting.doc, piece)
           /\ (\A d \in 1..Len(corpus) : d < cutting.doc => AllCovered(cutting.chunks, d))
                => (\A d \in 1..Len(corpus) : d < cutting.doc => AllCovered(cutting.chunks, d)')
<1>1. /\ CuttingType /\ cutting.doc \in 1..Len(corpus) /\ cutting.own \in Nat
      /\ cutting.chunks \in Seq(ChunkSet)
      /\ Numbered(cutting.chunks, cutting.doc, cutting.own)
    BY DEF ChunkingInv, CuttingType, Cuttings, AreNumbered
<1> DEFINE c == Chunk(new)
           more == Append(cutting.chunks, c)
<1>2. /\ c \in ChunkSet /\ c.doc = cutting.doc /\ c.from = new.from /\ c.to = new.to
      /\ more \in Seq(ChunkSet)
      /\ Numbered(more, cutting.doc, cutting.own + 1)
    BY <1>1, ChunkIsNext
<1> HIDE DEF c
<1>3. AreNumbered'
    <2>1. Numbered(cutting.chunks, cutting.doc, cutting.own)'
        BY <1>2 DEF Numbered, c
    <2> QED
        BY <1>1, <2>1 DEF AreNumbered
<1>4. ASSUME NEW d, NEW piece, CoveredBy(cutting.chunks, d, piece)
      PROVE  CoveredBy(more, d, piece)
    BY <1>1, <1>2, <1>4, AppendCovers
<1>5. ASSUME NEW piece, Within(piece, new) PROVE CoveredBy(more, cutting.doc, piece)
    <2>1. Within(piece, c)
        BY <1>2, <1>5 DEF Within
    <2> QED
        BY <1>1, <1>2, <2>1, AppendCovers
<1>6. ASSUME NEW d \in 1..Len(corpus), AllCovered(cutting.chunks, d)
      PROVE  AllCovered(cutting.chunks, d)'
    <2>1. Stretches(corpus[d])' = Stretches(corpus[d])
        BY StretchesStay
    <2>2. \A piece \in Stretches(corpus[d]) : CoveredBy(more, d, piece)
        BY <1>4, <1>6 DEF AllCovered
    <2>3. cutting'.chunks = more
        BY DEF c
    <2> QED
        BY <2>1, <2>2, <2>3 DEF AllCovered
<1> QED
    BY <1>2, <1>3, <1>4, <1>5, <1>6 DEF c

LEMMA TakesBlockIsWhole == ChunkingInv /\ TakesBlock => ChunkingInv'
<1> SUFFICES ASSUME ChunkingInv, TakesBlock PROVE ChunkingInv'
    OBVIOUS
<1>1. /\ corpus' = corpus /\ setting' = setting /\ cutting.pc = "block"
      /\ cutting.doc \in 1..Len(corpus) /\ cutting \in Cuttings
      /\ cutting.next \in 1..Len(cutting.merged)
    BY DEF ChunkingInv, CuttingType, Cuttings, TakesBlock
<1>2. /\ cutting.doc \in Nat \ {0} /\ cutting.own \in Nat /\ cutting.next \in Nat \ {0}
      /\ cutting.window \in Int /\ cutting.chunks \in Seq(ChunkSet)
      /\ cutting.pending \in Pieces /\ cutting.merged \in Seq(Pieces)
      /\ Block \in Pieces
    BY <1>1 DEF Cuttings, Block
<1> DEFINE c == Chunk(Block)
<1>3. /\ cutting'.doc = cutting.doc /\ cutting'.next = cutting.next + 1
      /\ cutting'.pc = "block" /\ cutting'.merged = cutting.merged
      /\ cutting'.pending = cutting.pending /\ cutting'.window = cutting.window
      /\ DOMAIN cutting' = DOMAIN cutting
      /\ cutting' = [f \in DOMAIN cutting |-> cutting'[f]]
    <2> HIDE DEF c
    <2> QED
        BY <1>1 DEF TakesBlock, Cuttings
<1>4. \/ /\ Stripped(Document, Block) = 0
         /\ cutting'.own = cutting.own /\ cutting'.chunks = cutting.chunks
      \/ /\ cutting'.own = cutting.own + 1 /\ cutting'.chunks = Append(cutting.chunks, c)
    BY <1>1 DEF TakesBlock, Cuttings
<1> HIDE DEF c
<1>5. cutting'.chunks \in Seq(ChunkSet) /\ AreNumbered' /\ cutting'.own \in Nat
    <2>1. CASE cutting'.own = cutting.own /\ cutting'.chunks = cutting.chunks
        BY <1>1, <1>2, <1>3, <2>1, StaysNumbered DEF ChunkingInv
    <2>2. CASE cutting'.own = cutting.own + 1 /\ cutting'.chunks = Append(cutting.chunks, c)
        BY <1>1, <1>2, <1>3, <2>2, ChunkIsMore DEF c
    <2> QED
        BY <1>4, <2>1, <2>2
<1>6. CuttingType'
    <2>1. cutting' \in Cuttings
        BY <1>1, <1>2, <1>3, <1>5, IsCutting
    <2> QED
        BY <1>1, <1>3, <2>1, StretchesStay DEF ChunkingInv, CuttingType
<1>7. BlocksAreJoined'
    BY <1>3 DEF BlocksAreJoined
<1>8. ASSUME Step' > 0 PROVE Behind'
    <2>1. Step > 0 /\ Behind
        BY <1>1, <1>8, StretchesStay DEF ChunkingInv
    <2>2. Stretches(Document)' = Stretches(Document)
        BY <1>1, <1>3, StretchesStay DEF Document
    <2>3. /\ \A d \in 1..Len(corpus) : d < cutting.doc => AllCovered(cutting.chunks, d)'
          /\ \A piece : CoveredBy(cutting.chunks, cutting.doc, piece)
                            => CoveredBy(cutting'.chunks, cutting.doc, piece)
          /\ \A piece \in Stretches(Document) :
                Within(piece, Block) => CoveredBy(cutting'.chunks, cutting.doc, piece)
        <3>1. CASE /\ Stripped(Document, Block) = 0 /\ cutting'.chunks = cutting.chunks
            <4>1. \A d \in 1..Len(corpus) : d < cutting.doc => AllCovered(cutting.chunks, d)'
                BY <1>1, <2>1, <3>1, CoversStay DEF Behind
            <4>2. ASSUME NEW piece \in Stretches(Document), Within(piece, Block)
                  PROVE  FALSE
                <5>1. /\ piece.from \in Int /\ piece.to \in Int
                      /\ Stripped(Document, piece) > 0
                    BY <1>1, StretchIsShort DEF ChunkingInv, Document
                <5>2. Block.from \in Int /\ Block.to \in Int
                    BY <1>2 DEF Pieces
                <5> QED
                    BY <3>1, <4>2, <5>1, <5>2, InkIsKept
            <4> QED
                BY <3>1, <4>1, <4>2
        <3>2. CASE cutting'.own = cutting.own + 1 /\ cutting'.chunks = Append(cutting.chunks, c)
            BY <1>1, <1>2, <1>3, <2>1, <3>2, ChunkIsMore DEF c, Behind
        <3> QED
            BY <1>4, <3>1, <3>2
    <2>4. ASSUME NEW piece \in Stretches(Document), NEW m \in 1..Len(cutting.merged),
                 m < cutting.next + 1, Within(piece, cutting.merged[m])
          PROVE  CoveredBy(cutting'.chunks, cutting.doc, piece)
        <3>1. CASE m = cutting.next
            BY <2>3, <2>4, <3>1 DEF Block
        <3>2. CASE m < cutting.next
            BY <1>1, <2>1, <2>3, <2>4, <3>2 DEF Behind
        <3> QED
            BY <1>2, <2>4, <3>1, <3>2
    <2>5. \A piece \in Stretches(Document) :
              \E m \in 1..Len(cutting.merged) : Within(piece, cutting.merged[m])
        BY <1>1, <2>1 DEF Behind
    <2> QED
        BY <1>1, <1>3, <2>2, <2>3, <2>4, <2>5 DEF Behind
<1> QED
    BY <1>5, <1>6, <1>7, <1>8 DEF ChunkingInv

LEMMA WindowsBlockIsWhole == ChunkingInv /\ WindowsBlock => ChunkingInv'
<1> SUFFICES ASSUME ChunkingInv, WindowsBlock PROVE ChunkingInv'
    OBVIOUS
<1>1. /\ corpus' = corpus /\ setting' = setting /\ cutting.pc = "block"
      /\ cutting.doc \in 1..Len(corpus) /\ cutting \in Cuttings
      /\ cutting.next \in 1..Len(cutting.merged)
    BY DEF ChunkingInv, CuttingType, Cuttings, WindowsBlock
<1>2. Block \in Pieces
    BY <1>1 DEF Cuttings, Block
<1>3. /\ cutting'.doc = cutting.doc /\ cutting'.next = cutting.next
      /\ cutting'.pc = "windows" /\ cutting'.merged = cutting.merged
      /\ cutting'.window = Block.from
      /\ cutting'.chunks = cutting.chunks /\ cutting'.own = cutting.own
    BY <1>1 DEF WindowsBlock, Cuttings
<1>4. CuttingType'
    <2>1. Block.from \in Int
        BY <1>2 DEF Pieces
    <2>2. cutting' \in Cuttings
        BY <1>1, <2>1 DEF WindowsBlock, Cuttings
    <2> QED
        BY <1>1, <1>3, <2>2, StretchesStay DEF ChunkingInv, CuttingType
<1>5. AreNumbered'
    BY <1>1, <1>3, StaysNumbered DEF ChunkingInv
<1>6. BlocksAreJoined'
    BY <1>3 DEF BlocksAreJoined
<1>7. ASSUME Step' > 0 PROVE Behind'
    <2>1. Step > 0 /\ Behind
        BY <1>1, <1>7, StretchesStay DEF ChunkingInv
    <2>2. \A d \in 1..Len(corpus) : d < cutting.doc => AllCovered(cutting.chunks, d)'
        BY <1>1, <1>3, <2>1, CoversStay DEF Behind
    <2>3. Stretches(Document)' = Stretches(Document) /\ Block' = Block
        BY <1>1, <1>3, StretchesStay DEF Document, Block
    <2>4. ASSUME NEW piece \in Stretches(Document), Within(piece, Block)
          PROVE  ~(piece.from < Block.from)
        <3>1. piece.from \in Int
            BY <1>1, StretchIsShort DEF ChunkingInv, Document
        <3> QED
            BY <1>2, <2>4, <3>1 DEF Within, Pieces
    <2>5. cutting.next <= Len(cutting.merged)
        BY <1>1
    <2> QED
        BY <1>1, <1>3, <2>1, <2>2, <2>3, <2>4, <2>5 DEF Behind
<1> QED
    BY <1>4, <1>5, <1>6, <1>7 DEF ChunkingInv

LEMMA NoWindowsIsWhole == ChunkingInv /\ NoWindows => ChunkingInv'
<1> SUFFICES ASSUME ChunkingInv, NoWindows PROVE ChunkingInv'
    OBVIOUS
<1>1. /\ corpus' = corpus /\ setting' = setting /\ cutting.pc = "windows" /\ Step <= 0
      /\ cutting.doc \in 1..Len(corpus) /\ cutting \in Cuttings
    BY DEF ChunkingInv, CuttingType, Cuttings, NoWindows
<1>2. /\ cutting'.doc = cutting.doc /\ cutting'.pc \in {"block", "refused"}
      /\ cutting'.chunks = cutting.chunks /\ cutting'.own = cutting.own
    BY <1>1 DEF NoWindows, Cuttings
<1>3. CuttingType'
    <2> DEFINE over == [cutting EXCEPT !.pc = "block"]
    <2>1. over \in Cuttings /\ [cutting EXCEPT !.pc = "refused"] \in Cuttings
        BY <1>1 DEF Cuttings
    <2>2. [over EXCEPT !.next = cutting.next + 1] \in Cuttings
        <3>1. cutting.next + 1 \in Nat \ {0}
            BY <1>1 DEF Cuttings
        <3> HIDE DEF over
        <3> QED
            BY <2>1, <3>1 DEF Cuttings
    <2>3. cutting' \in {[over EXCEPT !.next = cutting.next + 1], [cutting EXCEPT !.pc = "refused"]}
        BY DEF NoWindows
    <2> QED
        BY <1>1, <1>2, <2>1, <2>2, <2>3, StretchesStay DEF ChunkingInv, CuttingType
<1>4. AreNumbered'
    BY <1>1, <1>2, StaysNumbered DEF ChunkingInv
<1>5. BlocksAreJoined'
    BY <1>2 DEF BlocksAreJoined
<1>6. ~(Step' > 0)
    BY <1>1, StretchesStay, ArgumentsAreRight DEF ChunkingInv
<1> QED
    BY <1>3, <1>4, <1>5, <1>6 DEF ChunkingInv

\* A stretch that begins in a window, before the next one does, is whole in it.
LEMMA WindowHoldsStretch ==
    ASSUME CuttingType, Step > 0, cutting.doc \in 1..Len(corpus),
           NEW w \in Int, NEW block \in Pieces, NEW piece \in Stretches(Document),
           Within(piece, block), w <= piece.from,
           piece.from < w + Step \/ w + setting.size > block.to,
           NEW window, window.from = w,
           window.to = IF w + setting.size - 1 < block.to THEN w + setting.size - 1 ELSE block.to
    PROVE  /\ Within(piece, window) /\ Stripped(Document, window) # 0
           /\ window.to \in Int
<1>1. /\ piece.from \in Int /\ piece.to \in Int
      /\ piece.to <= piece.from + setting.overlap
      /\ Stripped(Document, piece) > 0
      /\ setting.size \in Nat /\ setting.overlap \in Int
    BY StretchIsShort, ArgumentsAreRight DEF Document
<1>2. block.from \in Int /\ block.to \in Int /\ piece.to <= block.to
    BY DEF Within, Pieces
<1>3. piece.to <= w + setting.size - 1
    BY <1>1, <1>2 DEF Step
<1>4. window.to \in Int /\ window.from \in Int
    BY <1>1, <1>2
<1>5. Within(piece, window)
    BY <1>1, <1>2, <1>3 DEF Within
<1> QED
    BY <1>1, <1>4, <1>5, InkIsKept

LEMMA CutsWindowIsWhole == ChunkingInv /\ CutsWindow => ChunkingInv'
<1> SUFFICES ASSUME ChunkingInv, CutsWindow PROVE ChunkingInv'
    OBVIOUS
<1> DEFINE end == cutting.window + setting.size - 1
           piece == [section |-> Block.section, from |-> cutting.window,
                     to |-> IF end < Block.to THEN end ELSE Block.to]
           c == Chunk(piece)
<1>1. /\ corpus' = corpus /\ setting' = setting /\ cutting.pc = "windows" /\ Step > 0
      /\ cutting.doc \in 1..Len(corpus) /\ cutting \in Cuttings
      /\ Behind /\ cutting.next \in 1..Len(cutting.merged)
      /\ CuttingType
    BY DEF ChunkingInv, CuttingType, Cuttings, CutsWindow, Behind
<1>2. /\ cutting.doc \in Nat \ {0} /\ cutting.own \in Nat /\ cutting.next \in Nat \ {0}
      /\ cutting.window \in Int /\ cutting.chunks \in Seq(ChunkSet)
      /\ cutting.pending \in Pieces /\ cutting.merged \in Seq(Pieces)
      /\ Block \in Pieces /\ setting.size \in Nat /\ setting.overlap \in Int /\ Step \in Int
    BY <1>1, ArgumentsAreRight DEF Cuttings, Block
<1>3. piece \in Pieces
    BY <1>2 DEF Pieces
<1>4. cutting' = [cutting EXCEPT
             !.chunks = IF Stripped(Document, piece) = 0 THEN @ ELSE Append(@, c),
             !.own = IF Stripped(Document, piece) = 0 THEN @ ELSE @ + 1,
             !.window = @ + Step,
             !.pc = IF ReachesEnd THEN "block" ELSE "windows",
             !.next = IF ReachesEnd THEN @ + 1 ELSE @]
    BY DEF CutsWindow
<1>5. piece.from = cutting.window
      /\ piece.to = IF end < Block.to THEN end ELSE Block.to
    OBVIOUS
<1> HIDE DEF c, piece
<1>6. /\ cutting'.doc = cutting.doc /\ cutting'.merged = cutting.merged
      /\ cutting'.pending = cutting.pending /\ cutting'.window = cutting.window + Step
      /\ cutting'.next = IF ReachesEnd THEN cutting.next + 1 ELSE cutting.next
      /\ cutting'.pc = IF ReachesEnd THEN "block" ELSE "windows"
      /\ DOMAIN cutting' = DOMAIN cutting
      /\ cutting' = [f \in DOMAIN cutting |-> cutting'[f]]
    BY <1>1, <1>4 DEF Cuttings
<1>7. \/ /\ Stripped(Document, piece) = 0
         /\ cutting'.own = cutting.own /\ cutting'.chunks = cutting.chunks
      \/ /\ cutting'.own = cutting.own + 1 /\ cutting'.chunks = Append(cutting.chunks, c)
    BY <1>1, <1>4 DEF Cuttings
<1>8. cutting'.pc \in {"block", "windows"} /\ cutting'.next \in Nat \ {0}
      /\ cutting'.window \in Int
    BY <1>2, <1>6
<1>9. cutting'.chunks \in Seq(ChunkSet) /\ AreNumbered' /\ cutting'.own \in Nat
    <2>1. CASE cutting'.own = cutting.own /\ cutting'.chunks = cutting.chunks
        BY <1>1, <1>2, <1>6, <1>8, <2>1, StaysNumbered DEF ChunkingInv
    <2>2. CASE cutting'.own = cutting.own + 1 /\ cutting'.chunks = Append(cutting.chunks, c)
        <3>1. cutting'.chunks = Append(cutting.chunks, Chunk(piece))
            BY <2>2 DEF c
        <3>2. cutting'.chunks \in Seq(ChunkSet) /\ AreNumbered'
            BY <1>1, <1>3, <1>6, <1>8, <2>2, <3>1, ChunkIsMore
        <3> QED
            BY <1>2, <2>2, <3>2
    <2> QED
        BY <1>7, <2>1, <2>2
<1>10. CuttingType'
    <2>1. cutting'.doc \in Nat \ {0} /\ cutting'.pending \in Pieces
          /\ cutting'.merged \in Seq(Pieces)
        BY <1>2, <1>6
    <2>2. cutting' \in Cuttings
        BY <1>1, <1>6, <1>8, <1>9, <2>1, IsCutting
    <2> QED
        BY <1>1, <1>6, <2>2, StretchesStay DEF CuttingType
<1>11. BlocksAreJoined'
    BY <1>8 DEF BlocksAreJoined
<1>12. Behind'
    <2>1. Stretches(Document)' = Stretches(Document)
        BY <1>1, <1>6, StretchesStay DEF Document
    <2>2. ASSUME NEW s \in Stretches(Document), Within(s, Block),
                 cutting.window <= s.from, s.from < cutting.window + Step \/ ReachesEnd
          PROVE  Within(s, piece) /\ Stripped(Document, piece) # 0
        BY <1>1, <1>2, <1>5, <2>2, WindowHoldsStretch DEF ReachesEnd
    <2>3. /\ \A d \in 1..Len(corpus) : d < cutting.doc => AllCovered(cutting.chunks, d)'
          /\ \A s : CoveredBy(cutting.chunks, cutting.doc, s)
                        => CoveredBy(cutting'.chunks, cutting.doc, s)
          /\ \A s : Within(s, piece) /\ Stripped(Document, piece) # 0 =>
                CoveredBy(cutting'.chunks, cutting.doc, s)
        <3>1. CASE Stripped(Document, piece) = 0 /\ cutting'.chunks = cutting.chunks
            <4>1. \A d \in 1..Len(corpus) : d < cutting.doc => AllCovered(cutting.chunks, d)'
                BY <1>1, <3>1, CoversStay DEF Behind
            <4> QED
                BY <3>1, <4>1
        <3>2. CASE cutting'.own = cutting.own + 1 /\ cutting'.chunks = Append(cutting.chunks, c)
            BY <1>1, <1>3, <1>6, <1>8, <3>2, ChunkIsMore DEF c, Behind
        <3> QED
            BY <1>7, <3>1, <3>2
    <2>4. ASSUME NEW s \in Stretches(Document), Within(s, Block),
                 s.from < cutting.window + Step \/ ReachesEnd
          PROVE  CoveredBy(cutting'.chunks, cutting.doc, s)
        <3>1. s.from \in Int
            BY <1>1, StretchIsShort DEF Document
        <3>2. CASE s.from < cutting.window
            BY <1>1, <2>3, <2>4, <3>2 DEF Behind
        <3>3. CASE cutting.window <= s.from
            BY <2>2, <2>3, <2>4, <3>3
        <3> QED
            BY <1>2, <3>1, <3>2, <3>3
    <2>5. \A s \in Stretches(Document) :
              \E m \in 1..Len(cutting.merged) : Within(s, cutting.merged[m])
        BY <1>1 DEF Behind
    <2>6. ASSUME NEW s \in Stretches(Document), NEW m \in 1..Len(cutting.merged),
                 m < cutting'.next, Within(s, cutting.merged[m])
          PROVE  CoveredBy(cutting'.chunks, cutting.doc, s)
        <3>1. CASE m = cutting.next
            <4>1. ReachesEnd
                BY <1>2, <1>6, <2>6, <3>1
            <4> QED
                BY <2>4, <2>6, <3>1, <4>1 DEF Block
        <3>2. CASE m < cutting.next
            BY <1>1, <2>3, <2>6, <3>2 DEF Behind
        <3> QED
            BY <1>2, <1>6, <2>6, <3>1, <3>2
    <2>7. CASE ReachesEnd
        BY <1>1, <1>6, <2>1, <2>3, <2>5, <2>6, <2>7 DEF Behind
    <2>8. CASE ~ReachesEnd
        <3>1. Block' = Block /\ cutting.next <= Len(cutting.merged)
              /\ cutting'.pc = "windows" /\ cutting'.next = cutting.next
            BY <1>1, <1>6, <2>8 DEF Block
        <3> QED
            BY <1>1, <1>6, <2>1, <2>3, <2>4, <2>5, <2>6, <3>1 DEF Behind
    <2> QED
        BY <2>7, <2>8
<1> QED
    BY <1>9, <1>10, <1>11, <1>12 DEF ChunkingInv

LEMMA DocumentDoneIsWhole == ChunkingInv /\ DocumentDone => ChunkingInv'
<1> SUFFICES ASSUME ChunkingInv, DocumentDone PROVE ChunkingInv'
    OBVIOUS
<1>1. /\ corpus' = corpus /\ setting' = setting /\ cutting.pc = "block"
      /\ cutting.doc \in 1..Len(corpus) /\ cutting \in Cuttings
      /\ cutting.next > Len(cutting.merged) /\ cutting.next \in Nat /\ cutting.doc \in Nat \ {0}
      /\ Len(cutting.merged) \in Nat
    BY DEF ChunkingInv, CuttingType, Cuttings, DocumentDone
<1>2. /\ cutting'.doc = cutting.doc + 1 /\ cutting'.pc = "document"
      /\ cutting'.chunks = cutting.chunks
    BY <1>1 DEF DocumentDone, Cuttings
<1>3. CuttingType'
    <2> DEFINE done == [cutting EXCEPT !.pc = "document"]
    <2>1. done \in Cuttings
        BY <1>1 DEF Cuttings
    <2>2. [done EXCEPT !.doc = cutting.doc + 1] \in Cuttings
        <3>1. cutting.doc + 1 \in Nat \ {0}
            BY <1>1
        <3> HIDE DEF done
        <3> QED
            BY <2>1, <3>1 DEF Cuttings
    <2>3. cutting' = [done EXCEPT !.doc = cutting.doc + 1]
        BY DEF DocumentDone
    <2> QED
        BY <1>1, <1>2, <2>2, <2>3, StretchesStay DEF ChunkingInv, CuttingType
<1>4. AreNumbered'
    <2>1. Numbered(cutting.chunks, cutting.doc, cutting.own)
        BY <1>1 DEF ChunkingInv, AreNumbered
    <2>2. ASSUME NEW k \in 1..Len(cutting.chunks)
          PROVE  /\ cutting.chunks[k].doc <= cutting.doc + 1
                 /\ cutting.chunks[k].doc # cutting.doc + 1
        <3>1. cutting.chunks[k].doc <= cutting.doc /\ cutting.chunks[k].doc \in 1..Len(corpus)
            BY <2>1 DEF Numbered
        <3> QED
            BY <1>1, <3>1
    <2>3. Numbered(cutting.chunks, cutting.doc, 0)'
        BY <1>1, <1>2, <2>1, <2>2 DEF Numbered
    <2> QED
        BY <1>2, <2>3 DEF AreNumbered
<1>5. BlocksAreJoined'
    BY <1>2 DEF BlocksAreJoined
<1>6. ASSUME Step' > 0 PROVE Behind'
    <2>1. Step > 0 /\ Behind
        BY <1>1, <1>6, StretchesStay DEF ChunkingInv
    <2>2. AllCovered(cutting.chunks, cutting.doc)
        <3>1. ASSUME NEW piece \in Stretches(Document)
              PROVE  CoveredBy(cutting.chunks, cutting.doc, piece)
            <4>1. PICK m \in 1..Len(cutting.merged) : Within(piece, cutting.merged[m])
                BY <1>1, <2>1 DEF Behind
            <4>2. m < cutting.next
                BY <1>1
            <4> QED
                BY <1>1, <2>1, <4>1, <4>2 DEF Behind
        <3> QED
            BY <3>1 DEF AllCovered, Document
    <2>3. ASSUME NEW d \in 1..Len(corpus), d < cutting.doc + 1
          PROVE  AllCovered(cutting.chunks, d)'
        <3>1. AllCovered(cutting.chunks, d)
            <4>1. CASE d < cutting.doc
                BY <2>1, <4>1 DEF Behind
            <4>2. CASE d = cutting.doc
                BY <2>2, <4>2
            <4> QED
                BY <1>1, <2>3, <4>1, <4>2
        <3>2. Stretches(corpus[d])' = Stretches(corpus[d])
            BY <1>1, StretchesStay
        <3> QED
            BY <1>2, <3>1, <3>2 DEF AllCovered
    <2> QED
        BY <1>1, <1>2, <2>3 DEF Behind
<1> QED
    BY <1>3, <1>4, <1>5, <1>6 DEF ChunkingInv

LEMMA ChunkingRestsWhole == ChunkingInv /\ UNCHANGED chunkingVars => ChunkingInv'
<1> SUFFICES ASSUME ChunkingInv, UNCHANGED chunkingVars PROVE ChunkingInv'
    OBVIOUS
<1>1. corpus' = corpus /\ setting' = setting /\ cutting' = cutting
    BY DEF chunkingVars
<1>2. CuttingType'
    BY <1>1, StretchesStay DEF ChunkingInv, CuttingType
<1>3. AreNumbered'
    BY <1>1, StaysNumbered DEF ChunkingInv
<1>4. BlocksAreJoined'
    BY <1>1 DEF ChunkingInv, BlocksAreJoined, Document
<1>5. ASSUME Step' > 0 PROVE Behind'
    <2>1. Step > 0 /\ Behind
        BY <1>1, <1>5, StretchesStay DEF ChunkingInv
    <2>2. \A d \in 1..Len(corpus) : d < cutting.doc => AllCovered(cutting.chunks, d)'
        BY <1>1, <2>1, CoversStay DEF Behind
    <2>3. Stretches(Document)' = Stretches(Document) /\ Block' = Block
        BY <1>1, StretchesStay DEF Document, Block
    <2> QED
        BY <1>1, <2>1, <2>2, <2>3 DEF Behind
<1> QED
    BY <1>2, <1>3, <1>4, <1>5 DEF ChunkingInv

LEMMA ChunkingAlways == ChunkingSpec => []ChunkingInv
<1>1. ChunkingInv /\ [ChunkingNext]_chunkingVars => ChunkingInv'
    BY RefusesIsWhole, BeginsDocumentIsWhole, CoalescesIsWhole, CoalescedIsWhole,
       TakesBlockIsWhole, WindowsBlockIsWhole, NoWindowsIsWhole, CutsWindowIsWhole,
       DocumentDoneIsWhole, ChunkingRestsWhole DEF ChunkingNext
<1> QED
    BY InitIsWhole, <1>1, PTL DEF ChunkingSpec

(***************************************************************************)
(* chunk_documents: "so nothing falls between two chunks".  Whatever is no *)
(* longer than the overlap and not blank is whole in a chunk of its own    *)
(* document, with either strategy and however blocks were joined; chunks   *)
(* are numbered by their rows, and where no two files share a slug no two  *)
(* share an id.                                                            *)
(***************************************************************************)
THEOREM TheChunksAreTheText == ChunkingSpec => []ChunksAreTheText
<1>1. ChunkingInv => StretchesAreWhole
    <2> SUFFICES ASSUME ChunkingInv, cutting.pc = "cut", Step > 0,
                        NEW d \in 1..Len(corpus), NEW piece \in Stretches(corpus[d])
                 PROVE  CoveredBy(cutting.chunks, d, piece)
        BY DEF StretchesAreWhole, CoveredBy, Within
    <2>1. Behind /\ cutting.doc \in Nat /\ Len(corpus) \in Nat
        BY ArgumentsAreRight DEF ChunkingInv, CuttingType, Cuttings
    <2>2. d < cutting.doc
        BY <2>1 DEF Behind
    <2> QED
        BY <2>1, <2>2 DEF Behind, AllCovered
<1>2. ChunkingInv => PositionsAreRows
    <2> SUFFICES ASSUME ChunkingInv, NEW k \in 1..Len(cutting.chunks)
                 PROVE  /\ cutting.chunks[k].position = k - 1
                        /\ \A j \in 1..(k - 1) :
                             SlugsAreApart => cutting.chunks[j].id # cutting.chunks[k].id
        BY DEF PositionsAreRows
    <2>1. PICK n \in Nat : Numbered(cutting.chunks, cutting.doc, n)
        BY DEF ChunkingInv, AreNumbered
    <2>2. ASSUME NEW j \in 1..(k - 1), SlugsAreApart,
                 cutting.chunks[j].id = cutting.chunks[k].id
          PROVE  FALSE
        <3>1. j \in 1..Len(cutting.chunks)
            BY DEF ChunkingInv, CuttingType, Cuttings
        <3>2. cutting.chunks[j].doc = cutting.chunks[k].doc
            <4>1. /\ cutting.chunks[j].doc \in 1..Len(corpus)
                  /\ cutting.chunks[k].doc \in 1..Len(corpus)
                  /\ cutting.chunks[j].id[1] = FileSlug(corpus[cutting.chunks[j].doc].file)
                  /\ cutting.chunks[k].id[1] = FileSlug(corpus[cutting.chunks[k].doc].file)
                BY <2>1, <3>1 DEF Numbered
            <4> QED
                BY <2>2, <4>1 DEF SlugsAreApart
        <3> QED
            BY <2>1, <2>2, <3>2 DEF Numbered
    <2> QED
        BY <2>1, <2>2 DEF Numbered
<1> QED
    BY ChunkingAlways, <1>1, <1>2, PTL DEF ChunksAreTheText

-----------------------------------------------------------------------------
(***************************************************************************)
(* search_text: what was looked into is in the answer, or counted; and the *)
(* search has stopped short only with its page full and a line left over.  *)
(***************************************************************************)
Apart(seq) == \A i, j \in 1..Len(seq) : seq[i] = seq[j] => i = j

Asked == {f \in DOMAIN project : f \in search.wanted /\ ~project[f].hidden}
SeenFiles == Asked \ Range(search.scope)
LinesOf(f) == {<<f, n>> : n \in project[f].lines}
Accounted == search.searched + search.skipped["binary"]
             + search.skipped["too_large"] + search.skipped["secret"]

SearchFields == {"pc", "git", "wanted", "scope", "searched", "skipped",
                 "matches", "matched", "truncated", "total"}

SearchType ==
    /\ project \in Projects /\ vanished \subseteq DOMAIN project
    /\ DOMAIN search = SearchFields /\ search.wanted \subseteq DOMAIN project
    /\ search.pc \in {"none", "found", "searching", "ended"}
    /\ search.pc = "none" => search = NoSearch /\ vanished = {}

\* The files still to be looked into, and what was found in the others.
ScopeIsLeft ==
    /\ search.scope \in Seq(Asked) /\ Apart(search.scope)
    /\ search.pc = "ended" => search.scope = <<>>

MatchesAreFound ==
    /\ search.matches \in Seq(AllMatches) /\ Apart(search.matches)
    /\ Len(search.matches) <= MAX_RESULTS
    /\ \A i \in 1..Len(search.matches) : search.matches[i][1] \in SeenFiles

NothingLeftOut ==
    /\ search.truncated \in BOOLEAN
    /\ ~search.truncated =>
         \A f \in (MayMatch \cap SeenFiles) \ vanished : LinesOf(f) \subseteq ShownLines
    /\ search.truncated =>
         /\ search.scope = <<>> /\ Len(search.matches) = MAX_RESULTS
         /\ \E line \in AllMatches : line \notin ShownLines

EveryFileCounts ==
    /\ search.searched \in Nat /\ search.skipped \in [Reasons -> Nat]
    /\ ~search.truncated =>
         /\ Cardinality(SeenFiles \ vanished) <= Accounted
         /\ Accounted <= Cardinality(SeenFiles)

Found == ScopeIsLeft /\ MatchesAreFound /\ NothingLeftOut /\ EveryFileCounts

SearchInv ==
    SearchType /\ (search.git /\ search.pc \in {"searching", "ended"} => Found)

\* Numbers set in order are all there, each once.
LEMMA InOrderIsAll ==
    ASSUME NEW S, S \subseteq Int, IsFiniteSet(S)
    PROVE  /\ InOrder(S) \in Seq(S) /\ Len(InOrder(S)) = Cardinality(S)
           /\ Apart(InOrder(S)) /\ Range(InOrder(S)) = S
<1>1. Cardinality(S) \in Nat
    BY FS_CardinalityType
<1>2. InOrder(S) = [i \in 1..Cardinality(S) |-> NthOf(S, i)]
    BY DEF InOrder, NthOf, UpTo
<1>3. \A i \in 1..Cardinality(S) : NthOf(S, i) \in S
    BY NthIsThere
<1>4. InOrder(S) \in Seq(S) /\ Len(InOrder(S)) = Cardinality(S)
    BY <1>1, <1>2, <1>3
<1>5. Apart(InOrder(S))
    <2>1. ASSUME NEW i \in 1..Cardinality(S), NEW j \in 1..Cardinality(S), NthOf(S, i) = NthOf(S, j)
          PROVE  i = j
        BY <2>1, NthIsThere
    <2>2. \A i \in 1..Cardinality(S) : InOrder(S)[i] = NthOf(S, i)
        BY <1>2
    <2>3. \A i, j \in 1..Cardinality(S) : InOrder(S)[i] = InOrder(S)[j] => i = j
        BY <2>1, <2>2
    <2> QED
        BY <1>4, <2>3 DEF Apart
<1>6. ASSUME NEW b \in S PROVE b \in Range(InOrder(S))
    <2>1. Cardinality(UpTo(S, b)) \in 1..Cardinality(S)
        BY HigherHasMore
    <2> DEFINE k == Cardinality(UpTo(S, b))
    <2>2. NthOf(S, k) \in S /\ Cardinality(UpTo(S, NthOf(S, k))) = k
        BY <2>1, NthIsThere
    <2>3. NthOf(S, k) = b
        BY <2>2, HigherHasMore
    <2>4. InOrder(S)[k] = b /\ k \in DOMAIN InOrder(S)
        BY <1>2, <2>1, <2>3
    <2> HIDE DEF k
    <2> QED
        BY <2>4 DEF Range
<1>7. Range(InOrder(S)) \subseteq S
    BY <1>2, <1>3 DEF Range
<1> QED
    BY <1>4, <1>5, <1>6, <1>7

\* What is left of such a sequence is without its first, and only that.
LEMMA TailIsApart ==
    ASSUME NEW S, NEW s \in Seq(S), s # <<>>, Apart(s)
    PROVE  /\ Head(s) \in S /\ Tail(s) \in Seq(S) /\ Apart(Tail(s))
           /\ Head(s) \notin Range(Tail(s))
           /\ Range(s) = Range(Tail(s)) \cup {Head(s)}
<1>1. /\ Head(s) \in S /\ Tail(s) \in Seq(S) /\ Len(Tail(s)) = Len(s) - 1
      /\ \A i \in 1..Len(Tail(s)) : Tail(s)[i] = s[i + 1]
      /\ Head(s) = s[1] /\ Len(s) \in Nat \ {0}
      /\ DOMAIN s = 1..Len(s) /\ DOMAIN Tail(s) = 1..Len(Tail(s))
    BY HeadTailProperties, EmptySeq
<1>2. Apart(Tail(s))
    <2>1. ASSUME NEW i \in 1..Len(Tail(s)), NEW j \in 1..Len(Tail(s)), Tail(s)[i] = Tail(s)[j]
          PROVE  i = j
        <3>1. i + 1 \in 1..Len(s) /\ j + 1 \in 1..Len(s) /\ s[i + 1] = s[j + 1]
            BY <1>1, <2>1
        <3>2. i + 1 = j + 1
            BY <3>1 DEF Apart
        <3> QED
            BY <3>2
    <2> QED
        BY <2>1 DEF Apart
<1>3. ASSUME NEW i \in 1..Len(Tail(s)) PROVE Tail(s)[i] # Head(s) /\ Tail(s)[i] \in Range(s)
    <2>1. i + 1 \in 1..Len(s) /\ 1 \in 1..Len(s) /\ i + 1 # 1 /\ Tail(s)[i] = s[i + 1]
        BY <1>1
    <2>2. s[i + 1] # s[1]
        BY <2>1 DEF Apart
    <2> QED
        BY <1>1, <2>1, <2>2 DEF Range
<1>4. ASSUME NEW i \in 1..Len(s) PROVE s[i] = Head(s) \/ s[i] \in Range(Tail(s))
    <2>1. CASE i = 1
        BY <1>1, <2>1
    <2>2. CASE i # 1
        <3>1. i - 1 \in 1..Len(Tail(s)) /\ Tail(s)[i - 1] = s[i]
            BY <1>1, <2>2
        <3> QED
            BY <1>1, <3>1 DEF Range
    <2> QED
        BY <2>1, <2>2
<1>5. Head(s) \in Range(s)
    BY <1>1 DEF Range
<1> QED
    BY <1>1, <1>2, <1>3, <1>4, <1>5 DEF Range

-----------------------------------------------------------------------------
LEMMA FilesAreFinite ==
    ASSUME SearchType
    PROVE  /\ DOMAIN project \subseteq Int /\ IsFiniteSet(DOMAIN project)
           /\ IsFiniteSet(Asked) /\ IsFiniteSet(SeenFiles)
           /\ \A f \in DOMAIN project : /\ project[f].kind \in Reasons \cup {"text"}
                                        /\ project[f].lines \subseteq Nat
                                        /\ IsFiniteSet(project[f].lines)
<1>1. project \in Seq({project[f] : f \in DOMAIN project})
    BY SearchAssumption DEF SearchType
<1>2. Len(project) \in Nat /\ DOMAIN project = 1..Len(project)
    BY <1>1
<1>3. IsFiniteSet(DOMAIN project)
    BY <1>2, FS_Interval
<1>4. IsFiniteSet(Asked) /\ IsFiniteSet(SeenFiles)
    BY <1>3, FS_Subset DEF Asked, SeenFiles
<1>5. \A f \in DOMAIN project : /\ project[f].kind \in Reasons \cup {"text"}
                                  /\ project[f].lines \subseteq Nat
                                  /\ IsFiniteSet(project[f].lines)
    <2>1. project \in Projects
        BY DEF SearchType
    <2> QED
        BY <2>1, SearchAssumption, Zenon
<1>6. DOMAIN project \subseteq Int
    BY <1>2
<1> QED
    BY <1>3, <1>4, <1>5, <1>6

LEMMA SearchInitIsTold == SearchInit => SearchInv
    BY DEF SearchInit, SearchInv, SearchType, NoSearch, SearchFields

\* The files a search was asked for are those the index lists that match.
LEMMA BeginsIsTold == SearchInv /\ BeginsSearch => SearchInv'
<1> SUFFICES ASSUME SearchInv, BeginsSearch PROVE SearchInv'
    OBVIOUS
<1>1. SearchType /\ search = NoSearch /\ vanished = {}
    BY DEF SearchInv, SearchType, BeginsSearch
<1>2. PICK git \in BOOLEAN, wanted \in SUBSET DOMAIN project :
        Becoming([search EXCEPT !.pc = "searching", !.git = git, !.wanted = wanted,
                                !.scope = Scoped(git, wanted)])
    BY DEF BeginsSearch
<1>3. /\ DOMAIN search' = SearchFields /\ search'.pc = "searching" /\ search'.git = git
      /\ search'.wanted = wanted /\ search'.scope = Scoped(git, wanted)
      /\ search'.searched = 0 /\ search'.skipped = [why \in Reasons |-> 0]
      /\ search'.matches = <<>> /\ search'.truncated = FALSE
      /\ project' = project /\ vanished' = {}
    BY <1>1, <1>2 DEF Becoming, NoSearch, SearchFields
<1>4. SearchType'
    BY <1>1, <1>3 DEF SearchType
<1>5. ASSUME git PROVE Found'
    <2>1. Scoped(git, wanted) = InOrder(Asked')
        <3>1. FilesListed(git) \cap wanted = Asked'
            BY <1>1, <1>3, <1>5 DEF FilesListed, Visible, Asked
        <3> QED
            BY <3>1 DEF Scoped
    <2>2. Asked' \subseteq Int /\ IsFiniteSet(Asked')
        <3>1. Asked' \subseteq DOMAIN project
            BY <1>3 DEF Asked
        <3> QED
            BY <1>1, <3>1, FilesAreFinite, FS_Subset
    <2>3. /\ search'.scope \in Seq(Asked') /\ Apart(search'.scope)
          /\ Range(search'.scope) = Asked'
        BY <1>3, <2>1, <2>2, InOrderIsAll
    <2>4. SeenFiles' = {}
        BY <2>3 DEF SeenFiles
    <2>5. ScopeIsLeft'
        BY <1>3, <2>3 DEF ScopeIsLeft
    <2>6. MatchesAreFound'
        BY <1>3, SearchAssumption DEF MatchesAreFound, Apart
    <2>7. NothingLeftOut'
        BY <1>3, <2>4 DEF NothingLeftOut
    <2>8. EveryFileCounts'
        <3>1. Accounted' = 0
            BY <1>3 DEF Accounted, Reasons
        <3>2. SeenFiles' \ vanished' = {} /\ Cardinality({}) = 0
            BY <2>4, FS_EmptySet
        <3> QED
            BY <1>3, <2>4, <3>1, <3>2 DEF EveryFileCounts, Reasons
    <2> QED
        BY <2>5, <2>6, <2>7, <2>8 DEF Found
<1> QED
    BY <1>3, <1>4, <1>5 DEF SearchInv

\* The file looked at next is one more that was seen.
LEMMA OneMoreIsSeen ==
    ASSUME SearchType, ScopeIsLeft, search.scope # <<>>,
           search'.scope = Tail(search.scope), search'.wanted = search.wanted,
           search'.pc = "searching", project' = project
    PROVE  /\ Upcoming \in Asked /\ Upcoming \notin SeenFiles
           /\ Asked' = Asked /\ SeenFiles' = SeenFiles \cup {Upcoming}
           /\ MayMatch' = MayMatch /\ AllMatches' = AllMatches
           /\ ScopeIsLeft'
<1>1. /\ Asked' = Asked /\ MayMatch' = MayMatch
    BY DEF Asked, MayMatch
<1>2. AllMatches' = AllMatches
    BY <1>1 DEF AllMatches
<1>3. /\ Upcoming \in Asked
      /\ search'.scope \in Seq(Asked) /\ Apart(search'.scope)
      /\ Upcoming \notin Range(search'.scope)
      /\ Range(search.scope) = Range(search'.scope) \cup {Upcoming}
    BY TailIsApart DEF ScopeIsLeft, Upcoming
<1>4. ScopeIsLeft'
    BY <1>1, <1>3 DEF ScopeIsLeft
<1>5. Upcoming \notin SeenFiles /\ SeenFiles' = SeenFiles \cup {Upcoming}
    BY <1>1, <1>3 DEF SeenFiles
<1> QED
    BY <1>1, <1>2, <1>3, <1>4, <1>5

\* One more seen is one more counted, and one that went away may not be.
LEMMA OneMoreCounts ==
    ASSUME SearchType, EveryFileCounts, ~search.truncated,
           NEW f, f \notin SeenFiles, SeenFiles' = SeenFiles \cup {f}, vanished' = vanished,
           Accounted' = IF f \in vanished THEN Accounted ELSE Accounted + 1
    PROVE  /\ Cardinality(SeenFiles' \ vanished') <= Accounted'
           /\ Accounted' <= Cardinality(SeenFiles')
<1> DEFINE there == SeenFiles \ vanished
<1>1. IsFiniteSet(SeenFiles) /\ IsFiniteSet(there)
    BY FilesAreFinite, FS_Difference
<1>2. Cardinality(SeenFiles) \in Nat /\ Cardinality(there) \in Nat
    BY <1>1, FS_CardinalityType
<1>3. Cardinality(SeenFiles \cup {f}) = Cardinality(SeenFiles) + 1
    BY <1>1, FS_AddElement
<1>4. f \notin vanished => /\ SeenFiles' \ vanished' = there \cup {f}
                           /\ Cardinality(there \cup {f}) = Cardinality(there) + 1
    BY <1>1, FS_AddElement
<1>5. f \in vanished => SeenFiles' \ vanished' = there
    OBVIOUS
<1>6. Accounted \in Int /\ Cardinality(there) <= Accounted /\ Accounted <= Cardinality(SeenFiles)
    BY DEF EveryFileCounts, Accounted, Reasons
<1>7. Cardinality(SeenFiles \cup {f}) = Cardinality(SeenFiles')
    OBVIOUS
<1> HIDE DEF there
<1>8. CASE f \in vanished
    BY <1>2, <1>3, <1>5, <1>6, <1>7, <1>8
<1>9. CASE f \notin vanished
    BY <1>2, <1>3, <1>4, <1>6, <1>7, <1>9
<1> QED
    BY <1>8, <1>9

\* A file that is not text is counted, and one that is not there is passed over.
LEMMA SkipsIsTold == SearchInv /\ SkipsFile => SearchInv'
<1> SUFFICES ASSUME SearchInv, SkipsFile PROVE SearchInv'
    OBVIOUS
<1> DEFINE f == Upcoming
           skipped == IF f \in vanished THEN search.skipped
                      ELSE OneMore(search.skipped, project[f].kind)
<1>1. /\ SearchType /\ search.pc = "searching" /\ search.scope # <<>>
      /\ search' = [search EXCEPT !.scope = Tail(@), !.skipped = skipped]
      /\ project' = project /\ vanished' = vanished
      /\ f \in vanished \/ project[f].kind # "text"
    BY DEF SearchInv, SkipsFile, Searching, Becoming
<1>2. /\ DOMAIN search' = SearchFields /\ search'.pc = "searching" /\ search'.git = search.git
      /\ search'.wanted = search.wanted /\ search'.scope = Tail(search.scope)
      /\ search'.searched = search.searched /\ search'.skipped = skipped
      /\ search'.matches = search.matches /\ search'.truncated = search.truncated
    <2> HIDE DEF skipped
    <2> QED
        BY <1>1 DEF SearchType, SearchFields
<1>3. SearchType'
    BY <1>1, <1>2 DEF SearchType
<1>4. ASSUME search.git PROVE Found'
    <2>1. /\ ScopeIsLeft /\ MatchesAreFound /\ NothingLeftOut /\ EveryFileCounts
        BY <1>1, <1>4 DEF SearchInv, Found
    <2>2. /\ f \in Asked /\ f \notin SeenFiles
          /\ Asked' = Asked /\ SeenFiles' = SeenFiles \cup {f}
          /\ MayMatch' = MayMatch /\ AllMatches' = AllMatches
          /\ ScopeIsLeft'
        BY <1>1, <1>2, <2>1, OneMoreIsSeen
    <2>3. ~search.truncated
        BY <1>1, <2>1 DEF NothingLeftOut
    <2>4. MatchesAreFound'
        BY <1>2, <2>1, <2>2 DEF MatchesAreFound
    <2>5. NothingLeftOut'
        <3>1. (MayMatch' \cap SeenFiles') \ vanished' = (MayMatch \cap SeenFiles) \ vanished
            BY <1>1, <2>2 DEF MayMatch
        <3>2. ShownLines' = ShownLines /\ \A g : LinesOf(g)' = LinesOf(g)
            BY <1>1, <1>2 DEF ShownLines, LinesOf
        <3> QED
            BY <1>2, <2>1, <2>3, <3>1, <3>2 DEF NothingLeftOut
    <2>6. EveryFileCounts'
        <3>1. f \notin vanished => project[f].kind \in Reasons
            BY <1>1, <2>2, FilesAreFinite DEF Asked
        <3>2. search.skipped \in [Reasons -> Nat] /\ search.searched \in Nat
            BY <2>1 DEF EveryFileCounts
        <3>3. skipped \in [Reasons -> Nat]
            BY <3>1, <3>2 DEF OneMore
        <3>4. Accounted' = IF f \in vanished THEN Accounted ELSE Accounted + 1
            <4>1. CASE f \in vanished
                BY <1>2, <4>1 DEF Accounted
            <4>2. CASE f \notin vanished
                BY <1>2, <3>1, <3>2, <4>2 DEF Accounted, Reasons, OneMore
            <4> QED
                BY <4>1, <4>2
        <3>5. /\ Cardinality(SeenFiles' \ vanished') <= Accounted'
              /\ Accounted' <= Cardinality(SeenFiles')
            BY <1>1, <2>1, <2>2, <2>3, <3>4, OneMoreCounts
        <3> QED
            BY <1>2, <3>2, <3>3, <3>5 DEF EveryFileCounts
    <2> QED
        BY <2>2, <2>4, <2>5, <2>6 DEF Found
<1> QED
    BY <1>2, <1>3, <1>4 DEF SearchInv

\* The lines of a file that hold the text, each once.
LEMMA HitsAreLines ==
    ASSUME SearchType, Upcoming \in MayMatch
    PROVE  /\ Hits \in Seq(LinesOf(Upcoming)) /\ Apart(Hits)
           /\ Range(Hits) = LinesOf(Upcoming) /\ LinesOf(Upcoming) \subseteq AllMatches
           /\ \A i \in 1..Len(Hits) : Hits[i][1] = Upcoming
<1> DEFINE lines == project[Upcoming].lines
           order == InOrder(lines)
<1>1. Upcoming \in DOMAIN project
    BY DEF MayMatch
<1>2. lines \subseteq Int /\ IsFiniteSet(lines)
    BY <1>1, FilesAreFinite
<1>3. /\ order \in Seq(lines) /\ Len(order) = Cardinality(lines)
      /\ Apart(order) /\ Range(order) = lines
    BY <1>2, InOrderIsAll
<1>4. Cardinality(lines) \in Nat /\ DOMAIN order = 1..Cardinality(lines)
    BY <1>2, <1>3, FS_CardinalityType
<1>5. Hits = [i \in 1..Cardinality(lines) |-> <<Upcoming, order[i]>>]
    BY DEF Hits
<1> HIDE DEF order
<1>6. \A i \in 1..Cardinality(lines) : Hits[i] = <<Upcoming, order[i]>> /\ order[i] \in lines
    BY <1>3, <1>4, <1>5
<1>7. LinesOf(Upcoming) = {<<Upcoming, n>> : n \in lines}
    BY DEF LinesOf
<1> HIDE DEF lines
<1>8. Hits \in Seq(LinesOf(Upcoming)) /\ Len(Hits) = Cardinality(lines)
    BY <1>4, <1>5, <1>6, <1>7
<1>9. Apart(Hits)
    <2>1. ASSUME NEW i \in 1..Cardinality(lines), NEW j \in 1..Cardinality(lines), Hits[i] = Hits[j]
          PROVE  i = j
        <3>1. order[i] = order[j]
            BY <1>6, <2>1
        <3> QED
            BY <1>3, <3>1 DEF Apart
    <2> QED
        BY <1>8, <2>1 DEF Apart
<1>10. Range(Hits) = LinesOf(Upcoming)
    <2>1. Range(Hits) = {<<Upcoming, order[i]>> : i \in 1..Cardinality(lines)}
        BY <1>5 DEF Range
    <2>2. lines = {order[i] : i \in 1..Cardinality(lines)}
        BY <1>3, <1>4 DEF Range
    <2> QED
        BY <1>7, <2>1, <2>2
<1>11. LinesOf(Upcoming) \subseteq AllMatches
    BY DEF AllMatches, LinesOf
<1> QED
    BY <1>6, <1>8, <1>9, <1>10, <1>11

\* What one file adds to the page, and what it leaves out when there is no room.
LEMMA PageIsFilled ==
    ASSUME SearchType, MatchesAreFound, Upcoming \in MayMatch, Upcoming \notin SeenFiles,
           NEW taken, taken = SubSeq(Hits, 1, IF TooMany THEN Room ELSE Len(Hits))
    PROVE  LET page == search.matches \o taken IN
           /\ page \in Seq(AllMatches) /\ Apart(page) /\ Len(page) <= MAX_RESULTS
           /\ Range(page) = ShownLines \cup Range(taken)
           /\ \A i \in 1..Len(page) : page[i][1] \in SeenFiles \cup {Upcoming}
           /\ ~TooMany => Range(taken) = LinesOf(Upcoming)
           /\ TooMany => /\ Len(page) = MAX_RESULTS
                         /\ \E line \in AllMatches : line \notin Range(page)
<1> DEFINE m == Len(search.matches)
           n == IF TooMany THEN Room ELSE Len(Hits)
           page == search.matches \o taken
<1>1. /\ Hits \in Seq(LinesOf(Upcoming)) /\ Apart(Hits) /\ Range(Hits) = LinesOf(Upcoming)
      /\ LinesOf(Upcoming) \subseteq AllMatches /\ \A i \in 1..Len(Hits) : Hits[i][1] = Upcoming
    BY HitsAreLines
<1>2. /\ search.matches \in Seq(AllMatches) /\ Apart(search.matches)
      /\ m \in Nat /\ m <= MAX_RESULTS /\ MAX_RESULTS \in Nat
      /\ \A i \in 1..m : search.matches[i][1] \in SeenFiles
    BY SearchAssumption, LenProperties DEF MatchesAreFound
<1>3. Room = MAX_RESULTS - m /\ Room \in Nat /\ Len(Hits) \in Nat
    BY <1>1, <1>2, LenProperties DEF Room
<1>4. n \in 0..Len(Hits) /\ m + n <= MAX_RESULTS /\ (TooMany => n = Room /\ n + 1 \in 1..Len(Hits))
    <2> DEFINE h == Len(Hits)
    <2>0. /\ TooMany <=> h > Room
          /\ h \in Nat /\ Room \in Nat /\ m \in Nat /\ Room = MAX_RESULTS - m /\ MAX_RESULTS \in Nat
        BY <1>2, <1>3 DEF TooMany
    <2> HIDE DEF m, h
    <2>1. CASE TooMany
        <3>1. n = Room
            BY <2>1
        <3> HIDE DEF n
        <3>2. n \in 0..h /\ m + n <= MAX_RESULTS /\ n + 1 \in 1..h
            BY <2>0, <2>1, <3>1
        <3> QED
            BY <3>1, <3>2 DEF h
    <2>2. CASE ~TooMany
        <3>1. n = h
            BY <2>2 DEF h
        <3> HIDE DEF n
        <3>2. n \in 0..h /\ m + n <= MAX_RESULTS
            BY <2>0, <2>2, <3>1
        <3> QED
            BY <2>2, <3>1, <3>2 DEF h
    <2> QED
        BY <2>1, <2>2
<1> HIDE DEF m, n
<1>5. /\ taken \in Seq(LinesOf(Upcoming)) /\ Len(taken) = n
      /\ \A i \in 1..n : taken[i] = Hits[i]
    <2>1. taken = SubSeq(Hits, 1, n)
        BY DEF n
    <2>2. \A i \in 1..n : Hits[i] \in LinesOf(Upcoming)
        BY <1>1, <1>3, <1>4, ElementOfSeq
    <2>3. /\ SubSeq(Hits, 1, n) \in Seq(LinesOf(Upcoming))
          /\ Len(SubSeq(Hits, 1, n)) = IF 1 <= n THEN n - 1 + 1 ELSE 0
          /\ \A i \in 1..n - 1 + 1 : SubSeq(Hits, 1, n)[i] = Hits[1 + i - 1]
        BY <1>4, <2>2, SubSeqProperties
    <2>4. n \in Nat /\ Len(SubSeq(Hits, 1, n)) = n
        BY <1>3, <1>4, <2>3
    <2>5. \A i \in 1..n : i \in 1..n - 1 + 1 /\ 1 + i - 1 = i
        BY <2>4
    <2>6. \A i \in 1..n : SubSeq(Hits, 1, n)[i] = Hits[i]
        BY <2>3, <2>5
    <2> QED
        BY <2>1, <2>3, <2>4, <2>6
<1>6. taken \in Seq(AllMatches)
    BY <1>1, <1>5, SeqMonotonic
<1>7. /\ page \in Seq(AllMatches) /\ Len(page) = m + n
      /\ \A i \in 1..m + n : page[i] = IF i <= m THEN search.matches[i] ELSE taken[i - m]
    BY <1>2, <1>5, <1>6, ConcatProperties DEF m
<1>8. \A i \in 1..m + n : /\ i <= m => i \in 1..m
                          /\ i > m => i - m \in 1..n /\ i - m \in 1..Len(Hits)
    BY <1>2, <1>3, <1>4
<1>9. /\ \A i \in 1..m : page[i] = search.matches[i] /\ page[i][1] \in SeenFiles
      /\ \A i \in 1..m + n : i > m => page[i] = Hits[i - m] /\ page[i][1] = Upcoming
    <2>1. ASSUME NEW i \in 1..m PROVE page[i] = search.matches[i] /\ page[i][1] \in SeenFiles
        <3>1. i \in 1..m + n /\ i <= m
            BY <1>2, <1>4
        <3> QED
            BY <1>2, <1>7, <3>1
    <2>2. ASSUME NEW i \in 1..m + n, i > m PROVE page[i] = Hits[i - m] /\ page[i][1] = Upcoming
        <3>1. i - m \in 1..n /\ i - m \in 1..Len(Hits) /\ ~(i <= m)
            BY <1>2, <1>8, <2>2
        <3>2. page[i] = taken[i - m]
            BY <1>7, <3>1
        <3> QED
            BY <1>1, <1>5, <3>1, <3>2
    <2> QED
        BY <2>1, <2>2
<1> HIDE DEF page
<1>10. Apart(page)
    <2>1. ASSUME NEW i \in 1..m + n, NEW j \in 1..m + n, page[i] = page[j] PROVE i = j
        <3>1. CASE i <= m /\ j <= m
            <4>1. i \in 1..m /\ j \in 1..m
                BY <1>8, <3>1
            <4>2. search.matches[i] = search.matches[j]
                BY <1>9, <2>1, <4>1
            <4> QED
                BY <1>2, <4>1, <4>2 DEF Apart, m
        <3>2. CASE i > m /\ j > m
            <4>1. i - m \in 1..Len(Hits) /\ j - m \in 1..Len(Hits)
                BY <1>8, <3>2
            <4>2. Hits[i - m] = Hits[j - m]
                BY <1>9, <2>1, <3>2
            <4>3. i - m = j - m
                BY <1>1, <4>1, <4>2 DEF Apart
            <4> QED
                BY <1>2, <4>3
        <3>3. CASE i <= m /\ j > m
            BY <1>8, <1>9, <2>1, <3>3
        <3>4. CASE i > m /\ j <= m
            BY <1>8, <1>9, <2>1, <3>4
        <3> QED
            BY <1>2, <3>1, <3>2, <3>3, <3>4
    <2> QED
        BY <1>7, <2>1 DEF Apart
<1>11. \A i \in 1..Len(page) : page[i][1] \in SeenFiles \cup {Upcoming}
    <2>1. ASSUME NEW i \in 1..m + n PROVE page[i][1] \in SeenFiles \cup {Upcoming}
        <3>1. CASE i <= m
            BY <1>8, <1>9, <3>1
        <3>2. CASE i > m
            BY <1>9, <3>2
        <3> QED
            BY <1>2, <3>1, <3>2
    <2> QED
        BY <1>7, <2>1
<1>12. Range(page) = ShownLines \cup Range(taken)
    <2>1. /\ DOMAIN page = 1..m + n /\ DOMAIN search.matches = 1..m /\ DOMAIN taken = 1..n
        BY <1>2, <1>5, <1>7 DEF m
    <2>2. ASSUME NEW i \in 1..m PROVE i \in 1..m + n /\ page[i] = search.matches[i]
        BY <1>2, <1>4, <1>9
    <2>3. ASSUME NEW i \in 1..n PROVE i + m \in 1..m + n /\ page[i + m] = taken[i]
        <3>1. i + m \in 1..m + n /\ i + m > m /\ (i + m) - m = i
            BY <1>2, <1>4
        <3>2. page[i + m] = Hits[(i + m) - m]
            BY <1>9, <3>1
        <3> QED
            BY <1>5, <3>1, <3>2
    <2>4. ASSUME NEW i \in 1..m + n PROVE page[i] \in ShownLines \cup Range(taken)
        <3>1. CASE i <= m
            BY <1>8, <1>9, <2>1, <3>1 DEF ShownLines, Range
        <3>2. CASE i > m
            <4>1. i - m \in 1..n /\ page[i] = taken[i - m]
                BY <1>5, <1>8, <1>9, <3>2
            <4> QED
                BY <2>1, <4>1 DEF Range
        <3> QED
            BY <1>2, <3>1, <3>2
    <2>5. ShownLines \subseteq Range(page)
        BY <2>1, <2>2 DEF ShownLines, Range
    <2>6. Range(taken) \subseteq Range(page)
        BY <2>1, <2>3 DEF Range
    <2>7. Range(page) \subseteq ShownLines \cup Range(taken)
        <3>1. \A x \in Range(page) : \E i \in 1..m + n : x = page[i]
            BY <2>1 DEF Range
        <3> QED
            BY <2>4, <3>1
    <2> QED
        BY <2>5, <2>6, <2>7
<1>13. ~TooMany => Range(taken) = LinesOf(Upcoming)
    <2>1. SUFFICES ASSUME ~TooMany PROVE Range(taken) = Range(Hits)
        BY <1>1
    <2>2. n = Len(Hits)
        BY <2>1 DEF n
    <2>3. DOMAIN taken = 1..n /\ DOMAIN Hits = 1..n
        BY <1>1, <1>5, <2>2
    <2> QED
        BY <1>5, <2>3 DEF Range
<1>14. TooMany => \E line \in AllMatches : line \notin Range(page)
    <2>1. SUFFICES ASSUME TooMany PROVE \E line \in AllMatches : line \notin Range(page)
        OBVIOUS
    <2>2. n + 1 \in 1..Len(Hits) /\ Hits[n + 1] \in AllMatches /\ Hits[n + 1][1] = Upcoming
        BY <1>1, <1>4, <2>1, ElementOfSeq
    <2>3. ASSUME NEW i \in 1..m + n PROVE page[i] # Hits[n + 1]
        <3>1. CASE i <= m
            BY <1>8, <1>9, <2>2, <3>1
        <3>2. CASE i > m
            <4>0. i - m \in 1..n /\ i - m \in 1..Len(Hits) /\ page[i] = Hits[i - m]
                BY <1>8, <1>9, <3>2
            <4>1. i - m \in 1..Len(Hits) /\ i - m # n + 1 /\ page[i] = Hits[i - m]
                <5>1. n \in Nat
                    BY <1>3, <1>4
                <5> QED
                    BY <4>0, <5>1
            <4> QED
                BY <1>1, <2>2, <4>1 DEF Apart
        <3> QED
            BY <1>2, <3>1, <3>2
    <2>4. DOMAIN page = 1..m + n
        BY <1>7
    <2> QED
        BY <2>2, <2>3, <2>4 DEF Range
<1>15. Len(page) <= MAX_RESULTS /\ (TooMany => Len(page) = MAX_RESULTS)
    BY <1>2, <1>3, <1>4, <1>7 DEF m
<1> QED
    BY <1>7, <1>10, <1>11, <1>12, <1>13, <1>14, <1>15 DEF page

\* A file is looked into to its end, or until there is no room.
LEMMA LooksIsTold == SearchInv /\ LooksInto => SearchInv'
<1> SUFFICES ASSUME SearchInv, LooksInto PROVE SearchInv'
    OBVIOUS
<1> DEFINE f == Upcoming
           taken == SubSeq(Hits, 1, IF TooMany THEN Room ELSE Len(Hits))
           matched == IF taken = <<>> THEN search.matched ELSE search.matched \cup {f}
           rest == IF TooMany THEN <<>> ELSE Tail(search.scope)
           page == search.matches \o taken
<1>1. /\ SearchType /\ search.pc = "searching" /\ search.scope # <<>>
      /\ search' = [search EXCEPT !.searched = @ + 1, !.matches = page, !.matched = matched,
                                  !.truncated = TooMany, !.scope = rest]
      /\ project' = project /\ vanished' = vanished
      /\ f \notin vanished /\ project[f].kind = "text"
    BY DEF SearchInv, LooksInto, Searching, Becoming
<1>2. /\ DOMAIN search' = SearchFields /\ search'.pc = "searching" /\ search'.git = search.git
      /\ search'.wanted = search.wanted /\ search'.scope = rest
      /\ search'.searched = search.searched + 1 /\ search'.skipped = search.skipped
      /\ search'.matches = page /\ search'.truncated = TooMany
    <2> HIDE DEF page, matched, rest
    <2> QED
        BY <1>1 DEF SearchType, SearchFields
<1>3. SearchType'
    BY <1>1, <1>2 DEF SearchType
<1>4. ASSUME search.git PROVE Found'
    <2>1. /\ ScopeIsLeft /\ MatchesAreFound /\ NothingLeftOut /\ EveryFileCounts
        BY <1>1, <1>4 DEF SearchInv, Found
    <2>2. ~search.truncated
        BY <1>1, <2>1 DEF NothingLeftOut
    <2>3. f \in Asked /\ f \notin SeenFiles
        <3>1. Head(search.scope) \in Asked /\ Head(search.scope) \notin SeenFiles
            BY <1>1, <2>1, TailIsApart DEF ScopeIsLeft, SeenFiles
        <3> QED
            BY <3>1 DEF Upcoming
    <2>4. f \in MayMatch
        BY <1>1, <2>3 DEF Asked, MayMatch
    <2>5. /\ page \in Seq(AllMatches) /\ Apart(page) /\ Len(page) <= MAX_RESULTS
          /\ Range(page) = ShownLines \cup Range(taken)
          /\ \A i \in 1..Len(page) : page[i][1] \in SeenFiles \cup {f}
          /\ ~TooMany => Range(taken) = LinesOf(f)
          /\ TooMany => /\ Len(page) = MAX_RESULTS
                        /\ \E line \in AllMatches : line \notin Range(page)
        BY <1>1, <2>1, <2>3, <2>4, PageIsFilled
    <2>6. /\ Asked' = Asked /\ MayMatch' = MayMatch /\ AllMatches' = AllMatches
        <3>1. Asked' = Asked /\ MayMatch' = MayMatch
            BY <1>1, <1>2 DEF Asked, MayMatch
        <3> QED
            BY <1>1, <3>1 DEF AllMatches
    <2>7. ShownLines' = Range(page)
        BY <1>2 DEF ShownLines
    <2>8. TooMany \in BOOLEAN
        BY DEF TooMany
    <2> HIDE DEF page, taken
    <2>9. CASE TooMany
        <3>1. search'.scope = <<>> /\ search'.truncated = TRUE
            BY <1>2, <2>9
        <3>2. ScopeIsLeft'
            BY <1>2, <3>1 DEF ScopeIsLeft, Apart
        <3>3. SeenFiles' = Asked
            BY <2>6, <3>1 DEF SeenFiles, Range
        <3>4. MatchesAreFound'
            <4>1. SeenFiles \cup {f} \subseteq Asked
                BY <2>3 DEF SeenFiles
            <4> QED
                BY <1>2, <2>5, <2>6, <3>3, <4>1 DEF MatchesAreFound
        <3>5. NothingLeftOut'
            BY <1>2, <2>5, <2>6, <2>7, <2>9, <3>1 DEF NothingLeftOut
        <3>6. EveryFileCounts'
            BY <1>2, <2>1, <3>1 DEF EveryFileCounts
        <3> QED
            BY <3>2, <3>4, <3>5, <3>6 DEF Found
    <2>10. CASE ~TooMany
        <3>1. search'.scope = Tail(search.scope) /\ search'.truncated = FALSE
            BY <1>2, <2>8, <2>10
        <3>2. ScopeIsLeft' /\ SeenFiles' = SeenFiles \cup {f}
            BY <1>1, <1>2, <2>1, <3>1, OneMoreIsSeen
        <3>3. MatchesAreFound'
            BY <1>2, <2>5, <2>6, <3>2 DEF MatchesAreFound
        <3>4. NothingLeftOut'
            <4>1. \A g : LinesOf(g)' = LinesOf(g)
                BY <1>1 DEF LinesOf
            <4>2. ASSUME NEW g \in (MayMatch' \cap SeenFiles') \ vanished'
                  PROVE  LinesOf(g) \subseteq ShownLines'
                <5>1. CASE g = f
                    BY <2>5, <2>7, <2>10, <5>1
                <5>2. CASE g # f
                    <6>1. g \in (MayMatch \cap SeenFiles) \ vanished
                        BY <1>1, <2>6, <3>2, <5>2
                    <6>2. LinesOf(g) \subseteq ShownLines
                        BY <2>1, <2>2, <6>1 DEF NothingLeftOut
                    <6> QED
                        BY <2>5, <2>7, <6>2
                <5> QED
                    BY <5>1, <5>2
            <4> QED
                BY <3>1, <4>1, <4>2 DEF NothingLeftOut
        <3>5. EveryFileCounts'
            <4>1. search.searched \in Nat /\ search.skipped \in [Reasons -> Nat]
                BY <2>1 DEF EveryFileCounts
            <4>2. Accounted' = IF f \in vanished THEN Accounted ELSE Accounted + 1
                BY <1>1, <1>2, <4>1 DEF Accounted, Reasons
            <4>3. /\ Cardinality(SeenFiles' \ vanished') <= Accounted'
                  /\ Accounted' <= Cardinality(SeenFiles')
                BY <1>1, <2>1, <2>2, <2>3, <3>2, <4>2, OneMoreCounts
            <4> QED
                BY <1>2, <4>1, <4>3 DEF EveryFileCounts
        <3> QED
            BY <3>2, <3>3, <3>4, <3>5 DEF Found
    <2> QED
        BY <2>9, <2>10
<1> QED
    BY <1>2, <1>3, <1>4 DEF SearchInv

LEMMA FindsIsTold == SearchInv /\ FindsFiles => SearchInv'
<1> SUFFICES ASSUME SearchInv, FindsFiles PROVE SearchInv'
    OBVIOUS
<1>1. SearchType /\ search = NoSearch
    BY DEF SearchInv, SearchType, FindsFiles
<1>2. PICK git \in BOOLEAN, wanted \in SUBSET DOMAIN project :
        LET found == Scoped(git, wanted)
            shown == IF Len(found) > MAX_LISTED THEN MAX_LISTED ELSE Len(found)
        IN  Becoming([search EXCEPT
                !.pc = "found", !.git = git, !.wanted = wanted,
                !.matches = [i \in 1..shown |-> <<found[i], 0>>],
                !.total = Len(found), !.truncated = Len(found) > MAX_LISTED])
    BY DEF FindsFiles
<1>3. /\ DOMAIN search' = SearchFields /\ search'.pc = "found" /\ search'.wanted = wanted
      /\ project' = project /\ vanished' = vanished
    BY <1>1, <1>2 DEF Becoming, NoSearch, SearchFields
<1> QED
    BY <1>1, <1>3 DEF SearchInv, SearchType

LEMMA EndsIsTold == SearchInv /\ SearchEnds => SearchInv'
<1> SUFFICES ASSUME SearchInv, SearchEnds PROVE SearchInv'
    OBVIOUS
<1>1. /\ SearchType /\ search.pc = "searching" /\ search.scope = <<>>
      /\ search' = [search EXCEPT !.pc = "ended"]
      /\ project' = project /\ vanished' = vanished
    BY DEF SearchInv, SearchEnds, Becoming
<1>2. /\ DOMAIN search' = SearchFields /\ search'.pc = "ended" /\ search'.git = search.git
      /\ search'.wanted = search.wanted /\ search'.scope = search.scope
      /\ search'.searched = search.searched /\ search'.skipped = search.skipped
      /\ search'.matches = search.matches /\ search'.truncated = search.truncated
    BY <1>1 DEF SearchType, SearchFields
<1>3. SearchType'
    BY <1>1, <1>2 DEF SearchType
<1>4. /\ Asked' = Asked /\ SeenFiles' = SeenFiles /\ MayMatch' = MayMatch
      /\ ShownLines' = ShownLines /\ Accounted' = Accounted /\ \A f : LinesOf(f)' = LinesOf(f)
    BY <1>1, <1>2 DEF Asked, SeenFiles, MayMatch, ShownLines, Accounted, LinesOf
<1>5. AllMatches' = AllMatches
    BY <1>1, <1>4 DEF AllMatches
<1>6. ASSUME search.git PROVE Found'
    <2>1. Found
        BY <1>1, <1>6 DEF SearchInv
    <2>2. ScopeIsLeft'
        BY <1>1, <1>2, <1>4, <2>1 DEF Found, ScopeIsLeft
    <2>3. MatchesAreFound'
        BY <1>2, <1>4, <1>5, <2>1 DEF Found, MatchesAreFound
    <2>4. NothingLeftOut'
        BY <1>1, <1>2, <1>4, <1>5, <2>1 DEF Found, NothingLeftOut
    <2>5. EveryFileCounts'
        BY <1>1, <1>2, <1>4, <2>1 DEF Found, EveryFileCounts
    <2> QED
        BY <2>2, <2>3, <2>4, <2>5 DEF Found
<1> QED
    BY <1>2, <1>3, <1>6 DEF SearchInv

\* A file that goes away takes nothing from the answer.
LEMMA VanishesIsTold ==
    ASSUME NEW f \in DOMAIN project
    PROVE  SearchInv /\ Vanishes(f) => SearchInv'
<1> SUFFICES ASSUME SearchInv, Vanishes(f) PROVE SearchInv'
    OBVIOUS
<1>1. /\ SearchType /\ search.pc = "searching" /\ vanished = {} /\ vanished' = {f}
      /\ search' = search /\ project' = project
    BY DEF SearchInv, Vanishes
<1>2. SearchType'
    BY <1>1 DEF SearchType
<1>3. /\ Asked' = Asked /\ SeenFiles' = SeenFiles /\ MayMatch' = MayMatch
      /\ ShownLines' = ShownLines /\ Accounted' = Accounted /\ \A g : LinesOf(g)' = LinesOf(g)
    BY <1>1 DEF Asked, SeenFiles, MayMatch, ShownLines, Accounted, LinesOf
<1>4. AllMatches' = AllMatches
    BY <1>1, <1>3 DEF AllMatches
<1>5. ASSUME search.git PROVE Found'
    <2>1. Found
        BY <1>1, <1>5 DEF SearchInv
    <2>2. ScopeIsLeft'
        BY <1>1, <1>3, <2>1 DEF Found, ScopeIsLeft
    <2>3. MatchesAreFound'
        BY <1>1, <1>3, <1>4, <2>1 DEF Found, MatchesAreFound
    <2>4. NothingLeftOut'
        BY <1>1, <1>3, <1>4, <2>1 DEF Found, NothingLeftOut
    <2>5. EveryFileCounts'
        <3>1. IsFiniteSet(SeenFiles) /\ SeenFiles \ vanished = SeenFiles
            BY <1>1, FilesAreFinite
        <3>2. /\ Cardinality(SeenFiles) \in Nat /\ Cardinality(SeenFiles \ {f}) \in Nat
              /\ Cardinality(SeenFiles \ {f}) <= Cardinality(SeenFiles)
            BY <3>1, FS_Subset, FS_CardinalityType
        <3>3. /\ search.searched \in Nat /\ search.skipped \in [Reasons -> Nat]
              /\ ~search.truncated =>
                   Cardinality(SeenFiles) <= Accounted /\ Accounted <= Cardinality(SeenFiles)
            BY <2>1, <3>1 DEF Found, EveryFileCounts
        <3>4. Accounted \in Int
            BY <3>3 DEF Accounted, Reasons
        <3>5. ~search.truncated => Cardinality(SeenFiles \ {f}) <= Accounted
            BY <3>2, <3>3, <3>4
        <3> QED
            BY <1>1, <1>3, <3>3, <3>5 DEF EveryFileCounts
    <2> QED
        BY <2>2, <2>3, <2>4, <2>5 DEF Found
<1> QED
    BY <1>1, <1>2, <1>5 DEF SearchInv

LEMMA SearchRests == SearchInv /\ UNCHANGED searchVars => SearchInv'
<1> SUFFICES ASSUME SearchInv, UNCHANGED searchVars PROVE SearchInv'
    OBVIOUS
<1>1. search' = search /\ project' = project /\ vanished' = vanished
    BY DEF searchVars
<1>2. /\ Asked' = Asked /\ SeenFiles' = SeenFiles /\ MayMatch' = MayMatch
      /\ ShownLines' = ShownLines /\ Accounted' = Accounted /\ \A f : LinesOf(f)' = LinesOf(f)
    BY <1>1 DEF Asked, SeenFiles, MayMatch, ShownLines, Accounted, LinesOf
<1>3. AllMatches' = AllMatches
    BY <1>1, <1>2 DEF AllMatches
<1>4. SearchType'
    BY <1>1 DEF SearchInv, SearchType
<1>5. Found => Found'
    BY <1>1, <1>2, <1>3 DEF Found, ScopeIsLeft, MatchesAreFound, NothingLeftOut, EveryFileCounts
<1> QED
    BY <1>1, <1>4, <1>5 DEF SearchInv

LEMMA SearchAlways == SearchSpec => []SearchInv
<1>1. SearchInv /\ [SearchNext]_searchVars => SearchInv'
    <2> SUFFICES ASSUME SearchInv, [SearchNext]_searchVars PROVE SearchInv'
        OBVIOUS
    <2>1. CASE FindsFiles \/ BeginsSearch \/ SkipsFile \/ LooksInto \/ SearchEnds
        BY <2>1, FindsIsTold, BeginsIsTold, SkipsIsTold, LooksIsTold, EndsIsTold
    <2>2. ASSUME NEW f \in DOMAIN project, Vanishes(f) PROVE SearchInv'
        BY <2>2, VanishesIsTold
    <2>3. CASE UNCHANGED searchVars
        BY <2>3, SearchRests
    <2> QED
        BY <2>1, <2>2, <2>3 DEF SearchNext
<1> QED
    BY <1>1, SearchInitIsTold, PTL DEF SearchSpec

\* A search tells what it found, where it stopped, and what it passed over
\* (search_text).
THEOREM TheSearchIsTold == SearchSpec => []SearchIsTold
<1>1. SearchInv => SearchIsTold
    <2> SUFFICES ASSUME SearchInv, search.pc = "ended", search.git
                 PROVE  StopsAndSaysSo /\ SkippedAreCounted
        BY DEF SearchIsTold, StopsAndSaysSo, SkippedAreCounted
    <2>1. SearchType /\ ScopeIsLeft /\ MatchesAreFound /\ NothingLeftOut /\ EveryFileCounts
        BY DEF SearchInv, Found
    <2>2. search.scope = <<>> /\ SeenFiles = Asked
        BY <2>1 DEF ScopeIsLeft, SeenFiles, Range
    <2>3. ShownLines \subseteq AllMatches /\ Cardinality(ShownLines) = Len(search.matches)
        <3> DEFINE n == Len(search.matches)
                   line == [i \in 1..n |-> search.matches[i]]
        <3>1. /\ n \in Nat /\ DOMAIN search.matches = 1..n
              /\ \A i \in 1..n : search.matches[i] \in AllMatches
              /\ \A i, j \in 1..n : search.matches[i] = search.matches[j] => i = j
            BY <2>1 DEF MatchesAreFound, Apart
        <3>2. ShownLines = {search.matches[i] : i \in 1..n}
            BY <3>1 DEF ShownLines, Range
        <3> HIDE DEF n
        <3>3. line \in Surjection(1..n, ShownLines) /\ line \in Injection(1..n, ShownLines)
            <4>1. line \in [1..n -> ShownLines]
                BY <3>2
            <4>2. \A i, j \in 1..n : line[i] = line[j] => i = j
                BY <3>1
            <4>3. \A x \in ShownLines : \E i \in 1..n : line[i] = x
                BY <3>2
            <4> QED
                BY <4>1, <4>2, <4>3 DEF Surjection, Injection, IsInjective
        <3>4. IsFiniteSet(1..n) /\ Cardinality(1..n) = n
            BY <3>1, FS_Interval
        <3>5. Cardinality(ShownLines) = n
            BY <3>3, <3>4, FS_Surjection
        <3> QED
            BY <3>1, <3>2, <3>5 DEF n
    <2>4. ~search.truncated => AllMatches \ Lost \subseteq ShownLines
        <3>1. SUFFICES ASSUME ~search.truncated, NEW line \in AllMatches, line \notin Lost
                       PROVE  line \in ShownLines
            OBVIOUS
        <3>2. PICK f \in MayMatch : line \in {<<f, n>> : n \in project[f].lines}
            BY DEF AllMatches
        <3>3. f \notin vanished
            BY <3>1, <3>2 DEF Lost
        <3>4. f \in SeenFiles
            BY <2>2 DEF MayMatch, Asked
        <3> QED
            BY <2>1, <3>1, <3>2, <3>3, <3>4 DEF NothingLeftOut, LinesOf
    <2>5. search.truncated => Len(search.matches) = MAX_RESULTS /\ AllMatches \ ShownLines # {}
        BY <2>1 DEF NothingLeftOut
    <2>6. StopsAndSaysSo
        BY <2>3, <2>4, <2>5 DEF StopsAndSaysSo
    <2>7. SkippedAreCounted
        <3>1. {f \in search.wanted : ~project[f].hidden} = Asked
            <4>1. search.wanted \subseteq DOMAIN project
                BY <2>1 DEF SearchType
            <4> QED
                BY <4>1 DEF Asked
        <3> QED
            BY <2>1, <2>2, <3>1 DEF SkippedAreCounted, EveryFileCounts, Accounted
    <2> QED
        BY <2>6, <2>7
<1> QED
    BY <1>1, SearchAlways, PTL

=============================================================================
