---------------------------- MODULE RateLimiter ----------------------------
(***************************************************************************)
(* RateLimiter of src/app/services/local_chat_guard.py: at most Limit      *)
(* requests of one client address in any Window, decided exactly, by       *)
(* keeping the time of every request that was let in and is still young.   *)
(*                                                                         *)
(* Time is counted in ticks; Second of them make a second, which is what   *)
(* Retry-After is rounded to.  granted and promised are not in the code:   *)
(* they remember what the properties speak of.                             *)
(***************************************************************************)
EXTENDS Integers, Sequences, FiniteSets

CONSTANTS
    Clients,            \* addresses
    Limit, Window,      \* LocalChatLimits.rate_limit and rate_window_seconds
    Second,             \* ticks in a second
    ForgetAt,           \* 1024: how many addresses are kept before idle ones go
    MaxTime             \* bound: the last tick

ASSUME LimiterAssumption ==
    /\ Limit \in Nat \ {0} /\ Window \in Nat \ {0} /\ Second \in Nat \ {0}
    /\ ForgetAt \in Nat /\ MaxTime \in Nat

VARIABLES
    now,                \* time.monotonic()
    seen,               \* address -> times of its requests, oldest first
    granted,            \* address -> times of all the requests ever let in
    promised            \* address -> when its last refusal said to come back
limiterVars == <<now, seen, granted, promised>>

Never == -1

LimiterInit ==
    /\ now = 0
    /\ seen = [key \in {} |-> <<>>]
    /\ granted = [key \in Clients |-> <<>>]
    /\ promised = [key \in Clients |-> Never]

Tick ==
    /\ now < MaxTime /\ now' = now + 1
    /\ UNCHANGED <<seen, granted, promised>>

-----------------------------------------------------------------------------

SeenBy(key) == IF key \in DOMAIN seen THEN seen[key] ELSE <<>>

\* What is left once the requests that left the window are popped.
Young(times) ==
    LET first == CHOOSE i \in 1..(Len(times) + 1) :
                    /\ \A j \in 1..(i - 1) : now - times[j] >= Window
                    /\ i <= Len(times) => now - times[i] < Window
    IN  SubSeq(times, first, Len(times))

Allowed(key) == Len(Young(SeenBy(key))) < Limit

CeilDiv(a, b) == (a + b - 1) \div b

\* Mutant: the seconds are rounded down.
RetryTooSoon(key) == (Window - (now - Young(SeenBy(key))[1])) \div Second

\* Seconds until the oldest request leaves the window, never less than one.
RetryAfter(key) ==
    LET seconds == CeilDiv(Window - (now - Young(SeenBy(key))[1]), Second)
    IN  IF seconds < 1 THEN 1 ELSE seconds

\* Mutant: an address is idle once its oldest request left the window.
ForgottenByOldest(map) ==
    IF Cardinality(DOMAIN map) < ForgetAt THEN map
    ELSE LET busy == {key \in DOMAIN map : map[key] # <<>> /\ now - map[key][1] < Window}
         IN  [key \in busy |-> map[key]]

\* Idle addresses go once there are ForgetAt of them.
Forgotten(map) ==
    IF Cardinality(DOMAIN map) < ForgetAt THEN map
    ELSE LET busy == {key \in DOMAIN map :
                        map[key] # <<>> /\ now - map[key][Len(map[key])] < Window}
         IN  [key \in busy |-> map[key]]

Remembered(key, times) ==
    [k \in DOMAIN seen \cup {key} |-> IF k = key THEN times ELSE seen[k]]

\* A refused request is not counted.
Refuse(key) ==
    /\ ~Allowed(key)
    /\ seen' = Remembered(key, Young(SeenBy(key)))
    /\ promised' = [promised EXCEPT ![key] = now + Second * RetryAfter(key)]
    /\ UNCHANGED <<now, granted>>

Grant(key) ==
    /\ Allowed(key)
    /\ seen' = Forgotten(Remembered(key, Append(Young(SeenBy(key)), now)))
    /\ granted' = [granted EXCEPT ![key] = Append(@, now)]
    /\ promised' = [promised EXCEPT ![key] = Never]
    /\ UNCHANGED now

LimiterNext == Tick \/ \E key \in Clients : Refuse(key) \/ Grant(key)
LimiterSpec == LimiterInit /\ [][LimiterNext]_limiterVars

-----------------------------------------------------------------------------
LimiterTypeOK ==
    /\ now \in 0..MaxTime
    /\ DOMAIN seen \subseteq Clients
    /\ \A key \in DOMAIN seen : seen[key] \in Seq(0..now)
    /\ granted \in [Clients -> Seq(0..now)]
    /\ promised \in [Clients -> Int]

(***************************************************************************)
(* No window, wherever it begins, holds more than Limit requests of one    *)
(* address, although only the young ones are remembered and idle addresses *)
(* are forgotten.                                                          *)
(***************************************************************************)
AtMostLimitPerWindow ==
    \A key \in Clients : \A i \in 1..(Len(granted[key]) - Limit) :
        granted[key][i + Limit] - granted[key][i] >= Window

(***************************************************************************)
(* A client that waits as long as Retry-After says is let in, in spite of  *)
(* the rounding.                                                           *)
(***************************************************************************)
WaitIsEnough ==
    \A key \in Clients : promised[key] # Never /\ now >= promised[key] => Allowed(key)

=============================================================================
