------------------------------- MODULE Digest -------------------------------
(***************************************************************************)
(* The digest scheduler, src/app/services/digest_scheduler.py: one asyncio *)
(* task of the backend that reads the tasks other processes create         *)
(* (DigestTasks), runs those that are due, and records every run in        *)
(* data/digest_store.json, which nobody else writes.                       *)
(*                                                                         *)
(* write_json moves a whole document into place and the store has this one *)
(* writer, so a record is one step: a crash comes before it or after it.   *)
(* Times are those of now_utc, in ticks.                                   *)
(***************************************************************************)
EXTENDS DigestTasks

CONSTANTS
    WordsPerRun, RunsKept, ItemsKept,
    MaxClock,           \* bound: the last tick of the clock
    MaxStops            \* bound: how often the backend goes down

ASSUME DigestAssumption ==
    /\ WordsPerRun \in Nat \ {0} /\ RunsKept \in Nat \ {0} /\ ItemsKept \in Nat \ {0}
    /\ MaxClock \in Nat /\ MaxStops \in Nat

VARIABLES
    clock,
    store,              \* id -> DigestState
    phase,              \* what the scheduler is doing
    list, at,           \* the tasks of this tick, and the one it has come to
    moment,             \* when this tick began
    started,            \* when the run in flight began
    ran,                \* id -> every run ever recorded; not in the code
    stops
schedulerVars == <<store, phase, list, at, moment, started, ran, stops>>
digestVars == <<taskVars, clock, schedulerVars>>

Ids == 1..Cardinality(Creators)
NeverRan == -1
NewState == [totalRuns |-> 0, failedRuns |-> 0, totalItems |-> 0, lastRunAt |-> NeverRan,
             runs |-> <<>>, items |-> <<>>]

DigestInit ==
    /\ TasksInit
    /\ clock = 0
    /\ store = [id \in Ids |-> NewState]
    /\ phase = "asleep" /\ list = <<>> /\ at = 1 /\ moment = 0 /\ started = 0
    /\ ran = [id \in Ids |-> <<>>]
    /\ stops = 0

-----------------------------------------------------------------------------

Newest(seq, n) == SubSeq(seq, IF Len(seq) > n THEN Len(seq) - n + 1 ELSE 1, Len(seq))

\* A run of fewer words than asked for failed.
Failed(run) == run.words < WordsPerRun

\* Mutant: a run that failed does not count as the last one.
RecordedIfOk(state, run) ==
    [totalRuns |-> state.totalRuns + 1,
     failedRuns |-> state.failedRuns + IF Failed(run) THEN 1 ELSE 0,
     totalItems |-> state.totalItems + run.words,
     lastRunAt |-> IF Failed(run) THEN state.lastRunAt ELSE run.at,
     runs |-> Newest(Append(state.runs, run), RunsKept),
     items |-> Newest(state.items \o [i \in 1..run.words |-> run.at], ItemsKept)]

\* DigestState.record: counters for ever, lists of the newest.
Recorded(state, run) ==
    [totalRuns |-> state.totalRuns + 1,
     failedRuns |-> state.failedRuns + IF Failed(run) THEN 1 ELSE 0,
     totalItems |-> state.totalItems + run.words,
     lastRunAt |-> run.at,
     runs |-> Newest(Append(state.runs, run), RunsKept),
     items |-> Newest(state.items \o [i \in 1..run.words |-> run.at], ItemsKept)]

\* A task that never ran is due at once.
Due(task, time) ==
    LET last == store[task.id].lastRunAt IN last = NeverRan \/ time >= last + task.interval

-----------------------------------------------------------------------------

\* The variables of a tick are gone with it.
TickIsOver == list' = <<>> /\ at' = 1 /\ moment' = 0 /\ started' = 0

TickBegins ==
    /\ phase = "asleep"
    /\ list' = Load /\ at' = 1 /\ moment' = clock
    /\ phase' = "looking"
    /\ UNCHANGED <<store, started, ran, stops>>

Passes ==
    /\ phase = "looking" /\ at <= Len(list) /\ ~Due(list[at], moment)
    /\ at' = at + 1
    /\ UNCHANGED <<store, phase, list, moment, started, ran, stops>>

RunBegins ==
    /\ phase = "looking" /\ at <= Len(list) /\ Due(list[at], moment)
    /\ started' = clock
    /\ phase' = "collecting"
    /\ UNCHANGED <<store, list, at, moment, ran, stops>>

\* Mutant: a run that fails ends the loop.
RunEndsForGood ==
    /\ phase = "collecting"
    /\ \E words \in 0..WordsPerRun :
         LET id == list[at].id
             run == [at |-> started, words |-> words]
         IN  /\ store' = [store EXCEPT ![id] = Recorded(@, run)]
             /\ ran' = [ran EXCEPT ![id] = Append(@, run)]
             /\ phase' = IF Failed(run) THEN "over" ELSE "looking"
    /\ at' = at + 1 /\ started' = 0
    /\ UNCHANGED <<list, moment, stops>>

\* The words arrive until one request fails; the run is recorded either way.
RunEnds ==
    /\ phase = "collecting"
    /\ \E words \in 0..WordsPerRun :
         LET id == list[at].id
             run == [at |-> started, words |-> words]
         IN  /\ store' = [store EXCEPT ![id] = Recorded(@, run)]
             /\ ran' = [ran EXCEPT ![id] = Append(@, run)]
    /\ phase' = "looking" /\ at' = at + 1 /\ started' = 0
    /\ UNCHANGED <<list, moment, stops>>

TickEnds ==
    /\ phase = "looking" /\ at > Len(list)
    /\ phase' = "asleep" /\ TickIsOver
    /\ UNCHANGED <<store, ran, stops>>

\* Shut down, or dead: a run in flight is lost.
Stops ==
    /\ phase # "down" /\ stops < MaxStops /\ stops' = stops + 1
    /\ phase' = "down" /\ TickIsOver
    /\ UNCHANGED <<store, ran>>

Restarts ==
    /\ phase = "down"
    /\ phase' = "asleep"
    /\ UNCHANGED <<store, list, at, moment, started, ran, stops>>

Schedules == TickBegins \/ Passes \/ RunBegins \/ RunEnds \/ TickEnds \/ Restarts

TimePasses ==
    /\ clock < MaxClock /\ clock' = clock + 1
    /\ UNCHANGED <<taskVars, schedulerVars>>

DigestNext ==
    \/ TasksNext /\ UNCHANGED <<clock, schedulerVars>>
    \/ (Schedules \/ Stops) /\ UNCHANGED <<taskVars, clock>>
    \/ TimePasses

DigestSpec == DigestInit /\ [][DigestNext]_digestVars

\* The event loop resumes the scheduler, a request for a word has a timeout,
\* and systemd starts the backend again.
FairDigestSpec == DigestSpec /\ WF_digestVars(Schedules /\ UNCHANGED <<taskVars, clock>>)

-----------------------------------------------------------------------------
(***************************************************************************)
(* Two runs of a task are at least its interval apart, however long the    *)
(* backend was down or busy: it "does one run on the way back up, not      *)
(* sixty", and one that failed does not come back early.                   *)
(***************************************************************************)
RunsAreSpaced ==
    \A k \in 1..Len(Load) : LET task == Load[k] IN
        \A i \in 1..(Len(ran[task.id]) - 1) :
            ran[task.id][i + 1].at >= ran[task.id][i].at + task.interval

\* Every word the runs brought, as the time of its run.
WordsOf(runs) ==
    LET words[i \in 0..Len(runs)] ==
          IF i = 0 THEN <<>> ELSE words[i - 1] \o [j \in 1..runs[i].words |-> runs[i].at]
    IN  words[Len(runs)]

(***************************************************************************)
(* What the screen shows is what happened: totals over every run, and the  *)
(* newest RunsKept runs and ItemsKept words, through any number of         *)
(* restarts.                                                               *)
(***************************************************************************)
StoreTellsWhatRan ==
    \A id \in Ids : LET runs == ran[id]  state == store[id] IN
        /\ state.totalRuns = Len(runs)
        /\ state.failedRuns = Cardinality({i \in 1..Len(runs) : Failed(runs[i])})
        /\ state.totalItems = Len(WordsOf(runs))
        /\ state.runs = Newest(runs, RunsKept)
        /\ state.items = Newest(WordsOf(runs), ItemsKept)
        /\ runs # <<>> => state.lastRunAt = runs[Len(runs)].at

(***************************************************************************)
(* A task that is due is run, in spite of failing runs and of other tasks, *)
(* provided the backend comes back.                                        *)
(***************************************************************************)
DueNow(i) == i <= Len(Load) /\ Due(Load[i], clock)
DueIsRun == \A i \in Ids : DueNow(i) ~> ~DueNow(i)

(***************************************************************************)
(* The record and the spacing hang together: what a task's next run is     *)
(* timed by is what its record says, whatever the run's outcome and        *)
(* however often the backend came back (DigestStore.record, due).          *)
(***************************************************************************)
RecordIsKept == RunsAreSpaced /\ StoreTellsWhatRan

=============================================================================
