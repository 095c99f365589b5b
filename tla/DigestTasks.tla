---------------------------- MODULE DigestTasks ----------------------------
(***************************************************************************)
(* Creating periodic digests: DigestTaskStorage of src/app/services/       *)
(* digest.py, over write_json of json_store.py, as run by the MCP server   *)
(* of src/mcp_servers/jlpt_vocab.py.  Every call of the tool is a process  *)
(* of its own, so two creations interleave between system calls, and one   *)
(* may be killed (the registry gives a call 45 s) anywhere.                *)
(*                                                                         *)
(* The file system is what matters here: a document is on an inode; the    *)
(* name of the file and the name of its temporary file each point to one.  *)
(* A document is <<tasks>>, or <<>> when it cannot be parsed.              *)
(***************************************************************************)
EXTENDS Integers, Sequences, FiniteSets

CONSTANTS
    Creators,           \* calls of create_periodic_digest
    Requested,          \* intervals they may ask for
    MinInterval, MaxInterval,
    TogetherAllowed     \* TRUE: one call may begin while another runs

ASSUME DigestTasksAssumption ==
    /\ IsFiniteSet(Creators) /\ Requested \subseteq Int
    /\ MinInterval \in Nat /\ MaxInterval \in Nat /\ MinInterval <= MaxInterval
    /\ TogetherAllowed \in BOOLEAN

VARIABLES
    disk,               \* inode -> document
    fileAt,             \* the inode data/digest_tasks.json names
    tmpAt,              \* the one data/digest_tasks.json.tmp names, or Nowhere
    call, mine, fd        \* each call: its step, the tasks it will write, its
                        \* open file
taskVars == <<disk, fileAt, tmpAt, call, mine, fd>>

Inodes == 0..(Cardinality(Creators) + 1)
Nowhere == -1

Whole(tasks) == <<tasks>>
Unreadable == <<>>

\* A missing or unreadable file is no tasks.
Load == IF disk[fileAt] = Unreadable THEN <<>> ELSE disk[fileAt][1]

Clamped(n) ==
    CASE n < MinInterval -> MinInterval
      [] n > MaxInterval -> MaxInterval
      [] OTHER -> n

\* No file at first: the same as one that holds no tasks.
TasksInit ==
    /\ disk = [i \in Inodes |-> Whole(<<>>)]
    /\ fileAt = 0 /\ tmpAt = Nowhere
    /\ call = [c \in Creators |-> "new"]
    /\ mine = [c \in Creators |-> <<>>]
    /\ fd = [c \in Creators |-> Nowhere]

Ended == {"new", "created", "failed"}
MayStart == TogetherAllowed \/ \A c \in Creators : call[c] \in Ended

\* Mutant: the number is the newest task's, not the next one.
LoadsSameNumber(c) ==
    /\ call[c] = "new" /\ MayStart
    /\ \E interval \in Requested :
         mine' = [mine EXCEPT ![c] = Append(Load,
             [id |-> IF Load = <<>> THEN 1 ELSE Load[Len(Load)].id,
              interval |-> Clamped(interval), by |-> c])]
    /\ call' = [call EXCEPT ![c] = "loaded"]
    /\ UNCHANGED <<disk, fileAt, tmpAt, fd>>

\* The tasks that are there, and a new one numbered after how many they are.
Loads(c) ==
    /\ call[c] = "new" /\ MayStart
    /\ \E interval \in Requested :
         mine' = [mine EXCEPT ![c] = Append(Load,
             [id |-> Len(Load) + 1, interval |-> Clamped(interval), by |-> c])]
    /\ call' = [call EXCEPT ![c] = "loaded"]
    /\ UNCHANGED <<disk, fileAt, tmpAt, fd>>

\* Mutant: the file is written in place.
OpensInPlace(c) ==
    /\ call[c] = "loaded"
    /\ disk' = [disk EXCEPT ![fileAt] = Unreadable]
    /\ fd' = [fd EXCEPT ![c] = fileAt]
    /\ tmpAt' = fileAt
    /\ call' = [call EXCEPT ![c] = "open"]
    /\ UNCHANGED <<fileAt, mine>>

\* open(temporary, "w"): truncates what the name points to, or makes it.
OpensTemporary(c) ==
    /\ call[c] = "loaded"
    /\ \E i \in Inodes :
         /\ IF tmpAt # Nowhere THEN i = tmpAt
            ELSE i # fileAt /\ \A d \in Creators : fd[d] # i
         /\ disk' = [disk EXCEPT ![i] = Unreadable]
         /\ fd' = [fd EXCEPT ![c] = i]
         /\ tmpAt' = i
    /\ call' = [call EXCEPT ![c] = "open"]
    /\ UNCHANGED <<fileAt, mine>>

\* From the start of the file: what somebody else wrote there shows behind
\* it when it was longer.
Writes(c) ==
    /\ call[c] = "open"
    /\ \E document \in {Whole(mine[c])}
                 \cup (IF disk[fd[c]] = Unreadable THEN {} ELSE {Unreadable}) :
         disk' = [disk EXCEPT ![fd[c]] = document]
    /\ fd' = [fd EXCEPT ![c] = Nowhere]
    /\ call' = [call EXCEPT ![c] = "written"]
    /\ UNCHANGED <<fileAt, tmpAt, mine>>

\* os.replace: the file is whatever the temporary name points to by now.
Replaces(c) ==
    /\ call[c] = "written" /\ tmpAt # Nowhere
    /\ fileAt' = tmpAt /\ tmpAt' = Nowhere
    /\ call' = [call EXCEPT ![c] = "created"]
    /\ UNCHANGED <<disk, mine, fd>>

\* Somebody else has moved it already.
NothingToReplace(c) ==
    /\ call[c] = "written" /\ tmpAt = Nowhere
    /\ call' = [call EXCEPT ![c] = "failed"]
    /\ UNCHANGED <<disk, fileAt, tmpAt, mine, fd>>

Killed(c) ==
    /\ call[c] \notin Ended
    /\ call' = [call EXCEPT ![c] = "failed"]
    /\ fd' = [fd EXCEPT ![c] = Nowhere]
    /\ UNCHANGED <<disk, fileAt, tmpAt, mine>>

Creates(c) == Loads(c) \/ OpensTemporary(c) \/ Writes(c) \/ Replaces(c)
                \/ NothingToReplace(c) \/ Killed(c)

TasksNext == \E c \in Creators : Creates(c)
TasksSpec == TasksInit /\ [][TasksNext]_taskVars

-----------------------------------------------------------------------------
Tasks == [id : Nat, interval : MinInterval..MaxInterval, by : Creators]

TasksTypeOK ==
    /\ DOMAIN disk = Inodes
    /\ \A i \in Inodes : disk[i] = Unreadable \/ disk[i][1] \in Seq(Tasks)
    /\ fileAt \in Inodes /\ tmpAt \in Inodes \cup {Nowhere}
    /\ call \in [Creators -> Ended \cup {"loaded", "open", "written"}]
    /\ mine \in [Creators -> Seq(Tasks)]
    /\ fd \in [Creators -> Inodes \cup {Nowhere}]

(***************************************************************************)
(* json_store.py:7: "a reader either sees the old file or the new one and  *)
(* never a truncated one", whoever is killed and whenever.                 *)
(***************************************************************************)
NeverTruncated == disk[fileAt] # Unreadable

(***************************************************************************)
(* A task whose creation was confirmed is in the file, when that can be    *)
(* read, and stays there: it runs "for as long as the backend runs"        *)
(* (jlpt_vocab.py:167).                                                    *)
(***************************************************************************)
ConfirmedIsKept ==
    disk[fileAt] # Unreadable =>
        \A c \in Creators : call[c] = "created" => \E i \in 1..Len(Load) : Load[i].by = c

(***************************************************************************)
(* No two tasks of the file have one id, even when creations overwrite     *)
(* each other: the runs of both would be stored under it.                  *)
(***************************************************************************)
IdsAreApart == \A i, j \in 1..Len(Load) : Load[i].id = Load[j].id => i = j

(***************************************************************************)
(* Creations that do not overlap keep every task: the file is never seen   *)
(* half written, and what was confirmed is in it, whoever is killed.       *)
(***************************************************************************)
TasksAreKept == NeverTruncated /\ ConfirmedIsKept

=============================================================================
