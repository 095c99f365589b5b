--------------------------- MODULE Backend_proofs ---------------------------
(***************************************************************************)
(* What is proved of the digests and of the reviews of pull requests: of   *)
(* each by itself, and at the end of the type of both.                     *)
(***************************************************************************)
EXTENDS BackendMC, FiniteSetTheorems, SequenceTheorems, WellFoundedInduction, TLAPS

-----------------------------------------------------------------------------
(***************************************************************************)
(* For any number of creators, inodes, intervals and kills.  Creations may *)
(* overwrite each other when they overlap, but every document numbers its  *)
(* tasks in order; and when they do not overlap, the file is never half    *)
(* written and never loses a task.                                         *)
(***************************************************************************)

-----------------------------------------------------------------------------
(* The file of tasks.                                                      *)

\* The tasks of a document are numbered in order, each from a call of its
\* own that has begun.
InOrder(tasks, calls) ==
    /\ \A i \in 1..Len(tasks) : tasks[i].id = i /\ calls[tasks[i].by] # "new"
    /\ \A i, j \in 1..Len(tasks) : tasks[i].by = tasks[j].by => i = j

DocumentsInOrder ==
    /\ \A i \in Inodes : disk[i] # Unreadable => InOrder(disk[i][1], call)
    /\ \A c \in Creators : InOrder(mine[c], call)

TasksInv == TasksTypeOK /\ DocumentsInOrder

LEMMA WholeIsReadable == \A tasks : Whole(tasks) # Unreadable /\ Whole(tasks)[1] = tasks
  <1>1. ASSUME NEW tasks PROVE <<tasks>> # <<>> /\ <<tasks>>[1] = tasks
    <2>1. Len(<<tasks>>) = 1 /\ Len(<<>>) = 0
      OBVIOUS
    <2> QED BY <2>1
  <1> QED BY <1>1 DEF Whole, Unreadable

LEMMA NoTasksInOrder == (\A calls : InOrder(<<>>, calls)) /\ <<>> \in Seq(Tasks)
  <1>1. 1..Len(<<>>) = {}
    OBVIOUS
  <1> QED BY <1>1 DEF InOrder

LEMMA LoadInOrder ==
  ASSUME TasksInv
  PROVE  Load \in Seq(Tasks) /\ InOrder(Load, call)
  <1>1. fileAt \in Inodes
    BY DEF TasksInv, TasksTypeOK
  <1>2. CASE disk[fileAt] = Unreadable
    BY <1>2, NoTasksInOrder DEF Load
  <1>3. CASE disk[fileAt] # Unreadable
    BY <1>1, <1>3 DEF TasksInv, TasksTypeOK, DocumentsInOrder, Load
  <1> QED BY <1>2, <1>3

LEMMA MadeByCreators ==
  ASSUME NEW tasks \in Seq(Tasks)
  PROVE  \A i \in 1..Len(tasks) : tasks[i] \in Tasks /\ tasks[i].by \in Creators
  <1>1. \A i \in 1..Len(tasks) : tasks[i] \in Tasks
    BY ElementOfSeq
  <1>2. \A task \in Tasks : task.by \in Creators
    BY DEF Tasks
  <1> QED BY <1>1, <1>2

\* What stands in order goes on to, as long as no call is new again.
LEMMA StaysInOrder ==
  ASSUME NEW tasks \in Seq(Tasks), InOrder(tasks, call),
         \A c \in Creators : call[c] # "new" => call'[c] # "new"
  PROVE  InOrder(tasks, call')
  <1>1. \A i \in 1..Len(tasks) : tasks[i].by \in Creators
    BY MadeByCreators
  <1> QED BY <1>1 DEF InOrder

LEMMA ClampedInRange ==
  ASSUME NEW n \in Requested
  PROVE  Clamped(n) \in MinInterval..MaxInterval
  BY DigestTasksAssumption DEF Clamped

\* The next task of a document.
LEMMA NextInOrder ==
  ASSUME TasksTypeOK, NEW tasks \in Seq(Tasks), InOrder(tasks, call), NEW c \in Creators, call[c] = "new",
         NEW task \in Tasks, task.id = Len(tasks) + 1, task.by = c,
         call' = [call EXCEPT ![c] = "loaded"]
  PROVE  Append(tasks, task) \in Seq(Tasks) /\ InOrder(Append(tasks, task), call')
  <1> DEFINE more == Append(tasks, task)
             n == Len(tasks)
  <1>1. /\ more \in Seq(Tasks) /\ Len(more) = n + 1 /\ n \in Nat
        /\ more[n + 1] = task /\ \A i \in 1..n : more[i] = tasks[i]
    BY AppendProperties
  <1>2. \A d \in Creators : call[d] # "new" => call'[d] # "new"
    BY DEF TasksTypeOK
  <1>3. call'[c] = "loaded"
    BY DEF TasksTypeOK
  <1>4. \A i \in 1..n : tasks[i].id = i /\ call[tasks[i].by] # "new" /\ tasks[i].by \in Creators
    BY MadeByCreators DEF InOrder
  <1> HIDE DEF more
  <1>5. ASSUME NEW i \in 1..(n + 1) PROVE more[i].id = i /\ call'[more[i].by] # "new"
    <2>1. CASE i = n + 1
      BY <1>1, <1>3, <2>1
    <2>2. CASE i # n + 1
      <3>1. i \in 1..n
        BY <1>1, <2>2
      <3> QED BY <1>1, <1>2, <1>4, <3>1
    <2> QED BY <2>1, <2>2
  <1>6. ASSUME NEW i \in 1..(n + 1), NEW j \in 1..(n + 1), more[i].by = more[j].by PROVE i = j
    <2>1. \A k \in 1..n : more[k].by # c
      BY <1>1, <1>4
    <2>2. more[n + 1].by = c
      BY <1>1
    <2>3. (i = n + 1 \/ i \in 1..n) /\ (j = n + 1 \/ j \in 1..n)
      BY <1>1
    <2>4. CASE i \in 1..n /\ j \in 1..n
      BY <1>1, <1>6, <2>4 DEF InOrder
    <2> QED BY <1>6, <2>1, <2>2, <2>3, <2>4
  <1>7. InOrder(more, call')
    BY <1>1, <1>5, <1>6 DEF InOrder
  <1> QED BY <1>1, <1>7 DEF more

LEMMA TasksInitInv == TasksInit => TasksInv
  <1> SUFFICES ASSUME TasksInit PROVE TasksInv
    OBVIOUS
  <1>1. Cardinality(Creators) \in Nat
    BY DigestTasksAssumption, FS_CardinalityType
  <1>2. 0 \in Inodes
    BY <1>1 DEF Inodes
  <1>3. TasksTypeOK
    BY <1>2, WholeIsReadable, NoTasksInOrder DEF TasksInit, TasksTypeOK, Ended
  <1>4. DocumentsInOrder
    BY WholeIsReadable, NoTasksInOrder DEF TasksInit, DocumentsInOrder
  <1> QED BY <1>3, <1>4 DEF TasksInv

\* A step after which each document is one of before, or mine.
LEMMA DocumentsMove ==
  ASSUME TasksInv, NEW c \in Creators,
         \A d \in Creators : call[d] # "new" => call'[d] # "new",
         \A i \in Inodes : disk'[i] \in {disk[i], Unreadable, Whole(mine[c])},
         DOMAIN disk' = Inodes, mine' = mine
  PROVE  /\ \A i \in Inodes : disk'[i] = Unreadable \/ disk'[i][1] \in Seq(Tasks)
         /\ DocumentsInOrder'
  <1>1. \A d \in Creators : mine[d] \in Seq(Tasks) /\ InOrder(mine[d], call)
    BY DEF TasksInv, TasksTypeOK, DocumentsInOrder
  <1>2. \A d \in Creators : InOrder(mine[d], call')
    BY <1>1, StaysInOrder
  <1>3. ASSUME NEW i \in Inodes, disk'[i] # Unreadable
        PROVE  disk'[i][1] \in Seq(Tasks) /\ InOrder(disk'[i][1], call')
    <2>1. CASE disk'[i] = disk[i]
      <3>1. disk[i][1] \in Seq(Tasks) /\ InOrder(disk[i][1], call)
        BY <1>3, <2>1 DEF TasksInv, TasksTypeOK, DocumentsInOrder
      <3>2. disk'[i][1] = disk[i][1]
        BY <2>1
      <3>3. InOrder(disk[i][1], call')
        BY <3>1, StaysInOrder
      <3> QED BY <3>1, <3>2, <3>3
    <2>2. CASE disk'[i] = Whole(mine[c])
      <3>1. disk'[i][1] = mine[c]
        BY <2>2, WholeIsReadable
      <3> QED BY <1>1, <1>2, <3>1
    <2> QED BY <1>3, <2>1, <2>2
  <1> QED BY <1>2, <1>3 DEF DocumentsInOrder

LEMMA LoadsStep ==
  ASSUME TasksInv, NEW c \in Creators, Loads(c)
  PROVE  /\ TasksInv'
         /\ \E task \in Tasks : /\ task.by = c
                                /\ mine' = [mine EXCEPT ![c] = Append(Load, task)]
  <1>1. PICK interval \in Requested :
           mine' = [mine EXCEPT ![c] = Append(Load,
             [id |-> Len(Load) + 1, interval |-> Clamped(interval), by |-> c])]
    BY DEF Loads
  <1> DEFINE task == [id |-> Len(Load) + 1, interval |-> Clamped(interval), by |-> c]
  <1>2. /\ call[c] = "new" /\ call' = [call EXCEPT ![c] = "loaded"]
        /\ disk' = disk /\ fileAt' = fileAt /\ tmpAt' = tmpAt /\ fd' = fd
    BY DEF Loads
  <1>3. Load \in Seq(Tasks) /\ InOrder(Load, call)
    BY LoadInOrder
  <1>4. Len(Load) + 1 \in Nat
    BY <1>3, LenProperties
  <1>5. task \in Tasks /\ task.id = Len(Load) + 1 /\ task.by = c
    BY <1>4, ClampedInRange DEF Tasks
  <1>6. mine' = [mine EXCEPT ![c] = Append(Load, task)]
    BY <1>1
  <1> HIDE DEF task
  <1>7. TasksTypeOK
    BY DEF TasksInv
  <1>8. Append(Load, task) \in Seq(Tasks) /\ InOrder(Append(Load, task), call')
    BY <1>2, <1>3, <1>5, <1>7, NextInOrder
  <1>9. TasksTypeOK'
    BY <1>2, <1>6, <1>7, <1>8 DEF TasksTypeOK
  <1>10. \A d \in Creators : call[d] # "new" => call'[d] # "new"
    BY <1>2, <1>7 DEF TasksTypeOK
  <1>11. DocumentsInOrder'
    <2>1. ASSUME NEW i \in Inodes, disk'[i] # Unreadable PROVE InOrder(disk'[i][1], call')
      <3>1. disk[i][1] \in Seq(Tasks) /\ InOrder(disk[i][1], call)
        BY <1>2, <2>1 DEF TasksInv, TasksTypeOK, DocumentsInOrder
      <3>2. InOrder(disk[i][1], call')
        BY <1>10, <3>1, StaysInOrder
      <3> QED BY <1>2, <3>2
    <2>2. ASSUME NEW d \in Creators PROVE InOrder(mine'[d], call')
      <3>1. CASE d = c
        BY <1>6, <1>7, <1>8, <3>1 DEF TasksTypeOK
      <3>2. CASE d # c
        <4>1. mine[d] \in Seq(Tasks) /\ InOrder(mine[d], call) /\ mine'[d] = mine[d]
          BY <1>6, <3>2 DEF TasksInv, TasksTypeOK, DocumentsInOrder
        <4>2. InOrder(mine[d], call')
          BY <1>10, <4>1, StaysInOrder
        <4> QED BY <4>1, <4>2
      <3> QED BY <3>1, <3>2
    <2> QED BY <2>1, <2>2 DEF DocumentsInOrder
  <1> QED BY <1>5, <1>6, <1>9, <1>11 DEF TasksInv

LEMMA OpensStep ==
  ASSUME TasksInv, NEW c \in Creators, OpensTemporary(c)
  PROVE  TasksInv'
  <1>1. PICK i \in Inodes : /\ disk' = [disk EXCEPT ![i] = Unreadable]
                            /\ fd' = [fd EXCEPT ![c] = i] /\ tmpAt' = i
    BY DEF OpensTemporary
  <1>2. call' = [call EXCEPT ![c] = "open"] /\ fileAt' = fileAt /\ mine' = mine
    BY DEF OpensTemporary
  <1>3. \A d \in Creators : call[d] # "new" => call'[d] # "new"
    BY <1>2 DEF TasksInv, TasksTypeOK
  <1>4. /\ \A j \in Inodes : disk'[j] \in {disk[j], Unreadable, Whole(mine[c])}
        /\ DOMAIN disk' = Inodes
    BY <1>1 DEF TasksInv, TasksTypeOK
  <1>5. /\ \A j \in Inodes : disk'[j] = Unreadable \/ disk'[j][1] \in Seq(Tasks)
        /\ DocumentsInOrder'
    BY <1>2, <1>3, <1>4, DocumentsMove
  <1>6. TasksTypeOK'
    BY <1>1, <1>2, <1>4, <1>5 DEF TasksInv, TasksTypeOK
  <1> QED BY <1>5, <1>6 DEF TasksInv

LEMMA WritesStep ==
  ASSUME TasksInv, NEW c \in Creators, Writes(c)
  PROVE  TasksInv'
  <1>1. PICK document \in {Whole(mine[c]), Unreadable} : disk' = [disk EXCEPT ![fd[c]] = document]
    BY DEF Writes
  <1>2. /\ call' = [call EXCEPT ![c] = "written"] /\ fd' = [fd EXCEPT ![c] = Nowhere]
        /\ fileAt' = fileAt /\ tmpAt' = tmpAt /\ mine' = mine
    BY DEF Writes
  <1>3. \A d \in Creators : call[d] # "new" => call'[d] # "new"
    BY <1>2 DEF TasksInv, TasksTypeOK
  <1>4. /\ \A j \in Inodes : disk'[j] \in {disk[j], Unreadable, Whole(mine[c])}
        /\ DOMAIN disk' = Inodes
    BY <1>1 DEF TasksInv, TasksTypeOK
  <1>5. /\ \A j \in Inodes : disk'[j] = Unreadable \/ disk'[j][1] \in Seq(Tasks)
        /\ DocumentsInOrder'
    BY <1>2, <1>3, <1>4, DocumentsMove
  <1>6. TasksTypeOK'
    BY <1>2, <1>4, <1>5 DEF TasksInv, TasksTypeOK
  <1> QED BY <1>5, <1>6 DEF TasksInv

\* A step that moves names and calls only.
LEMMA NamesMove ==
  ASSUME TasksInv, NEW c \in Creators, NEW to \in {"created", "failed"},
         call' = [call EXCEPT ![c] = to], disk' = disk, mine' = mine,
         fileAt' \in Inodes, tmpAt' \in Inodes \cup {Nowhere},
         fd' \in [Creators -> Inodes \cup {Nowhere}]
  PROVE  TasksInv'
  <1>1. \A d \in Creators : call[d] # "new" => call'[d] # "new"
    BY DEF TasksInv, TasksTypeOK
  <1>2. /\ \A j \in Inodes : disk'[j] \in {disk[j], Unreadable, Whole(mine[c])}
        /\ DOMAIN disk' = Inodes
    BY DEF TasksInv, TasksTypeOK
  <1>3. DocumentsInOrder'
    BY <1>1, <1>2, DocumentsMove
  <1>4. TasksTypeOK'
    BY DEF TasksInv, TasksTypeOK, Ended
  <1> QED BY <1>3, <1>4 DEF TasksInv

LEMMA TasksNextInv == TasksInv /\ [TasksNext]_taskVars => TasksInv'
  <1> SUFFICES ASSUME TasksInv, [TasksNext]_taskVars PROVE TasksInv'
    OBVIOUS
  <1>1. ASSUME NEW c \in Creators, Creates(c) PROVE TasksInv'
    <2>1. CASE Loads(c)
      BY <2>1, LoadsStep
    <2>2. CASE OpensTemporary(c)
      BY <2>2, OpensStep
    <2>3. CASE Writes(c)
      BY <2>3, WritesStep
    <2>4. CASE Replaces(c)
      <3>1. /\ call' = [call EXCEPT ![c] = "created"] /\ disk' = disk /\ mine' = mine /\ fd' = fd
            /\ tmpAt # Nowhere /\ fileAt' = tmpAt /\ tmpAt' = Nowhere
        BY <2>4 DEF Replaces
      <3>2. fileAt' \in Inodes /\ fd' \in [Creators -> Inodes \cup {Nowhere}]
        BY <3>1 DEF TasksInv, TasksTypeOK
      <3> QED BY <3>1, <3>2, NamesMove
    <2>5. CASE NothingToReplace(c)
      <3>1. /\ call' = [call EXCEPT ![c] = "failed"] /\ disk' = disk /\ mine' = mine
            /\ fd' = fd /\ fileAt' = fileAt /\ tmpAt' = tmpAt
        BY <2>5 DEF NothingToReplace
      <3>2. /\ fileAt' \in Inodes /\ tmpAt' \in Inodes \cup {Nowhere}
            /\ fd' \in [Creators -> Inodes \cup {Nowhere}]
        BY <3>1 DEF TasksInv, TasksTypeOK
      <3> QED BY <3>1, <3>2, NamesMove
    <2>6. CASE Killed(c)
      <3>1. /\ call' = [call EXCEPT ![c] = "failed"] /\ disk' = disk /\ mine' = mine
            /\ fd' = [fd EXCEPT ![c] = Nowhere] /\ fileAt' = fileAt /\ tmpAt' = tmpAt
        BY <2>6 DEF Killed
      <3>2. /\ fileAt' \in Inodes /\ tmpAt' \in Inodes \cup {Nowhere}
            /\ fd' \in [Creators -> Inodes \cup {Nowhere}]
        BY <3>1 DEF TasksInv, TasksTypeOK
      <3> QED BY <3>1, <3>2, NamesMove
    <2> QED BY <1>1, <2>1, <2>2, <2>3, <2>4, <2>5, <2>6 DEF Creates
  <1>2. CASE UNCHANGED taskVars
    BY <1>2 DEF taskVars, TasksInv, TasksTypeOK, DocumentsInOrder, InOrder
  <1> QED BY <1>1, <1>2 DEF TasksNext

\* No two tasks of the file have one id, however creations overlap, overwrite
\* each other and are killed.
THEOREM IdsStayApart == TasksSpec => []IdsAreApart
  <1>1. TasksInv => IdsAreApart
    <2> SUFFICES ASSUME TasksInv, NEW i \in 1..Len(Load), NEW j \in 1..Len(Load),
                        Load[i].id = Load[j].id
                 PROVE  i = j
      BY DEF IdsAreApart
    <2>1. InOrder(Load, call)
      BY LoadInOrder
    <2> QED BY <2>1 DEF InOrder
  <1> QED BY <1>1, TasksInitInv, TasksNextInv, PTL DEF TasksSpec

-----------------------------------------------------------------------------
(* When creations do not overlap.                                          *)

Holds(tasks, c) == \E i \in 1..Len(tasks) : tasks[i].by = c

Grown(old, new) == Len(old) <= Len(new) /\ \A i \in 1..Len(old) : new[i] = old[i]

\* One call at a time has begun and not ended.
Alone == \A c, d \in Creators : call[c] \notin Ended /\ call[d] \notin Ended => c = d

\* What a call will put in place is the file with its own task behind, and
\* until it has written that, nobody can mistake it for a document.
Going(c) ==
    /\ call[c] \notin Ended => Holds(mine[c], c) /\ Grown(Load, mine[c])
    /\ call[c] = "open" => tmpAt # Nowhere /\ fd[c] = tmpAt /\ disk[tmpAt] = Unreadable
    /\ call[c] = "written" => tmpAt # Nowhere /\ disk[tmpAt] = Whole(mine[c])

KeptInv ==
    /\ TasksInv /\ Alone
    /\ tmpAt # fileAt /\ disk[fileAt] # Unreadable
    /\ \A c \in Creators : call[c] = "created" => Holds(Load, c)
    /\ \A c \in Creators : Going(c)

LEMMA GrownIsTransitive ==
  ASSUME NEW a \in Seq(Tasks), NEW b \in Seq(Tasks), NEW c \in Seq(Tasks), Grown(a, b), Grown(b, c)
  PROVE  Grown(a, c)
  <1>1. Len(a) \in Nat /\ Len(b) \in Nat /\ Len(c) \in Nat
    BY LenProperties
  <1> QED BY <1>1 DEF Grown

LEMMA GrownHolds ==
  ASSUME NEW a \in Seq(Tasks), NEW b \in Seq(Tasks), Grown(a, b), NEW c, Holds(a, c)
  PROVE  Holds(b, c)
  <1>1. Len(a) \in Nat /\ Len(b) \in Nat
    BY LenProperties
  <1> QED BY <1>1 DEF Grown, Holds

LEMMA AppendGrows ==
  ASSUME NEW a \in Seq(Tasks), NEW task \in Tasks
  PROVE  Grown(a, Append(a, task)) /\ Holds(Append(a, task), task.by)
  <1>1. /\ Len(a) \in Nat /\ Len(Append(a, task)) = Len(a) + 1
        /\ Append(a, task)[Len(a) + 1] = task
        /\ \A i \in 1..Len(a) : Append(a, task)[i] = a[i]
    BY AppendProperties, LenProperties
  <1>2. Len(a) + 1 \in 1..Len(Append(a, task))
    BY <1>1
  <1> HIDE DEF Holds
  <1>3. Grown(a, Append(a, task))
    BY <1>1 DEF Grown
  <1> QED BY <1>1, <1>2, <1>3 DEF Holds

LEMMA SelfGrown == ASSUME NEW a \in Seq(Tasks) PROVE Grown(a, a)
  <1>1. Len(a) \in Nat
    BY LenProperties
  <1> QED BY <1>1 DEF Grown

\* While one acts the others have ended.
LEMMA OthersHaveEnded ==
  ASSUME KeptInv, NEW c \in Creators, NEW to,
         call[c] \notin Ended \/ \A d \in Creators : call[d] \in Ended,
         call' = [call EXCEPT ![c] = to]
  PROVE  /\ call'[c] = to
         /\ \A d \in Creators : d # c => call'[d] = call[d] /\ call'[d] \in Ended
         /\ Alone'
  <1>1. \A d \in Creators : d # c => call[d] \in Ended
    BY DEF KeptInv, Alone
  <1>2. call'[c] = to /\ \A d \in Creators : d # c => call'[d] = call[d]
    BY DEF KeptInv, TasksInv, TasksTypeOK
  <1>3. Alone'
    BY <1>1, <1>2 DEF Alone
  <1> QED BY <1>1, <1>2, <1>3

\* Someone who has ended is going nowhere.
LEMMA EndedGoes ==
  ASSUME NEW d \in Creators, call'[d] \in Ended
  PROVE  Going(d)'
  BY DEF Going, Ended

LEMMA KeptInit == TasksInit => KeptInv
  <1> SUFFICES ASSUME TasksInit PROVE KeptInv
    OBVIOUS
  <1>1. TasksInv
    BY TasksInitInv
  <1>2. \A c \in Creators : call[c] = "new"
    BY DEF TasksInit
  <1>3. disk[fileAt] = Whole(<<>>) /\ tmpAt # fileAt
    BY <1>1 DEF TasksInit, TasksInv, TasksTypeOK, Nowhere
  <1>4. disk[fileAt] # Unreadable
    BY <1>3, WholeIsReadable
  <1>5. \A c \in Creators : Going(c)
    BY <1>2 DEF Going, Ended
  <1>6. Alone
    BY <1>2 DEF Alone, Ended
  <1> QED BY <1>1, <1>2, <1>3, <1>4, <1>5, <1>6 DEF KeptInv

\* A step that leaves the file alone.
LEMMA FileStays ==
  ASSUME KeptInv, TasksInv', NEW c \in Creators, NEW to,
         call[c] \notin Ended \/ \A d \in Creators : call[d] \in Ended,
         call' = [call EXCEPT ![c] = to], to # "created",
         fileAt' = fileAt, disk'[fileAt] = disk[fileAt], tmpAt' # fileAt,
         Going(c)'
  PROVE  KeptInv' /\ Load' = Load
  <1>1. /\ call'[c] = to /\ Alone'
        /\ \A d \in Creators : d # c => call'[d] = call[d] /\ call'[d] \in Ended
    BY OthersHaveEnded
  <1>2. \A d \in Creators : Going(d)'
    BY <1>1, EndedGoes
  <1>3. Load' = Load /\ disk'[fileAt'] # Unreadable
    BY DEF Load, KeptInv
  <1>4. \A d \in Creators : call'[d] = "created" => Holds(Load, d)
    BY <1>1 DEF KeptInv
  <1> QED BY <1>1, <1>2, <1>3, <1>4 DEF KeptInv

\* One creation goes on: the file stays, or becomes the longer one.
LEMMA CreatesStep ==
  ASSUME ~TogetherAllowed, KeptInv, NEW c \in Creators, Creates(c)
  PROVE  KeptInv' /\ Grown(Load, Load')
  <1>1. TasksInv /\ TasksInv' /\ Going(c)
    BY TasksNextInv DEF KeptInv, TasksNext
  <1>2. Load \in Seq(Tasks) /\ mine[c] \in Seq(Tasks) /\ Grown(Load, Load)
    BY <1>1, LoadInOrder, SelfGrown DEF TasksInv, TasksTypeOK
  <1>3. tmpAt # fileAt /\ fileAt # Nowhere /\ fileAt \in Inodes
    BY DEF KeptInv, TasksInv, TasksTypeOK, Nowhere, Inodes
  <1>4. CASE Loads(c)
    <2>1. /\ call' = [call EXCEPT ![c] = "loaded"] /\ \A d \in Creators : call[d] \in Ended
          /\ disk' = disk /\ fileAt' = fileAt /\ tmpAt' = tmpAt
      BY <1>4 DEF Loads, MayStart
    <2>2. PICK task \in Tasks : task.by = c /\ mine' = [mine EXCEPT ![c] = Append(Load, task)]
      BY <1>1, <1>4, LoadsStep
    <2>3. mine'[c] = Append(Load, task)
      BY <1>1, <2>2 DEF TasksInv, TasksTypeOK
    <2>4. Load' = Load /\ call'[c] = "loaded"
      BY <1>1, <2>1 DEF Load, TasksInv, TasksTypeOK
    <2>5. Holds(mine'[c], c) /\ Grown(Load', mine'[c])
      BY <1>2, <2>2, <2>3, <2>4, AppendGrows
    <2>6. Going(c)'
      BY <2>4, <2>5 DEF Going
    <2>7. "loaded" # "created"
      OBVIOUS
    <2>8. KeptInv' /\ Load' = Load
      BY <1>1, <1>3, <2>1, <2>6, <2>7, FileStays
    <2> QED BY <1>2, <2>8
  <1>5. CASE OpensTemporary(c)
    <2>1. PICK i \in Inodes : /\ i = tmpAt \/ i # fileAt
                              /\ disk' = [disk EXCEPT ![i] = Unreadable]
                              /\ fd' = [fd EXCEPT ![c] = i] /\ tmpAt' = i
      BY <1>5 DEF OpensTemporary
    <2>2. /\ call[c] = "loaded" /\ call' = [call EXCEPT ![c] = "open"]
          /\ fileAt' = fileAt /\ mine' = mine
      BY <1>5 DEF OpensTemporary
    <2>3. /\ disk'[fileAt] = disk[fileAt] /\ disk'[i] = Unreadable /\ fd'[c] = i
          /\ i # Nowhere /\ call'[c] = "open"
      BY <1>1, <1>3, <2>1, <2>2 DEF TasksInv, TasksTypeOK, Nowhere, Inodes
    <2>4. Load' = Load
      BY <2>2, <2>3 DEF Load
    <2>5. Going(c)'
      BY <1>1, <2>1, <2>2, <2>3, <2>4 DEF Going, Ended
    <2>6. call[c] \notin Ended /\ "open" # "created" /\ tmpAt' # fileAt
      BY <1>3, <2>1, <2>2 DEF Ended
    <2>7. KeptInv' /\ Load' = Load
      BY <1>1, <2>2, <2>3, <2>5, <2>6, FileStays
    <2> QED BY <1>2, <2>7
  <1>6. CASE Writes(c)
    <2>1. /\ call[c] = "open" /\ call' = [call EXCEPT ![c] = "written"]
          /\ fileAt' = fileAt /\ tmpAt' = tmpAt /\ mine' = mine
      BY <1>6 DEF Writes
    <2>2. tmpAt # Nowhere /\ fd[c] = tmpAt /\ disk[fd[c]] = Unreadable
      BY <1>1, <2>1 DEF Going
    <2>3. disk' = [disk EXCEPT ![tmpAt] = Whole(mine[c])]
      BY <1>6, <2>2 DEF Writes
    <2>4. /\ disk'[fileAt] = disk[fileAt] /\ disk'[tmpAt] = Whole(mine[c])
          /\ call'[c] = "written"
      BY <1>1, <1>3, <2>1, <2>2, <2>3 DEF TasksInv, TasksTypeOK
    <2>5. Load' = Load
      BY <2>1, <2>4 DEF Load
    <2>6. Going(c)'
      BY <1>1, <2>1, <2>2, <2>4, <2>5 DEF Going, Ended
    <2>7. call[c] \notin Ended /\ "written" # "created" /\ tmpAt' # fileAt
      BY <1>3, <2>1 DEF Ended
    <2>8. KeptInv' /\ Load' = Load
      BY <1>1, <2>1, <2>4, <2>6, <2>7, FileStays
    <2> QED BY <1>2, <2>8
  <1>7. CASE Replaces(c)
    <2>1. /\ call[c] = "written" /\ call' = [call EXCEPT ![c] = "created"]
          /\ fileAt' = tmpAt /\ tmpAt' = Nowhere /\ disk' = disk /\ mine' = mine
      BY <1>7 DEF Replaces
    <2>2. tmpAt # Nowhere /\ disk[tmpAt] = Whole(mine[c]) /\ Holds(mine[c], c) /\ Grown(Load, mine[c])
      BY <1>1, <2>1 DEF Going, Ended
    <2>3. disk'[fileAt'] = Whole(mine[c])
      BY <2>1, <2>2
    <2>4. disk'[fileAt'] # Unreadable /\ Load' = mine[c]
      BY <2>3, WholeIsReadable DEF Load
    <2>5. tmpAt' # fileAt'
      BY <2>1, <2>2
    <2>6. call[c] \notin Ended
      BY <2>1 DEF Ended
    <2>7. /\ call'[c] = "created" /\ Alone'
          /\ \A d \in Creators : d # c => call'[d] = call[d] /\ call'[d] \in Ended
      BY <2>1, <2>6, OthersHaveEnded
    <2>8. \A d \in Creators : Going(d)'
      BY <2>7, EndedGoes DEF Ended
    <2>9. ASSUME NEW d \in Creators, call'[d] = "created" PROVE Holds(Load', d)
      <3>1. CASE d = c
        BY <2>2, <2>4, <3>1
      <3>2. CASE d # c
        <4>1. Holds(Load, d)
          BY <2>7, <2>9, <3>2 DEF KeptInv
        <4> QED BY <1>2, <2>2, <2>4, <4>1, GrownHolds
      <3> QED BY <3>1, <3>2
    <2> QED BY <1>1, <2>2, <2>4, <2>5, <2>7, <2>8, <2>9 DEF KeptInv
  <1>8. CASE NothingToReplace(c)
    BY <1>1, <1>8 DEF NothingToReplace, Going
  <1>9. CASE Killed(c)
    <2>1. /\ call[c] \notin Ended /\ call' = [call EXCEPT ![c] = "failed"]
          /\ disk' = disk /\ fileAt' = fileAt /\ tmpAt' = tmpAt
      BY <1>9 DEF Killed
    <2>2. call'[c] = "failed"
      BY <1>1, <2>1 DEF TasksInv, TasksTypeOK
    <2>3. Going(c)'
      BY <2>2, EndedGoes DEF Ended
    <2>4. "failed" # "created" /\ disk'[fileAt] = disk[fileAt] /\ tmpAt' # fileAt
      BY <1>3, <2>1
    <2>5. KeptInv' /\ Load' = Load
      BY <1>1, <2>1, <2>3, <2>4, FileStays
    <2> QED BY <1>2, <2>5
  <1> QED BY <1>4, <1>5, <1>6, <1>7, <1>8, <1>9 DEF Creates

LEMMA KeptNext ==
  ASSUME ~TogetherAllowed
  PROVE  KeptInv /\ [TasksNext]_taskVars => KeptInv' /\ Grown(Load, Load')
  <1> SUFFICES ASSUME KeptInv, [TasksNext]_taskVars PROVE KeptInv' /\ Grown(Load, Load')
    OBVIOUS
  <1>1. ASSUME NEW c \in Creators, Creates(c) PROVE KeptInv' /\ Grown(Load, Load')
    BY <1>1, CreatesStep
  <1>2. CASE UNCHANGED taskVars
    <2>1. TasksInv'
      BY <1>2, TasksNextInv DEF KeptInv
    <2>2. Load' = Load
      BY <1>2 DEF taskVars, Load
    <2>3. Grown(Load, Load)
      BY LoadInOrder, SelfGrown DEF KeptInv
    <2>4. KeptInv'
      BY <1>2, <2>1, <2>2 DEF taskVars, KeptInv, Alone, Going
    <2> QED BY <2>2, <2>3, <2>4
  <1> QED BY <1>1, <1>2 DEF TasksNext

\* As long as creations do not overlap, the file is whole at every instant
\* and holds every task whose creation was confirmed, whoever is killed.
THEOREM NoTaskIsLost == ~TogetherAllowed /\ TasksSpec => []TasksAreKept
  <1>1. KeptInv => TasksAreKept
    BY DEF KeptInv, TasksAreKept, NeverTruncated, ConfirmedIsKept, Holds
  <1>2. ASSUME ~TogetherAllowed PROVE TasksSpec => []TasksAreKept
    BY <1>1, <1>2, KeptInit, KeptNext, PTL DEF TasksSpec
  <1> QED BY <1>2

-----------------------------------------------------------------------------
(* The newest of a sequence.                                               *)

\* The newest n of a sequence, by their places.
LEMMA NewestIs ==
  ASSUME NEW S, NEW s \in Seq(S), NEW n \in Nat \ {0}
  PROVE  /\ Newest(s, n) \in Seq(S)
         /\ Len(s) <= n => Newest(s, n) = s
         /\ Len(s) > n =>
              Len(Newest(s, n)) = n /\ \A i \in 1..n : Newest(s, n)[i] = s[(Len(s) - n) + i]
  <1>1. Len(s) \in Nat /\ \A i \in 1..Len(s) : s[i] \in S
    BY LenProperties, ElementOfSeq
  <1>2. CASE Len(s) <= n
    <2>1. ~(Len(s) > n)
      BY <1>1, <1>2
    <2>2. Newest(s, n) = SubSeq(s, 1, Len(s))
      BY <2>1, Zenon DEF Newest
    <2>3. SubSeq(s, 1, Len(s)) = s
      BY SubSeqFull
    <2> QED BY <2>1, <2>2, <2>3
  <1>3. CASE Len(s) > n
    <2> DEFINE m == Len(s) - n + 1
    <2>1. m \in Int /\ m >= 1 /\ m <= Len(s) /\ Len(s) - m + 1 = n
      BY <1>1, <1>3
    <2>2. Newest(s, n) = SubSeq(s, m, Len(s))
      BY <1>3 DEF Newest
    <2>3. \A i \in m..Len(s) : s[i] \in S
      BY <1>1, <2>1
    <2>4. \A i \in 1..n : m + i - 1 = (Len(s) - n) + i
      BY <1>1
    <2> HIDE DEF m
    <2>5. /\ SubSeq(s, m, Len(s)) \in Seq(S)
          /\ Len(SubSeq(s, m, Len(s))) = Len(s) - m + 1
          /\ \A i \in 1..(Len(s) - m + 1) : SubSeq(s, m, Len(s))[i] = s[m + i - 1]
      BY <1>1, <2>1, <2>3, SubSeqProperties
    <2>6. ~(Len(s) <= n)
      BY <1>1, <1>3
    <2> QED BY <2>1, <2>2, <2>4, <2>5, <2>6
  <1> QED BY <1>1, <1>2, <1>3

\* What has been left out of the newest would be left out later, too.
LEMMA NewestOfMore ==
  ASSUME NEW S, NEW s \in Seq(S), NEW x \in Seq(S), NEW n \in Nat \ {0}
  PROVE  Newest(Newest(s, n) \o x, n) = Newest(s \o x, n)
  <1> DEFINE t == Newest(s, n)
             a == t \o x
             b == s \o x
  <1>1. Len(s) \in Nat /\ Len(x) \in Nat
    BY LenProperties
  <1>2. t \in Seq(S)
    BY NewestIs
  <1>3. CASE Len(s) <= n
    BY <1>3, NewestIs
  <1>4. CASE Len(s) > n
    <2>1. Len(t) = n /\ \A i \in 1..n : t[i] = s[(Len(s) - n) + i]
      BY <1>4, NewestIs
    <2> HIDE DEF t
    <2>2. /\ a \in Seq(S) /\ Len(a) = n + Len(x)
          /\ \A i \in 1..(n + Len(x)) : a[i] = IF i <= n THEN t[i] ELSE x[i - n]
      BY <1>2, <2>1, ConcatProperties
    <2>3. /\ b \in Seq(S) /\ Len(b) = Len(s) + Len(x)
          /\ \A i \in 1..(Len(s) + Len(x)) : b[i] = IF i <= Len(s) THEN s[i] ELSE x[i - Len(s)]
      BY ConcatProperties
    <2> HIDE DEF a, b
    <2>4. /\ Newest(b, n) \in Seq(S) /\ Len(Newest(b, n)) = n
          /\ \A i \in 1..n : Newest(b, n)[i] = b[(Len(b) - n) + i]
      <3>1. Len(b) > n
        BY <1>1, <1>4, <2>3
      <3> QED BY <2>3, <3>1, NewestIs
    <2>5. ASSUME NEW i \in 1..n
          PROVE  a[Len(x) + i] = b[(Len(b) - n) + i]
      <3> DEFINE k == Len(x) + i
                 l == (Len(b) - n) + i
      <3>1. k \in 1..(n + Len(x)) /\ l \in 1..(Len(s) + Len(x)) /\ l = (Len(s) - n) + k
        BY <1>1, <1>4, <2>3
      <3> HIDE DEF k, l
      <3>2. CASE k <= n
        <4>1. l <= Len(s) /\ k \in 1..n
          BY <1>1, <1>4, <3>1, <3>2
        <4>2. a[k] = t[k] /\ b[l] = s[l]
          BY <2>2, <2>3, <3>1, <3>2, <4>1
        <4> QED BY <2>1, <3>1, <4>1, <4>2 DEF k, l
      <3>3. CASE k > n
        <4>1. ~(l <= Len(s)) /\ ~(k <= n) /\ k - n = l - Len(s)
          BY <1>1, <1>4, <3>1, <3>3
        <4>2. a[k] = x[k - n] /\ b[l] = x[l - Len(s)]
          BY <2>2, <2>3, <3>1, <4>1
        <4> QED BY <4>1, <4>2 DEF k, l
      <3>4. k <= n \/ k > n
        BY <3>1
      <3> QED BY <3>2, <3>3, <3>4
    <2>6. /\ Newest(a, n) \in Seq(S) /\ Len(Newest(a, n)) = n
          /\ \A i \in 1..n : Newest(a, n)[i] = a[Len(x) + i]
      <3>1. CASE Len(x) = 0
        <4>1. Len(a) <= n /\ Len(a) = n /\ \A i \in 1..n : Len(x) + i = i
          BY <2>2, <3>1
        <4>2. Newest(a, n) = a
          BY <2>2, <4>1, NewestIs
        <4> QED BY <2>2, <4>1, <4>2
      <3>2. CASE Len(x) # 0
        <4>1. Len(a) > n /\ \A i \in 1..n : (Len(a) - n) + i = Len(x) + i
          BY <1>1, <2>2, <3>2
        <4>2. Len(Newest(a, n)) = n /\ \A i \in 1..n : Newest(a, n)[i] = a[(Len(a) - n) + i]
          BY <2>2, <4>1, NewestIs
        <4>3. \A i \in 1..n : Newest(a, n)[i] = a[Len(x) + i]
          BY <4>1, <4>2
        <4>4. Newest(a, n) \in Seq(S)
          BY <2>2, NewestIs
        <4> QED BY <4>2, <4>3, <4>4
      <3> QED BY <3>1, <3>2
    <2>7. \A i \in 1..n : Newest(a, n)[i] = Newest(b, n)[i]
      BY <2>4, <2>5, <2>6
    <2>8. Newest(a, n) = Newest(b, n)
      <3> HIDE DEF Newest
      <3>1. Len(Newest(a, n)) = Len(Newest(b, n))
        BY <2>4, <2>6
      <3>2. \A i \in 1..Len(Newest(a, n)) : Newest(a, n)[i] = Newest(b, n)[i]
        BY <2>6, <2>7
      <3> QED BY <2>4, <2>6, <3>1, <3>2, SeqEqual
    <2> QED BY <2>8 DEF a, b, t
  <1>5. Len(s) <= n \/ Len(s) > n
    BY <1>1
  <1> QED BY <1>3, <1>4, <1>5

-----------------------------------------------------------------------------
(* The words the runs brought.                                             *)

Runs == [at : Nat, words : 0..WordsPerRun]

WordsOfRun(run) == [j \in 1..run.words |-> run.at]

LEMMA WordsAreTimes ==
  ASSUME NEW run \in Runs
  PROVE  WordsOfRun(run) \in Seq(Nat) /\ Len(WordsOfRun(run)) = run.words
  <1>1. run.words \in Nat /\ run.at \in Nat
    BY DigestAssumption DEF Runs
  <1> QED BY <1>1 DEF WordsOfRun

LEMMA LeastOne ==
  ASSUME NEW T, T \subseteq Nat, T # {}
  PROVE  \E x \in T : \A y \in T : x <= y
  <1> DEFINE Less == {pair \in Nat \X Nat : pair[1] < pair[2]}
  <1>1. IsWellFoundedOn(Less, Nat)
    BY NatLessThanWellFounded DEF OpToRel
  <1>2. PICK x \in T : \A y \in T : <<y, x>> \notin Less
    <2> HIDE DEF Less
    <2> QED BY <1>1, WFMin, Zenon
  <1>3. ASSUME NEW y \in T PROVE x <= y
    <2>1. x \in Nat /\ y \in Nat
      OBVIOUS
    <2>2. y < x => <<y, x>> \in Less
      BY <2>1
    <2> QED BY <1>2, <2>1, <2>2
  <1> QED BY <1>3

\* Induction up to n, of a set.
LEMMA UpTo ==
  ASSUME NEW n \in Nat, NEW S, 0 \in S, \A i \in 0..n : i < n /\ i \in S => i + 1 \in S
  PROVE  \A i \in 0..n : i \in S
  <1> DEFINE T == {i \in 0..n : i \notin S}
  <1>1. SUFFICES ASSUME T # {} PROVE FALSE
    OBVIOUS
  <1>2. T \subseteq Nat
    OBVIOUS
  <1>3. PICK x \in T : \A y \in T : x <= y
    <2> HIDE DEF T
    <2> QED BY <1>1, <1>2, LeastOne
  <1>4. x # 0 /\ x - 1 \in 0..n /\ x - 1 < n /\ ~(x <= x - 1)
    OBVIOUS
  <1>5. x - 1 \in S
    BY <1>3, <1>4
  <1>6. (x - 1) + 1 \in S /\ (x - 1) + 1 = x
    BY <1>4, <1>5
  <1> QED BY <1>6

\* g has the words of the first i runs at i, up to n.
Gathers(g, runs, n) ==
    /\ g \in [0..n -> Seq(Nat)] /\ g[0] = <<>>
    /\ \A i \in 1..n : g[i] = g[i - 1] \o WordsOfRun(runs[i])

LEMMA GatheringGoesOn ==
  ASSUME NEW runs \in Seq(Runs), NEW i \in Nat, i < Len(runs), NEW g, Gathers(g, runs, i)
  PROVE  \E more : Gathers(more, runs, i + 1)
  <1>1. Len(runs) \in Nat /\ i + 1 \in 1..Len(runs)
    BY LenProperties
  <1>2. runs[i + 1] \in Runs
    BY <1>1, ElementOfSeq
  <1> DEFINE new == g[i] \o WordsOfRun(runs[i + 1])
             more == [j \in 0..(i + 1) |-> IF j = i + 1 THEN new ELSE g[j]]
  <1>3. g[i] \in Seq(Nat) /\ WordsOfRun(runs[i + 1]) \in Seq(Nat)
    BY <1>2, WordsAreTimes DEF Gathers
  <1>4. new \in Seq(Nat)
    BY <1>3, ConcatProperties
  <1>5. more[i + 1] = new
    OBVIOUS
  <1> HIDE DEF new
  <1>6. \A j \in 0..i : more[j] = g[j]
    OBVIOUS
  <1>7. more \in [0..(i + 1) -> Seq(Nat)]
    <2>1. ASSUME NEW j \in 0..(i + 1) PROVE (IF j = i + 1 THEN new ELSE g[j]) \in Seq(Nat)
      <3>1. j # i + 1 => j \in 0..i
        OBVIOUS
      <3> QED BY <1>4, <3>1 DEF Gathers
    <2> QED BY <2>1
  <1> HIDE DEF more
  <1>8. ASSUME NEW j \in 1..(i + 1) PROVE more[j] = more[j - 1] \o WordsOfRun(runs[j])
    <2>1. CASE j = i + 1
      <3>1. j - 1 = i /\ i \in 0..i
        BY <2>1
      <3> QED BY <1>5, <1>6, <2>1, <3>1 DEF new
    <2>2. CASE j # i + 1
      <3>1. j \in 1..i /\ j \in 0..i /\ j - 1 \in 0..i
        BY <2>2
      <3> QED BY <1>6, <3>1 DEF Gathers
    <2> QED BY <2>1, <2>2
  <1>9. more[0] = <<>>
    <2>1. 0 \in 0..i
      OBVIOUS
    <2> QED BY <1>6, <2>1 DEF Gathers
  <1> QED BY <1>7, <1>8, <1>9 DEF Gathers

LEMMA GathererExists ==
  ASSUME NEW runs \in Seq(Runs)
  PROVE  \E g : Gathers(g, runs, Len(runs))
  <1> DEFINE n == Len(runs)
             S == {i \in 0..n : \E g : Gathers(g, runs, i)}
  <1>1. n \in Nat
    BY LenProperties
  <1>2. 0 \in S
    <2> DEFINE g == [i \in 0..0 |-> <<>>]
    <2>1. g \in [0..0 -> Seq(Nat)] /\ g[0] = <<>> /\ 1..0 = {}
      BY EmptySeq
    <2> HIDE DEF g
    <2>2. Gathers(g, runs, 0)
      BY <2>1 DEF Gathers
    <2> QED BY <1>1, <2>2
  <1>3. ASSUME NEW i \in 0..n, i < n, i \in S PROVE i + 1 \in S
    <2>1. \E g : Gathers(g, runs, i)
      BY <1>3
    <2>2. \E g : Gathers(g, runs, i + 1)
      BY <1>1, <1>3, <2>1, GatheringGoesOn
    <2> QED BY <1>1, <1>3, <2>2
  <1>4. \A i \in 0..n : i \in S
    <2> HIDE DEF S
    <2> QED BY <1>1, <1>2, <1>3, UpTo
  <1> QED BY <1>1, <1>4

\* The function the words are read from is such a g.
LEMMA WordsAreGathered ==
  ASSUME NEW runs \in Seq(Runs)
  PROVE  \E g : Gathers(g, runs, Len(runs)) /\ WordsOf(runs) = g[Len(runs)]
  <1> DEFINE n == Len(runs)
             Step(g, i) == IF i = 0 THEN <<>> ELSE g[i - 1] \o [j \in 1..runs[i].words |-> runs[i].at]
             Is(g) == g = [i \in 0..n |-> Step(g, i)]
             words == CHOOSE g : Is(g)
  <1>1. WordsOf(runs) = words[n]
    BY DEF WordsOf
  <1>2. PICK g : Gathers(g, runs, n)
    BY GathererExists
  <1>3. n \in Nat
    BY LenProperties
  <1>4. ASSUME NEW i \in 0..n PROVE g[i] = Step(g, i)
    <2>1. CASE i = 0
      BY <1>2, <2>1 DEF Gathers
    <2>2. CASE i # 0
      <3>1. i \in 1..n
        BY <1>3, <2>2
      <3> QED BY <1>2, <2>2, <3>1 DEF Gathers, WordsOfRun
    <2> QED BY <2>1, <2>2
  <1>5. Is(g)
    <2>1. g = [i \in 0..n |-> g[i]]
      BY <1>2 DEF Gathers
    <2> HIDE DEF Step
    <2> QED BY <1>4, <2>1
  <1>6. Is(words)
    <2> HIDE DEF Is
    <2> QED BY <1>5
  <1> HIDE DEF words
  <1>7. DOMAIN words = 0..n /\ \A i \in 0..n : words[i] = Step(words, i)
    <2> HIDE DEF Step
    <2> QED BY <1>6
  <1>8. words[0] = <<>> /\ \A i \in 1..n : words[i] = words[i - 1] \o WordsOfRun(runs[i])
    <2>1. 0 \in 0..n /\ \A i \in 1..n : i \in 0..n /\ i # 0
      BY <1>3
    <2>2. words[0] = <<>>
      BY <1>7, <2>1
    <2>3. ASSUME NEW i \in 1..n PROVE words[i] = words[i - 1] \o WordsOfRun(runs[i])
      BY <1>7, <2>1 DEF WordsOfRun
    <2> QED BY <2>2, <2>3
  <1> HIDE DEF Step
  <1> DEFINE S == {i \in 0..n : words[i] \in Seq(Nat)}
  <1>9. 0 \in S
    <2>1. 0 \in 0..n
      BY <1>3
    <2>2. words[0] \in Seq(Nat)
      BY <1>8, EmptySeq
    <2> QED BY <2>1, <2>2
  <1>10. ASSUME NEW i \in 0..n, i < n, i \in S PROVE i + 1 \in S
    <2>1. i + 1 \in 1..n /\ (i + 1) - 1 = i /\ i + 1 \in 0..n
      BY <1>3, <1>10
    <2>2. runs[i + 1] \in Runs
      BY <2>1, ElementOfSeq
    <2>3. words[i + 1] = words[i] \o WordsOfRun(runs[i + 1])
      BY <1>8, <2>1
    <2>4. words[i] \in Seq(Nat) /\ WordsOfRun(runs[i + 1]) \in Seq(Nat)
      BY <1>10, <2>2, WordsAreTimes
    <2>5. words[i + 1] \in Seq(Nat)
      BY <2>3, <2>4, ConcatProperties
    <2> QED BY <2>1, <2>5
  <1>11. \A i \in 0..n : i \in S
    <2> HIDE DEF S
    <2> QED BY <1>3, <1>9, <1>10, UpTo
  <1>12. words = [i \in 0..n |-> words[i]]
    BY <1>6, <1>7 DEF Is
  <1>13. words \in [0..n -> Seq(Nat)]
    BY <1>11, <1>12
  <1>14. Gathers(words, runs, n)
    BY <1>8, <1>13 DEF Gathers
  <1> QED BY <1>1, <1>14

\* One more run brings its words after the others.
LEMMA WordsOfMore ==
  ASSUME NEW runs \in Seq(Runs), NEW run \in Runs
  PROVE  /\ WordsOf(runs) \in Seq(Nat)
         /\ WordsOf(Append(runs, run)) = WordsOf(runs) \o WordsOfRun(run)
  <1> DEFINE n == Len(runs)
             more == Append(runs, run)
  <1>1. /\ more \in Seq(Runs) /\ Len(more) = n + 1 /\ n \in Nat
        /\ more[n + 1] = run /\ \A i \in 1..n : more[i] = runs[i]
    BY AppendProperties, LenProperties
  <1>2. PICK g : Gathers(g, runs, n) /\ WordsOf(runs) = g[n]
    BY WordsAreGathered
  <1> HIDE DEF more
  <1>3. PICK h : Gathers(h, more, n + 1) /\ WordsOf(more) = h[n + 1]
    BY <1>1, WordsAreGathered
  <1> DEFINE S == {i \in 0..n : h[i] = g[i]}
  <1>4. 0 \in S
    BY <1>1, <1>2, <1>3 DEF Gathers
  <1>5. ASSUME NEW i \in 0..n, i < n, i \in S PROVE i + 1 \in S
    <2>1. i + 1 \in 1..n /\ i + 1 \in 1..(n + 1) /\ (i + 1) - 1 = i /\ i + 1 \in 0..n
      BY <1>1, <1>5
    <2>2. g[i + 1] = g[i] \o WordsOfRun(runs[i + 1])
      BY <1>2, <2>1 DEF Gathers
    <2>3. h[i + 1] = h[i] \o WordsOfRun(more[i + 1])
      BY <1>3, <2>1 DEF Gathers
    <2>4. h[i] = g[i] /\ more[i + 1] = runs[i + 1]
      BY <1>1, <1>5, <2>1
    <2> QED BY <2>1, <2>2, <2>3, <2>4
  <1>6. \A i \in 0..n : i \in S
    <2> HIDE DEF S
    <2> QED BY <1>1, <1>4, <1>5, UpTo
  <1>7. n \in 0..n /\ n + 1 \in 1..(n + 1) /\ (n + 1) - 1 = n
    BY <1>1
  <1>8. h[n] = g[n] /\ g[n] \in Seq(Nat)
    BY <1>2, <1>6, <1>7 DEF Gathers
  <1>9. h[n + 1] = h[n] \o WordsOfRun(run)
    BY <1>1, <1>3, <1>7 DEF Gathers
  <1> QED BY <1>2, <1>3, <1>8, <1>9 DEF more

LEMMA NoWords == WordsOf(<<>>) = <<>>
  <1>1. <<>> \in Seq(Runs) /\ Len(<<>>) = 0
    BY EmptySeq
  <1>2. PICK g : Gathers(g, <<>>, 0) /\ WordsOf(<<>>) = g[0]
    BY <1>1, WordsAreGathered
  <1> QED BY <1>2 DEF Gathers

-----------------------------------------------------------------------------
(* What a record tells.                                                    *)

FailedRuns(runs) == {i \in 1..Len(runs) : Failed(runs[i])}

\* A record tells of just these runs, and so says when the last one began.
Tells(state, runs) ==
    /\ state.totalRuns = Len(runs)
    /\ state.failedRuns = Cardinality(FailedRuns(runs))
    /\ state.totalItems = Len(WordsOf(runs))
    /\ state.runs = Newest(runs, RunsKept)
    /\ state.items = Newest(WordsOf(runs), ItemsKept)
    /\ state.lastRunAt = IF runs = <<>> THEN NeverRan ELSE runs[Len(runs)].at

LEMMA NewStateTells == Tells(NewState, <<>>)
  <1>1. Len(<<>>) = 0 /\ <<>> \in Seq(Nat) /\ 1..0 = {}
    BY EmptySeq
  <1>2. RunsKept \in Nat \ {0} /\ ItemsKept \in Nat \ {0} /\ 0 <= RunsKept /\ 0 <= ItemsKept
    BY DigestAssumption
  <1>3. Newest(<<>>, RunsKept) = <<>> /\ Newest(<<>>, ItemsKept) = <<>>
    BY <1>1, <1>2, NewestIs
  <1>4. FailedRuns(<<>>) = {}
    BY <1>1 DEF FailedRuns
  <1>5. Cardinality(FailedRuns(<<>>)) = 0
    BY <1>4, FS_EmptySet
  <1> QED BY <1>1, <1>3, <1>5, NoWords DEF Tells, NewState

LEMMA OneMoreFails ==
  ASSUME NEW runs \in Seq(Runs), NEW run \in Runs
  PROVE  Cardinality(FailedRuns(Append(runs, run)))
           = Cardinality(FailedRuns(runs)) + IF Failed(run) THEN 1 ELSE 0
  <1> DEFINE n == Len(runs)
             more == Append(runs, run)
  <1>1. /\ Len(more) = n + 1 /\ n \in Nat
        /\ more[n + 1] = run /\ \A i \in 1..n : more[i] = runs[i]
    BY AppendProperties, LenProperties
  <1> HIDE DEF more
  <1>2. IsFiniteSet(FailedRuns(runs)) /\ n + 1 \notin FailedRuns(runs)
    <2>1. IsFiniteSet(1..n)
      BY <1>1, FS_Interval
    <2>2. FailedRuns(runs) \subseteq 1..n
      BY DEF FailedRuns
    <2>3. n + 1 \notin 1..n
      BY <1>1
    <2> QED BY <2>1, <2>2, <2>3, FS_Subset
  <1>3. \A i \in 1..(n + 1) : i = n + 1 \/ i \in 1..n
    BY <1>1
  <1>4. n + 1 \in 1..(n + 1) /\ \A i \in 1..n : i \in 1..(n + 1)
    BY <1>1
  <1>5. CASE Failed(run)
    <2>1. \A i : i \in FailedRuns(more) <=> i \in FailedRuns(runs) \cup {n + 1}
      BY <1>1, <1>3, <1>4, <1>5 DEF FailedRuns
    <2>2. FailedRuns(more) = FailedRuns(runs) \cup {n + 1}
      BY <2>1
    <2>3. Cardinality(FailedRuns(more)) = Cardinality(FailedRuns(runs)) + 1
      BY <1>2, <2>2, FS_AddElement
    <2> QED BY <1>5, <2>3 DEF more
  <1>6. CASE ~Failed(run)
    <2>1. \A i : i \in FailedRuns(more) <=> i \in FailedRuns(runs)
      BY <1>1, <1>3, <1>4, <1>6 DEF FailedRuns
    <2>2. FailedRuns(more) = FailedRuns(runs)
      BY <2>1
    <2>3. Cardinality(FailedRuns(runs)) \in Nat
      BY <1>2, FS_CardinalityType
    <2>4. Cardinality(FailedRuns(more)) = Cardinality(FailedRuns(runs)) + 0
      BY <2>2, <2>3
    <2> QED BY <1>6, <2>4 DEF more
  <1> QED BY <1>5, <1>6

\* DigestState.record keeps a record telling what ran.
LEMMA RecordedTells ==
  ASSUME NEW state, NEW runs \in Seq(Runs), Tells(state, runs), NEW run \in Runs
  PROVE  Tells(Recorded(state, run), Append(runs, run))
  <1> DEFINE more == Append(runs, run)
             words == WordsOf(runs)
             new == WordsOfRun(run)
             after == Recorded(state, run)
  <1>1. /\ Len(more) = Len(runs) + 1 /\ more # <<>> /\ more[Len(runs) + 1] = run
        /\ more = runs \o <<run>> /\ <<run>> \in Seq(Runs)
    BY AppendProperties, AppendIsConcat
  <1>2. /\ RunsKept \in Nat \ {0} /\ ItemsKept \in Nat \ {0}
        /\ words \in Seq(Nat) /\ new \in Seq(Nat) /\ Len(new) = run.words
        /\ WordsOf(more) = words \o new
    BY DigestAssumption, WordsOfMore, WordsAreTimes
  <1>3. after.totalRuns = Len(more)
    BY <1>1 DEF Recorded, Tells
  <1>4. after.failedRuns = Cardinality(FailedRuns(more))
    BY OneMoreFails DEF Recorded, Tells
  <1>5. after.totalItems = Len(WordsOf(more))
    <2>1. Len(words \o new) = Len(words) + Len(new)
      BY <1>2, ConcatProperties
    <2> QED BY <1>2, <2>1 DEF Recorded, Tells
  <1>6. after.runs = Newest(more, RunsKept)
    <2> DEFINE kept == Newest(runs, RunsKept)
    <2>1. kept \in Seq(Runs)
      BY <1>2, NewestIs
    <2>2. Append(kept, run) = kept \o <<run>>
      BY <2>1, AppendIsConcat
    <2>3. Newest(kept \o <<run>>, RunsKept) = Newest(runs \o <<run>>, RunsKept)
      BY <1>1, <1>2, NewestOfMore
    <2>4. after.runs = Newest(Append(kept, run), RunsKept)
      BY DEF Recorded, Tells
    <2> QED BY <1>1, <2>2, <2>3, <2>4
  <1>7. after.items = Newest(WordsOf(more), ItemsKept)
    <2>1. Newest(Newest(words, ItemsKept) \o new, ItemsKept) = Newest(words \o new, ItemsKept)
      BY <1>2, NewestOfMore
    <2>2. after.items = Newest(Newest(words, ItemsKept) \o new, ItemsKept)
      BY DEF Recorded, Tells, WordsOfRun
    <2> QED BY <1>2, <2>1, <2>2
  <1>8. after.lastRunAt = more[Len(more)].at
    BY <1>1 DEF Recorded
  <1> HIDE DEF more, after
  <1>9. Tells(after, more)
    BY <1>1, <1>3, <1>4, <1>5, <1>6, <1>7, <1>8 DEF Tells
  <1> QED BY <1>9 DEF after, more

-----------------------------------------------------------------------------
(* The scheduler.                                                          *)

Phases == {"asleep", "looking", "collecting", "down"}

SchedulerShape ==
    /\ clock \in Nat /\ moment \in Nat /\ started \in Nat /\ at \in Nat \ {0}
    /\ phase \in Phases
    /\ list \in Seq(Tasks) /\ InOrder(list, call)
    /\ DOMAIN store = Ids /\ ran \in [Ids -> Seq(Runs)]

\* A tick looks from when it began; a run in flight began no sooner, and its
\* task is due.
OnTime ==
    /\ moment <= clock
    /\ phase = "collecting" => at <= Len(list) /\ moment <= started /\ Due(list[at], moment)

RecordsTell == \A id \in Ids : Tells(store[id], ran[id])

DigestInv == TasksInv /\ SchedulerShape /\ OnTime /\ RecordsTell

\* The tasks of a document are no more than the calls that made them.
LEMMA DocumentsAreShort ==
  ASSUME NEW tasks \in Seq(Tasks), InOrder(tasks, call)
  PROVE  \A i \in 1..Len(tasks) : i \in Ids
  <1> DEFINE n == Len(tasks)
             maker == [i \in 1..n |-> tasks[i].by]
  <1>1. n \in Nat /\ IsFiniteSet(Creators)
    BY LenProperties, DigestTasksAssumption
  <1>2. maker \in [1..n -> Creators]
    BY MadeByCreators
  <1>3. \A i, j \in 1..n : maker[i] = maker[j] => i = j
    BY DEF InOrder
  <1> HIDE DEF maker
  <1>4. maker \in Injection(1..n, Creators)
    BY <1>2, <1>3 DEF Injection, IsInjective
  <1>5. Cardinality(1..n) <= Cardinality(Creators) /\ Cardinality(Creators) \in Nat
    BY <1>1, <1>4, FS_Injection, FS_CardinalityType
  <1>6. Cardinality(1..n) = n
    <2>1. Cardinality(1..n) = IF 1 > n THEN 0 ELSE n - 1 + 1
      BY <1>1, FS_Interval
    <2> QED BY <1>1, <2>1
  <1> QED BY <1>1, <1>5, <1>6 DEF Ids

LEMMA CallsGoOn ==
  ASSUME TasksInv, [TasksNext]_taskVars
  PROVE  \A c \in Creators : call[c] # "new" => call'[c] # "new"
  <1>1. ASSUME NEW c \in Creators, Creates(c)
        PROVE  \E to \in {"loaded", "open", "written", "created", "failed"} :
                 call' = [call EXCEPT ![c] = to]
    BY <1>1 DEF Creates, Loads, OpensTemporary, Writes, Replaces, NothingToReplace, Killed
  <1>2. ASSUME NEW c \in Creators, Creates(c)
        PROVE  \A d \in Creators : call[d] # "new" => call'[d] # "new"
    <2>1. PICK to \in {"loaded", "open", "written", "created", "failed"} :
            call' = [call EXCEPT ![c] = to]
      BY <1>1, <1>2
    <2> QED BY <2>1 DEF TasksInv, TasksTypeOK
  <1>3. CASE UNCHANGED taskVars
    BY <1>3 DEF taskVars
  <1> QED BY <1>2, <1>3 DEF TasksNext

LEMMA DigestInitInv == DigestInit => DigestInv
  <1> SUFFICES ASSUME DigestInit PROVE DigestInv
    OBVIOUS
  <1>1. TasksInv
    BY TasksInitInv DEF DigestInit
  <1>2. SchedulerShape
    <2>1. \A id \in Ids : <<>> \in Seq(Runs)
      BY EmptySeq
    <2> QED BY <2>1, NoTasksInOrder DEF DigestInit, SchedulerShape, Phases
  <1>3. OnTime
    BY DEF DigestInit, OnTime
  <1>4. RecordsTell
    BY NewStateTells DEF DigestInit, RecordsTell
  <1> QED BY <1>1, <1>2, <1>3, <1>4 DEF DigestInv

\* The tasks change; what the scheduler holds does not.
LEMMA TasksGoOn ==
  ASSUME DigestInv, [TasksNext]_taskVars, UNCHANGED <<clock, schedulerVars>>
  PROVE  DigestInv'
  <1>1. TasksInv'
    BY TasksNextInv DEF DigestInv
  <1>2. /\ clock' = clock /\ store' = store /\ phase' = phase /\ list' = list /\ at' = at
        /\ moment' = moment /\ started' = started /\ ran' = ran
    BY DEF schedulerVars
  <1>3. \A c \in Creators : call[c] # "new" => call'[c] # "new"
    BY CallsGoOn DEF DigestInv
  <1>4. list \in Seq(Tasks) /\ InOrder(list, call)
    BY DEF DigestInv, SchedulerShape
  <1>5. InOrder(list, call')
    BY <1>3, <1>4, StaysInOrder
  <1>6. SchedulerShape'
    BY <1>2, <1>5 DEF DigestInv, SchedulerShape
  <1>7. OnTime' /\ RecordsTell'
    BY <1>2 DEF DigestInv, OnTime, RecordsTell, Due
  <1> QED BY <1>1, <1>6, <1>7 DEF DigestInv

\* What a run in flight is recorded as.
LEMMA RunRecorded ==
  ASSUME DigestInv, RunEnds
  PROVE  /\ at \in Ids /\ at <= Len(list) /\ list[at].id = at
         /\ \E words \in 0..WordsPerRun :
              LET run == [at |-> started, words |-> words]
              IN  /\ run \in Runs
                  /\ store' = [store EXCEPT ![at] = Recorded(@, run)]
                  /\ ran' = [ran EXCEPT ![at] = Append(@, run)]
  <1>1. at <= Len(list) /\ at \in Nat \ {0} /\ list \in Seq(Tasks) /\ InOrder(list, call)
    BY DEF DigestInv, OnTime, SchedulerShape, RunEnds
  <1>2. Len(list) \in Nat
    BY <1>1, LenProperties
  <1>3. at \in 1..Len(list)
    BY <1>1, <1>2
  <1>4. list[at].id = at /\ at \in Ids
    BY <1>1, <1>3, DocumentsAreShort DEF InOrder
  <1>5. \A words \in 0..WordsPerRun : [at |-> started, words |-> words] \in Runs
    BY DEF DigestInv, SchedulerShape, Runs
  <1> QED BY <1>1, <1>4, <1>5 DEF RunEnds

LEMMA RunEndsStep ==
  ASSUME DigestInv, RunEnds, UNCHANGED <<taskVars, clock>>
  PROVE  DigestInv'
  <1>1. PICK words \in 0..WordsPerRun :
          /\ [at |-> started, words |-> words] \in Runs
          /\ store' = [store EXCEPT ![at] = Recorded(@, [at |-> started, words |-> words])]
          /\ ran' = [ran EXCEPT ![at] = Append(@, [at |-> started, words |-> words])]
    BY RunRecorded
  <1> DEFINE run == [at |-> started, words |-> words]
  <1>2. /\ run \in Runs /\ store' = [store EXCEPT ![at] = Recorded(store[at], run)]
        /\ ran' = [ran EXCEPT ![at] = Append(ran[at], run)]
    BY <1>1
  <1> HIDE DEF run
  <1>3. /\ phase' = "looking" /\ at' = at + 1 /\ started' = 0
        /\ list' = list /\ moment' = moment /\ clock' = clock /\ call' = call
    BY DEF RunEnds, taskVars
  <1>4. at \in Ids
    BY RunRecorded
  <1>5. TasksInv'
    BY TasksNextInv DEF DigestInv
  <1>6. ran[at] \in Seq(Runs) /\ Append(ran[at], run) \in Seq(Runs)
    BY <1>2, <1>4, AppendProperties DEF DigestInv, SchedulerShape
  <1>7. SchedulerShape'
    <2>1. ran' \in [Ids -> Seq(Runs)] /\ DOMAIN store' = Ids
      BY <1>2, <1>6 DEF DigestInv, SchedulerShape
    <2>2. /\ clock' \in Nat /\ moment' \in Nat /\ started' \in Nat /\ at' \in Nat \ {0}
          /\ phase' \in Phases
      BY <1>3 DEF DigestInv, SchedulerShape, Phases
    <2>3. list' \in Seq(Tasks) /\ InOrder(list', call')
      BY <1>3 DEF DigestInv, SchedulerShape
    <2> QED BY <2>1, <2>2, <2>3 DEF SchedulerShape
  <1>8. OnTime'
    BY <1>3 DEF DigestInv, OnTime
  <1>9. RecordsTell'
    <2> SUFFICES ASSUME NEW id \in Ids PROVE Tells(store'[id], ran'[id])
      BY DEF RecordsTell
    <2>1. Tells(store[id], ran[id])
      BY DEF DigestInv, RecordsTell
    <2>2. CASE id = at
      <3>1. store'[id] = Recorded(store[id], run) /\ ran'[id] = Append(ran[id], run)
        BY <1>2, <1>4, <2>2 DEF DigestInv, SchedulerShape
      <3>2. Tells(Recorded(store[id], run), Append(ran[id], run))
        BY <1>2, <1>6, <2>1, <2>2, RecordedTells
      <3> QED BY <3>1, <3>2
    <2>3. CASE id # at
      <3>1. store'[id] = store[id] /\ ran'[id] = ran[id]
        BY <1>2, <2>3 DEF DigestInv, SchedulerShape
      <3> QED BY <2>1, <3>1
    <2> QED BY <2>2, <2>3
  <1> QED BY <1>5, <1>7, <1>8, <1>9 DEF DigestInv

LEMMA SchedulesStep ==
  ASSUME DigestInv, Schedules \/ Stops, UNCHANGED <<taskVars, clock>>
  PROVE  DigestInv'
  <1>1. TasksInv' /\ clock' = clock /\ call' = call
    BY TasksNextInv DEF DigestInv, taskVars
  <1>2. CASE RunEnds
    BY <1>2, RunEndsStep
  <1>3. ASSUME store' = store, ran' = ran PROVE RecordsTell'
    BY <1>3 DEF DigestInv, RecordsTell
  <1>4. CASE TickBegins
    <2>1. Load \in Seq(Tasks) /\ InOrder(Load, call)
      BY LoadInOrder DEF DigestInv
    <2>2. /\ list' = Load /\ at' = 1 /\ moment' = clock /\ phase' = "looking"
          /\ store' = store /\ started' = started /\ ran' = ran
      BY <1>4 DEF TickBegins
    <2>3. SchedulerShape'
      BY <1>1, <2>1, <2>2 DEF DigestInv, SchedulerShape, Phases
    <2>4. OnTime'
      BY <1>1, <2>2 DEF DigestInv, OnTime, SchedulerShape
    <2> QED BY <1>1, <1>3, <2>2, <2>3, <2>4 DEF DigestInv
  <1>5. CASE Passes
    <2>1. /\ at' = at + 1 /\ phase = "looking" /\ phase' = phase /\ list' = list
          /\ moment' = moment /\ store' = store /\ started' = started /\ ran' = ran
      BY <1>5 DEF Passes
    <2>2. SchedulerShape' /\ OnTime'
      BY <1>1, <2>1 DEF DigestInv, SchedulerShape, OnTime
    <2> QED BY <1>1, <1>3, <2>1, <2>2 DEF DigestInv
  <1>6. CASE RunBegins
    <2>1. /\ at <= Len(list) /\ Due(list[at], moment) /\ started' = clock /\ phase' = "collecting"
          /\ at' = at /\ list' = list /\ moment' = moment /\ store' = store /\ ran' = ran
      BY <1>6 DEF RunBegins
    <2>2. SchedulerShape'
      BY <1>1, <2>1 DEF DigestInv, SchedulerShape, Phases
    <2>3. OnTime'
      BY <1>1, <2>1 DEF DigestInv, OnTime, Due
    <2> QED BY <1>1, <1>3, <2>1, <2>2, <2>3 DEF DigestInv
  <1>7. CASE TickEnds \/ Stops
    <2>1. /\ phase' \in {"asleep", "down"} /\ list' = <<>> /\ at' = 1 /\ moment' = 0 /\ started' = 0
          /\ store' = store /\ ran' = ran
      BY <1>7 DEF TickEnds, Stops, TickIsOver
    <2>2. SchedulerShape'
      BY <1>1, <2>1, NoTasksInOrder DEF DigestInv, SchedulerShape, Phases
    <2>3. OnTime'
      BY <1>1, <2>1 DEF DigestInv, OnTime, SchedulerShape
    <2> QED BY <1>1, <1>3, <2>1, <2>2, <2>3 DEF DigestInv
  <1>8. CASE Restarts
    <2>1. /\ phase' = "asleep" /\ list' = list /\ at' = at /\ moment' = moment
          /\ started' = started /\ store' = store /\ ran' = ran
      BY <1>8 DEF Restarts
    <2>2. SchedulerShape' /\ OnTime'
      BY <1>1, <2>1 DEF DigestInv, SchedulerShape, OnTime, Phases
    <2> QED BY <1>1, <1>3, <2>1, <2>2 DEF DigestInv
  <1> QED BY <1>2, <1>4, <1>5, <1>6, <1>7, <1>8 DEF Schedules

LEMMA TimePassesStep ==
  ASSUME DigestInv, TimePasses
  PROVE  DigestInv'
  <1>1. /\ TasksInv' /\ clock' = clock + 1 /\ call' = call
        /\ store' = store /\ phase' = phase /\ list' = list /\ at' = at
        /\ moment' = moment /\ started' = started /\ ran' = ran
    BY TasksNextInv DEF DigestInv, TimePasses, taskVars, schedulerVars
  <1>2. SchedulerShape'
    BY <1>1 DEF DigestInv, SchedulerShape
  <1>3. OnTime'
    BY <1>1 DEF DigestInv, OnTime, SchedulerShape, Due
  <1>4. RecordsTell'
    BY <1>1 DEF DigestInv, RecordsTell
  <1> QED BY <1>1, <1>2, <1>3, <1>4 DEF DigestInv

LEMMA DigestNextInv == DigestInv /\ [DigestNext]_digestVars => DigestInv'
  <1> SUFFICES ASSUME DigestInv, [DigestNext]_digestVars PROVE DigestInv'
    OBVIOUS
  <1>1. CASE TasksNext /\ UNCHANGED <<clock, schedulerVars>>
    BY <1>1, TasksGoOn
  <1>2. CASE (Schedules \/ Stops) /\ UNCHANGED <<taskVars, clock>>
    BY <1>2, SchedulesStep
  <1>3. CASE TimePasses
    BY <1>3, TimePassesStep
  <1>4. CASE UNCHANGED digestVars
    BY <1>4, TasksGoOn DEF digestVars
  <1> QED BY <1>1, <1>2, <1>3, <1>4 DEF DigestNext

LEMMA DigestInductive == DigestSpec => []DigestInv
  BY DigestInitInv, DigestNextInv, PTL DEF DigestSpec

\* What the screen shows is what happened, through any number of runs that
\* fail, of stops and restarts, and however creations overlap.
THEOREM TheRecordTells == DigestSpec => []StoreTellsWhatRan
  <1>1. DigestInv => StoreTellsWhatRan
    BY DEF DigestInv, RecordsTell, Tells, FailedRuns, StoreTellsWhatRan
  <1> QED BY <1>1, DigestInductive, PTL

-----------------------------------------------------------------------------
(* Two runs of a task are an interval apart, when creations do not         *)
(* overlap: then a task that is in the file stays there as it was made.    *)

Spaced(runs, interval) ==
    \A i \in 1..(Len(runs) - 1) : runs[i + 1].at >= runs[i].at + interval

\* What the tick looks at is still in the file, and nothing ran that is not.
SpacedInv ==
    /\ DigestInv /\ KeptInv
    /\ Grown(list, Load)
    /\ \A id \in Ids : id > Len(Load) => ran[id] = <<>>
    /\ \A k \in 1..Len(Load) : Spaced(ran[k], Load[k].interval)

LEMMA NothingIsSpaced == ASSUME NEW interval PROVE Spaced(<<>>, interval)
  <1>1. 1..(Len(<<>>) - 1) = {}
    OBVIOUS
  <1> QED BY <1>1 DEF Spaced

\* A run that begins an interval after the last keeps the runs spaced.
LEMMA NextIsSpaced ==
  ASSUME NEW runs \in Seq(Runs), NEW run \in Runs, NEW interval \in Nat, Spaced(runs, interval),
         runs # <<>> => run.at >= runs[Len(runs)].at + interval
  PROVE  Spaced(Append(runs, run), interval)
  <1> DEFINE n == Len(runs)
             more == Append(runs, run)
  <1>1. /\ Len(more) = n + 1 /\ n \in Nat
        /\ more[n + 1] = run /\ \A i \in 1..n : more[i] = runs[i]
    BY AppendProperties, LenProperties
  <1>2. n # 0 => runs # <<>>
    BY EmptySeq
  <1> HIDE DEF more
  <1>3. ASSUME NEW i \in 1..(Len(more) - 1) PROVE more[i + 1].at >= more[i].at + interval
    <2>1. i \in 1..n /\ n # 0
      BY <1>1
    <2>2. CASE i = n
      BY <1>1, <1>2, <2>1, <2>2
    <2>3. CASE i # n
      <3>1. i \in 1..(n - 1) /\ i + 1 \in 1..n
        BY <1>1, <2>1, <2>3
      <3>2. runs[i + 1].at >= runs[i].at + interval
        BY <3>1 DEF Spaced
      <3> QED BY <1>1, <2>1, <3>1, <3>2
    <2> QED BY <2>2, <2>3
  <1>4. Spaced(more, interval)
    BY <1>3 DEF Spaced
  <1> QED BY <1>4 DEF more

LEMMA SpacedInit == DigestInit => SpacedInv
  <1> SUFFICES ASSUME DigestInit PROVE SpacedInv
    OBVIOUS
  <1>1. DigestInv /\ KeptInv
    BY DigestInitInv, KeptInit DEF DigestInit
  <1>2. \A id \in Ids : ran[id] = <<>>
    BY DEF DigestInit
  <1>3. list = <<>> /\ Load \in Seq(Tasks)
    BY <1>1, LoadInOrder DEF DigestInit, DigestInv
  <1>4. Grown(list, Load)
    <2>1. Len(<<>>) = 0 /\ Len(Load) \in Nat
      BY <1>3, EmptySeq, LenProperties
    <2> QED BY <1>3, <2>1 DEF Grown
  <1>5. \A k \in 1..Len(Load) : k \in Ids
    <2>1. Load \in Seq(Tasks) /\ InOrder(Load, call)
      BY <1>1, LoadInOrder DEF DigestInv
    <2> QED BY <2>1, DocumentsAreShort
  <1>6. \A k \in 1..Len(Load) : Spaced(ran[k], Load[k].interval)
    BY <1>2, <1>5, NothingIsSpaced
  <1> QED BY <1>1, <1>2, <1>4, <1>6 DEF SpacedInv

\* The tasks of the file are numbered as the store is.
InStore(tasks) == \A k \in 1..Len(tasks) : k \in Ids /\ tasks[k].id = k

LEMMA LoadInStore == TasksInv => InStore(Load)
  BY LoadInOrder, DocumentsAreShort DEF InStore, InOrder

LEMMA LoadInStoreNext == TasksInv' => InStore(Load')
  <1>1. TasksInv' => InStore(Load)'
    BY LoadInStore, PTL
  <1> QED BY <1>1 DEF InStore, Ids

\* The file grows: what ran is spaced as before, and a new task did not run.
LEMMA SpacedTasks ==
  ASSUME ~TogetherAllowed, SpacedInv, [TasksNext]_taskVars, UNCHANGED <<clock, schedulerVars>>
  PROVE  SpacedInv'
  <1>1. DigestInv' /\ KeptInv' /\ Grown(Load, Load')
    BY TasksGoOn, KeptNext DEF SpacedInv
  <1>2. list' = list /\ ran' = ran
    BY DEF schedulerVars
  <1>3. Load \in Seq(Tasks) /\ Load' \in Seq(Tasks) /\ InOrder(Load', call') /\ list \in Seq(Tasks)
    <2>1. Load \in Seq(Tasks) /\ list \in Seq(Tasks)
      BY LoadInOrder DEF SpacedInv, DigestInv, SchedulerShape
    <2>2. TasksInv'
      BY <1>1 DEF DigestInv
    <2>3. (Load \in Seq(Tasks) /\ InOrder(Load, call))'
      BY <2>2, LoadInOrder, PTL
    <2> QED BY <2>1, <2>3
  <1>4. Grown(list', Load')
    BY <1>1, <1>2, <1>3, GrownIsTransitive DEF SpacedInv
  <1>5. Len(Load) \in Nat /\ Len(Load') \in Nat /\ Len(Load) <= Len(Load')
    BY <1>1, <1>3, LenProperties DEF Grown
  <1>6. ASSUME NEW id \in Ids, id > Len(Load') PROVE ran'[id] = <<>>
    <2>1. id \in Nat /\ id > Len(Load)
      <3>1. Cardinality(Creators) \in Nat
        BY DigestTasksAssumption, FS_CardinalityType
      <3> QED BY <1>5, <1>6, <3>1 DEF Ids
    <2> QED BY <1>2, <2>1 DEF SpacedInv
  <1>7. \A k \in 1..Len(Load') : k \in Ids
    BY <1>1, LoadInStoreNext DEF DigestInv, InStore
  <1>8. ASSUME NEW k \in 1..Len(Load') PROVE Spaced(ran'[k], Load'[k].interval)
    <2>1. CASE k \in 1..Len(Load)
      <3>1. Load'[k] = Load[k] /\ Spaced(ran[k], Load[k].interval)
        BY <1>1, <2>1 DEF Grown, SpacedInv
      <3> QED BY <1>2, <3>1
    <2>2. CASE k \notin 1..Len(Load)
      <3>1. k > Len(Load) /\ k \in Ids
        BY <1>5, <1>7, <2>2
      <3>2. ran'[k] = <<>>
        BY <1>2, <3>1 DEF SpacedInv
      <3> QED BY <3>2, NothingIsSpaced
    <2> QED BY <2>1, <2>2
  <1> QED BY <1>1, <1>4, <1>6, <1>8 DEF SpacedInv

\* A run ends: it began when its task was due.
LEMMA SpacedRunEnds ==
  ASSUME SpacedInv, DigestInv', KeptInv', RunEnds, UNCHANGED <<taskVars, clock>>
  PROVE  SpacedInv'
  <1>1. PICK words \in 0..WordsPerRun :
          /\ [at |-> started, words |-> words] \in Runs
          /\ ran' = [ran EXCEPT ![at] = Append(@, [at |-> started, words |-> words])]
    BY RunRecorded DEF SpacedInv
  <1> DEFINE run == [at |-> started, words |-> words]
  <1>2. run \in Runs /\ run.at = started /\ ran' = [ran EXCEPT ![at] = Append(ran[at], run)]
    BY <1>1
  <1> HIDE DEF run
  <1>3. at \in Ids /\ at <= Len(list) /\ list[at].id = at
    BY RunRecorded DEF SpacedInv
  <1>4. Load' = Load /\ list' = list
    BY DEF RunEnds, taskVars, Load
  <1>5. ran \in [Ids -> Seq(Runs)]
    BY DEF SpacedInv, DigestInv, SchedulerShape
  <1>6. Load \in Seq(Tasks) /\ list \in Seq(Tasks) /\ Grown(list, Load)
    BY LoadInOrder DEF SpacedInv, DigestInv, SchedulerShape
  <1>7. Len(Load) \in Nat /\ Len(list) \in Nat /\ Len(list) <= Len(Load)
    BY <1>6, LenProperties DEF Grown
  <1>8. at \in 1..Len(list) /\ at \in 1..Len(Load) /\ Load[at] = list[at]
    <2>1. at \in Nat \ {0}
      BY DEF SpacedInv, DigestInv, SchedulerShape
    <2>2. at \in 1..Len(list)
      BY <1>3, <1>7, <2>1
    <2> QED BY <1>6, <1>7, <2>2 DEF Grown
  <1>9. Load[at].interval \in Nat
    <2>1. Load[at] \in Tasks
      BY <1>6, <1>8, ElementOfSeq
    <2> QED BY <2>1, DigestTasksAssumption DEF Tasks
  <1>10. ASSUME ran[at] # <<>>
         PROVE  started >= ran[at][Len(ran[at])].at + Load[at].interval
    <2>1. store[at].lastRunAt = ran[at][Len(ran[at])].at
      BY <1>3, <1>10 DEF SpacedInv, DigestInv, RecordsTell, Tells
    <2>2. Len(ran[at]) \in 1..Len(ran[at])
      BY <1>3, <1>5, <1>10, EmptySeq
    <2>3. ran[at][Len(ran[at])] \in Runs
      BY <1>3, <1>5, <2>2, ElementOfSeq
    <2>4. store[at].lastRunAt \in Nat
      BY <2>1, <2>3 DEF Runs
    <2>5. Due(list[at], moment) /\ moment <= started /\ moment \in Nat /\ started \in Nat
      BY DEF SpacedInv, DigestInv, OnTime, SchedulerShape, RunEnds
    <2>6. store[at].lastRunAt # NeverRan
      BY <2>4 DEF NeverRan
    <2>7. moment >= store[at].lastRunAt + list[at].interval
      BY <1>3, <2>5, <2>6 DEF Due
    <2> QED BY <1>8, <1>9, <2>1, <2>4, <2>5, <2>7
  <1>11. Spaced(ran[at], Load[at].interval)
    BY <1>8 DEF SpacedInv
  <1>12. Spaced(Append(ran[at], run), Load[at].interval)
    BY <1>2, <1>3, <1>5, <1>9, <1>10, <1>11, NextIsSpaced
  <1>13. ASSUME NEW k \in 1..Len(Load') PROVE Spaced(ran'[k], Load'[k].interval)
    <2>1. CASE k = at
      <3>1. ran'[k] = Append(ran[at], run)
        BY <1>2, <1>3, <1>5, <2>1
      <3> QED BY <1>4, <1>12, <2>1, <3>1
    <2>2. CASE k # at
      <3>1. k \in Ids
        BY <1>13, LoadInStoreNext DEF DigestInv, InStore
      <3>2. ran'[k] = ran[k]
        BY <1>2, <1>5, <2>2, <3>1
      <3>3. Spaced(ran[k], Load[k].interval)
        BY <1>4, <1>13 DEF SpacedInv
      <3> QED BY <1>4, <3>2, <3>3
    <2> QED BY <2>1, <2>2
  <1>14. ASSUME NEW id \in Ids, id > Len(Load') PROVE ran'[id] = <<>>
    <2>1. id # at /\ id > Len(Load)
      BY <1>4, <1>7, <1>8, <1>14
    <2>2. ran'[id] = ran[id]
      BY <1>2, <1>5, <2>1
    <2> QED BY <2>1, <2>2 DEF SpacedInv
  <1> QED BY <1>4, <1>6, <1>13, <1>14 DEF SpacedInv

LEMMA SpacedNext ==
  ASSUME ~TogetherAllowed
  PROVE  SpacedInv /\ [DigestNext]_digestVars => SpacedInv'
  <1> SUFFICES ASSUME SpacedInv, [DigestNext]_digestVars PROVE SpacedInv'
    OBVIOUS
  <1>1. DigestInv' /\ Load \in Seq(Tasks) /\ Grown(Load, Load)
    BY DigestNextInv, LoadInOrder, SelfGrown DEF SpacedInv, DigestInv
  <1>2. ASSUME UNCHANGED taskVars PROVE KeptInv' /\ Load' = Load
    <2>1. KeptInv'
      BY <1>2, KeptNext DEF SpacedInv
    <2> QED BY <1>2, <2>1 DEF taskVars, Load
  <1>3. ASSUME UNCHANGED taskVars, ran' = ran, Grown(list', Load) PROVE SpacedInv'
    BY <1>1, <1>2, <1>3 DEF SpacedInv
  <1>4. CASE TasksNext /\ UNCHANGED <<clock, schedulerVars>>
    BY <1>4, SpacedTasks
  <1>5. CASE (Schedules \/ Stops) /\ UNCHANGED <<taskVars, clock>>
    <2>1. CASE RunEnds
      BY <1>1, <1>2, <1>5, <2>1, SpacedRunEnds
    <2>2. CASE ~RunEnds
      <3>1. ran' = ran /\ list' \in {list, Load, <<>>}
        BY <1>5, <2>2 DEF Schedules, TickBegins, Passes, RunBegins, TickEnds, Stops, Restarts, TickIsOver
      <3>2. Grown(<<>>, Load)
        <4>1. Len(<<>>) = 0 /\ Len(Load) \in Nat
          BY <1>1, EmptySeq, LenProperties
        <4> QED BY <4>1 DEF Grown
      <3>3. Grown(list', Load)
        BY <1>1, <3>1, <3>2 DEF SpacedInv
      <3> QED BY <1>3, <1>5, <3>1, <3>3
    <2> QED BY <2>1, <2>2
  <1>6. CASE TimePasses \/ UNCHANGED digestVars
    <2>1. UNCHANGED taskVars /\ ran' = ran /\ list' = list
      BY <1>6 DEF TimePasses, digestVars, schedulerVars
    <2> QED BY <1>3, <2>1 DEF SpacedInv
  <1> QED BY <1>4, <1>5, <1>6 DEF DigestNext

\* As long as creations do not overlap: two runs of a task are at least its
\* interval apart, and the record the next run is timed by tells of every run,
\* however runs fail, the backend goes down and comes back, and tasks are made.
THEOREM TheRecordIsKept == ~TogetherAllowed /\ DigestSpec => []RecordIsKept
  <1>1. SpacedInv => RecordIsKept
    <2> SUFFICES ASSUME SpacedInv PROVE RecordIsKept
      OBVIOUS
    <2>1. StoreTellsWhatRan
      BY DEF SpacedInv, DigestInv, RecordsTell, Tells, FailedRuns, StoreTellsWhatRan
    <2>2. InStore(Load)
      BY LoadInStore DEF SpacedInv, DigestInv
    <2>3. RunsAreSpaced
      BY <2>2 DEF SpacedInv, InStore, Spaced, RunsAreSpaced
    <2> QED BY <2>1, <2>3 DEF RecordIsKept
  <1>2. ASSUME ~TogetherAllowed PROVE DigestSpec => []RecordIsKept
    BY <1>1, <1>2, SpacedInit, SpacedNext, PTL DEF DigestSpec
  <1> QED BY <1>2

-----------------------------------------------------------------------------
(***************************************************************************)
(* For any number of pull requests, pushes, retries and failures: the      *)
(* backend reviews one diff at a time, a pull request has one comment, it  *)
(* shows no findings of a diff older than the commit it names, and once    *)
(* all has settled it is about the last commit.                            *)
(***************************************************************************)

Words == {"none", "not_run", "review"}

\* The steps after the diff was read, and after the pull request was.
HasDiff == {"files", "ask", "asked", "publish", "create", "update"}
HasCommit == {"diff"} \cup HasDiff

Jobs == [step : {"none", "pull"} \cup HasCommit, commit : Nat, diff : Nat, says : Words, polls : Nat]
Told == [of : Nat, diff : Nat, says : Words]

ReviewShape ==
    /\ head \in [Pulls -> Nat]
    /\ open \in [Pulls -> BOOLEAN] /\ queued \in [Pulls -> BOOLEAN]
    /\ job \in [Pulls -> Jobs]
    /\ outcome \in [Pulls -> {"none", "told", "lost", "closed"}]
    /\ comments \in [Pulls -> Seq(Told)]
    /\ \A review \in reviewing : review.pull \in Pulls

\* The gate's counter is the set of reviews under way.
PlacesAreReviews == IsFiniteSet(reviewing) /\ OneReviewAtATime

\* The job knows which call publishes, since only it writes the comment.
CommentIsOne(p) ==
    /\ Len(comments[p]) <= 1
    /\ At(p, "create") => comments[p] = <<>>
    /\ At(p, "update") => comments[p] # <<>>

\* The commit was read before the diff, and both before what was pushed since.
ReadInOrder(p) ==
    /\ job[p].commit <= head[p]
    /\ job[p].step \in HasDiff => job[p].commit <= job[p].diff
    /\ \A i \in DOMAIN comments[p] : comments[p][i].of <= comments[p][i].diff

\* A push queues a run: without one, what was read is the last there is.
ReadIsLast(p) ==
    open[p] /\ ~queued[p] =>
        /\ job[p].step \in HasCommit => job[p].commit = head[p]
        /\ job[p].step \in HasDiff => job[p].diff = head[p]
        /\ At(p, "none") /\ outcome[p] = "told" =>
             /\ comments[p] # <<>>
             /\ comments[p][1].of = head[p] /\ comments[p][1].diff = head[p]

PullIsRight(p) == CommentIsOne(p) /\ ReadInOrder(p) /\ ReadIsLast(p)

ReviewInv == ReviewShape /\ PlacesAreReviews /\ \A p \in Pulls : PullIsRight(p)

-----------------------------------------------------------------------------
(* What a comment becomes.                                                 *)

LEMMA FirstIsReplaced ==
  ASSUME NEW S, NEW s \in Seq(S), Len(s) = 1, NEW c \in S
  PROVE  /\ [s EXCEPT ![1] = c] \in Seq(S)
         /\ Len([s EXCEPT ![1] = c]) = 1
         /\ [s EXCEPT ![1] = c][1] = c
  OBVIOUS

LEMMA NotEmptyIsOne ==
  ASSUME NEW S, NEW s \in Seq(S), s # <<>>, Len(s) <= 1
  PROVE  Len(s) = 1
  <1>1. Len(s) \in Nat \ {0}
    BY EmptySeq, Zenon
  <1> QED BY <1>1

LEMMA OneIsNotEmpty ==
  ASSUME NEW s, Len(s) = 1
  PROVE  s # <<>>
  <1>1. SUFFICES ASSUME s = <<>> PROVE FALSE
    OBVIOUS
  <1>2. Len(s) = 0
    BY <1>1
  <1> QED BY <1>2

LEMMA CommentIsTold ==
  ASSUME ReviewShape, NEW p \in Pulls
  PROVE  Comment(p) \in Told
  BY DEF ReviewShape, Comment, Told, Jobs

\* Either call leaves one comment, the job's.
LEMMA OneIsWritten ==
  ASSUME ReviewShape, NEW p \in Pulls, CommentIsOne(p),
         job[p].step \in {"create", "update"}, WritesComment(p)
  PROVE  /\ comments' \in [Pulls -> Seq(Told)]
         /\ Len(comments'[p]) = 1 /\ comments'[p][1] = Comment(p)
         /\ \A q \in Pulls : q # p => comments'[q] = comments[q]
  <1>1. Comment(p) \in Told
    BY CommentIsTold
  <1>2. CASE At(p, "create")
    <2>1. comments[p] = <<>> /\ comments' = [comments EXCEPT ![p] = Append(@, Comment(p))]
      BY <1>2 DEF CommentIsOne, WritesComment
    <2> QED BY <1>1, <2>1 DEF ReviewShape
  <1>3. CASE ~At(p, "create")
    <2>1. At(p, "update") /\ comments[p] # <<>> /\ Len(comments[p]) <= 1
      BY <1>3 DEF At, CommentIsOne
    <2>2. comments[p] \in Seq(Told) /\ Len(comments[p]) = 1
      BY <2>1, NotEmptyIsOne DEF ReviewShape
    <2>3. comments' = [comments EXCEPT ![p] = [@ EXCEPT ![1] = Comment(p)]]
      BY <1>3 DEF WritesComment
    <2>4. /\ [comments[p] EXCEPT ![1] = Comment(p)] \in Seq(Told)
          /\ Len([comments[p] EXCEPT ![1] = Comment(p)]) = 1
          /\ [comments[p] EXCEPT ![1] = Comment(p)][1] = Comment(p)
      BY <1>1, <2>2, FirstIsReplaced
    <2> QED BY <2>3, <2>4 DEF ReviewShape
  <1> QED BY <1>2, <1>3

-----------------------------------------------------------------------------
(* The gate.                                                               *)

LEMMA ReviewJoins ==
  ASSUME PlacesAreReviews, HasRoom, NEW r, r \notin reviewing,
         reviewing' = reviewing \cup {r}, gate' = gate + 1
  PROVE  PlacesAreReviews'
  <1>1. Cardinality(reviewing) \in Nat
    BY FS_CardinalityType DEF PlacesAreReviews
  <1>2. IsFiniteSet(reviewing') /\ Cardinality(reviewing') = Cardinality(reviewing) + 1
    BY FS_AddElement DEF PlacesAreReviews
  <1> QED BY <1>1, <1>2 DEF PlacesAreReviews, OneReviewAtATime, HasRoom

\* A free place is all there is: nobody else is in the gate.
LEMMA RoomIsEmpty ==
  ASSUME PlacesAreReviews, HasRoom
  PROVE  reviewing = {}
  <1>1. Cardinality(reviewing) \in Nat
    BY FS_CardinalityType DEF PlacesAreReviews
  <1>2. Cardinality(reviewing) = 0
    BY <1>1 DEF PlacesAreReviews, OneReviewAtATime, HasRoom
  <1> QED BY <1>2, FS_EmptySet DEF PlacesAreReviews

LEMMA ReviewLeaves ==
  ASSUME PlacesAreReviews, NEW review \in reviewing, Leaves(review)
  PROVE  PlacesAreReviews'
  <1>1. Cardinality(reviewing) \in Nat
    BY FS_CardinalityType DEF PlacesAreReviews
  <1>2. /\ IsFiniteSet(reviewing \ {review})
        /\ Cardinality(reviewing \ {review}) = Cardinality(reviewing) - 1
    BY FS_RemoveElement DEF PlacesAreReviews
  <1> QED BY <1>1, <1>2 DEF PlacesAreReviews, OneReviewAtATime, Leaves

LEMMA ReviewIsRepaired ==
  ASSUME PlacesAreReviews, ReviewShape, NEW review \in reviewing, AsksToRepair(review)
  PROVE  PlacesAreReviews' /\ \A r \in reviewing' : r.pull \in Pulls
  <1> DEFINE again == [review EXCEPT !.asks = 1]
  <1>1. Cardinality(reviewing) \in Nat /\ IsFiniteSet(reviewing)
    BY FS_CardinalityType DEF PlacesAreReviews
  <1>2. /\ IsFiniteSet(reviewing \ {review})
        /\ Cardinality(reviewing \ {review}) = Cardinality(reviewing) - 1
    BY <1>1, FS_RemoveElement
  <1>3. reviewing = {review}
    <2>1. Cardinality(reviewing \ {review}) = 0
      BY <1>1, <1>2, FS_CardinalityType DEF PlacesAreReviews, OneReviewAtATime
    <2>2. reviewing \ {review} = {}
      BY <1>2, <2>1, FS_EmptySet
    <2> QED BY <2>2
  <1>4. reviewing' = {again} /\ gate' = gate
    BY <1>3 DEF AsksToRepair
  <1>5. again.pull \in Pulls
    BY DEF ReviewShape
  <1>6. Cardinality(reviewing') = 1 /\ IsFiniteSet(reviewing') /\ Cardinality(reviewing) = 1
    BY <1>3, <1>4, FS_Singleton
  <1> QED BY <1>4, <1>5, <1>6 DEF PlacesAreReviews, OneReviewAtATime

-----------------------------------------------------------------------------
(* The job's steps, and what the pull request does meanwhile.              *)

PullsRight == ReviewShape /\ \A p \in Pulls : PullIsRight(p)

\* Nothing a property reads of q changed.
SameOf(q) ==
    /\ head'[q] = head[q] /\ open'[q] = open[q] /\ queued'[q] = queued[q]
    /\ job'[q] = job[q] /\ outcome'[q] = outcome[q] /\ comments'[q] = comments[q]

LEMMA SameStaysRight ==
  ASSUME NEW q \in Pulls, PullIsRight(q), SameOf(q)
  PROVE  PullIsRight(q)'
  BY DEF PullIsRight, CommentIsOne, ReadInOrder, ReadIsLast, SameOf, At

\* The job goes on, and what it says may be anything.
LEMMA JobGoesOn ==
  ASSUME PullsRight, NEW p \in Pulls, NEW new \in Jobs,
         job' = [job EXCEPT ![p] = new],
         UNCHANGED <<head, open, queued, outcome, comments>>,
         \A review \in reviewing' : review.pull \in Pulls,
         new.commit = job[p].commit, new.diff = job[p].diff,
         ~At(p, "none"), new.step # "none",
         new.step \in HasCommit => job[p].step \in HasCommit,
         new.step \in HasDiff => job[p].step \in HasDiff,
         new.step = "create" => comments[p] = <<>>,
         new.step = "update" => comments[p] # <<>>
  PROVE  PullsRight'
  <1>1. ReviewShape'
    BY DEF PullsRight, ReviewShape
  <1>2. ASSUME NEW q \in Pulls PROVE PullIsRight(q)'
    <2>1. CASE q # p
      BY <2>1, <1>2, SameStaysRight DEF PullsRight, ReviewShape, SameOf
    <2>2. CASE q = p
      <3>1. job'[p] = new /\ PullIsRight(p)
        BY DEF PullsRight, ReviewShape
      <3> QED BY <2>2, <3>1 DEF PullIsRight, CommentIsOne, ReadInOrder, ReadIsLast, At
    <2> QED BY <2>1, <2>2
  <1> QED BY <1>1, <1>2 DEF PullsRight

\* The job is over and the comment is as it was: it ends with nothing told.
LEMMA JobIsLost ==
  ASSUME PullsRight, NEW p \in Pulls, NEW how \in {"lost", "closed"}, Ends(p, how),
         UNCHANGED <<head, open, queued, reviewing, comments>>
  PROVE  PullsRight'
  <1>1. NoJob \in Jobs /\ NoJob.step = "none" /\ NoJob.commit = 0
    BY DEF NoJob, Jobs, Words
  <1>2. ReviewShape'
    BY <1>1 DEF PullsRight, ReviewShape, Ends
  <1>3. ASSUME NEW q \in Pulls PROVE PullIsRight(q)'
    <2>1. CASE q # p
      BY <2>1, <1>3, SameStaysRight DEF PullsRight, ReviewShape, SameOf, Ends
    <2>2. CASE q = p
      <3>1. job'[p] = NoJob /\ outcome'[p] = how /\ PullIsRight(p) /\ head[p] \in Nat
        BY DEF PullsRight, ReviewShape, Ends
      <3> QED BY <1>1, <2>2, <3>1
              DEF PullIsRight, CommentIsOne, ReadInOrder, ReadIsLast, At, HasCommit, HasDiff
    <2> QED BY <2>1, <2>2
  <1> QED BY <1>2, <1>3 DEF PullsRight

\* The job is over and the comment is written, whether the job knows it or not.
LEMMA JobHasWritten ==
  ASSUME PullsRight, NEW p \in Pulls, NEW how \in {"told", "lost"}, Ends(p, how),
         job[p].step \in {"create", "update"}, WritesComment(p),
         UNCHANGED <<head, open, queued, reviewing>>
  PROVE  PullsRight'
  <1>1. NoJob \in Jobs /\ NoJob.step = "none" /\ NoJob.commit = 0
    BY DEF NoJob, Jobs, Words
  <1>2. PullIsRight(p) /\ ReviewShape
    BY DEF PullsRight
  <1>3. /\ comments' \in [Pulls -> Seq(Told)]
        /\ Len(comments'[p]) = 1 /\ comments'[p][1] = Comment(p)
        /\ \A q \in Pulls : q # p => comments'[q] = comments[q]
    BY <1>2, OneIsWritten DEF PullIsRight
  <1>4. ReviewShape'
    BY <1>1, <1>3 DEF PullsRight, ReviewShape, Ends
  <1>5. ASSUME NEW q \in Pulls PROVE PullIsRight(q)'
    <2>1. CASE q # p
      BY <2>1, <1>3, <1>5, SameStaysRight DEF PullsRight, ReviewShape, SameOf, Ends
    <2>2. CASE q = p
      <3>1. /\ job'[p] = NoJob /\ outcome'[p] = how /\ head[p] \in Nat
            /\ job[p].step \in HasDiff /\ job[p].step \in HasCommit
        BY DEF PullsRight, ReviewShape, Ends, HasDiff, HasCommit
      <3>2. /\ Comment(p).of = job[p].commit /\ Comment(p).diff = job[p].diff
        BY DEF Comment
      <3>3. CommentIsOne(p)'
        BY <1>1, <1>3, <3>1 DEF CommentIsOne, At
      <3>4. DOMAIN comments'[p] = {1}
        BY <1>3
      <3>5. ReadInOrder(p)'
        BY <1>1, <1>2, <1>3, <3>1, <3>2, <3>4 DEF PullIsRight, ReadInOrder, HasDiff
      <3>6. comments'[p] # <<>>
        BY <1>3, OneIsNotEmpty
      <3>7. ReadIsLast(p)'
        BY <1>1, <1>2, <1>3, <3>1, <3>2, <3>6 DEF PullIsRight, ReadIsLast, HasCommit, HasDiff
      <3> QED BY <2>2, <3>3, <3>5, <3>7 DEF PullIsRight
    <2> QED BY <2>1, <2>2
  <1> QED BY <1>4, <1>5 DEF PullsRight

-----------------------------------------------------------------------------
(* The invariant, action by action.                                        *)

LEMMA InitReviewInv == ReviewInit => ReviewInv
  <1> SUFFICES ASSUME ReviewInit PROVE ReviewInv
    OBVIOUS
  <1>1. NoJob \in Jobs /\ NoJob.step = "none" /\ NoJob.commit = 0
    BY DEF NoJob, Jobs, Words
  <1>2. <<>> \in Seq(Told) /\ Len(<<>>) = 0 /\ DOMAIN <<>> = {}
    OBVIOUS
  <1>3. ReviewShape
    BY <1>1, <1>2 DEF ReviewInit, ReviewShape
  <1>4. PlacesAreReviews
    BY FS_EmptySet DEF ReviewInit, PlacesAreReviews, OneReviewAtATime
  <1>5. ASSUME NEW p \in Pulls PROVE PullIsRight(p)
    BY <1>1, <1>2 DEF ReviewInit, PullIsRight, CommentIsOne, ReadInOrder, ReadIsLast, At, HasCommit, HasDiff
  <1> QED BY <1>3, <1>4, <1>5 DEF ReviewInv

\* What the pull request does.
LEMMA PullMoves ==
  ASSUME PullsRight, NEW p \in Pulls, Pushes(p) \/ Closes(p) \/ JobStarts(p)
  PROVE  PullsRight'
  <1>1. ReviewShape'
    <2>1. CASE Pushes(p)
      <3>1. head' \in [Pulls -> Nat]
        BY <2>1 DEF PullsRight, ReviewShape, Pushes
      <3>2. queued' \in [Pulls -> BOOLEAN]
        BY <2>1, Zenon DEF PullsRight, ReviewShape, Pushes, Queues
      <3> QED BY <2>1, <3>1, <3>2 DEF PullsRight, ReviewShape, Pushes
    <2>3. CASE Closes(p)
      <3>1. open' \in [Pulls -> BOOLEAN]
        BY <2>3, Zenon DEF PullsRight, ReviewShape, Closes
      <3> QED BY <2>3, <3>1 DEF PullsRight, ReviewShape, Closes
    <2>2. CASE JobStarts(p)
      <3>1. [job[p] EXCEPT !.step = "pull"] \in Jobs
        BY DEF PullsRight, ReviewShape, Jobs
      <3>2. job' = [job EXCEPT ![p] = [job[p] EXCEPT !.step = "pull"]]
        BY <2>2 DEF JobStarts
      <3>3. job' \in [Pulls -> Jobs]
        BY <3>1, <3>2 DEF PullsRight, ReviewShape
      <3> QED BY <2>2, <3>3 DEF PullsRight, ReviewShape, JobStarts
    <2> QED BY <2>1, <2>2, <2>3
  <1>2. ASSUME NEW q \in Pulls PROVE PullIsRight(q)'
    <2>1. CASE q # p
      BY <2>1, <1>2, SameStaysRight DEF PullsRight, ReviewShape, SameOf, Pushes, Queues, Closes, JobStarts
    <2>2. CASE q = p
      <3>1. PullIsRight(p) /\ head[p] \in Nat /\ job[p] \in Jobs
        BY DEF PullsRight, ReviewShape
      <3>2. CASE Pushes(p)
        <4>1. /\ head'[p] = head[p] + 1 /\ queued'[p]
              /\ job' = job /\ comments' = comments
          BY <3>2 DEF Pushes, Queues, PullsRight, ReviewShape
        <4>2. job[p].commit \in Nat
          BY <3>1 DEF Jobs
        <4> QED BY <2>2, <3>1, <4>1, <4>2 DEF PullIsRight, CommentIsOne, ReadInOrder, ReadIsLast, At
      <3>3. CASE Closes(p)
        BY <2>2, <3>1, <3>3 DEF Closes, PullsRight, ReviewShape, PullIsRight, CommentIsOne, ReadInOrder, ReadIsLast, At
      <3>4. CASE JobStarts(p)
        <4>1. job'[p] = [job[p] EXCEPT !.step = "pull"] /\ job'[p].step = "pull" /\ job'[p].commit = job[p].commit
          BY <3>1, <3>4 DEF JobStarts, PullsRight, ReviewShape, Jobs
        <4> QED BY <2>2, <3>1, <3>4, <4>1
                DEF JobStarts, PullIsRight, CommentIsOne, ReadInOrder, ReadIsLast, At, HasCommit, HasDiff
      <3> QED BY <3>2, <3>3, <3>4
    <2> QED BY <2>1, <2>2
  <1> QED BY <1>1, <1>2 DEF PullsRight

\* A step of the job's own, besides its start.
LEMMA JobMoves ==
  ASSUME ReviewInv, NEW p \in Pulls,
         \/ ReadsPull(p) \/ ReadsDiff(p) \/ ReadsFiles(p) \/ AsksForReview(p)
         \/ RefusedAtOnce(p) \/ Polls(p) \/ ListsComments(p) \/ Publishes(p)
  PROVE  ReviewInv'
  <1>1. PullsRight /\ ReviewShape /\ PullIsRight(p) /\ job[p] \in Jobs /\ head[p] \in Nat /\ PlacesAreReviews
    BY DEF ReviewInv, PullsRight, ReviewShape
  <1>2. SUFFICES PullsRight' /\ PlacesAreReviews'
    BY DEF ReviewInv, PullsRight
  <1>3. CASE ReadsPull(p)
    <2>1. CASE ~open[p]
      <3>1. /\ Ends(p, "closed")
            /\ UNCHANGED <<head, open, queued, gate, reviewing, comments>>
        BY <1>3, <2>1 DEF ReadsPull
      <3> QED BY <1>1, <3>1, JobIsLost DEF PlacesAreReviews, OneReviewAtATime
    <2>2. CASE open[p]
      <3> DEFINE new == [job[p] EXCEPT !.step = "diff", !.commit = head[p]]
      <3>1. /\ job' = [job EXCEPT ![p] = new]
            /\ UNCHANGED <<head, open, queued, outcome, gate, reviewing, comments>>
            /\ At(p, "pull")
        BY <1>3, <2>2 DEF ReadsPull, JobBecomes
      <3>2. new \in Jobs /\ new.step = "diff" /\ new.commit = head[p]
        BY <1>1 DEF Jobs, HasCommit
      <3>3. ReviewShape'
        BY <1>1, <3>1, <3>2 DEF ReviewShape
      <3>4. ASSUME NEW q \in Pulls PROVE PullIsRight(q)'
        <4>1. CASE q # p
          BY <1>1, <3>1, <3>4, <4>1, SameStaysRight DEF PullsRight, ReviewShape, SameOf
        <4>2. CASE q = p
          <5>1. job'[p] = new
            BY <1>1, <3>1 DEF ReviewShape
          <5> QED BY <1>1, <3>1, <3>2, <4>2, <5>1
                  DEF PullIsRight, CommentIsOne, ReadInOrder, ReadIsLast, At, HasDiff
        <4> QED BY <4>1, <4>2
      <3> QED BY <1>1, <3>1, <3>3, <3>4 DEF PullsRight, PlacesAreReviews, OneReviewAtATime
    <2> QED BY <2>1, <2>2
  <1>4. CASE ReadsDiff(p)
    <2> DEFINE new == [job[p] EXCEPT !.step = "files", !.diff = head[p]]
    <2>1. /\ job' = [job EXCEPT ![p] = new]
          /\ UNCHANGED <<head, open, queued, outcome, gate, reviewing, comments>>
          /\ At(p, "diff")
      BY <1>4 DEF ReadsDiff, JobBecomes
    <2>2. /\ new \in Jobs /\ new.step = "files" /\ new.diff = head[p]
          /\ new.commit = job[p].commit
      BY <1>1 DEF Jobs, HasCommit, HasDiff
    <2>3. ReviewShape'
      BY <1>1, <2>1, <2>2 DEF ReviewShape
    <2>4. ASSUME NEW q \in Pulls PROVE PullIsRight(q)'
      <3>1. CASE q # p
        BY <1>1, <2>1, <2>4, <3>1, SameStaysRight DEF PullsRight, ReviewShape, SameOf
      <3>2. CASE q = p
        <4>1. job'[p] = new
          BY <1>1, <2>1 DEF ReviewShape
        <4> QED BY <1>1, <2>1, <2>2, <3>2, <4>1
                DEF PullIsRight, CommentIsOne, ReadInOrder, ReadIsLast, At, HasCommit
      <3> QED BY <3>1, <3>2
    <2> QED BY <1>1, <2>1, <2>3, <2>4 DEF PullsRight, PlacesAreReviews, OneReviewAtATime
  <1>5. CASE ReadsFiles(p)
    <2> DEFINE new == [job[p] EXCEPT !.step = "ask"]
    <2>1. /\ job' = [job EXCEPT ![p] = new]
          /\ UNCHANGED <<head, open, queued, outcome, gate, reviewing, comments>>
          /\ job[p].step = "files"
      BY <1>5 DEF ReadsFiles, JobBecomes, At
    <2>2. /\ new \in Jobs /\ new.step = "ask"
          /\ new.diff = job[p].diff /\ new.commit = job[p].commit
      BY <1>1 DEF Jobs, HasCommit, HasDiff
    <2> QED BY <1>1, <2>1, <2>2, JobGoesOn
            DEF ReviewShape, At, HasCommit, HasDiff, PlacesAreReviews, OneReviewAtATime
  <1>6. CASE RefusedAtOnce(p) \/ Polls(p)
    <2> DEFINE again == [job[p] EXCEPT !.polls = @ + 1]
    <2> DEFINE said == Says(p, "not_run")
    <2>1. PICK new \in {again, said} :
            /\ job' = [job EXCEPT ![p] = new]
            /\ UNCHANGED <<head, open, queued, outcome, gate, reviewing, comments>>
            /\ job[p].step = "ask"
      BY <1>6 DEF RefusedAtOnce, Polls, JobBecomes, At
    <2>2. /\ new \in Jobs /\ new.step \in {"ask", "publish"}
          /\ new.diff = job[p].diff /\ new.commit = job[p].commit
      <3>1. /\ again \in Jobs /\ again.step = job[p].step
            /\ again.diff = job[p].diff /\ again.commit = job[p].commit
        BY <1>1 DEF Jobs
      <3>2. /\ said \in Jobs /\ said.step = "publish"
            /\ said.diff = job[p].diff /\ said.commit = job[p].commit
        BY <1>1 DEF Jobs, Says, HasCommit, HasDiff, Words
      <3> HIDE DEF again, said
      <3> QED BY <2>1, <3>1, <3>2
    <2> QED BY <1>1, <2>1, <2>2, JobGoesOn
            DEF ReviewShape, At, HasCommit, HasDiff, PlacesAreReviews, OneReviewAtATime
  <1>7. CASE AsksForReview(p)
    <2> DEFINE new == [job[p] EXCEPT !.step = "asked", !.polls = 0]
    <2> DEFINE review == [pull |-> p, diff |-> job[p].diff, asks |-> 0]
    <2>1. /\ job' = [job EXCEPT ![p] = new]
          /\ UNCHANGED <<head, open, queued, outcome, comments>>
          /\ job[p].step = "ask" /\ HasRoom /\ gate' = gate + 1
          /\ reviewing' = reviewing \cup {review}
      <3>1. job' = [job EXCEPT ![p].step = "asked", ![p].polls = 0]
        BY <1>7 DEF AsksForReview
      <3>2. job' = [job EXCEPT ![p] = new]
        BY <1>1, <3>1 DEF ReviewShape, Jobs
      <3> QED BY <1>7, <3>2 DEF AsksForReview, At
    <2>2. /\ new \in Jobs /\ new.step = "asked"
          /\ new.diff = job[p].diff /\ new.commit = job[p].commit
      BY <1>1 DEF Jobs, HasCommit, HasDiff
    <2>3. PlacesAreReviews'
      <3>1. reviewing = {}
        BY <1>1, <2>1, RoomIsEmpty
      <3> QED BY <1>1, <2>1, <3>1, ReviewJoins
    <2>4. \A r \in reviewing' : r.pull \in Pulls
      BY <1>1, <2>1 DEF ReviewShape
    <2> QED BY <1>1, <2>1, <2>2, <2>3, <2>4, JobGoesOn DEF At, HasCommit, HasDiff
  <1>8. CASE ListsComments(p)
    <2> DEFINE new == [job[p] EXCEPT !.step = IF FirstOwn(p) = 0 THEN "create" ELSE "update"]
    <2>1. /\ job' = [job EXCEPT ![p] = new]
          /\ UNCHANGED <<head, open, queued, outcome, gate, reviewing, comments>>
          /\ job[p].step = "publish"
      BY <1>8 DEF ListsComments, JobBecomes, At
    <2>2. /\ new \in Jobs /\ new.step \in {"create", "update"}
          /\ new.diff = job[p].diff /\ new.commit = job[p].commit
          /\ new.step = "create" => comments[p] = <<>>
          /\ new.step = "update" => comments[p] # <<>>
      BY <1>1 DEF Jobs, HasCommit, HasDiff, FirstOwn
    <2> QED BY <1>1, <2>1, <2>2, JobGoesOn
            DEF ReviewShape, At, HasCommit, HasDiff, PlacesAreReviews, OneReviewAtATime
  <1>9. CASE Publishes(p)
    BY <1>1, <1>9, JobHasWritten DEF Publishes, PlacesAreReviews, OneReviewAtATime
  <1> QED BY <1>3, <1>4, <1>5, <1>6, <1>7, <1>8, <1>9

\* A step of the backend's.
LEMMA ReviewMoves ==
  ASSUME ReviewInv, NEW review \in reviewing, ReviewStep(review)
  PROVE  ReviewInv'
  <1>1. PullsRight /\ ReviewShape /\ PlacesAreReviews /\ review.pull \in Pulls
    BY DEF ReviewInv, PullsRight, ReviewShape
  <1>2. CASE AsksToRepair(review)
    <2>1. PlacesAreReviews' /\ \A r \in reviewing' : r.pull \in Pulls
      BY <1>1, <1>2, ReviewIsRepaired
    <2>2. UNCHANGED <<head, open, queued, job, outcome, comments>>
      BY <1>2 DEF AsksToRepair
    <2>3. ReviewShape'
      BY <1>1, <2>1, <2>2 DEF ReviewShape
    <2>4. ASSUME NEW q \in Pulls PROVE PullIsRight(q)'
      BY <1>1, <2>2, SameStaysRight DEF PullsRight, SameOf
    <2> QED BY <2>1, <2>3, <2>4 DEF ReviewInv
  <1>3. ASSUME NEW what \in Words, Answered(review, what) PROVE ReviewInv'
    <2> DEFINE p == review.pull
    <2> DEFINE new == Says(p, what)
    <2>1. PlacesAreReviews'
      BY <1>1, <1>3, ReviewLeaves DEF Answered
    <2>2. /\ UNCHANGED <<head, open, queued, outcome, comments>>
          /\ \A r \in reviewing' : r.pull \in Pulls
      BY <1>1, <1>3 DEF Answered, Leaves, ReviewShape
    <2>3. CASE Waiting(review)
      <3>1. job' = [job EXCEPT ![p] = new] /\ job[p].step = "asked"
        BY <1>3, <2>3 DEF Answered, Waiting, At
      <3>2. /\ new \in Jobs /\ new.step = "publish"
            /\ new.diff = job[p].diff /\ new.commit = job[p].commit
        <4>1. job[p] \in Jobs
          BY <1>1 DEF ReviewShape
        <4> QED BY <4>1, <1>3 DEF Jobs, HasCommit, HasDiff, Says
      <3> HIDE DEF new
      <3>3. PullsRight'
        BY <1>1, <2>2, <3>1, <3>2, JobGoesOn DEF At, HasCommit, HasDiff
      <3> QED BY <2>1, <3>3 DEF ReviewInv, PullsRight
    <2>4. CASE ~Waiting(review)
      <3>1. job' = job
        BY <1>3, <2>4 DEF Answered
      <3>2. ReviewShape'
        BY <1>1, <2>2, <3>1 DEF ReviewShape
      <3>3. ASSUME NEW q \in Pulls PROVE PullIsRight(q)'
        BY <1>1, <2>2, <3>1, SameStaysRight DEF PullsRight, SameOf
      <3> QED BY <2>1, <3>2, <3>3 DEF ReviewInv
    <2> QED BY <2>3, <2>4
  <1> QED BY <1>2, <1>3
          DEF ReviewStep, InvalidDiff, ProviderUnavailable, InvalidOutput, Reviews, Words

\* A call that fails, a script that stops waiting, a job that is stopped.
LEMMA ThingsFail ==
  ASSUME ReviewInv, NEW p \in Pulls, GitHubFails(p) \/ StopsWaiting(p) \/ Stopped(p)
  PROVE  ReviewInv'
  <1>1. PullsRight /\ ReviewShape /\ PlacesAreReviews /\ job[p] \in Jobs
    BY DEF ReviewInv, PullsRight, ReviewShape
  <1>2. gate' = gate /\ reviewing' = reviewing
    BY DEF GitHubFails, StopsWaiting, Stopped
  <1>3. PlacesAreReviews'
    BY <1>1, <1>2 DEF PlacesAreReviews, OneReviewAtATime
  <1>4. SUFFICES PullsRight'
    BY <1>3 DEF ReviewInv, PullsRight
  <1>5. CASE GitHubFails(p)
    <2>1. Ends(p, "lost") /\ UNCHANGED <<head, open, queued, reviewing>>
      BY <1>5 DEF GitHubFails
    <2>2. CASE UNCHANGED comments
      BY <1>1, <2>1, <2>2, JobIsLost
    <2>3. CASE job[p].step \in {"create", "update"} /\ WritesComment(p)
      BY <1>1, <2>1, <2>3, JobHasWritten
    <2> QED BY <1>5, <2>2, <2>3 DEF GitHubFails
  <1>6. CASE StopsWaiting(p)
    <2> DEFINE new == Says(p, "not_run")
    <2>1. /\ job' = [job EXCEPT ![p] = new] /\ job[p].step \in {"ask", "asked"}
          /\ UNCHANGED <<head, open, queued, outcome, comments>>
      BY <1>6 DEF StopsWaiting
    <2>2. /\ new \in Jobs /\ new.step = "publish"
          /\ new.diff = job[p].diff /\ new.commit = job[p].commit
      BY <1>1 DEF Jobs, HasCommit, HasDiff, Says, Words
    <2>3. \A r \in reviewing' : r.pull \in Pulls
      BY <1>1, <1>2 DEF ReviewShape
    <2> HIDE DEF new
    <2> QED BY <1>1, <2>1, <2>2, <2>3, JobGoesOn DEF At, HasCommit, HasDiff
  <1>7. CASE Stopped(p)
    BY <1>1, <1>7, JobIsLost DEF Stopped
  <1> QED BY <1>5, <1>6, <1>7

LEMMA NextReviewInv == ReviewInv /\ [ReviewNext]_reviewVars => ReviewInv'
  <1> SUFFICES ASSUME ReviewInv, [ReviewNext]_reviewVars PROVE ReviewInv'
    OBVIOUS
  <1>1. ASSUME NEW p \in Pulls, Pushes(p) \/ Closes(p) \/ JobStarts(p) PROVE ReviewInv'
    <2>1. PullsRight'
      BY <1>1, PullMoves DEF ReviewInv, PullsRight
    <2>2. gate' = gate /\ reviewing' = reviewing
      BY <1>1 DEF Pushes, Closes, JobStarts
    <2> QED BY <2>1, <2>2 DEF ReviewInv, PullsRight, PlacesAreReviews, OneReviewAtATime
  <1>2. ASSUME NEW p \in Pulls, JobStep(p) PROVE ReviewInv'
    BY <1>1, <1>2, JobMoves DEF JobStep
  <1>3. ASSUME NEW p \in Pulls, GitHubFails(p) \/ StopsWaiting(p) \/ Stopped(p) PROVE ReviewInv'
    BY <1>3, ThingsFail
  <1>4. CASE UNCHANGED reviewVars
    <2>1. UNCHANGED <<head, open, queued, job, outcome, gate, reviewing, comments>>
      BY <1>4 DEF reviewVars
    <2>2. ASSUME NEW q \in Pulls PROVE PullIsRight(q)'
      BY <2>1, SameStaysRight DEF ReviewInv, SameOf
    <2> QED BY <2>1, <2>2 DEF ReviewInv, ReviewShape, PlacesAreReviews, OneReviewAtATime
  <1> QED BY <1>1, <1>2, <1>3, <1>4, ReviewMoves DEF ReviewNext

LEMMA AlwaysReviewInv == ReviewSpec => []ReviewInv
  BY InitReviewInv, NextReviewInv, PTL DEF ReviewSpec

(***************************************************************************)
(* The backend never works on two reviews, and its gate's counter is       *)
(* exactly the reviews under way (try_enter and the route's finally).      *)
(***************************************************************************)
THEOREM OneAtATime == ReviewSpec => []OneReviewAtATime
  <1>1. ReviewInv => OneReviewAtATime
    BY DEF ReviewInv, PlacesAreReviews
  <1> QED BY <1>1, AlwaysReviewInv, PTL

(***************************************************************************)
(* A pull request has one comment, whatever is pushed, stopped or timed    *)
(* out (publish).                                                          *)
(***************************************************************************)
THEOREM CommentsAreOne == ReviewSpec => []OneComment
  <1>1. ReviewInv => OneComment
    BY DEF ReviewInv, PullIsRight, CommentIsOne, OneComment
  <1> QED BY <1>1, AlwaysReviewInv, PTL

(***************************************************************************)
(* No comment is about a diff older than the commit it names (run).        *)
(***************************************************************************)
THEOREM DiffsAreNotOlder == ReviewSpec => []DiffIsNotOlder
  <1>1. ReviewInv => DiffIsNotOlder
    <2> SUFFICES ASSUME ReviewInv, NEW p \in Pulls, NEW i \in DOMAIN comments[p]
                 PROVE  comments[p][i].diff >= comments[p][i].of
      BY DEF DiffIsNotOlder
    <2>1. comments[p][i].of <= comments[p][i].diff
      BY DEF ReviewInv, PullIsRight, ReadInOrder
    <2>2. comments[p][i] \in Told
      BY DEF ReviewInv, ReviewShape
    <2> QED BY <2>1, <2>2 DEF Told
  <1> QED BY <1>1, AlwaysReviewInv, PTL

(***************************************************************************)
(* When the runs of an open pull request have come to rest and the last    *)
(* could publish, the comment is about the last commit and its diff.       *)
(***************************************************************************)
THEOREM SettledAreCurrent == ReviewSpec => []SettledIsCurrent
  <1>1. ReviewInv => SettledIsCurrent
    <2> SUFFICES ASSUME ReviewInv, NEW p \in Pulls,
                        open[p], At(p, "none"), ~queued[p], outcome[p] = "told"
                 PROVE  /\ comments[p] # <<>>
                        /\ Last(comments[p]).of = head[p] /\ Last(comments[p]).diff = head[p]
      BY DEF SettledIsCurrent
    <2>1. /\ comments[p] # <<>> /\ Len(comments[p]) <= 1 /\ comments[p] \in Seq(Told)
          /\ comments[p][1].of = head[p] /\ comments[p][1].diff = head[p]
      BY DEF ReviewInv, ReviewShape, PullIsRight, CommentIsOne, ReadIsLast
    <2>2. Len(comments[p]) = 1
      BY <2>1, NotEmptyIsOne
    <2> QED BY <2>1, <2>2 DEF Last
  <1> QED BY <1>1, AlwaysReviewInv, PTL

(***************************************************************************)
(* For any number of pull requests, pushes and failures, all four.         *)
(***************************************************************************)
THEOREM ReviewsStayRight == ReviewSpec => []ReviewsAreRight
  BY OneAtATime, CommentsAreOne, DiffsAreNotOlder, SettledAreCurrent, PTL DEF ReviewsAreRight


-----------------------------------------------------------------------------
(* The types of both.                                                      *)

JobTyped(p) ==
    /\ head[p] \in Commits(p) /\ job[p].commit \in Commits(p) /\ job[p].diff \in Commits(p)
    /\ job[p].polls \in 0..MaxPolls

ReviewTyped(review) ==
    /\ review \in [pull : Pulls, diff : Nat, asks : {0, 1}]
    /\ review.diff \in Commits(review.pull)

ReviewTypes ==
    /\ ReviewInv
    /\ \A p \in Pulls : JobTyped(p)
    /\ \A review \in reviewing : ReviewTyped(review)
    /\ failures \in 0..MaxFailures

LEMMA ReviewTypesInit == ReviewInit => ReviewTypes
  <1> SUFFICES ASSUME ReviewInit PROVE ReviewTypes
    OBVIOUS
  <1>1. ASSUME NEW p \in Pulls PROVE JobTyped(p)
    <2>1. head[p] = 0 /\ job[p].commit = 0 /\ job[p].diff = 0 /\ job[p].polls = 0
      BY DEF ReviewInit, NoJob
    <2>2. MaxPushes[p] \in Nat /\ MaxPolls \in Nat
      BY ReviewAssumption
    <2> QED BY <2>1, <2>2 DEF JobTyped, Commits
  <1> QED BY <1>1, InitReviewInv, ReviewAssumption DEF ReviewInit, ReviewTypes

\* One job goes on with commits that were there and no more polls than may be.
LEMMA JobsStayTyped ==
  ASSUME ReviewTypes, NEW p \in Pulls, NEW new, job' = [job EXCEPT ![p] = new], head' = head,
         new.commit \in {job[p].commit, head[p], 0}, new.diff \in {job[p].diff, head[p], 0},
         new.polls \in 0..MaxPolls
  PROVE  \A q \in Pulls : JobTyped(q)'
  <1> SUFFICES ASSUME NEW q \in Pulls PROVE JobTyped(q)'
    OBVIOUS
  <1>1. JobTyped(p) /\ JobTyped(q) /\ 0 \in Commits(p)
    <2>1. MaxPushes[p] \in Nat
      BY ReviewAssumption
    <2> QED BY <2>1 DEF ReviewTypes, Commits
  <1>2. CASE q = p
    <2>1. job'[q] = new
      BY <1>2 DEF ReviewTypes, ReviewInv, ReviewShape
    <2> QED BY <1>1, <1>2, <2>1 DEF JobTyped, Commits
  <1>3. CASE q # p
    <2>1. job'[q] = job[q]
      BY <1>3 DEF ReviewTypes, ReviewInv, ReviewShape
    <2> QED BY <1>1, <2>1 DEF JobTyped, Commits
  <1> QED BY <1>2, <1>3

LEMMA JobStepTypes ==
  ASSUME ReviewTypes, NEW p \in Pulls, JobStep(p)
  PROVE  (\A q \in Pulls : JobTyped(q)') /\ (\A r \in reviewing' : ReviewTyped(r)) /\ failures' = failures
  <1>1. job[p] \in Jobs /\ JobTyped(p) /\ DOMAIN job = Pulls /\ MaxPolls \in Nat
    BY ReviewAssumption DEF ReviewTypes, ReviewInv, ReviewShape
  <1>2. job[p].polls \in 0..MaxPolls /\ 0 \in 0..MaxPolls
    BY <1>1 DEF JobTyped
  <1>3. failures' = failures
    BY DEF JobStep, JobStarts, ReadsPull, ReadsDiff, ReadsFiles, AsksForReview, RefusedAtOnce, Polls,
           ListsComments, Publishes, JobBecomes
  <1>4. CASE AsksForReview(p)
    <2> DEFINE new == [job[p] EXCEPT !.step = "asked", !.polls = 0]
    <2>1. /\ job' = [job EXCEPT ![p].step = "asked", ![p].polls = 0] /\ head' = head
          /\ reviewing' = reviewing \cup {[pull |-> p, diff |-> job[p].diff, asks |-> 0]}
      BY <1>4 DEF AsksForReview
    <2>2. job' = [job EXCEPT ![p] = new] /\ new.commit = job[p].commit /\ new.diff = job[p].diff /\ new.polls = 0
      BY <1>1, <2>1 DEF Jobs
    <2> HIDE DEF new
    <2>3. \A q \in Pulls : JobTyped(q)'
      BY <1>2, <2>1, <2>2, JobsStayTyped
    <2>4. ReviewTyped([pull |-> p, diff |-> job[p].diff, asks |-> 0])
      BY <1>1 DEF JobTyped, ReviewTyped, Jobs
    <2> QED BY <1>3, <2>1, <2>3, <2>4 DEF ReviewTypes
  <1>5. CASE ~AsksForReview(p)
    <2>1. \E new : /\ job' = [job EXCEPT ![p] = new]
                   /\ new.commit \in {job[p].commit, head[p], 0} /\ new.diff \in {job[p].diff, head[p], 0}
                   /\ new.polls \in 0..MaxPolls
      <3>1. CASE JobStarts(p)
        <4>1. job' = [job EXCEPT ![p] = [job[p] EXCEPT !.step = "pull"]]
          BY <3>1 DEF JobStarts
        <4>2. /\ [job[p] EXCEPT !.step = "pull"].commit = job[p].commit
              /\ [job[p] EXCEPT !.step = "pull"].diff = job[p].diff
              /\ [job[p] EXCEPT !.step = "pull"].polls = job[p].polls
          BY <1>1 DEF Jobs
        <4> QED BY <1>2, <4>1, <4>2
      <3>2. CASE ReadsPull(p) /\ open[p]
        <4> DEFINE new == [job[p] EXCEPT !.step = "diff", !.commit = head[p]]
        <4>1. job' = [job EXCEPT ![p] = new]
          BY <3>2 DEF ReadsPull, JobBecomes
        <4>2. new.commit = head[p] /\ new.diff = job[p].diff /\ new.polls = job[p].polls
          BY <1>1 DEF Jobs
        <4> QED BY <1>2, <4>1, <4>2
      <3>3. CASE (ReadsPull(p) /\ ~open[p]) \/ Publishes(p)
        <4>1. job' = [job EXCEPT ![p] = NoJob]
          BY <3>3 DEF ReadsPull, Publishes, Ends
        <4>2. NoJob.commit = 0 /\ NoJob.diff = 0 /\ NoJob.polls = 0
          BY DEF NoJob
        <4> QED BY <1>2, <4>1, <4>2
      <3>4. CASE ReadsDiff(p)
        <4> DEFINE new == [job[p] EXCEPT !.step = "files", !.diff = head[p]]
        <4>1. job' = [job EXCEPT ![p] = new]
          BY <3>4 DEF ReadsDiff, JobBecomes
        <4>2. new.commit = job[p].commit /\ new.diff = head[p] /\ new.polls = job[p].polls
          BY <1>1 DEF Jobs
        <4> QED BY <1>2, <4>1, <4>2
      <3>5. CASE ReadsFiles(p) \/ ListsComments(p)
        <4>1. PICK to : job' = [job EXCEPT ![p] = [job[p] EXCEPT !.step = to]]
          BY <3>5 DEF ReadsFiles, ListsComments, JobBecomes
        <4> DEFINE new == [job[p] EXCEPT !.step = to]
        <4>2. new.commit = job[p].commit /\ new.diff = job[p].diff /\ new.polls = job[p].polls
          BY <1>1 DEF Jobs
        <4> QED BY <1>2, <4>1, <4>2
      <3>6. CASE RefusedAtOnce(p) \/ Polls(p)
        <4> DEFINE said == Says(p, "not_run")
                   again == [job[p] EXCEPT !.polls = @ + 1]
        <4>1. \/ job' = [job EXCEPT ![p] = said]
              \/ job[p].polls < MaxPolls /\ job' = [job EXCEPT ![p] = again]
          BY <3>6 DEF RefusedAtOnce, Polls, JobBecomes
        <4>2. said.commit = job[p].commit /\ said.diff = job[p].diff /\ said.polls = 0
          BY <1>1 DEF Jobs, Says
        <4>3. /\ again.commit = job[p].commit /\ again.diff = job[p].diff
              /\ job[p].polls < MaxPolls => again.polls \in 0..MaxPolls
          BY <1>1, <1>2 DEF Jobs
        <4> HIDE DEF said, again
        <4> QED BY <1>2, <4>1, <4>2, <4>3
      <3> QED BY <1>5, <3>1, <3>2, <3>3, <3>4, <3>5, <3>6 DEF JobStep
    <2>2. head' = head /\ reviewing' = reviewing
      BY <1>5 DEF JobStep, JobStarts, ReadsPull, ReadsDiff, ReadsFiles, RefusedAtOnce, Polls,
                  ListsComments, Publishes, JobBecomes
    <2>3. \A q \in Pulls : JobTyped(q)'
      BY <2>1, <2>2, JobsStayTyped
    <2> QED BY <1>3, <2>2, <2>3 DEF ReviewTypes
  <1> QED BY <1>4, <1>5

LEMMA SaysOrEndsTyped ==
  ASSUME ReviewTypes, NEW p \in Pulls, NEW what, head' = head,
         job' = [job EXCEPT ![p] = NoJob] \/ job' = [job EXCEPT ![p] = Says(p, what)] \/ job' = job
  PROVE  \A q \in Pulls : JobTyped(q)'
  <1>1. job[p] \in Jobs /\ MaxPolls \in Nat
    BY ReviewAssumption DEF ReviewTypes, ReviewInv, ReviewShape
  <1>2. CASE job' = [job EXCEPT ![p] = NoJob]
    <2> DEFINE new == NoJob
    <2>1. new.commit = 0 /\ new.diff = 0 /\ new.polls = 0
      BY DEF NoJob
    <2>2. job' = [job EXCEPT ![p] = new]
      BY <1>2
    <2>3. new.commit \in {job[p].commit, head[p], 0} /\ new.diff \in {job[p].diff, head[p], 0} /\ new.polls \in 0..MaxPolls
      BY <1>1, <2>1
    <2> HIDE DEF new
    <2> QED BY <2>2, <2>3, JobsStayTyped
  <1>3. CASE job' = [job EXCEPT ![p] = Says(p, what)]
    <2> DEFINE new == Says(p, what)
    <2>1. new.commit = job[p].commit /\ new.diff = job[p].diff /\ new.polls = 0
      BY <1>1 DEF Jobs, Says
    <2>2. job' = [job EXCEPT ![p] = new]
      BY <1>3
    <2> HIDE DEF new
    <2>3. new.commit \in {job[p].commit, head[p], 0} /\ new.diff \in {job[p].diff, head[p], 0} /\ new.polls \in 0..MaxPolls
      BY <1>1, <2>1
    <2> QED BY <2>2, <2>3, JobsStayTyped
  <1>4. CASE job' = job
    BY <1>4 DEF ReviewTypes, JobTyped, Commits
  <1> QED BY <1>2, <1>3, <1>4

LEMMA PushesTyped ==
  ASSUME ReviewTypes, NEW p \in Pulls, Pushes(p)
  PROVE  \A q \in Pulls : JobTyped(q)'
  <1> SUFFICES ASSUME NEW q \in Pulls PROVE JobTyped(q)'
    OBVIOUS
  <1>1. /\ head \in [Pulls -> Nat] /\ MaxPushes[p] \in Nat /\ JobTyped(q) /\ head[p] \in 0..MaxPushes[p]
        /\ head' = [head EXCEPT ![p] = @ + 1] /\ head[p] < MaxPushes[p] /\ job' = job
    BY ReviewAssumption DEF ReviewTypes, ReviewInv, ReviewShape, Pushes, JobTyped, Commits
  <1>2. CASE q = p
    <2>1. head'[q] = head[p] + 1
      BY <1>1, <1>2
    <2> QED BY <1>1, <1>2, <2>1 DEF JobTyped, Commits
  <1>3. CASE q # p
    BY <1>1, <1>3 DEF JobTyped, Commits
  <1> QED BY <1>2, <1>3

LEMMA ReviewStepTypes ==
  ASSUME ReviewTypes, NEW review \in reviewing, ReviewStep(review)
  PROVE  (\A q \in Pulls : JobTyped(q)') /\ (\A r \in reviewing' : ReviewTyped(r)) /\ failures' = failures
  <1>1. CASE AsksToRepair(review)
    <2>1. /\ reviewing' = (reviewing \ {review}) \cup {[review EXCEPT !.asks = 1]}
          /\ job' = job /\ head' = head /\ failures' = failures
      BY <1>1 DEF AsksToRepair
    <2>3. ReviewTyped(review)
      BY DEF ReviewTypes
    <2>4. ReviewTyped([review EXCEPT !.asks = 1])
      BY <2>3 DEF ReviewTyped
    <2> QED BY <2>1, <2>3, <2>4 DEF ReviewTypes, JobTyped, Commits
  <1>2. CASE ~AsksToRepair(review)
    <2>1. PICK what : Answered(review, what)
      BY <1>2 DEF ReviewStep, InvalidDiff, ProviderUnavailable, InvalidOutput, Reviews
    <2>2. /\ reviewing' = reviewing \ {review} /\ head' = head /\ failures' = failures
          /\ job' = [job EXCEPT ![review.pull] = Says(review.pull, what)] \/ job' = job
      BY <2>1 DEF Answered, Leaves
    <2>3. review.pull \in Pulls
      BY DEF ReviewTypes, ReviewInv, ReviewShape
    <2>4. \A q \in Pulls : JobTyped(q)'
      BY <2>2, <2>3, SaysOrEndsTyped
    <2> QED BY <2>2, <2>4 DEF ReviewTypes
  <1> QED BY <1>1, <1>2

LEMMA NextReviewTypes == ReviewTypes /\ [ReviewNext]_reviewVars => ReviewTypes'
  <1> SUFFICES ASSUME ReviewTypes, [ReviewNext]_reviewVars PROVE ReviewTypes'
    OBVIOUS
  <1>1. ReviewInv'
    BY NextReviewInv DEF ReviewTypes
  <1>2. (\A q \in Pulls : JobTyped(q)') /\ (\A r \in reviewing' : ReviewTyped(r)) /\ failures' \in 0..MaxFailures
    <2>1. ASSUME NEW p \in Pulls, Pushes(p) PROVE <1>2!:
      <3>1. reviewing' = reviewing /\ failures' = failures
        BY <2>1 DEF Pushes
      <3> QED BY <2>1, <3>1, PushesTyped DEF ReviewTypes
    <2>2. ASSUME NEW p \in Pulls, Closes(p) PROVE <1>2!:
      BY <2>2 DEF Closes, ReviewTypes, JobTyped, Commits
    <2>3. ASSUME NEW p \in Pulls, JobStep(p) PROVE <1>2!:
      BY <2>3, JobStepTypes DEF ReviewTypes
    <2>4. ASSUME NEW p \in Pulls, GitHubFails(p) \/ StopsWaiting(p) \/ Stopped(p) PROVE <1>2!:
      <3>1. /\ head' = head /\ reviewing' = reviewing
            /\ failures < MaxFailures /\ failures' = failures + 1
            /\ job' = [job EXCEPT ![p] = NoJob] \/ job' = [job EXCEPT ![p] = Says(p, "not_run")]
        BY <2>4 DEF GitHubFails, StopsWaiting, Stopped, Fails, Ends
      <3>2. \A q \in Pulls : JobTyped(q)'
        BY <3>1, SaysOrEndsTyped
      <3>3. failures \in 0..MaxFailures /\ MaxFailures \in Nat
        BY ReviewAssumption DEF ReviewTypes
      <3>4. failures' \in 0..MaxFailures
        BY <3>1, <3>3
      <3> QED BY <3>1, <3>2, <3>4 DEF ReviewTypes
    <2>5. ASSUME NEW review \in reviewing, ReviewStep(review) PROVE <1>2!:
      BY <2>5, ReviewStepTypes DEF ReviewTypes
    <2>6. CASE UNCHANGED reviewVars
      BY <2>6 DEF reviewVars, ReviewTypes, JobTyped, Commits
    <2> QED BY <2>1, <2>2, <2>3, <2>4, <2>5, <2>6 DEF ReviewNext
  <1> QED BY <1>1, <1>2 DEF ReviewTypes, ReviewTyped, Commits

LEMMA ReviewTypesSuffice == ReviewTypes => ReviewTypeOK
  <1> SUFFICES ASSUME ReviewTypes PROVE ReviewTypeOK
    OBVIOUS
  <1>1. gate \in Nat /\ gate <= Cardinality(Pulls)
    <2>1. IsFiniteSet(reviewing) /\ Cardinality(reviewing) = gate /\ gate <= 1
      BY DEF ReviewTypes, ReviewInv, PlacesAreReviews, OneReviewAtATime
    <2>2. gate \in Nat /\ Cardinality(Pulls) \in Nat
      BY <2>1, FS_CardinalityType, ReviewAssumption
    <2>3. CASE reviewing = {}
      BY <2>1, <2>2, <2>3, FS_EmptySet
    <2>4. CASE reviewing # {}
      <3>1. Pulls # {}
        BY <2>4 DEF ReviewTypes, ReviewTyped
      <3>2. Cardinality(Pulls) # 0
        BY <3>1, FS_EmptySet, ReviewAssumption
      <3> QED BY <2>1, <2>2, <3>2
    <2> QED BY <2>3, <2>4
  <1>2. Cardinality(Pulls) \in Nat
    BY FS_CardinalityType, ReviewAssumption
  <1>3. gate \in 0..Cardinality(Pulls)
    BY <1>1, <1>2
  <1>4. /\ open \in [Pulls -> BOOLEAN] /\ queued \in [Pulls -> BOOLEAN]
        /\ outcome \in [Pulls -> {"none", "told", "lost", "closed"}]
    BY DEF ReviewTypes, ReviewInv, ReviewShape
  <1>5. \A review \in reviewing : review.diff \in Commits(review.pull) /\ review.asks \in {0, 1}
    BY DEF ReviewTypes, ReviewTyped
  <1> QED BY <1>3, <1>4, <1>5 DEF ReviewTypes, ReviewTypeOK, JobTyped

(***************************************************************************)
(* Every variable of the digests' files and of the reviews stays in its    *)
(* type, for any number of calls, pull requests, pushes and failures: in   *)
(* particular no job reads a commit that was not pushed, and no job polls  *)
(* a busy backend more often than BUSY_WAIT allows (github_review.py).     *)
(***************************************************************************)
THEOREM BackendStaysTyped == BackendSpec => []BackendTypeOK
  <1>1. BackendInit => TasksInv /\ ReviewTypes
    BY TasksInitInv, ReviewTypesInit DEF BackendInit, DigestInit
  <1>2. TasksInv /\ ReviewTypes /\ [BackendNext]_backendVars => (TasksInv /\ ReviewTypes)'
    <2> SUFFICES ASSUME TasksInv, ReviewTypes, [BackendNext]_backendVars PROVE TasksInv' /\ ReviewTypes'
      OBVIOUS
    <2>1. [TasksNext]_taskVars /\ [ReviewNext]_reviewVars
      BY DEF BackendNext, backendVars, Digests, Reviewed, DigestNext, TimePasses, digestVars
    <2> QED BY <2>1, TasksNextInv, NextReviewTypes
  <1>3. TasksInv /\ ReviewTypes => BackendTypeOK
    BY ReviewTypesSuffice DEF TasksInv, BackendTypeOK
  <1> QED BY <1>1, <1>2, <1>3, PTL DEF BackendSpec
=============================================================================
