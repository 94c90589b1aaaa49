------------------------ MODULE BlockwiseRun_proofs ------------------------
(***************************************************************************)
(* For any number of groups, block sizes and starts: what an exploration   *)
(* that is killed and started again keeps, and how it ends.                *)
(***************************************************************************)
EXTENDS BlockwiseRun, TLAPS, WellFoundedInduction

\* The condition being explored.
Here == <<group, Smallest(pending)>>

\* The conditions that the rows in memory are of.
Known == IF pc = "write" THEN completed \cup {Here} ELSE completed

\* The files that every completed exploration has rows in, if they are filled.
Kept == File \ {"features"}

\* The files that a restart reads.
Read == File \ {"records csv"}

\* The groups before the one under way are explored, and of this one all but
\* what is pending.
LoopInv ==
    /\ pc # "down" =>
        /\ attempt \in 1..MaxAttempts
        /\ \A g \in 1..(group - 1), b \in 1..Sizes : <<g, b>> \in completed
    /\ pc \in {"explore", "write"} =>
        /\ group \in 1..Groups
        /\ \A b \in 1..Sizes : b \in pending <=> <<group, b>> \notin completed
    /\ pc = "write" => pending # {}
    /\ pc = "finished" => group = Groups + 1

\* Every file that is filled has rows in memory of the known conditions.
RowsInv ==
    pc # "down" =>
        /\ \A f \in Kept : ConditionsIn(rows[f]) = IF Fills(f) THEN Known ELSE {}
        /\ ConditionsIn(rows["features"]) \subseteq Known

\* What is completed is on disk; in a checkpoint the files before the one to
\* be replaced next are as in memory.
DiskInv ==
    /\ pc # "down" => \A f \in Kept : Fills(f) => completed \subseteq ConditionsIn(disk[f])
    /\ pc = "write" => \A i \in 1..(writing - 1) : disk[Files[i]] = rows[Files[i]]

\* A restart takes for explored only what the process that died knew, and
\* finds it in the .csv too.
KeysInv ==
    /\ ~surgery => disk["frontier"] = {}
    /\ resume => CompletedKeys(disk) \subseteq ConditionsIn(disk["records csv"])
    /\ resume /\ pc # "down" => CompletedKeys(disk) \subseteq Known

\* Two sets of rows have the same rows of certain conditions, and one each.
Same(some, others, conditions) ==
    \A r \in some, q \in others : r[1] = q[1] /\ r[1] \in conditions => r = q

\* Masks and features are of explored conditions only: they are written
\* last. All rows of a condition come from one attempt.
OneInv ==
    resume /\ surgery =>
        /\ ConditionsIn(disk["masks"]) \subseteq CompletedKeys(disk)
        /\ ConditionsIn(disk["features"]) \subseteq CompletedKeys(disk)
        /\ \A f, h \in Read : Same(disk[f], disk[h], CompletedKeys(disk))
        /\ pc # "down" =>
            \A f, h \in Read :
                Same(rows[f], rows[h], Known) /\ Same(disk[f], rows[h], CompletedKeys(disk))

IInv == TypeOK /\ LoopInv /\ RowsInv /\ DiskInv /\ KeysInv /\ OneInv

\* The files by their number.
LEMMA FileNames ==
    /\ Len(Files) = 5
    /\ Files[1] = "records csv" /\ Files[2] = "records jsonl" /\ Files[3] = "frontier"
    /\ Files[4] = "masks" /\ Files[5] = "features"
    /\ File = {"records csv", "records jsonl", "frontier", "masks", "features"}
<1>1. /\ Len(Files) = 5
      /\ Files[1] = "records csv" /\ Files[2] = "records jsonl" /\ Files[3] = "frontier"
      /\ Files[4] = "masks" /\ Files[5] = "features"
  BY DEF Files
<1>2. 1..5 = {1, 2, 3, 4, 5}
  OBVIOUS
<1> QED BY <1>1, <1>2 DEF File

\* By their number only.
LEMMA FileNumbers ==
    /\ Files[1] = "records csv" /\ Files[2] = "records jsonl" /\ Files[3] = "frontier"
    /\ Files[4] = "masks" /\ Files[5] = "features"
BY FileNames

\* There are five.
LEMMA FileLength == Len(Files) = 5
BY FileNames

\* The conditions of rows that are picked by their condition.
LEMMA PickedConditions ==
    ASSUME NEW some, NEW conditions, conditions \subseteq ConditionsIn(some)
    PROVE  ConditionsIn({r \in some : r[1] \in conditions}) = conditions
BY DEF ConditionsIn

\* There is a smallest block size to explore.
LEMMA SmallestPending ==
    ASSUME NEW sizes \in SUBSET (1..Sizes), sizes # {}
    PROVE  Smallest(sizes) \in sizes
<1>1. sizes \subseteq Nat
  BY ExplorationAssumption
<1>2. PICK b \in sizes : \A c \in sizes : <<c, b>> \notin OpToRel(<, Nat)
  BY <1>1, WFMin, NatLessThanWellFounded, Zenon
<1>3. ASSUME NEW c \in sizes PROVE b <= c
  <2>1. ~(c < b)
    BY <1>1, <1>2 DEF OpToRel
  <2> QED BY <1>1, <2>1
<1> QED BY <1>3 DEF Smallest

\* Explored conditions are in the files that are read.
LEMMA KeysAreInFiles ==
    ASSUME TypeOK
    PROVE  /\ CompletedKeys(disk) \subseteq Condition
           /\ CompletedKeys(disk) \subseteq ConditionsIn(disk["records jsonl"])
           /\ CompletedKeys(disk) \subseteq ConditionsIn(disk["frontier"])
           /\ CompletedKeys(disk) \subseteq ConditionsIn(disk["masks"])
<1>1. disk["records jsonl"] \subseteq Row
  BY FileNames DEF TypeOK
<1> QED BY <1>1 DEF CompletedKeys, ConditionsIn, Row

\* The first start finds nothing.
LEMMA InitIInv == Init => IInv
<1> SUFFICES ASSUME Init PROVE IInv
  OBVIOUS
<1>1. TypeOK
  <2>1. 1 \in 1..Len(Files)
    BY FileLength
  <2>2. 1 \in 1..(Groups + 1) /\ 0 \in 0..Groups /\ 0 \in 0..MaxAttempts
    BY ExplorationAssumption
  <2> QED BY <2>1, <2>2 DEF Init, TypeOK
<1>2. LoopInv /\ RowsInv /\ DiskInv
  BY DEF Init, LoopInv, RowsInv, DiskInv
<1>3. KeysInv /\ OneInv
  BY FileNames DEF Init, KeysInv, OneInv, CompletedKeys, ConditionsIn, Read, Same
<1> QED BY <1>1, <1>2, <1>3 DEF IInv

\* A start takes over the rows of what is explored.
LEMMA StartStep ==
    ASSUME IInv, Start
    PROVE  IInv'
<1> DEFINE Keys == CompletedKeys(disk)
           From(f) == disk[IF f = "records csv" THEN "records jsonl" ELSE f]
<1>1. /\ UNCHANGED <<resume, surgery, sparse, pending, writing, disk>>
      /\ pc = "down" /\ pc' = "group" /\ group' = 1 /\ adapter' = 0
      /\ attempt' \in 1..MaxAttempts
      /\ rows' = [f \in File |-> Loaded(f)]
      /\ completed' = IF resume THEN Keys ELSE {}
  BY ExplorationAssumption DEF IInv, TypeOK, Start, options
<1>2. Keys \subseteq Condition /\ \A f \in {"records jsonl", "frontier", "masks"} : Keys \subseteq ConditionsIn(disk[f])
  BY KeysAreInFiles DEF IInv
<1>3. \A f \in File : disk[f] \subseteq Row /\ From(f) \subseteq Row
  BY FileNames DEF IInv, TypeOK
<1>4. \A f \in File : rows'[f] = Loaded(f) /\ Loaded(f) \subseteq Row
  BY <1>1, <1>3 DEF Loaded
<1>5. resume => \A f \in File : Loaded(f) = {r \in From(f) : r[1] \in Keys}
  BY DEF Loaded
<1>6. ~resume => \A f \in File : Loaded(f) = {}
  BY DEF Loaded
<1>7. Known' = completed'
  BY <1>1 DEF Known
<1>8. TypeOK'
  <2>1. rows' \in [File -> SUBSET Row]
    BY <1>1, <1>4
  <2>2. group' \in 1..(Groups + 1) /\ adapter' \in 0..Groups /\ attempt' \in 0..MaxAttempts
    BY <1>1, ExplorationAssumption
  <2>3. completed' \subseteq Condition
    BY <1>1, <1>2
  <2> QED BY <1>1, <2>1, <2>2, <2>3 DEF IInv, TypeOK
<1>9. LoopInv'
  BY <1>1 DEF LoopInv
<1>10. ~surgery => Keys = {}
  BY <1>2 DEF IInv, KeysInv, ConditionsIn
<1>11. RowsInv'
  <2>1. ASSUME NEW f \in Kept
        PROVE  ConditionsIn(rows'[f]) = IF Fills(f) THEN completed' ELSE {}
    <3>1. f \in File /\ f # "features" /\ (f \in {"records csv", "records jsonl"} => Fills(f))
      BY DEF Kept, Fills
    <3>2. CASE ~resume
      BY <1>1, <1>4, <1>6, <3>1, <3>2 DEF ConditionsIn
    <3>3. CASE resume /\ surgery
      <4>1. Fills(f)
        BY <3>1, <3>3, FileNames DEF Fills
      <4>2. Keys \subseteq ConditionsIn(From(f))
        BY <1>2, <3>1, FileNames
      <4>3. ConditionsIn(Loaded(f)) = Keys
        BY <1>5, <3>1, <3>3, <4>2, PickedConditions
      <4> QED BY <1>1, <1>4, <3>1, <3>3, <4>1, <4>3
    <3>4. CASE resume /\ ~surgery
      BY <1>1, <1>4, <1>5, <1>10, <3>1, <3>4 DEF ConditionsIn
    <3> QED BY <3>2, <3>3, <3>4
  <2>2. ConditionsIn(rows'["features"]) \subseteq completed'
    BY <1>1, <1>4, <1>5, <1>6, FileNames DEF ConditionsIn
  <2>3. \A f \in Kept : Fills(f)' = Fills(f)
    BY <1>1 DEF Fills
  <2> QED BY <1>1, <1>7, <2>1, <2>2, <2>3 DEF RowsInv, ConditionsIn, Fills
<1>12. DiskInv'
  <2>1. ASSUME NEW f \in Kept PROVE completed' \subseteq ConditionsIn(disk[f])
    BY <1>1, <1>2, FileNames DEF IInv, KeysInv, Kept
  <2> QED BY <1>1, <2>1 DEF DiskInv, ConditionsIn
<1>13. KeysInv'
  BY <1>1, <1>7 DEF IInv, KeysInv, CompletedKeys, ConditionsIn
<1>14. OneInv'
  <2> SUFFICES ASSUME resume, surgery PROVE OneInv'
    BY <1>1 DEF OneInv
  <2>1. \A f, h \in Read : Same(disk[f], disk[h], Keys)
    BY DEF IInv, OneInv
  <2>2. \A f \in Read : f \in File /\ rows'[f] \subseteq disk[f] /\ completed' = Keys
    BY <1>1, <1>4, <1>5 DEF Read
  <2>3. \A f, h \in Read : Same(rows'[f], rows'[h], completed') /\ Same(disk[f], rows'[h], Keys)
    BY <2>1, <2>2 DEF Same
  <2> QED BY <1>1, <1>7, <2>1, <2>3 DEF IInv, OneInv
<1> QED BY <1>8, <1>9, <1>11, <1>12, <1>13, <1>14 DEF IInv

\* A step that changes neither memory nor files leaves what is said of them.
LEMMA FilesFrame ==
    ASSUME IInv, UNCHANGED <<options, rows, completed, disk>>, pc # "down", pc' \notin {"down", "write"}, pc # "write"
    PROVE  RowsInv' /\ DiskInv' /\ KeysInv' /\ OneInv'
<1>1. Known' = Known /\ UNCHANGED <<resume, surgery, sparse>>
  BY DEF Known, options
<1>2. RowsInv'
  BY <1>1 DEF IInv, RowsInv, ConditionsIn, Fills
<1>3. DiskInv'
  BY <1>1 DEF IInv, DiskInv, ConditionsIn, Fills
<1>4. KeysInv'
  BY <1>1 DEF IInv, KeysInv, ConditionsIn, CompletedKeys
<1>5. OneInv'
  BY <1>1 DEF IInv, OneInv
<1> QED BY <1>2, <1>3, <1>4, <1>5

\* The groups are passed one after the other.
LEMMA GroupStep ==
    ASSUME IInv, EnterGroup \/ LeaveGroup \/ Finish
    PROVE  IInv'
<1>1. RowsInv' /\ DiskInv' /\ KeysInv' /\ OneInv'
  <2>1. /\ UNCHANGED <<options, rows, completed, disk>>
        /\ pc # "down" /\ pc' \notin {"down", "write"} /\ pc # "write"
    BY DEF EnterGroup, LeaveGroup, Finish
  <2> QED BY <2>1, FilesFrame
<1>2. UNCHANGED <<resume, surgery, sparse, attempt, completed, rows, disk, writing>> /\ TypeOK /\ LoopInv
  BY DEF EnterGroup, LeaveGroup, Finish, options, IInv
<1>3. Groups \in Nat /\ group \in 1..(Groups + 1)
  BY <1>2, ExplorationAssumption DEF TypeOK
<1>4. CASE EnterGroup
  <2>1. CASE PendingSizes(group) = {}
    <3>1. group' = group + 1 /\ group <= Groups /\ UNCHANGED <<pending, adapter, pc>> /\ pc = "group"
      BY <1>4, <2>1 DEF EnterGroup
    <3>2. \A b \in 1..Sizes : <<group, b>> \in completed
      BY <2>1 DEF PendingSizes
    <3>3. TypeOK'
      BY <1>2, <1>3, <3>1 DEF TypeOK
    <3>4. LoopInv'
      BY <1>2, <1>3, <3>1, <3>2 DEF LoopInv
    <3> QED BY <1>1, <3>3, <3>4 DEF IInv
  <2>2. CASE PendingSizes(group) # {}
    <3>1. pending' = PendingSizes(group) /\ adapter' = group /\ pc' = "explore" /\ group' = group
          /\ group <= Groups /\ pc = "group"
      BY <1>4, <2>2 DEF EnterGroup
    <3>2. TypeOK'
      BY <1>2, <1>3, <3>1 DEF TypeOK, PendingSizes
    <3>3. LoopInv'
      BY <1>2, <1>3, <3>1 DEF LoopInv, PendingSizes
    <3> QED BY <1>1, <3>2, <3>3 DEF IInv
  <2> QED BY <2>1, <2>2
<1>5. CASE LeaveGroup
  <2>1. group' = group + 1 /\ pc' = "group" /\ pc = "explore" /\ pending = {} /\ UNCHANGED <<pending, adapter>>
    BY <1>5 DEF LeaveGroup
  <2>2. group <= Groups /\ \A b \in 1..Sizes : <<group, b>> \in completed
    BY <1>2, <2>1 DEF LoopInv
  <2>3. TypeOK'
    BY <1>2, <1>3, <2>1, <2>2 DEF TypeOK
  <2>4. LoopInv'
    BY <1>2, <1>3, <2>1, <2>2 DEF LoopInv
  <2> QED BY <1>1, <2>3, <2>4 DEF IInv
<1>6. CASE Finish
  <2>1. group > Groups /\ adapter' = 0 /\ pc' = "finished" /\ pc = "group" /\ UNCHANGED <<group, pending>>
    BY <1>6 DEF Finish
  <2>2. TypeOK'
    BY <1>2, <1>3, <2>1 DEF TypeOK
  <2>3. LoopInv'
    BY <1>2, <1>3, <2>1 DEF LoopInv
  <2> QED BY <1>1, <2>2, <2>3 DEF IInv
<1> QED BY <1>4, <1>5, <1>6

\* A condition that is explored was not known.
LEMMA ExploreStep ==
    ASSUME IInv, Explore
    PROVE  IInv'
<1> DEFINE row == <<Here, attempt>>
<1>1. /\ UNCHANGED <<resume, surgery, sparse, attempt, group, pending, adapter, completed, disk>>
      /\ pc = "explore" /\ pc' = "write" /\ writing' = 1 /\ pending # {}
      /\ rows' = [f \in File |-> IF Fills(f) THEN rows[f] \cup {row} ELSE rows[f]]
  BY DEF Explore, options, Here
<1>2. TypeOK /\ LoopInv
  BY DEF IInv
<1>3. Here \in Condition /\ Here \notin completed /\ row \in Row
  <2>1. Smallest(pending) \in pending /\ pending \subseteq 1..Sizes
    BY <1>1, <1>2, SmallestPending DEF TypeOK
  <2>2. group \in 1..Groups /\ attempt \in 1..MaxAttempts
    BY <1>1, <1>2 DEF LoopInv
  <2>3. Here \in Condition /\ Here \notin completed
    BY <1>1, <1>2, <2>1, <2>2 DEF LoopInv, Here, Condition
  <2> QED BY <2>2, <2>3 DEF Row
<1>4. Known = completed /\ Known' = completed \cup {Here}
  BY <1>1 DEF Known, Here
<1> HIDE DEF row
<1>5. \A f \in File : rows'[f] = IF Fills(f) THEN rows[f] \cup {row} ELSE rows[f]
  BY <1>1
<1>6. row[1] = Here
  BY DEF row
<1>7. TypeOK'
  <2>1. \A f \in File : rows[f] \in SUBSET Row
    BY <1>2 DEF TypeOK
  <2>2. rows' \in [File -> SUBSET Row]
    BY <1>1, <1>3, <2>1
  <2>3. writing' \in 1..Len(Files)
    BY <1>1, FileLength
  <2> QED BY <1>1, <1>2, <2>2, <2>3 DEF TypeOK
<1>8. LoopInv'
  BY <1>1, <1>2 DEF LoopInv
<1>9. RowsInv'
  <2>1. ASSUME NEW f \in Kept
        PROVE  ConditionsIn(rows'[f]) = IF Fills(f) THEN completed \cup {Here} ELSE {}
    <3>1. ConditionsIn(rows[f]) = IF Fills(f) THEN completed ELSE {}
      BY <1>1, <1>4 DEF IInv, RowsInv
    <3>2. f \in File
      BY DEF Kept
    <3> QED BY <1>5, <1>6, <3>1, <3>2 DEF ConditionsIn
  <2>2. ConditionsIn(rows'["features"]) \subseteq completed \cup {Here}
    <3>1. ConditionsIn(rows["features"]) \subseteq completed /\ "features" \in File
      BY <1>1, <1>4, FileNames DEF IInv, RowsInv
    <3> QED BY <1>5, <1>6, <3>1 DEF ConditionsIn
  <2> QED BY <1>1, <1>4, <2>1, <2>2 DEF RowsInv, ConditionsIn, Fills
<1>10. DiskInv'
  BY <1>1 DEF IInv, DiskInv, ConditionsIn, Fills
<1>11. KeysInv'
  BY <1>1, <1>4 DEF IInv, KeysInv, CompletedKeys, ConditionsIn
<1>12. OneInv'
  <2> SUFFICES ASSUME resume, surgery PROVE OneInv'
    BY <1>1 DEF OneInv
  <2>1. CompletedKeys(disk) \subseteq completed
    BY <1>1, <1>4 DEF IInv, KeysInv
  <2>2. \A f \in File : ConditionsIn(rows[f]) \subseteq completed
    BY <1>1, <1>4 DEF IInv, RowsInv, Kept
  <2>3. \A f \in File : \A r \in rows[f] : r[1] \in completed
    BY <2>2 DEF ConditionsIn
  <2>4. \A f \in Read : f \in File
    BY DEF Read
  <2>5. \A f, h \in Read : /\ Same(rows[f], rows[h], completed)
                           /\ Same(disk[f], rows[h], CompletedKeys(disk))
    BY <1>1, <1>4 DEF IInv, OneInv
  <2>6. \A f, h \in Read : Same(rows'[f], rows'[h], completed \cup {Here})
    <3> TAKE f, h \in Read
    <3>1. ASSUME NEW r \in rows'[f], NEW q \in rows'[h], r[1] = q[1] PROVE r = q
      <4>1. CASE r[1] = Here
        <5>1. r \notin rows[f] /\ q \notin rows[h]
          BY <1>3, <2>3, <2>4, <3>1, <4>1
        <5>2. r = row /\ q = row
          BY <1>5, <2>4, <3>1, <5>1
        <5> QED BY <5>2
      <4>2. CASE r[1] # Here
        <5>1. r \in rows[f] /\ q \in rows[h]
          BY <1>5, <1>6, <2>4, <3>1, <4>2
        <5> QED BY <2>3, <2>4, <2>5, <3>1, <5>1 DEF Same
      <4> QED BY <4>1, <4>2
    <3> QED BY <3>1 DEF Same
  <2>7. \A f, h \in Read : Same(disk[f], rows'[h], CompletedKeys(disk))
    <3> SUFFICES ASSUME NEW f \in Read, NEW h \in Read, NEW r \in disk[f], NEW q \in rows'[h],
                        r[1] = q[1], r[1] \in CompletedKeys(disk)
                 PROVE  r = q
      BY DEF Same
    <3>1. r[1] # Here
      BY <1>3, <2>1
    <3>2. q \in rows[h]
      BY <1>5, <1>6, <2>4, <3>1
    <3>3. QED
      BY <2>5, <3>2 DEF Same
  <2> QED BY <1>1, <1>4, <2>6, <2>7 DEF IInv, OneInv
<1> QED BY <1>7, <1>8, <1>9, <1>10, <1>11, <1>12 DEF IInv


\* A file that is replaced keeps what a restart would take for explored, and
\* what a restart takes for explored anew is whole.
LEMMA WriteFiles ==
    ASSUME IInv, Write
    PROVE  LET f == Files[writing] IN
           /\ f \in File
           /\ disk' = [disk EXCEPT ![f] = rows[f]]
           /\ disk'[f] = rows[f] /\ \A h \in File : h # f => disk'[h] = disk[h]
           /\ UNCHANGED <<resume, surgery, sparse, attempt, group, adapter, rows>>
           /\ pc = "write" /\ Known' = Known
           /\ \A i \in 1..writing : disk'[Files[i]] = rows[Files[i]]
           /\ completed \subseteq completed' /\ completed' \subseteq Known
<1> DEFINE f == Files[writing]
<1>1. writing \in 1..5 /\ f \in File
  BY FileLength DEF IInv, TypeOK, File
<1>2. disk' = [disk EXCEPT ![f] = rows[f]] /\ pc = "write"
      /\ UNCHANGED <<resume, surgery, sparse, attempt, group, adapter, rows>>
  BY DEF Write, options
<1>3. disk'[f] = rows[f] /\ \A h \in File : h # f => disk'[h] = disk[h]
  BY <1>1, <1>2 DEF IInv, TypeOK
<1>4. \A i \in 1..writing : disk'[Files[i]] = rows[Files[i]]
  <2> TAKE i \in 1..writing
  <2>1. CASE i = writing
    BY <1>3, <2>1
  <2>2. CASE i # writing
    <3>1. i \in 1..(writing - 1) /\ i \in 1..Len(Files)
      BY <1>1, <2>2, FileLength
    <3>2. disk[Files[i]] = rows[Files[i]] /\ Files[i] \in File
      BY <1>2, <3>1 DEF IInv, DiskInv, File
    <3> QED BY <1>3, <3>2
  <2> QED BY <2>1, <2>2
<1>5. Known' = Known /\ completed \subseteq completed' /\ completed' \subseteq Known
  <2>1. CASE writing < Len(Files)
    BY <1>2, <2>1 DEF Write, Known, Here
  <2>2. CASE ~(writing < Len(Files))
    BY <1>2, <2>2 DEF Write, Known, Here
  <2> QED BY <2>1, <2>2
<1> QED BY <1>1, <1>2, <1>3, <1>4, <1>5

\* In the middle of a checkpoint: what a restart takes for explored is known,
\* and with the oracles on grows.
LEMMA WriteKeys ==
    ASSUME IInv, Write, resume, surgery
    PROVE  /\ CompletedKeys(disk) \subseteq CompletedKeys(disk')
           /\ CompletedKeys(disk') \subseteq Known
<1> DEFINE f == Files[writing]
<1>1. /\ f \in File
      /\ disk'[f] = rows[f] /\ \A h \in File : h # f => disk'[h] = disk[h]
      /\ pc = "write"
  BY WriteFiles
<1>2. CompletedKeys(disk) \subseteq Known
  BY <1>1 DEF IInv, KeysInv
<1>3. \A h \in {"records jsonl", "frontier", "masks"} : ConditionsIn(rows[h]) = Known
  BY <1>1, FileNames DEF IInv, RowsInv, Kept, Fills
<1> HIDE DEF f
<1>4. CASE f \in {"records jsonl", "frontier", "masks"}
  <2>1. ConditionsIn(disk'[f]) = Known
    BY <1>1, <1>3, <1>4
  <2> QED BY <1>1, <1>2, <1>4, <2>1, FileNames DEF CompletedKeys
<1>5. CASE f \notin {"records jsonl", "frontier", "masks"}
  <2>1. CompletedKeys(disk') = CompletedKeys(disk)
    BY <1>1, <1>5, FileNames DEF CompletedKeys
  <2> QED BY <1>2, <2>1
<1> QED BY <1>4, <1>5

\* Replacing a file.
LEMMA WriteStep ==
    ASSUME IInv, Write
    PROVE  IInv'
<1> DEFINE f == Files[writing]
<1>1. /\ f \in File
      /\ disk' = [disk EXCEPT ![f] = rows[f]]
      /\ disk'[f] = rows[f] /\ \A h \in File : h # f => disk'[h] = disk[h]
      /\ UNCHANGED <<resume, surgery, sparse, attempt, group, adapter, rows>>
      /\ pc = "write" /\ Known' = Known
      /\ \A i \in 1..writing : disk'[Files[i]] = rows[Files[i]]
      /\ completed \subseteq completed' /\ completed' \subseteq Known
  BY WriteFiles
<1>2. writing \in 1..5 /\ TypeOK /\ LoopInv
  BY FileLength DEF IInv, TypeOK
<1>3. \/ /\ writing < 5 /\ writing' = writing + 1
         /\ UNCHANGED <<pc, completed, pending>>
      \/ /\ writing = 5 /\ writing' = 1 /\ pc' = "explore"
         /\ completed' = completed \cup {Here}
         /\ pending' = pending \ {Smallest(pending)}
  BY <1>2, FileLength DEF Write, Here
<1>4. Here \in Condition
  <2>1. Smallest(pending) \in pending /\ pending \subseteq 1..Sizes
    BY <1>1, <1>2, SmallestPending DEF TypeOK, LoopInv
  <2> QED BY <1>1, <1>2, <2>1 DEF LoopInv, Here, Condition
<1> HIDE DEF f
<1>5. /\ disk'["records csv"] = rows["records csv"]
      /\ writing >= 4 => \A h \in {"records jsonl", "frontier", "masks"} : disk'[h] = rows[h]
      /\ writing = 5 => disk'["features"] = rows["features"]
  <2>1. 1 \in 1..writing /\ (writing >= 4 => 2 \in 1..writing /\ 3 \in 1..writing /\ 4 \in 1..writing)
        /\ (writing = 5 => 5 \in 1..writing)
    BY <1>2
  <2>2. disk'[Files[1]] = rows[Files[1]]
    BY <1>1, <2>1
  <2>3. writing >= 4 => /\ disk'[Files[2]] = rows[Files[2]]
                        /\ disk'[Files[3]] = rows[Files[3]]
                        /\ disk'[Files[4]] = rows[Files[4]]
    BY <1>1, <2>1
  <2>4. writing = 5 => disk'[Files[5]] = rows[Files[5]]
    BY <1>1, <2>1
  <2> QED BY <2>2, <2>3, <2>4, FileNumbers
<1>6. (f = "masks" => writing = 4) /\ (f = "features" => writing = 5)
  <2>1. writing = 1 \/ writing = 2 \/ writing = 3 \/ writing = 4 \/ writing = 5
    BY <1>2
  <2> QED BY <2>1, FileNumbers DEF f
<1>7. TypeOK'
  <2>1. disk' \in [File -> SUBSET Row]
    BY <1>1, <1>2 DEF TypeOK
  <2>2. completed' \subseteq Condition /\ pending' \subseteq 1..Sizes
    BY <1>2, <1>3, <1>4 DEF TypeOK
  <2>3. writing' \in 1..5 /\ pc' \in {"write", "explore"}
    BY <1>1, <1>2, <1>3
  <2> QED BY <1>1, <1>2, <2>1, <2>2, <2>3, FileLength DEF TypeOK
<1>8. LoopInv'
  <2>1. CASE UNCHANGED <<pc, completed, pending>>
    BY <1>1, <1>2, <2>1 DEF LoopInv
  <2>2. CASE pc' = "explore" /\ completed' = completed \cup {Here} /\ pending' = pending \ {Smallest(pending)}
    <3>1. \A b \in 1..Sizes : b \in pending' <=> <<group, b>> \notin completed'
      BY <1>1, <1>2, <2>2 DEF LoopInv, Here
    <3> QED BY <1>1, <1>2, <2>2, <3>1 DEF LoopInv
  <2> QED BY <1>3, <2>1, <2>2
<1>9. pc' # "down"
  BY <1>1, <1>3
<1>10. RowsInv'
  BY <1>1 DEF IInv, RowsInv, Fills
<1>11. \A h \in Kept : h \in File /\ (Fills(h) => ConditionsIn(rows[h]) = Known)
  BY <1>1 DEF IInv, RowsInv, Kept
<1>12. DiskInv'
  <2>1. ASSUME NEW h \in Kept, Fills(h) PROVE completed' \subseteq ConditionsIn(disk'[h])
    <3>1. CASE disk'[h] = rows[h]
      BY <1>1, <1>11, <2>1, <3>1
    <3>2. CASE disk'[h] # rows[h]
      <4>1. h # f /\ disk'[h] = disk[h] /\ completed \subseteq ConditionsIn(disk[h])
        BY <1>1, <1>11, <2>1, <3>2 DEF IInv, DiskInv
      <4>2. writing # 5
        <5>1. h \in {Files[1], Files[2], Files[3], Files[4]}
          BY FileNames DEF Kept
        <5> QED BY <1>1, <3>2, <5>1
      <4> QED BY <1>3, <4>1, <4>2
    <3> QED BY <3>1, <3>2
  <2>2. pc' = "write" => writing' - 1 = writing
    BY <1>2, <1>3
  <2>3. \A h \in Kept : Fills(h)' = Fills(h)
    BY <1>1 DEF Fills
  <2> QED BY <1>1, <2>1, <2>2, <2>3 DEF DiskInv
<1>13. KeysInv'
  <2>1. ~surgery => disk'["frontier"] = {}
    <3>1. ~surgery => disk["frontier"] = {} /\ rows["frontier"] = {}
      <4>1. ~surgery => ConditionsIn(rows["frontier"]) = {}
        BY <1>1, FileNames DEF IInv, RowsInv, Kept, Fills
      <4> QED BY <4>1 DEF IInv, KeysInv, ConditionsIn
    <3> QED BY <1>1, <3>1, FileNames
  <2>2. CASE ~surgery
    <3>1. CompletedKeys(disk') = {}
      BY <2>1, <2>2 DEF CompletedKeys, ConditionsIn
    <3> QED BY <1>1, <2>1, <3>1 DEF KeysInv
  <2>3. CASE ~resume
    BY <1>1, <2>1, <2>3 DEF KeysInv
  <2>4. CASE resume /\ surgery
    <3>1. CompletedKeys(disk') \subseteq Known
      BY <2>4, WriteKeys
    <3>2. ConditionsIn(disk'["records csv"]) = Known
      <4>1. disk'["records csv"] = rows["records csv"]
        BY <1>5
      <4>2. "records csv" \in Kept /\ Fills("records csv")
        BY FileNames DEF Kept, Fills
      <4> QED BY <1>11, <4>1, <4>2
    <3> QED BY <1>1, <2>1, <3>1, <3>2 DEF KeysInv
  <2> QED BY <2>2, <2>3, <2>4
<1>14. OneInv'
  <2> SUFFICES ASSUME resume, surgery PROVE OneInv'
    BY <1>1 DEF OneInv
  <2> DEFINE Keys == CompletedKeys(disk)
             Next1 == CompletedKeys(disk')
  <2>1. Keys \subseteq Next1 /\ Next1 \subseteq Known
    BY WriteKeys
  <2>2. /\ ConditionsIn(disk["masks"]) \subseteq Keys /\ ConditionsIn(disk["features"]) \subseteq Keys
        /\ \A g, h \in Read : /\ Same(disk[g], disk[h], Keys)
                              /\ Same(rows[g], rows[h], Known)
                              /\ Same(disk[g], rows[h], Keys)
    BY <1>1 DEF IInv, OneInv
  <2>3. ConditionsIn(rows["features"]) \subseteq Known
    BY <1>1 DEF IInv, RowsInv
  <2>4. \A h \in Kept : Fills(h) /\ ConditionsIn(rows[h]) = Known
    BY <1>11, FileNames DEF Kept, Fills
  <2>5. writing >= 4 => Next1 = Known
    <3>1. writing >= 4 => \A h \in {"records jsonl", "frontier", "masks"} : disk'[h] = rows[h]
      BY <1>5
    <3>2. \A h \in {"records jsonl", "frontier", "masks"} : ConditionsIn(rows[h]) = Known
      BY <2>4, FileNames DEF Kept
    <3> QED BY <3>1, <3>2 DEF CompletedKeys
  <2>6. f = "masks" => writing = 4
    BY <1>6
  <2>7. f = "features" => writing = 5
    BY <1>6
  <2>8. ConditionsIn(disk'["masks"]) \subseteq Next1
    <3>1. "masks" \in Kept /\ "masks" \in File
      BY FileNames DEF Kept
    <3>2. CASE f = "masks"
      BY <1>1, <2>4, <2>5, <2>6, <1>2, <3>1, <3>2
    <3>3. CASE f # "masks"
      BY <1>1, <2>1, <2>2, <3>1, <3>3
    <3> QED BY <3>2, <3>3
  <2>9. ConditionsIn(disk'["features"]) \subseteq Next1
    <3>1. "features" \in File
      BY FileNames
    <3>2. CASE f = "features"
      BY <1>1, <1>2, <2>3, <2>5, <2>7, <3>2
    <3>3. CASE f # "features"
      BY <1>1, <2>1, <2>2, <3>1, <3>3
    <3> QED BY <3>2, <3>3
  \* A row on disk of a condition that is taken for explored anew is one of
  \* those in memory.
  <2>10. ASSUME NEW h \in Read, NEW r \in disk'[h], r[1] \in Next1, r[1] \notin Keys
         PROVE  r \in rows[h]
    <3>1. h \in {"records jsonl", "frontier", "masks", "features"}
      BY FileNames DEF Read
    <3>2. writing >= 4
      <4>1. r[1] \in ConditionsIn(disk'["masks"])
        BY <2>10 DEF CompletedKeys
      <4>2. f = "masks" \/ disk'["masks"] = disk["masks"]
        BY <1>1, FileNames
      <4>3. f = "masks"
        BY <2>2, <2>10, <4>1, <4>2
      <4> QED BY <2>6, <4>3
    <3>3. CASE h # "features"
      <4>1. disk'[h] = rows[h]
        BY <1>5, <3>1, <3>2, <3>3
      <4> QED BY <2>10, <4>1
    <3>4. CASE h = "features"
      <4>1. f = "features" \/ disk'["features"] = disk["features"]
        BY <1>1, FileNames
      <4>2. f = "features"
        BY <2>2, <2>10, <3>4, <4>1 DEF ConditionsIn
      <4> QED BY <1>1, <2>10, <3>4, <4>2
    <3> QED BY <3>3, <3>4
  <2>11. \A h \in Read : h \in File /\ (disk'[h] = disk[h] \/ disk'[h] = rows[h])
    BY <1>1 DEF Read
  <2> HIDE DEF Keys, Next1
  <2>12. ASSUME NEW g \in Read, NEW h \in Read,
                NEW r \in disk'[g], NEW q \in rows[h], r[1] = q[1], r[1] \in Next1
         PROVE  r = q
    <3>1. r \in rows[g] \/ (r \in disk[g] /\ r[1] \in Keys)
      BY <2>10, <2>11, <2>12
    <3> QED BY <2>1, <2>2, <2>12, <3>1 DEF Same
  <2>13. ASSUME NEW g \in Read, NEW h \in Read,
                NEW r \in disk'[g], NEW q \in disk'[h], r[1] = q[1], r[1] \in Next1
         PROVE  r = q
    <3>1. CASE r[1] \in Keys
      <4>1. (r \in disk[g] \/ r \in rows[g]) /\ (q \in disk[h] \/ q \in rows[h])
        BY <2>11, <2>13
      <4> QED BY <2>1, <2>2, <2>13, <3>1, <4>1 DEF Same
    <3>2. CASE r[1] \notin Keys
      <4>1. q \in rows[h]
        BY <2>10, <2>13, <3>2
      <4> QED BY <2>12, <2>13, <4>1
    <3> QED BY <3>1, <3>2
  <2>14. \A g, h \in Read : /\ Same(disk'[g], disk'[h], Next1) /\ Same(disk'[g], rows[h], Next1)
                            /\ Same(rows[g], rows[h], Known)
    BY <2>2, <2>12, <2>13 DEF Same
  <2> QED BY <1>1, <2>8, <2>9, <2>14 DEF OneInv, Next1
<1> QED BY <1>7, <1>8, <1>10, <1>12, <1>13, <1>14 DEF IInv

\* Where a process ends its memory goes and the files stay.
LEMMA StopStep ==
    ASSUME IInv, Stop
    PROVE  IInv'
<1>1. /\ UNCHANGED <<resume, surgery, sparse, attempt, disk>> /\ pc' = "down"
      /\ adapter' = 0 /\ pending' = {} /\ writing' = 1 /\ group' = 1 /\ completed' = {}
      /\ rows' = [f \in File |-> {}]
  BY DEF Stop, options
<1>2. TypeOK'
  <2>1. 1 \in 1..(Groups + 1) /\ 0 \in 0..Groups /\ 1 \in 1..Len(Files)
    BY ExplorationAssumption, FileLength
  <2> QED BY <1>1, <2>1 DEF IInv, TypeOK
<1>3. LoopInv' /\ RowsInv' /\ DiskInv'
  BY <1>1 DEF LoopInv, RowsInv, DiskInv
<1>4. KeysInv'
  BY <1>1 DEF IInv, KeysInv
<1>5. OneInv'
  BY <1>1 DEF IInv, OneInv
<1> QED BY <1>2, <1>3, <1>4, <1>5 DEF IInv

\* Every step keeps the invariant.
LEMMA NextIInv == IInv /\ [Next]_vars => IInv'
<1>1. ASSUME IInv, UNCHANGED vars PROVE IInv'
  <2>1. UNCHANGED <<resume, surgery, sparse, attempt, pc, group, pending, adapter, rows, completed,
                    writing, disk>> /\ Known' = Known
    BY <1>1 DEF vars, options, Known, Here
  <2>2. TypeOK' /\ LoopInv'
    BY <1>1, <2>1 DEF IInv, TypeOK, LoopInv
  <2>3. RowsInv' /\ DiskInv'
    BY <1>1, <2>1 DEF IInv, RowsInv, DiskInv, Fills
  <2>4. KeysInv'
    BY <1>1, <2>1 DEF IInv, KeysInv
  <2>5. OneInv'
    BY <1>1, <2>1 DEF IInv, OneInv
  <2> QED BY <2>2, <2>3, <2>4, <2>5 DEF IInv
<1> QED BY <1>1, StartStep, GroupStep, ExploreStep, WriteStep, StopStep DEF Next

\* The invariant holds of every exploration, however often it is started.
LEMMA AlwaysIInv == Spec => []IInv
BY InitIInv, NextIInv, PTL DEF Spec

\* The variables hold what they may.
THEOREM TypeCorrect == Spec => []TypeOK
<1>1. IInv => TypeOK
  BY DEF IInv
<1> QED BY AlwaysIInv, <1>1, PTL

\* With the oracles on, a condition whose checkpoint was written is never
\* lost, whatever is killed between two files.
THEOREM SearchIsKept == Spec => SearchKept
<1> DEFINE Keeps == resume /\ surgery => CompletedKeys(disk) \subseteq CompletedKeys(disk')
<1>1. ASSUME IInv, [Next]_vars PROVE Keeps
  <2>1. CASE Write
    BY <1>1, <2>1, WriteKeys
  <2>2. CASE UNCHANGED disk
    BY <2>2
  <2> QED BY <1>1, <2>1, <2>2 DEF Next, vars, Start, EnterGroup, Explore, LeaveGroup, Finish, Stop
<1>2. IInv /\ [Next]_vars => [Keeps]_vars
  BY <1>1
<1> HIDE DEF Keeps
<1>3. [][Keeps]_vars => SearchKept
  BY PTL DEF Keeps, SearchKept
<1> QED BY AlwaysIInv, <1>2, <1>3, PTL DEF Spec

\* The rows that a restart takes for one exploration of a condition are of
\* one attempt.
THEOREM ExplorationsAreWhole == Spec => []OneAttemptEach
<1>1. IInv => OneAttemptEach
  <2> SUFFICES ASSUME IInv, resume, NEW c \in CompletedKeys(disk), NEW f \in File, NEW h \in File,
                      NEW r \in Of(c, f), NEW q \in Of(c, h), f # "records csv", h # "records csv"
               PROVE  r = q
    BY DEF OneAttemptEach
  <2>1. surgery
    BY DEF IInv, KeysInv, CompletedKeys, ConditionsIn
  <2>2. Same(disk[f], disk[h], CompletedKeys(disk))
    BY <2>1 DEF IInv, OneInv, Read
  <2>3. r \in disk[f] /\ q \in disk[h] /\ r[1] = c /\ q[1] = c
    BY DEF Of
  <2> QED BY <2>2, <2>3 DEF Same
<1> QED BY AlwaysIInv, <1>1, PTL

\* An exploration that ends has every condition on disk in every file that
\* it fills, the features aside.
THEOREM EndsWithAll == Spec => []FinishedMeansAll
<1>1. IInv => FinishedMeansAll
  <2> SUFFICES ASSUME IInv, pc = "finished", NEW f \in Kept, Fills(f)
               PROVE  ConditionsIn(disk[f]) = Condition
    BY DEF FinishedMeansAll, Kept
  <2>1. \A g \in 1..Groups, b \in 1..Sizes : <<g, b>> \in completed
    <3>1. (Groups + 1) - 1 = Groups
      BY ExplorationAssumption
    <3> QED BY <3>1 DEF IInv, LoopInv
  <2>2. Condition \subseteq completed
    BY <2>1 DEF Condition
  <2>3. completed \subseteq ConditionsIn(disk[f])
    BY DEF IInv, DiskInv
  <2>4. disk[f] \subseteq Row
    BY DEF IInv, TypeOK, Kept
  <2> QED BY <2>2, <2>3, <2>4 DEF ConditionsIn, Row
<1> QED BY AlwaysIInv, <1>1, PTL

=============================================================================
