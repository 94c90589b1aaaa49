------------------------ MODULE RunDirectory_proofs ------------------------
(***************************************************************************)
(* For any number of conditions, tables and starts: what the files of a    *)
(* run directory say of each other, wherever a run fails or is killed.     *)
(***************************************************************************)
EXTENDS RunDirectory, TLAPS

Writing == {"jsonl", "csv"}

\* The attempt under way has results of the conditions it computed.
MemoryInv ==
    pc # "down" =>
        /\ attempt \in 1..MaxAttempts
        /\ \A t \in Names : Covered(memory[t]) = 1..computed

\* In a pass over the tables those before the current one are written, and
\* the .jsonl of the current one before its .csv.
PassInv ==
    /\ pc = "csv" => Identities(memory[Tables[table]]) \subseteq Identities(jsonl[Tables[table]])
                     /\ 1..computed \subseteq Covered(jsonl[Tables[table]])
    /\ pc \in Writing =>
        \A i \in 1..(table - 1) : /\ 1..computed \subseteq Covered(jsonl[Tables[i]])
                                  /\ 1..computed \subseteq Covered(csv[Tables[i]])
    /\ pc \notin Writing \cup {"down"} => table = 1
    /\ pc \in {"complete", "clear"} =>
        /\ computed = Conditions
        /\ \A t \in Names : 1..computed \subseteq Covered(jsonl[t]) /\ 1..computed \subseteq Covered(csv[t])

\* Progress is reported of conditions that are computed; with checkpoints
\* all but the last of these are in the tables.
ReportInv ==
    /\ pc \notin {"down", "reset"} => progress.completed <= computed
    /\ pc = "reset" => computed = 0
    /\ pc \in {"progress", "jsonl", "csv"} => computed > 0
    /\ checkpoint /\ pc \notin {"down", "reset"} =>
        \A t \in Names :
            1..(IF pc \in {"progress", "jsonl", "csv"} THEN computed - 1 ELSE computed)
                \subseteq Covered(jsonl[t])
    /\ progress.status = "completed" => pc \in {"down", "reset", "clear"}

IInv ==
    /\ TypeOK /\ MemoryInv /\ PassInv /\ ReportInv
    /\ CompletedMeansAll /\ CsvNeverAhead /\ ProgressWithinOne

\* Merging keeps what is known and adds what is new.
LEMMA MergedIdentities ==
    ASSUME NEW old, NEW new
    PROVE  Identities(Merged(old, new)) = Identities(old) \cup Identities(new)
BY DEF Merged, Identities

\* And so for the conditions: they are part of the identity.
LEMMA MergedCovers ==
    ASSUME NEW old, NEW new
    PROVE  Covered(Merged(old, new)) = Covered(old) \cup Covered(new)
<1>1. ASSUME NEW r \in old PROVE r.cond \in Covered(Merged(old, new))
  <2>1. CASE Identity(r) \notin Identities(new)
    BY <1>1, <2>1 DEF Merged, Covered
  <2>2. CASE Identity(r) \in Identities(new)
    <3>1. PICK q \in new : Identity(q) = Identity(r)
      BY <2>2 DEF Identities
    <3>2. q.cond = r.cond
      BY <3>1 DEF Identity
    <3> QED BY <3>1, <3>2 DEF Merged, Covered
  <2> QED BY <2>1, <2>2
<1> QED BY <1>1 DEF Merged, Covered

\* What is written to a table covers the memory, is typed, and with resume
\* forgets nothing.
LEMMA FinalFacts ==
    ASSUME TypeOK, NEW t \in Names
    PROVE  /\ Final(t) \subseteq Record
           /\ Covered(memory[t]) \subseteq Covered(Final(t))
           /\ Identities(memory[t]) \subseteq Identities(Final(t))
           /\ resume => Identities(Final(t)) = Identities(jsonl[t]) \cup Identities(memory[t])
<1>1. memory[t] \subseteq Record /\ jsonl[t] \subseteq Record
  BY DEF TypeOK
<1>2. CASE resume
  <2>1. Final(t) = Merged(jsonl[t], memory[t])
    BY <1>2 DEF Final
  <2>2. Merged(jsonl[t], memory[t]) \subseteq Record
    BY <1>1 DEF Merged
  <2> QED BY <2>1, <2>2, MergedIdentities, MergedCovers
<1>3. CASE ~resume
  BY <1>1, <1>3 DEF Final
<1> QED BY <1>2, <1>3

\* A table is covered by its own conditions only.
LEMMA CoveredTypes ==
    ASSUME NEW records, records \subseteq Record
    PROVE  Covered(records) \subseteq 1..Conditions
BY DEF Covered, Record

\* The tables by their number.
LEMMA TableNames ==
    ASSUME TypeOK
    PROVE  /\ Len(Tables) \in Nat /\ Len(Tables) > 0
           /\ Tables[table] \in Names
           /\ \A i \in 1..Len(Tables) : Tables[i] \in Names
           /\ \A t \in Names : \E i \in 1..Len(Tables) : Tables[i] = t
<1>1. Tables \in Seq({"records", "propagation", "boundary"})
  BY DirectoryAssumption
<1>2. Len(Tables) \in Nat /\ DOMAIN Tables = 1..Len(Tables) /\ Len(Tables) > 0
  BY <1>1, DirectoryAssumption
<1> QED BY <1>2 DEF TypeOK, Names, ToSet

\* The results of a condition are records of it, in every table.
LEMMA ResultFacts ==
    ASSUME Strategies # {}, attempt \in 1..MaxAttempts, NEW c \in 1..Conditions, NEW t \in Names,
           NEW decided \in [Strategies -> UNION {Decides[s] : s \in Strategies}]
    PROVE  Results(c, decided)[t] \subseteq Record /\ Covered(Results(c, decided)[t]) = {c}
<1>1. CASE t = "records"
  <2> DEFINE R(s) == [cond |-> c, strategy |-> s, decision |-> decided[s], attempt |-> attempt]
  <2>1. Results(c, decided)[t] = {R(s) : s \in Strategies}
    BY <1>1 DEF Results
  <2>2. ASSUME NEW s \in Strategies PROVE R(s) \in Record /\ R(s).cond = c
    <3>1. decided[s] \in (UNION {Decides[x] : x \in Strategies}) \cup {None}
      BY <2>2
    <3> QED BY <2>2, <3>1 DEF Record
  <2> HIDE DEF R
  <2> QED BY <2>1, <2>2 DEF Covered
<1>2. CASE t # "records"
  <2> DEFINE R == [cond |-> c, strategy |-> None, decision |-> None, attempt |-> attempt]
  <2>1. Results(c, decided)[t] = {R}
    BY <1>2 DEF Results
  <2>2. None \in Strategies \cup {None}
        /\ None \in (UNION {Decides[s] : s \in Strategies}) \cup {None}
    OBVIOUS
  <2>3. R \in Record /\ R.cond = c
    BY <2>2 DEF Record
  <2> HIDE DEF R
  <2> QED BY <2>1, <2>3 DEF Covered
<1> QED BY <1>1, <1>2

\* The first start finds nothing.
LEMMA InitIInv == Init => IInv
<1> SUFFICES ASSUME Init PROVE IInv
  OBVIOUS
<1>1. TypeOK
  <2>1. Len(Tables) \in Nat /\ Len(Tables) > 0
    BY DirectoryAssumption
  <2>2. attempt \in 0..MaxAttempts /\ computed \in 0..Conditions /\ table \in 1..Len(Tables)
        /\ progress \in [status : {"running", "completed", None}, completed : 0..Conditions]
    BY <2>1, DirectoryAssumption DEF Init
  <2> QED BY <2>2 DEF Init, TypeOK
<1>2. MemoryInv /\ PassInv /\ ReportInv
  BY DirectoryAssumption DEF Init, MemoryInv, PassInv, ReportInv, Writing
<1>3. CompletedMeansAll /\ CsvNeverAhead
  <2>1. progress.status # "completed"
    BY DirectoryAssumption DEF Init
  <2> QED BY <2>1 DEF Init, CompletedMeansAll, CsvNeverAhead
<1>4. ProgressWithinOne
  BY DEF Init, ProgressWithinOne
<1> QED BY <1>1, <1>2, <1>3, <1>4 DEF IInv

\* What the files say of each other does not change while they do not.
LEMMA FilesUnchanged ==
    ASSUME UNCHANGED <<options, tables, progress>>
    PROVE  /\ CompletedMeansAll => CompletedMeansAll'
           /\ CsvNeverAhead => CsvNeverAhead'
           /\ ProgressWithinOne => ProgressWithinOne'
BY DEF options, tables, CompletedMeansAll, CsvNeverAhead, ProgressWithinOne, Covered, Identities

\* A start forgets what the process had in memory, and no file.
LEMMA StartStep ==
    ASSUME IInv, Start
    PROVE  IInv'
<1>1. TypeOK'
  <2>1. attempt' \in 0..MaxAttempts /\ computed' \in 0..Conditions /\ table' \in 1..Len(Tables)
    BY DirectoryAssumption, TableNames DEF IInv, TypeOK, Start
  <2> QED BY <2>1 DEF IInv, TypeOK, Start, options, tables
<1>2. MemoryInv'
  BY DirectoryAssumption DEF IInv, TypeOK, Start, MemoryInv, Covered
<1>3. PassInv' /\ ReportInv'
  BY DEF Start, PassInv, ReportInv, Writing
<1>4. CompletedMeansAll' /\ CsvNeverAhead' /\ ProgressWithinOne'
  BY FilesUnchanged DEF IInv, Start
<1> QED BY <1>1, <1>2, <1>3, <1>4 DEF IInv

\* Before it computes, a run withdraws the progress of the one before it.
LEMMA ResetStep ==
    ASSUME IInv, ResetProgress
    PROVE  IInv'
<1>1. TypeOK'
  BY DirectoryAssumption DEF IInv, TypeOK, ResetProgress, options, tables
<1>2. MemoryInv'
  BY DEF IInv, ResetProgress, MemoryInv, Covered
<1>3. PassInv' /\ ReportInv'
  BY DirectoryAssumption DEF IInv, ResetProgress, PassInv, ReportInv, Writing, options, tables
<1>4. CompletedMeansAll' /\ ProgressWithinOne'
  BY DEF ResetProgress, CompletedMeansAll, ProgressWithinOne
<1>5. CsvNeverAhead'
  BY DEF IInv, ResetProgress, CsvNeverAhead, Identities, options, tables
<1> QED BY <1>1, <1>2, <1>3, <1>4, <1>5 DEF IInv

\* Computing a condition adds it to the memory of every table.
LEMMA ComputeStep ==
    ASSUME Strategies # {}, IInv, Compute
    PROVE  IInv'
<1>1. PICK decided \in [Strategies -> UNION {Decides[s] : s \in Strategies}] :
        memory' = [t \in Names |-> memory[t] \cup Results(computed + 1, decided)[t]]
  BY DEF Compute
<1>2. computed + 1 \in 1..Conditions /\ computed' = computed + 1 /\ computed \in Nat
      /\ attempt \in 1..MaxAttempts
  BY DirectoryAssumption DEF Compute, IInv, TypeOK, MemoryInv
<1> DEFINE new(t) == Results(computed + 1, decided)[t]
<1>3. \A t \in Names : new(t) \subseteq Record /\ Covered(new(t)) = {computed + 1}
  BY <1>2, ResultFacts
<1> HIDE DEF new
<1>4. \A t \in Names : memory'[t] = memory[t] \cup new(t)
  BY <1>1 DEF new
<1>5. TypeOK'
  <2>1. memory' \in [Names -> SUBSET Record]
    <3>1. \A t \in Names : memory[t] \cup new(t) \in SUBSET Record
      BY <1>3 DEF IInv, TypeOK
    <3>2. memory' = [t \in Names |-> memory[t] \cup new(t)]
      BY <1>1 DEF new
    <3> QED BY <3>1, <3>2
  <2>2. computed' \in 0..Conditions
    BY <1>2
  <2> QED BY <2>1, <2>2 DEF IInv, TypeOK, Compute, options, tables
<1>6. MemoryInv'
  <2>1. ASSUME NEW t \in Names PROVE Covered(memory'[t]) = 1..computed'
    <3>1. Covered(memory'[t]) = Covered(memory[t]) \cup Covered(new(t))
      BY <1>4 DEF Covered
    <3>2. Covered(memory[t]) = 1..computed
      BY DEF IInv, MemoryInv, Compute
    <3> QED BY <3>1, <3>2, <1>2, <1>3
  <2> QED BY <2>1, <1>2 DEF Compute, MemoryInv, Covered
<1>7. PassInv'
  BY DEF IInv, Compute, PassInv, Writing
<1>8. ReportInv'
  <2>1. checkpoint => \A t \in Names : 1..computed \subseteq Covered(jsonl[t])
    BY DEF IInv, Compute, ReportInv
  <2>2. computed' - 1 = computed
    BY <1>2
  <2>3. progress.completed <= computed' /\ progress.status # "completed"
    BY <1>2 DEF IInv, TypeOK, Compute, ReportInv
  <2> QED BY <1>2, <2>1, <2>2, <2>3 DEF Compute, ReportInv, Covered, options, tables
<1>9. CompletedMeansAll' /\ CsvNeverAhead' /\ ProgressWithinOne'
  BY FilesUnchanged DEF IInv, Compute
<1> QED BY <1>5, <1>6, <1>7, <1>8, <1>9 DEF IInv


\* Progress is reported of what was computed.
LEMMA ReportStep ==
    ASSUME IInv, ReportProgress
    PROVE  IInv'
<1>1. computed \in 0..Conditions /\ computed > 0 /\ pc' \in {"jsonl", "compute"} /\ table = 1
  BY DEF IInv, TypeOK, PassInv, ReportInv, ReportProgress, Writing
<1>2. TypeOK'
  BY <1>1 DEF IInv, TypeOK, ReportProgress, options, tables
<1>3. MemoryInv'
  BY <1>1 DEF IInv, MemoryInv, ReportProgress, Covered
<1>4. PassInv'
  BY <1>1 DEF ReportProgress, PassInv, Writing
<1>5. checkpoint => \A t \in Names : 1..(computed - 1) \subseteq Covered(jsonl[t])
  BY DEF IInv, ReportInv, ReportProgress
<1>6. ReportInv'
  <2>1. checkpoint => pc' = "jsonl"
    BY DEF ReportProgress
  <2> QED BY <1>1, <1>5, <2>1, DirectoryAssumption DEF ReportInv, ReportProgress, Covered, options, tables
<1>7. CompletedMeansAll'
  BY DEF ReportProgress, CompletedMeansAll
<1>8. CsvNeverAhead'
  BY DEF IInv, ReportProgress, CsvNeverAhead, Identities, options, tables
<1>9. ProgressWithinOne'
  BY <1>5 DEF ReportProgress, ProgressWithinOne, Covered, options, tables
<1> QED BY <1>2, <1>3, <1>4, <1>6, <1>7, <1>8, <1>9 DEF IInv

\* A .jsonl is replaced by rows that cover what was computed, and with
\* resume by every identity it had.
LEMMA JsonlStep ==
    ASSUME IInv, WriteJsonl
    PROVE  IInv'
<1> DEFINE now == Tables[table]
           rows == Final(now)
<1>1. now \in Names /\ TypeOK
  BY TableNames DEF IInv
<1>2. /\ rows \subseteq Record
      /\ Covered(memory[now]) \subseteq Covered(rows)
      /\ Identities(memory[now]) \subseteq Identities(rows)
      /\ resume => Identities(rows) = Identities(jsonl[now]) \cup Identities(memory[now])
  BY <1>1, FinalFacts
<1>3. Covered(memory[now]) = 1..computed /\ computed \in Nat /\ computed > 0
      /\ progress.completed \in Nat /\ progress.completed <= computed
  BY <1>1 DEF IInv, TypeOK, MemoryInv, ReportInv, WriteJsonl
<1> HIDE DEF rows, now
<1>4. jsonl' = [jsonl EXCEPT ![now] = rows] /\ DOMAIN jsonl = Names
  BY DEF WriteJsonl, IInv, TypeOK, rows, now
<1>5. jsonl'[now] = rows /\ \A t \in Names : t # now => jsonl'[t] = jsonl[t]
  BY <1>1, <1>4
<1>6. UNCHANGED <<resume, checkpoint, attempt, computed, table, memory, csv, progress, failure>>
      /\ pc = "jsonl" /\ pc' = "csv"
  BY DEF WriteJsonl, options
<1>7. TypeOK'
  <2>1. jsonl' \in [Names -> SUBSET Record]
    BY <1>1, <1>2, <1>4 DEF TypeOK
  <2> QED BY <1>1, <1>6, <2>1 DEF TypeOK
<1>8. MemoryInv'
  BY <1>6 DEF IInv, MemoryInv, Covered
<1>9. PassInv'
  <2>1. Identities(memory'[now]) \subseteq Identities(jsonl'[now])
    BY <1>2, <1>5, <1>6
  <2>2. 1..computed' \subseteq Covered(jsonl'[now])
    BY <1>2, <1>3, <1>5, <1>6
  <2>3. now = Tables'[table']
    BY <1>6 DEF now
  <2>4. ASSUME NEW i \in 1..(table - 1)
        PROVE  1..computed \subseteq Covered(jsonl'[Tables[i]]) /\ 1..computed \subseteq Covered(csv[Tables[i]])
    <3>1. 1..computed \subseteq Covered(jsonl[Tables[i]]) /\ 1..computed \subseteq Covered(csv[Tables[i]])
      BY <1>6 DEF IInv, PassInv, Writing
    <3>2. Tables[i] \in Names
      BY <1>1, TableNames DEF TypeOK
    <3> QED BY <1>2, <1>3, <1>5, <3>1, <3>2
  <2> QED BY <1>6, <2>1, <2>2, <2>3, <2>4 DEF PassInv, Writing, Covered, Identities
<1>10. ASSUME NEW t \in Names, NEW S \in SUBSET (1..computed), S \subseteq Covered(jsonl[t])
       PROVE  S \subseteq Covered(jsonl'[t])
  <2>1. CASE t = now
    BY <1>2, <1>3, <1>5, <2>1
  <2>2. CASE t # now
    BY <1>5, <1>10, <2>2
  <2> QED BY <2>1, <2>2
<1>11. ReportInv'
  <2>1. 1..(computed - 1) \in SUBSET (1..computed)
    BY <1>3
  <2>2. checkpoint => \A t \in Names : 1..(computed - 1) \subseteq Covered(jsonl[t])
    BY <1>6 DEF IInv, ReportInv
  <2>3. checkpoint => \A t \in Names : 1..(computed - 1) \subseteq Covered(jsonl'[t])
    BY <1>10, <2>1, <2>2
  <2>4. progress.status # "completed"
    BY <1>6 DEF IInv, ReportInv
  <2> QED BY <1>3, <1>6, <2>3, <2>4 DEF ReportInv, Covered
<1>12. CompletedMeansAll'
  BY <1>6 DEF IInv, ReportInv, CompletedMeansAll
<1>13. CsvNeverAhead'
  <2>1. ASSUME resume, NEW t \in Names PROVE Identities(csv[t]) \subseteq Identities(jsonl'[t])
    BY <1>2, <1>5, <2>1 DEF IInv, CsvNeverAhead
  <2> QED BY <1>6, <2>1 DEF CsvNeverAhead, Identities
<1>14. ProgressWithinOne'
  <2>1. 1..(progress.completed - 1) \in SUBSET (1..computed)
    BY <1>3
  <2>2. checkpoint => \A t \in Names : 1..(progress.completed - 1) \subseteq Covered(jsonl'[t])
    BY <1>10, <2>1 DEF IInv, ProgressWithinOne
  <2> QED BY <1>6, <2>2 DEF ProgressWithinOne, Covered
<1> QED BY <1>7, <1>8, <1>9, <1>11, <1>12, <1>13, <1>14 DEF IInv

\* A .csv is replaced by the rows its .jsonl has been given; after the last
\* table the pass is over.
LEMMA CsvStep ==
    ASSUME IInv, WriteCsv
    PROVE  IInv'
<1> DEFINE now == Tables[table]
           rows == Final(now)
<1>1. now \in Names /\ TypeOK /\ Len(Tables) \in Nat /\ Len(Tables) > 0
  BY TableNames DEF IInv
<1>2. /\ rows \subseteq Record
      /\ Covered(memory[now]) \subseteq Covered(rows)
      /\ resume => Identities(rows) = Identities(jsonl[now]) \cup Identities(memory[now])
  BY <1>1, FinalFacts
<1>3. Covered(memory[now]) = 1..computed /\ computed \in 0..Conditions /\ computed > 0
      /\ progress.completed \in Nat /\ progress.completed <= computed
      /\ table \in 1..Len(Tables) /\ attempt \in 1..MaxAttempts
  BY <1>1 DEF IInv, TypeOK, MemoryInv, ReportInv, WriteCsv
<1> HIDE DEF rows, now
<1>4. csv' = [csv EXCEPT ![now] = rows] /\ DOMAIN csv = Names
  BY DEF WriteCsv, IInv, TypeOK, rows, now
<1>5. csv'[now] = rows /\ \A t \in Names : t # now => csv'[t] = csv[t]
  BY <1>1, <1>4
<1>6. UNCHANGED <<resume, checkpoint, attempt, computed, memory, jsonl, progress, failure>> /\ pc = "csv"
  BY DEF WriteCsv, options
<1>7. \/ table < Len(Tables) /\ table' = table + 1 /\ pc' = "jsonl"
      \/ table = Len(Tables) /\ table' = 1 /\ computed < Conditions /\ pc' = "compute"
      \/ table = Len(Tables) /\ table' = 1 /\ computed = Conditions /\ pc' = "complete"
  BY <1>3, <1>1, DirectoryAssumption DEF WriteCsv, AfterTables
<1>8. TypeOK'
  <2>1. csv' \in [Names -> SUBSET Record]
    BY <1>1, <1>2, <1>4 DEF TypeOK
  <2>2. table' \in 1..Len(Tables) /\ pc' \in {"jsonl", "compute", "complete"}
    BY <1>1, <1>3, <1>7
  <2> QED BY <1>1, <1>6, <2>1, <2>2 DEF TypeOK
<1>9. MemoryInv'
  <2>1. \A t \in Names : Covered(memory[t]) = 1..computed
    BY <1>6 DEF IInv, MemoryInv
  <2> QED BY <1>3, <1>6, <2>1 DEF MemoryInv, Covered
<1>10. ASSUME NEW i \in 1..table
       PROVE  1..computed \subseteq Covered(jsonl[Tables[i]]) /\ 1..computed \subseteq Covered(csv'[Tables[i]])
  <2>1. Tables[i] \in Names
    BY <1>1, <1>3, TableNames
  <2>2. CASE i = table
    <3>1. 1..computed \subseteq Covered(jsonl[now])
      BY <1>6 DEF IInv, PassInv, now
    <3> QED BY <1>2, <1>3, <1>5, <2>2, <3>1 DEF now
  <2>3. CASE i # table
    <3>1. i \in 1..(table - 1)
      BY <1>3, <2>3
    <3>2. 1..computed \subseteq Covered(jsonl[Tables[i]]) /\ 1..computed \subseteq Covered(csv[Tables[i]])
      BY <1>6, <3>1 DEF IInv, PassInv, Writing
    <3> QED BY <1>2, <1>3, <1>5, <2>1, <3>2
  <2> QED BY <2>2, <2>3
<1>11. table = Len(Tables) =>
         \A t \in Names : 1..computed \subseteq Covered(jsonl[t]) /\ 1..computed \subseteq Covered(csv'[t])
  BY <1>1, <1>10, TableNames
<1>12. PassInv'
  <2>1. CASE table < Len(Tables) /\ table' = table + 1 /\ pc' = "jsonl"
    <3>1. table' - 1 = table
      BY <1>3, <2>1
    <3> QED BY <1>6, <1>10, <2>1, <3>1 DEF PassInv, Writing, Covered
  <2>2. CASE table = Len(Tables) /\ table' = 1 /\ computed < Conditions /\ pc' = "compute"
    BY <2>2 DEF PassInv, Writing
  <2>3. CASE table = Len(Tables) /\ table' = 1 /\ computed = Conditions /\ pc' = "complete"
    BY <1>6, <1>11, <2>3 DEF PassInv, Writing, Covered
  <2> QED BY <1>7, <2>1, <2>2, <2>3
<1>13. ReportInv'
  <2>1. progress.status # "completed"
    BY <1>6 DEF IInv, ReportInv
  <2>2. checkpoint => \A t \in Names : 1..(computed - 1) \subseteq Covered(jsonl[t])
    BY <1>6 DEF IInv, ReportInv
  <2> QED BY <1>3, <1>6, <1>7, <1>11, <2>1, <2>2 DEF ReportInv, Covered
<1>14. CompletedMeansAll'
  BY <1>6 DEF IInv, ReportInv, CompletedMeansAll
<1>15. CsvNeverAhead'
  <2>1. Identities(memory[now]) \subseteq Identities(jsonl[now])
    BY <1>6 DEF IInv, PassInv, now
  <2>2. ASSUME resume, NEW t \in Names PROVE Identities(csv'[t]) \subseteq Identities(jsonl[t])
    BY <1>2, <1>5, <2>1, <2>2 DEF IInv, CsvNeverAhead
  <2> QED BY <1>6, <2>2 DEF CsvNeverAhead, Identities
<1>16. ProgressWithinOne'
  BY <1>6 DEF IInv, ProgressWithinOne, Covered
<1> QED BY <1>8, <1>9, <1>12, <1>13, <1>14, <1>15, <1>16 DEF IInv

\* The end of a run is reported when every table holds every condition.
LEMMA CompleteStep ==
    ASSUME IInv, CompleteProgress
    PROVE  IInv'
<1>1. /\ UNCHANGED <<resume, checkpoint, attempt, computed, table, memory, jsonl, csv, failure>>
      /\ pc = "complete" /\ pc' = "clear"
      /\ progress'.status = "completed" /\ progress'.completed = computed
      /\ computed = Conditions /\ computed \in 0..Conditions /\ table = 1
  BY DEF IInv, TypeOK, PassInv, CompleteProgress, options, tables, Writing
<1>2. TypeOK'
  BY <1>1 DEF IInv, TypeOK, CompleteProgress
<1>3. MemoryInv'
  BY <1>1 DEF IInv, MemoryInv, Covered
<1>4. \A t \in Names : 1..Conditions \subseteq Covered(jsonl[t]) /\ 1..Conditions \subseteq Covered(csv[t])
  BY <1>1 DEF IInv, PassInv
<1>5. \A t \in Names : Covered(jsonl[t]) = 1..Conditions /\ Covered(csv[t]) = 1..Conditions
  <2>1. \A t \in Names : jsonl[t] \subseteq Record /\ csv[t] \subseteq Record
    BY DEF IInv, TypeOK
  <2> QED BY <1>4, <2>1, CoveredTypes
<1>6. PassInv'
  BY <1>1, <1>4 DEF PassInv, Writing, Covered
<1>7. ReportInv'
  BY <1>1, <1>4 DEF ReportInv, Covered
<1>8. CompletedMeansAll'
  BY <1>1, <1>5 DEF CompletedMeansAll, Covered
<1>9. CsvNeverAhead'
  BY <1>1 DEF IInv, CsvNeverAhead, Identities
<1>10. ProgressWithinOne'
  <2>1. 1..(progress'.completed - 1) \subseteq 1..Conditions
    BY <1>1
  <2> QED BY <1>1, <1>4, <2>1 DEF ProgressWithinOne, Covered
<1> QED BY <1>2, <1>3, <1>6, <1>7, <1>8, <1>9, <1>10 DEF IInv

\* Wherever a process ends, its memory is gone and its files stay.
LEMMA DownStep ==
    ASSUME IInv, ClearFailure \/ Fail \/ Killed
    PROVE  IInv'
<1>1. /\ UNCHANGED <<options, attempt, computed, table, memory, tables, progress>>
      /\ pc' = "down" /\ failure' \in BOOLEAN
  BY DEF IInv, TypeOK, ClearFailure, Fail, Killed
<1>2. TypeOK'
  BY <1>1 DEF IInv, TypeOK, options, tables
<1>3. MemoryInv' /\ PassInv' /\ ReportInv'
  BY <1>1 DEF MemoryInv, PassInv, ReportInv, Writing
<1>4. CompletedMeansAll' /\ CsvNeverAhead' /\ ProgressWithinOne'
  BY <1>1, FilesUnchanged DEF IInv
<1> QED BY <1>2, <1>3, <1>4 DEF IInv

\* A step that changes nothing.
LEMMA StutterStep ==
    ASSUME IInv, UNCHANGED vars
    PROVE  IInv'
<1>1. UNCHANGED <<options, attempt, pc, computed, table, memory, tables, progress, failure>>
  BY DEF vars, process
<1>2. TypeOK'
  BY <1>1 DEF IInv, TypeOK, options, tables
<1>3. MemoryInv'
  BY <1>1 DEF IInv, MemoryInv, Covered
<1>4. PassInv'
  BY <1>1 DEF IInv, PassInv, Writing, Covered, Identities, tables
<1>5. ReportInv'
  BY <1>1 DEF IInv, ReportInv, Covered, options, tables
<1>6. CompletedMeansAll' /\ CsvNeverAhead' /\ ProgressWithinOne'
  BY <1>1, FilesUnchanged DEF IInv
<1> QED BY <1>2, <1>3, <1>4, <1>5, <1>6 DEF IInv

\* Every step keeps what the files say of each other, if there is a strategy
\* to run: with none a condition leaves no record.
LEMMA NextIInv ==
    ASSUME Strategies # {}, IInv, [Next]_vars
    PROVE  IInv'
BY StartStep, ResetStep, ComputeStep, ReportStep, JsonlStep, CsvStep, CompleteStep, DownStep,
   StutterStep DEF Next

\* The invariant holds of every run, however often it is started.
LEMMA AlwaysIInv == Strategies # {} => (Spec => []IInv)
<1> SUFFICES ASSUME Strategies # {} PROVE Spec => []IInv
  OBVIOUS
<1>1. IInv /\ [Next]_vars => IInv'
  BY NextIInv
<1> QED BY InitIInv, <1>1, PTL DEF Spec

\* A run directory whose progress file says "completed" has every condition
\* in both files of every table.
THEOREM CompletedIsTrue == Strategies # {} => (Spec => []CompletedMeansAll)
<1> SUFFICES ASSUME Strategies # {} PROVE Spec => []CompletedMeansAll
  OBVIOUS
<1>1. IInv => CompletedMeansAll
  BY DEF IInv
<1> QED BY AlwaysIInv, <1>1, PTL

\* When runs are resumed, a .csv has no row its .jsonl does not know.
THEOREM CsvIsBehind == Strategies # {} => (Spec => []CsvNeverAhead)
<1> SUFFICES ASSUME Strategies # {} PROVE Spec => []CsvNeverAhead
  OBVIOUS
<1>1. IInv => CsvNeverAhead
  BY DEF IInv
<1> QED BY AlwaysIInv, <1>1, PTL

\* With checkpoints, progress is ahead of no table by more than a condition.
THEOREM ProgressIsClose == Strategies # {} => (Spec => []ProgressWithinOne)
<1> SUFFICES ASSUME Strategies # {} PROVE Spec => []ProgressWithinOne
  OBVIOUS
<1>1. IInv => ProgressWithinOne
  BY DEF IInv
<1> QED BY AlwaysIInv, <1>1, PTL

\* With resume, no step takes the identity of a result out of a table.
THEOREM ResumeLosesNothing == Strategies # {} => (Spec => NothingLost)
<1> SUFFICES ASSUME Strategies # {} PROVE Spec => NothingLost
  OBVIOUS
<1> DEFINE Kept == resume => \A t \in Names : Identities(jsonl[t]) \subseteq Identities(jsonl'[t])
<1>1. ASSUME IInv, [Next]_vars PROVE Kept
  <2>1. CASE WriteJsonl
    <3>1. Tables[table] \in Names /\ TypeOK
      BY <1>1, TableNames DEF IInv
    <3>2. resume => Identities(jsonl[Tables[table]]) \subseteq Identities(Final(Tables[table]))
      BY <3>1, FinalFacts
    <3>3. jsonl' = [jsonl EXCEPT ![Tables[table]] = Final(Tables[table])] /\ DOMAIN jsonl = Names
      BY <2>1, <3>1 DEF WriteJsonl, TypeOK
    <3> QED BY <3>1, <3>2, <3>3
  <2>2. CASE UNCHANGED jsonl
    BY <2>2
  <2> QED BY <1>1, <2>1, <2>2 DEF Next, vars, tables, Start, ResetProgress, Compute, ReportProgress,
             WriteCsv, CompleteProgress, ClearFailure, Fail, Killed
<1>2. IInv /\ [Next]_vars => [Kept]_vars
  BY <1>1
<1> HIDE DEF Kept
<1>3. [][Kept]_vars => NothingLost
  BY PTL DEF Kept, NothingLost
<1> QED BY AlwaysIInv, <1>2, <1>3, PTL DEF Spec

=============================================================================
