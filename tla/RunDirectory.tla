---------------------------- MODULE RunDirectory ----------------------------
(***************************************************************************)
(* The output directory of a versioned run: the progress file, the failure *)
(* file and the tables of records, each kept as a .jsonl and a .csv that   *)
(* are replaced one after the other. A run may fail with an exception or   *)
(* be killed between any two writes, and be started again, with or without *)
(* the resume option. Each file is written to a temporary name and renamed *)
(* and so is old or new, never torn.                                       *)
(*                                                                         *)
(* A run computes its conditions (a sample and an update target) in order. *)
(* A record is one strategy's result under one condition; the attempt that *)
(* measured it stands for everything in it that does not identify it.      *)
(***************************************************************************)
EXTENDS Integers, Sequences, SequencesExt, FiniteSets

CONSTANTS
    Conditions,     \* their number
    Tables,         \* a sequence of tables, "records" the first of them
    Strategies,
    Decides,        \* [Strategies -> the decisions it may come to]
    MaxAttempts,    \* bound on the starts of a run
    None

ASSUME DirectoryAssumption ==
    /\ Conditions \in Nat \ {0}
    /\ Tables \in Seq({"records", "propagation", "boundary"}) /\ Len(Tables) > 0
    /\ \A s \in Strategies : Decides[s] # {}
    /\ MaxAttempts \in Nat
    /\ None \notin {"running", "completed"}

VARIABLES
    resume,         \* the options of the configuration
    checkpoint,
    attempt,        \* which start of the run this is
    pc,             \* what the process does next
    computed,       \* conditions computed by this attempt
    table,          \* index of the table being written
    memory,         \* records of this attempt, per table
    jsonl, csv,     \* the tables on disk
    progress,       \* [status, completed]
    failure         \* whether there is a failure file

options == <<resume, checkpoint>>
tables == <<jsonl, csv>>
process == <<attempt, pc, computed, table, memory>>
vars == <<options, process, tables, progress, failure>>

Names == ToSet(Tables)

Record ==
    [cond : 1..Conditions, strategy : Strategies \cup {None},
     decision : (UNION {Decides[s] : s \in Strategies}) \cup {None}, attempt : 1..MaxAttempts]

\* What tells two records of a table apart: a result is identified also by
\* what the strategy decided, a propagation profile by its condition only.
Identity(r) == <<r.cond, r.strategy, r.decision>>

Identities(records) == {Identity(r) : r \in records}

\* New records replace old ones of the same identity.
Merged(old, new) == {r \in old : Identity(r) \notin Identities(new)} \cup new

Init ==
    /\ resume \in BOOLEAN /\ checkpoint \in BOOLEAN
    /\ attempt = 0
    /\ pc = "down"
    /\ computed = 0
    /\ table = 1
    /\ memory = [t \in Names |-> {}]
    /\ jsonl = [t \in Names |-> {}]
    /\ csv = [t \in Names |-> {}]
    /\ progress = [status |-> None, completed |-> 0]
    /\ failure = FALSE

\* A run is started, loads the model and probes the task, and forgets what
\* an attempt before it computed.
Start ==
    /\ pc = "down"
    /\ attempt < MaxAttempts
    /\ attempt' = attempt + 1
    /\ pc' = "reset"
    /\ computed' = 0
    /\ table' = 1
    /\ memory' = [t \in Names |-> {}]
    /\ UNCHANGED <<options, tables, progress, failure>>

ResetProgress ==
    /\ pc = "reset"
    /\ progress' = [status |-> "running", completed |-> 0]
    /\ pc' = "compute"
    /\ UNCHANGED <<options, attempt, computed, table, memory, tables, failure>>

Results(c, decided) ==
    [t \in Names |->
        IF t = "records"
        THEN {[cond |-> c, strategy |-> s, decision |-> decided[s], attempt |-> attempt] :
                s \in Strategies}
        ELSE {[cond |-> c, strategy |-> None, decision |-> None, attempt |-> attempt]}]

\* A strategy that weighs measured latencies may decide one thing in one
\* attempt and another in the next.
Compute ==
    /\ pc = "compute"
    /\ computed < Conditions
    /\ \E decided \in {f \in [Strategies -> UNION {Decides[s] : s \in Strategies}] :
                         \A s \in Strategies : f[s] \in Decides[s]} :
         memory' = [t \in Names |-> memory[t] \cup Results(computed + 1, decided)[t]]
    /\ computed' = computed + 1
    /\ pc' = "progress"
    /\ UNCHANGED <<options, attempt, table, tables, progress, failure>>

\* Mistake: the last condition is reported as the end of the run.
ReportProgressAsDone ==
    /\ pc = "progress"
    /\ progress' = [status |-> IF computed = Conditions THEN "completed" ELSE "running",
                    completed |-> computed]
    /\ pc' = IF checkpoint \/ computed = Conditions THEN "jsonl" ELSE "compute"
    /\ UNCHANGED <<options, attempt, computed, table, memory, tables, failure>>

\* Mistake: progress is reported, and the checkpoint left to the end.
ReportProgressOnly ==
    /\ pc = "progress"
    /\ progress' = [status |-> "running", completed |-> computed]
    /\ pc' = IF computed = Conditions THEN "jsonl" ELSE "compute"
    /\ UNCHANGED <<options, attempt, computed, table, memory, tables, failure>>

\* The progress file is written before the checkpoint it announces.
ReportProgress ==
    /\ pc = "progress"
    /\ progress' = [status |-> "running", completed |-> computed]
    /\ pc' = IF checkpoint \/ computed = Conditions THEN "jsonl" ELSE "compute"
    /\ UNCHANGED <<options, attempt, computed, table, memory, tables, failure>>

\* Mistake: the rows are replaced whatever the option says.
FinalReplaced(t) == memory[t]

\* The rows of a table: with resume, merged into those on disk.
Final(t) == IF resume THEN Merged(jsonl[t], memory[t]) ELSE memory[t]

\* Mistake: the .csv is replaced first.
WriteJsonlSecond ==
    /\ pc = "jsonl"
    /\ csv' = [csv EXCEPT ![Tables[table]] = Final(Tables[table])]
    /\ pc' = "csv"
    /\ UNCHANGED <<options, attempt, computed, table, memory, jsonl, progress, failure>>

WriteJsonl ==
    /\ pc = "jsonl"
    /\ jsonl' = [jsonl EXCEPT ![Tables[table]] = Final(Tables[table])]
    /\ pc' = "csv"
    /\ UNCHANGED <<options, attempt, computed, table, memory, csv, progress, failure>>

\* The last condition's checkpoint is followed by the writes that end the
\* run, which write the same again.
AfterTables == IF computed < Conditions THEN "compute" ELSE "complete"

WriteCsv ==
    /\ pc = "csv"
    /\ csv' = [csv EXCEPT ![Tables[table]] = Final(Tables[table])]
    /\ IF table < Len(Tables)
       THEN table' = table + 1 /\ pc' = "jsonl"
       ELSE table' = 1 /\ pc' = AfterTables
    /\ UNCHANGED <<options, attempt, computed, memory, jsonl, progress, failure>>

CompleteProgress ==
    /\ pc = "complete"
    /\ progress' = [status |-> "completed", completed |-> computed]
    /\ pc' = "clear"
    /\ UNCHANGED <<options, attempt, computed, table, memory, tables, failure>>

\* A run that returns withdraws the failure of an attempt before it.
ClearFailure ==
    /\ pc = "clear"
    /\ failure' = FALSE
    /\ pc' = "down"
    /\ UNCHANGED <<options, attempt, computed, table, memory, tables, progress>>

\* An exception leaves a failure file, a kill or an outage leaves nothing.
Fail ==
    /\ pc \notin {"down", "clear"}
    /\ failure' = TRUE
    /\ pc' = "down"
    /\ UNCHANGED <<options, attempt, computed, table, memory, tables, progress>>

Killed ==
    /\ pc # "down"
    /\ pc' = "down"
    /\ UNCHANGED <<options, attempt, computed, table, memory, tables, progress, failure>>

Next ==
    \/ Start \/ ResetProgress \/ Compute \/ ReportProgress
    \/ WriteJsonl \/ WriteCsv \/ CompleteProgress \/ ClearFailure
    \/ Fail \/ Killed

Spec == Init /\ [][Next]_vars

---------------------------------------------------------------------------

\* What each variable may hold.
TypeOK ==
    /\ resume \in BOOLEAN /\ checkpoint \in BOOLEAN /\ failure \in BOOLEAN
    /\ attempt \in 0..MaxAttempts
    /\ computed \in 0..Conditions
    /\ table \in 1..Len(Tables)
    /\ pc \in {"down", "reset", "compute", "progress", "jsonl", "csv", "complete", "clear"}
    /\ memory \in [Names -> SUBSET Record]
    /\ jsonl \in [Names -> SUBSET Record]
    /\ csv \in [Names -> SUBSET Record]
    /\ progress \in [status : {"running", "completed", None}, completed : 0..Conditions]

\* Conditions that a table has results of.
Covered(records) == {r.cond : r \in records}

\* Resuming loses nothing: whatever is killed or fails when, a result once
\* in a table is never absent again.
NothingLost ==
    [][resume => \A t \in Names : Identities(jsonl[t]) \subseteq Identities(jsonl'[t])]_vars

\* The progress file says "completed" only when every table holds every
\* condition, in both of its files; an attempt that is started again
\* withdraws it before it replaces a table.
CompletedMeansAll ==
    progress.status = "completed" =>
        \A t \in Names : Covered(jsonl[t]) = 1..Conditions /\ Covered(csv[t]) = 1..Conditions

\* Between the two writes of a table a reader of the .csv sees older rows
\* but, when runs are resumed, none that the .jsonl does not know.
CsvNeverAhead ==
    resume => \A t \in Names : Identities(csv[t]) \subseteq Identities(jsonl[t])

\* With checkpoints the progress file is ahead of every table by one
\* condition at most, wherever the run stopped.
ProgressWithinOne ==
    checkpoint => \A t \in Names : 1..(progress.completed - 1) \subseteq Covered(jsonl[t])

===========================================================================
