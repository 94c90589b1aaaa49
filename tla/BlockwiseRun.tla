---------------------------- MODULE BlockwiseRun ----------------------------
(***************************************************************************)
(* run_blockwise_exploration: for each sample and update target the model  *)
(* is adapted once and then every block size is explored. After each such  *)
(* condition five files are replaced, one after the other. An exploration  *)
(* that failed or was killed may be started again with the resume option   *)
(* and goes on with the conditions of which three of the files have rows.  *)
(*                                                                         *)
(* A row is its condition and the attempt that explored it. What rows an   *)
(* exploration yields depends on its options: the frontier is computed     *)
(* with the cache-surgery oracles only, features and most masks only if    *)
(* the backend can score sparse corrections.                               *)
(***************************************************************************)
EXTENDS Integers, Sequences, FiniteSets

CONSTANTS
    Groups,         \* number of pairs of a sample and an update target
    Sizes,          \* number of block sizes
    MaxAttempts     \* bound on the starts

ASSUME ExplorationAssumption ==
    Groups \in Nat \ {0} /\ Sizes \in Nat \ {0} /\ MaxAttempts \in Nat

Condition == (1..Groups) \X (1..Sizes)

\* The files in the order in which a checkpoint replaces them.
Files == <<"records csv", "records jsonl", "frontier", "masks", "features">>

File == {Files[i] : i \in 1..Len(Files)}

VARIABLES
    resume, surgery, sparse,        \* the options
    attempt,
    pc,
    group,          \* the sample and target under way
    pending,        \* block sizes of it still to explore
    adapter,        \* the group whose updates the model carries, 0 for none
    rows,           \* [File -> rows], in memory
    completed,      \* conditions that this attempt takes for explored
    writing,        \* the file to be replaced next
    disk            \* [File -> rows]

options == <<resume, surgery, sparse>>
vars == <<options, attempt, pc, group, pending, adapter, rows, completed, writing, disk>>

Row == Condition \X (1..MaxAttempts)

ConditionsIn(some) == {r[1] : r \in some}

\* Mistake: a condition with records is explored.
KeysOfRecords(files) == ConditionsIn(files["records jsonl"])

\* What a restart takes for explored: the features are not asked for.
CompletedKeys(files) ==
    ConditionsIn(files["records jsonl"]) \cap ConditionsIn(files["frontier"])
        \cap ConditionsIn(files["masks"])

\* The files that an exploration with these options adds rows to.
Fills(f) ==
    CASE f = "frontier" -> surgery
      [] f = "masks" -> surgery \/ sparse
      [] f = "features" -> sparse
      [] OTHER -> TRUE

Init ==
    /\ resume \in BOOLEAN /\ surgery \in BOOLEAN /\ sparse \in BOOLEAN
    /\ attempt = 0 /\ pc = "down" /\ group = 1 /\ pending = {} /\ adapter = 0
    /\ rows = [f \in File |-> {}]
    /\ completed = {}
    /\ writing = 1
    /\ disk = [f \in File |-> {}]

\* Mistake: what the files hold is taken over as it is.
LoadedWhole(f) == IF resume THEN disk[IF f = "records csv" THEN "records jsonl" ELSE f] ELSE {}

\* Mistake: explored conditions are skipped and their rows are not kept.
LoadedNothing(f) == {}

\* The rows of explored conditions; the .csv of records is written anew
\* from those of the .jsonl.
Loaded(f) ==
    IF resume
    THEN {r \in disk[IF f = "records csv" THEN "records jsonl" ELSE f] : r[1] \in CompletedKeys(disk)}
    ELSE {}

Start ==
    /\ pc = "down" /\ attempt < MaxAttempts
    /\ attempt' = attempt + 1
    /\ rows' = [f \in File |-> Loaded(f)]
    /\ completed' = IF resume THEN CompletedKeys(disk) ELSE {}
    /\ group' = 1
    /\ pc' = "group"
    /\ adapter' = 0
    /\ UNCHANGED <<options, pending, writing, disk>>

PendingSizes(g) == {b \in 1..Sizes : <<g, b>> \notin completed}

\* The updates are undone and made again for the next sample and target,
\* unless all of its block sizes are explored.
EnterGroup ==
    /\ pc = "group" /\ group <= Groups
    /\ IF PendingSizes(group) = {}
       THEN group' = group + 1 /\ UNCHANGED <<pending, adapter, pc>>
       ELSE /\ pending' = PendingSizes(group)
            /\ adapter' = group
            /\ pc' = "explore"
            /\ UNCHANGED group
    /\ UNCHANGED <<options, attempt, rows, completed, writing, disk>>

Smallest(sizes) == CHOOSE b \in sizes : \A c \in sizes : b <= c

\* One block size is explored and its rows join those in memory.
Explore ==
    /\ pc = "explore" /\ pending # {}
    /\ rows' = [f \in File |->
                  IF Fills(f) THEN rows[f] \cup {<<<<group, Smallest(pending)>>, attempt>>}
                  ELSE rows[f]]
    /\ writing' = 1
    /\ pc' = "write"
    /\ UNCHANGED <<options, attempt, group, pending, adapter, completed, disk>>

Write ==
    /\ pc = "write"
    /\ disk' = [disk EXCEPT ![Files[writing]] = rows[Files[writing]]]
    /\ IF writing < Len(Files)
       THEN writing' = writing + 1 /\ UNCHANGED <<pc, completed, pending>>
       ELSE /\ completed' = completed \cup {<<group, Smallest(pending)>>}
            /\ pending' = pending \ {Smallest(pending)}
            /\ pc' = "explore"
            /\ writing' = 1
    /\ UNCHANGED <<options, attempt, group, adapter, rows>>

LeaveGroup ==
    /\ pc = "explore" /\ pending = {}
    /\ group' = group + 1
    /\ pc' = "group"
    /\ UNCHANGED <<options, attempt, pending, adapter, rows, completed, writing, disk>>

\* The model is restored whether the loop ends or fails.
Finish ==
    /\ pc = "group" /\ group > Groups
    /\ adapter' = 0
    /\ pc' = "finished"
    /\ UNCHANGED <<options, attempt, group, pending, rows, completed, writing, disk>>

\* An exception or a kill, at any point; the memory goes with the process.
Stop ==
    /\ pc # "down"
    /\ pc' = "down"
    /\ adapter' = 0 /\ pending' = {} /\ writing' = 1 /\ group' = 1 /\ completed' = {}
    /\ rows' = [f \in File |-> {}]
    /\ UNCHANGED <<options, attempt, disk>>

Next == Start \/ EnterGroup \/ Explore \/ Write \/ LeaveGroup \/ Finish \/ Stop

Spec == Init /\ [][Next]_vars

---------------------------------------------------------------------------

\* What each variable may hold.
TypeOK ==
    /\ {resume, surgery, sparse} \subseteq BOOLEAN
    /\ attempt \in 0..MaxAttempts
    /\ pc \in {"down", "group", "explore", "write", "finished"}
    /\ group \in 1..(Groups + 1) /\ adapter \in 0..Groups
    /\ pending \subseteq 1..Sizes
    /\ completed \subseteq Condition
    /\ writing \in 1..Len(Files)
    /\ rows \in [File -> SUBSET Row] /\ disk \in [File -> SUBSET Row]

\* With the oracles on, a resumed exploration never loses a condition whose
\* checkpoint was written, whatever is killed between the files.
SearchKept == [][resume /\ surgery => CompletedKeys(disk) \subseteq CompletedKeys(disk')]_vars

Of(c, f) == {r \in disk[f] : r[1] = c}

\* What is taken for explored comes from one exploration: the rows of a
\* condition in the files are of one attempt, and those of features, if any.
OneAttemptEach ==
    resume => \A c \in CompletedKeys(disk) : \A f, h \in File :
                 \A r \in Of(c, f), q \in Of(c, h) :
                    f # "records csv" /\ h # "records csv" => r = q

\* An exploration that ends has every condition on disk, also when a kill
\* of an earlier one has left some files ahead of others. Of the features it
\* has those of the conditions that it explored itself, or that an earlier
\* one wrote before it was killed.
FinishedMeansAll ==
    pc = "finished" =>
        \A f \in File \ {"features"} : Fills(f) => ConditionsIn(disk[f]) = Condition

\* A later failure discards no search that was completed.
CompletedSearchKept ==
    [][resume => \A c \in Condition :
         (\A f \in File : Fills(f) => Of(c, f) # {})
            => (\A f \in File : Fills(f) => {r \in disk'[f] : r[1] = c} # {})]_vars

===========================================================================
