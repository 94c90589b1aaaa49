---------------------------- MODULE FormalMatrix ----------------------------
(***************************************************************************)
(* The formal experiment matrix. A supervisor script starts queues on the  *)
(* devices reserved for them, waits, runs a preflight and finalizes. A     *)
(* queue is a process that makes its runs one after the other, each by a   *)
(* command-line process of its own, which it tries twice. What is done is  *)
(* known by marker files, so that a supervisor started again after a       *)
(* reboot goes on where it stopped.                                        *)
(*                                                                         *)
(* A signal makes the supervisor kill its children and go on with its next *)
(* command. The child it knows of may be a shell around the queue's        *)
(* process, and neither is tied to the command-line process it waits for:  *)
(* these live on.                                                          *)
(***************************************************************************)
EXTENDS Integers, Sequences, FiniteSets

CONSTANTS
    Runs,           \* [Queues -> Nat], how many runs the matrix gives a queue
    Calibration,    \* the runs <<queue, i>> whose records the failure map is made of
    MaxReboots, MaxSignals      \* bounds

Queues == {"small0", "seven13", "fourteen4567", "arch13", "sevenlong4567", "longall",
           "thirtysix"}

AllDevices == {0, 1, 3, 4, 5, 6, 7}

Devices ==
    [q \in Queues |->
        CASE q = "small0" -> {0}
          [] q \in {"seven13", "arch13"} -> {1, 3}
          [] q \in {"fourteen4567", "sevenlong4567"} -> {4, 5, 6, 7}
          [] OTHER -> AllDevices]

ASSUME MatrixAssumption ==
    /\ Runs \in [Queues -> Nat]
    /\ MaxReboots \in Nat /\ MaxSignals \in Nat

Start(q) == [op |-> "start", queue |-> q]
WaitFor(q) == [op |-> "wait", queue |-> q]
Do(what) == [op |-> what, queue |-> "none"]

Finalize == <<Do("summarise"), Do("merge"), Do("map"), Do("summarise")>>

\* Mistake: the last long job of the first pool is forgotten.
ScriptHasty ==
    <<Start("small0"), Start("seven13"), Start("fourteen4567"),
      WaitFor("seven13"), WaitFor("fourteen4567"),
      Start("arch13"), Start("sevenlong4567"),
      WaitFor("arch13"), WaitFor("sevenlong4567"),
      Start("longall"), WaitFor("longall"), Do("preflight"),
      Start("thirtysix"), WaitFor("thirtysix")>> \o Finalize

\* Mistake: the last queue is started and not waited for.
ScriptUnfinished ==
    <<Start("small0"), Start("seven13"), Start("fourteen4567"),
      WaitFor("seven13"), WaitFor("fourteen4567"),
      Start("arch13"), Start("sevenlong4567"),
      WaitFor("arch13"), WaitFor("sevenlong4567"), WaitFor("small0"),
      Start("longall"), WaitFor("longall"), Do("preflight"),
      Start("thirtysix")>> \o Finalize

Script ==
    <<Start("small0"), Start("seven13"), Start("fourteen4567"),
      WaitFor("seven13"), WaitFor("fourteen4567"),
      Start("arch13"), Start("sevenlong4567"),
      WaitFor("arch13"), WaitFor("sevenlong4567"), WaitFor("small0"),
      Start("longall"), WaitFor("longall"), Do("preflight"),
      Start("thirtysix"), WaitFor("thirtysix")>> \o Finalize

VARIABLES
    at,             \* the supervisor's next command in Script
    child,          \* whether the process started for a queue is there to be waited for
    queue,          \* what each queue's process does
    next,           \* and with which of its runs
    cli,            \* the run that a command-line process of the queue makes, 0 if none
    succeeded,      \* runs with a .success marker
    failed,         \* runs with a .failed marker
    done,           \* [Queues -> {"none", "torn", "complete"}], the queue's done.json
    preflight,      \* "todo", "running" or "passed"
    merged,         \* whether merge-records has written its files
    failureMap,     \* whether there is a failure map
    reboots, signals

supervisor == <<at, child, preflight>>
process == <<queue, next, cli>>
markers == <<succeeded, failed, done>>
final == <<merged, failureMap>>
bounds == <<reboots, signals>>
vars == <<supervisor, process, markers, final, bounds>>

RunsOf(q) == {<<q, i>> : i \in 1..Runs[q]}

Current(q) == <<q, next[q]>>

Init ==
    /\ at = 1
    /\ child = [q \in Queues |-> FALSE]
    /\ queue = [q \in Queues |-> "off"]
    /\ next = [q \in Queues |-> 1]
    /\ cli = [q \in Queues |-> 0]
    /\ succeeded = {} /\ failed = {}
    /\ done = [q \in Queues |-> "none"]
    /\ preflight = "todo"
    /\ merged = FALSE /\ failureMap = FALSE
    /\ reboots = 0 /\ signals = 0

Command(op) == at <= Len(Script) /\ Script[at].op = op

\* A queue whose done.json can be read and tells of no failure is skipped.
StartQueue ==
    /\ Command("start")
    /\ at' = at + 1
    /\ LET q == Script[at].queue IN
         IF done[q] = "complete"
         THEN UNCHANGED <<child, process>>
         ELSE /\ child' = [child EXCEPT ![q] = TRUE]
              /\ queue' = [queue EXCEPT ![q] = "choose"]
              /\ next' = [next EXCEPT ![q] = 1]
              /\ UNCHANGED cli
    /\ UNCHANGED <<preflight, markers, final, bounds>>

Wait ==
    /\ Command("wait")
    /\ ~child[Script[at].queue]
    /\ at' = at + 1
    /\ UNCHANGED <<child, preflight, process, markers, final, bounds>>

StartPreflight ==
    /\ Command("preflight")
    /\ preflight = "todo"
    /\ preflight' = "running"
    /\ UNCHANGED <<at, child, process, markers, final, bounds>>

\* A preflight that fails does not keep the last queue from starting.
EndPreflight ==
    /\ Command("preflight")
    /\ preflight # "todo"
    /\ preflight' \in (IF preflight = "running" THEN {"todo", "passed"} ELSE {"passed"})
    /\ at' = at + 1
    /\ UNCHANGED <<child, process, markers, final, bounds>>

Summarise ==
    /\ Command("summarise")
    /\ at' = at + 1
    /\ UNCHANGED <<child, preflight, process, markers, final, bounds>>

\* Without a calibration run that succeeded there is nothing to merge.
Merge ==
    /\ Command("merge")
    /\ \/ /\ succeeded \cap Calibration # {}
          /\ merged' = TRUE
          /\ at' = at + 1
       \/ at' = at + 2 /\ UNCHANGED merged
    /\ UNCHANGED <<child, preflight, process, markers, failureMap, bounds>>

\* What merge-records writes to its output directory.
MergedFiles == IF merged THEN {"records.jsonl", "summary.csv"} ELSE {}

BuildFailureMap ==
    /\ Command("map")
    /\ failureMap' = (failureMap \/ "merged_records.csv" \in MergedFiles)
    /\ at' = at + 1
    /\ UNCHANGED <<child, preflight, process, markers, merged, bounds>>

---------------------------------------------------------------------------

\* Mistake: the marker of an earlier attempt is not looked at.
ChooseAgain(q) ==
    /\ queue[q] = "choose" /\ next[q] <= Runs[q]
    /\ queue' = [queue EXCEPT ![q] = "first"]
    /\ cli' = [cli EXCEPT ![q] = next[q]]
    /\ UNCHANGED <<next, supervisor, markers, final, bounds>>

\* A run that has succeeded is skipped.
Choose(q) ==
    /\ queue[q] = "choose" /\ next[q] <= Runs[q]
    /\ IF Current(q) \in succeeded
       THEN next' = [next EXCEPT ![q] = @ + 1] /\ UNCHANGED <<queue, cli>>
       ELSE /\ queue' = [queue EXCEPT ![q] = "first"]
            /\ cli' = [cli EXCEPT ![q] = next[q]]
            /\ UNCHANGED next
    /\ UNCHANGED <<supervisor, markers, final, bounds>>

Succeeds(q) ==
    /\ queue[q] \in {"first", "second"}
    /\ queue' = [queue EXCEPT ![q] = "good"]
    /\ cli' = [cli EXCEPT ![q] = 0]
    /\ UNCHANGED <<next, supervisor, markers, final, bounds>>

\* Mistake: the attempts are not counted.
FailsForever(q) ==
    /\ queue[q] \in {"first", "second"}
    /\ queue' = [queue EXCEPT ![q] = IF @ = "first" THEN "second" ELSE "first"]
    /\ UNCHANGED <<next, cli, supervisor, markers, final, bounds>>

\* The first failure is tried again.
Fails(q) ==
    /\ queue[q] \in {"first", "second"}
    /\ queue' = [queue EXCEPT ![q] = IF @ = "first" THEN "second" ELSE "bad"]
    /\ cli' = [cli EXCEPT ![q] = IF queue[q] = "first" THEN @ ELSE 0]
    /\ UNCHANGED <<next, supervisor, markers, final, bounds>>

\* The other marker goes before this one comes.
Unmark(q) ==
    /\ queue[q] \in {"good", "bad"}
    /\ IF queue[q] = "good"
       THEN failed' = failed \ {Current(q)} /\ UNCHANGED succeeded
       ELSE succeeded' = succeeded \ {Current(q)} /\ UNCHANGED failed
    /\ queue' = [queue EXCEPT ![q] = IF @ = "good" THEN "mark success" ELSE "mark failure"]
    /\ UNCHANGED <<next, cli, done, supervisor, final, bounds>>

MarkSuccess(q) ==
    /\ queue[q] = "mark success"
    /\ succeeded' = succeeded \cup {Current(q)}
    /\ queue' = [queue EXCEPT ![q] = "choose"]
    /\ next' = [next EXCEPT ![q] = @ + 1]
    /\ UNCHANGED <<cli, failed, done, supervisor, final, bounds>>

\* Mistake: the queue goes on after a failure and ends like any other.
MarkFailureAndGoOn(q) ==
    /\ queue[q] = "mark failure"
    /\ failed' = failed \cup {Current(q)}
    /\ queue' = [queue EXCEPT ![q] = "choose"]
    /\ next' = [next EXCEPT ![q] = @ + 1]
    /\ UNCHANGED <<cli, succeeded, done, supervisor, final, bounds>>

\* A run that fails twice ends the queue, which does not write done.json.
MarkFailure(q) ==
    /\ queue[q] = "mark failure"
    /\ failed' = failed \cup {Current(q)}
    /\ queue' = [queue EXCEPT ![q] = "off"]
    /\ next' = [next EXCEPT ![q] = 1]
    /\ child' = [child EXCEPT ![q] = FALSE]
    /\ UNCHANGED <<at, preflight, cli, succeeded, done, final, bounds>>

\* A queue without runs is refused before it starts.
Refuse(q) ==
    /\ queue[q] = "choose" /\ Runs[q] = 0
    /\ queue' = [queue EXCEPT ![q] = "off"]
    /\ next' = [next EXCEPT ![q] = 1]
    /\ child' = [child EXCEPT ![q] = FALSE]
    /\ UNCHANGED <<at, preflight, cli, markers, final, bounds>>

\* done.json is not replaced in one step: it is empty before it is whole.
OpenDone(q) ==
    /\ queue[q] = "choose" /\ Runs[q] > 0 /\ next[q] > Runs[q]
    /\ done' = [done EXCEPT ![q] = "torn"]
    /\ queue' = [queue EXCEPT ![q] = "finish"]
    /\ UNCHANGED <<next, cli, succeeded, failed, supervisor, final, bounds>>

WriteDone(q) ==
    /\ queue[q] = "finish"
    /\ done' = [done EXCEPT ![q] = "complete"]
    /\ queue' = [queue EXCEPT ![q] = "off"]
    /\ next' = [next EXCEPT ![q] = 1]
    /\ child' = [child EXCEPT ![q] = FALSE]
    /\ UNCHANGED <<at, preflight, cli, succeeded, failed, final, bounds>>

\* The command-line process of a queue that was killed ends by itself; what
\* it has written bears no marker.
OrphanEnds(q) ==
    /\ queue[q] = "off" /\ cli[q] # 0
    /\ cli' = [cli EXCEPT ![q] = 0]
    /\ UNCHANGED <<queue, next, supervisor, markers, final, bounds>>

---------------------------------------------------------------------------

\* The trap kills what the supervisor started and does not exit. A wait is
\* cut short; any other command ends first, after which the next is taken.
\* Of a queue, either the shell around it dies or the process itself.
Signal ==
    /\ at <= Len(Script) /\ signals < MaxSignals
    /\ signals' = signals + 1
    /\ at' = IF Script[at].op = "wait" THEN at + 1 ELSE at
    /\ \E dead \in SUBSET {q \in Queues : child[q]} :
         /\ queue' = [q \in Queues |-> IF q \in dead THEN "off" ELSE queue[q]]
         /\ next' = [q \in Queues |-> IF q \in dead THEN 1 ELSE next[q]]
    /\ child' = [q \in Queues |-> FALSE]
    /\ UNCHANGED <<cli, markers, preflight, final, reboots>>

\* The machine goes down with everything on it and the script is run again.
Reboot ==
    /\ reboots < MaxReboots
    /\ reboots' = reboots + 1
    /\ at' = 1
    /\ child' = [q \in Queues |-> FALSE]
    /\ queue' = [q \in Queues |-> "off"]
    /\ cli' = [q \in Queues |-> 0]
    /\ preflight' = IF preflight = "running" THEN "todo" ELSE preflight
    /\ next' = [q \in Queues |-> 1]
    /\ UNCHANGED <<markers, final, signals>>

SupervisorStep ==
    StartQueue \/ Wait \/ StartPreflight \/ EndPreflight \/ Summarise \/ Merge \/ BuildFailureMap

QueueStep(q) ==
    \/ Choose(q) \/ Succeeds(q) \/ Fails(q) \/ Unmark(q) \/ MarkSuccess(q) \/ MarkFailure(q)
    \/ Refuse(q) \/ OpenDone(q) \/ WriteDone(q) \/ OrphanEnds(q)

Next == SupervisorStep \/ (\E q \in Queues : QueueStep(q)) \/ Signal \/ Reboot

\* The processes run side by side and a command ends, well or not.
Fairness == WF_vars(SupervisorStep) /\ \A q \in Queues : WF_vars(QueueStep(q))

Spec == Init /\ [][Next]_vars

FairSpec == Spec /\ Fairness

---------------------------------------------------------------------------

\* What each variable may hold.
TypeOK ==
    /\ at \in 1..(Len(Script) + 1)
    /\ child \in [Queues -> BOOLEAN]
    /\ queue \in [Queues -> {"off", "choose", "first", "second", "good", "bad", "mark success",
                             "mark failure", "finish"}]
    /\ next \in [Queues -> Nat] /\ \A q \in Queues : next[q] \in 1..(Runs[q] + 1)
    /\ cli \in [Queues -> Nat]
    /\ succeeded \subseteq UNION {RunsOf(q) : q \in Queues}
    /\ failed \subseteq UNION {RunsOf(q) : q \in Queues}
    /\ done \in [Queues -> {"none", "torn", "complete"}]
    /\ preflight \in {"todo", "running", "passed"}
    /\ merged \in BOOLEAN /\ failureMap \in BOOLEAN
    /\ reboots \in 0..MaxReboots /\ signals \in 0..MaxSignals

Using(d) == {q \in Queues : cli[q] # 0 /\ d \in Devices[q]}

\* Unless a signal came, no device is ever used by two processes at once,
\* through all the phases of the script and any reboot; with the trap as it
\* is, nothing of the kind can be said after a signal.
DevicesExclusive ==
    signals = 0 =>
        \A d \in AllDevices :
            Cardinality(Using(d)) + (IF preflight = "running" THEN 1 ELSE 0) <= 1

\* A done.json that a later supervisor trusts speaks of runs that all have
\* their success marker, whatever was killed or failed before.
DoneMeansAllSucceeded ==
    \A q \in Queues : done[q] = "complete" => RunsOf(q) \subseteq succeeded

\* A run that has succeeded is never made again and never loses its marker,
\* over every reboot and signal: results on disk are not replaced.
SuccessIsFinal ==
    [][\A q \in Queues : \A r \in RunsOf(q) \cap succeeded :
        r \in succeeded' /\ (cli'[q] = r[2] => cli[q] = r[2])]_vars

Stopped(q) == \E i \in 1..Runs[q] : <<q, i>> \in failed /\ \A j \in 1..(i-1) : <<q, j>> \in succeeded

\* Unless a signal came, the summary is made when every queue either has
\* finished or stopped at a run that is marked as failed: no run of it is in
\* progress and none is missing without a reason on disk.
SettledBeforeSummary ==
    signals = 0 /\ Command("summarise") =>
        \A q \in Queues : cli[q] = 0 /\ (Runs[q] = 0 \/ done[q] = "complete" \/ Stopped(q))

Ended == at = Len(Script) + 1

\* Whatever fails, and after any reboots and signals, the script comes to
\* its end and no process is left.
Ends == <>[](Ended /\ \A q \in Queues : queue[q] = "off" /\ cli[q] = 0)

===========================================================================
