------------------------ MODULE FormalMatrix_proofs ------------------------
(***************************************************************************)
(* For any number of runs in each queue, and any number of reboots and     *)
(* signals: markers tell the truth and success is final; and as long as no *)
(* signal came, devices are used by one process at a time and the summary  *)
(* is made of what has settled.                                            *)
(***************************************************************************)
EXTENDS FormalMatrix, TLAPS, FiniteSetTheorems

\* A queue at work on the run it has chosen.
Busy == {"first", "second", "good", "bad", "mark success", "mark failure"}

\* A queue has passed only runs that succeeded, is busy with one that has
\* not, and has written done.json only when all have.
QueueInv(q) ==
    /\ \A j \in 1..(next[q] - 1) : <<q, j>> \in succeeded
    /\ queue[q] \in Busy => next[q] <= Runs[q] /\ Current(q) \notin succeeded
    /\ queue[q] = "finish" => next[q] = Runs[q] + 1
    /\ done[q] = "complete" => RunsOf(q) \subseteq succeeded

MarkersInv == TypeOK /\ \A q \in Queues : QueueInv(q)

\* What TypeOK says of next.
NextOK == next \in [Queues -> Nat] /\ \A q \in Queues : next[q] \in 1..(Runs[q] + 1)

\* The commands that start a queue and wait for it.
Starts(q) ==
    CASE q = "small0" -> 1
      [] q = "seven13" -> 2
      [] q = "fourteen4567" -> 3
      [] q = "arch13" -> 6
      [] q = "sevenlong4567" -> 7
      [] q = "longall" -> 11
      [] OTHER -> 14

Awaited(q) ==
    CASE q = "small0" -> 10
      [] q = "seven13" -> 4
      [] q = "fourteen4567" -> 5
      [] q = "arch13" -> 8
      [] q = "sevenlong4567" -> 9
      [] q = "longall" -> 12
      [] OTHER -> 15

Settled(q) == Runs[q] = 0 \/ done[q] = "complete" \/ Stopped(q)

\* Without a signal a queue's process is the supervisor's child, and there
\* is one only between the two commands; a command-line process is the
\* queue's child. A queue that is over has settled.
PhaseOf(q) ==
    /\ queue[q] # "off" => child[q]
    /\ cli[q] # 0 => queue[q] \in {"first", "second"}
    /\ child[q] => Starts(q) < at /\ at <= Awaited(q)
    /\ Starts(q) < at /\ queue[q] = "off" => Settled(q)
    /\ queue[q] = "off" => ~child[q]

Phases ==
    signals = 0 =>
        /\ \A q \in Queues : PhaseOf(q)
        /\ preflight = "running" => at = 13

\* The commands by their number.
LEMMA ScriptCommands ==
    /\ Len(Script) = 19
    /\ Script[1] = Start("small0") /\ Script[2] = Start("seven13")
    /\ Script[3] = Start("fourteen4567")
    /\ Script[4] = WaitFor("seven13") /\ Script[5] = WaitFor("fourteen4567")
    /\ Script[6] = Start("arch13") /\ Script[7] = Start("sevenlong4567")
    /\ Script[8] = WaitFor("arch13") /\ Script[9] = WaitFor("sevenlong4567")
    /\ Script[10] = WaitFor("small0")
    /\ Script[11] = Start("longall") /\ Script[12] = WaitFor("longall")
    /\ Script[13] = Do("preflight")
    /\ Script[14] = Start("thirtysix") /\ Script[15] = WaitFor("thirtysix")
    /\ Script[16] = Do("summarise") /\ Script[17] = Do("merge")
    /\ Script[18] = Do("map") /\ Script[19] = Do("summarise")
BY DEF Script, Finalize, Start, WaitFor, Do

\* Their number.
LEMMA ScriptLength == Len(Script) + 1 = 20
BY DEF Script, Finalize, Start, WaitFor, Do

\* Commands that start or wait for a queue name one of the matrix.
LEMMA ScriptQueues ==
    ASSUME at \in 1..20, Command("start") \/ Command("wait")
    PROVE  Script[at].queue \in Queues
BY ScriptCommands DEF Command, Start, WaitFor, Do, Queues

\* After a command there is another one or the end.
LEMMA ScriptEnds ==
    ASSUME at \in 1..20, NEW op, Command(op)
    PROVE  at + 1 \in 1..20 /\ (op = "merge" => at + 2 \in 1..20)
BY ScriptCommands DEF Command, Start, WaitFor, Do

\* A queue that a step leaves alone keeps its invariant, if the step forgets
\* no success and makes none of the run the queue is busy with.
LEMMA Frame ==
    ASSUME NEW q \in Queues, QueueInv(q), queue'[q] = queue[q], next'[q] = next[q],
           done'[q] = done[q], succeeded \subseteq succeeded',
           queue[q] \in Busy => Current(q) \notin succeeded'
    PROVE  QueueInv(q)'
BY DEF QueueInv, Current, RunsOf

\* A queue that stops or starts goes back to its first run.
LEMMA Reset ==
    ASSUME NEW q \in Queues, QueueInv(q), queue'[q] \in {"off", "choose"}, next'[q] = 1,
           done'[q] = done[q], succeeded \subseteq succeeded'
    PROVE  QueueInv(q)'
<1>1. \A j \in 1..(next'[q] - 1) : <<q, j>> \in succeeded'
  OBVIOUS
<1>2. queue'[q] \notin Busy /\ queue'[q] # "finish"
  BY DEF Busy
<1>3. done'[q] = "complete" => RunsOf(q)' \subseteq succeeded'
  BY DEF QueueInv, RunsOf
<1> QED BY <1>1, <1>2, <1>3 DEF QueueInv

\* A queue that goes to another of its runs stays within them.
LEMMA NextMoves ==
    ASSUME NextOK, NEW q \in Queues, NEW n \in 1..(Runs[q] + 1),
           next' = [next EXCEPT ![q] = n]
    PROVE  NextOK'
<1>1. Runs[q] \in Nat
  BY MatrixAssumption
<1> QED BY <1>1 DEF NextOK

\* The types around a change of next.
LEMMA QueueTypes ==
    ASSUME TypeOK, NEW q \in Queues
    PROVE  /\ NextOK /\ Runs[q] \in Nat /\ next[q] \in 1..(Runs[q] + 1)
           /\ next[q] <= Runs[q] => Current(q) \in RunsOf(q)
<1>1. Runs[q] \in Nat
  BY MatrixAssumption
<1>2. NextOK
  BY DEF TypeOK, NextOK
<1> QED BY <1>1, <1>2 DEF NextOK, Current, RunsOf

\* What a queue reports joins the markers of the matrix.
LEMMA MarkTypes ==
    ASSUME TypeOK, NEW q \in Queues, next[q] <= Runs[q]
    PROVE  Current(q) \in UNION {RunsOf(p) : p \in Queues}
BY QueueTypes

\* The first state has no markers and no processes.
LEMMA InitMarkers == Init => MarkersInv
<1> SUFFICES ASSUME Init PROVE MarkersInv
  OBVIOUS
<1>1. \A q \in Queues : Runs[q] \in Nat
  BY MatrixAssumption
<1>2. NextOK
  BY <1>1 DEF Init, NextOK
<1>3. at \in 1..(Len(Script) + 1)
  BY ScriptLength DEF Init
<1>4. TypeOK
  <2>1. reboots \in 0..MaxReboots /\ signals \in 0..MaxSignals
    BY MatrixAssumption DEF Init
  <2>2. /\ child \in [Queues -> BOOLEAN]
        /\ queue \in [Queues -> {"off", "choose", "first", "second", "good", "bad", "mark success",
                                 "mark failure", "finish"}]
        /\ cli \in [Queues -> Nat]
        /\ done \in [Queues -> {"none", "torn", "complete"}]
    BY DEF Init
  <2> QED BY <1>2, <1>3, <2>1, <2>2 DEF Init, TypeOK, NextOK
<1>5. ASSUME NEW q \in Queues PROVE QueueInv(q)
  BY <1>5 DEF Init, QueueInv, Busy
<1> QED BY <1>4, <1>5 DEF MarkersInv

\* The supervisor starts queues at their first run and leaves markers alone.
LEMMA SupervisorMarkers ==
    ASSUME MarkersInv, SupervisorStep
    PROVE  MarkersInv'
<1> USE MatrixAssumption DEF MarkersInv
<1>0. at \in 1..20
  BY ScriptLength DEF TypeOK
<1>1. CASE StartQueue
  <2> DEFINE q == Script[at].queue
  <2>1. q \in Queues /\ at' \in 1..20
    BY <1>0, <1>1, ScriptQueues, ScriptEnds DEF StartQueue
  <2> HIDE DEF q
  <2>2. \/ UNCHANGED <<child, process>>
        \/ /\ child' = [child EXCEPT ![q] = TRUE]
           /\ queue' = [queue EXCEPT ![q] = "choose"]
           /\ next' = [next EXCEPT ![q] = 1]
           /\ UNCHANGED cli
    BY <1>1 DEF StartQueue, q
  <2>3. UNCHANGED <<preflight, markers, final, bounds>>
    BY <1>1 DEF StartQueue
  <2>4. TypeOK'
    <3>1. next' \in [Queues -> Nat] /\ \A p \in Queues : next'[p] \in 1..(Runs[p] + 1)
      <4>1. NextOK /\ Runs[q] \in Nat
        BY <2>1, QueueTypes
      <4>2. NextOK'
        BY <4>1, <2>1, <2>2, NextMoves DEF process, NextOK
      <4> QED BY <4>2 DEF NextOK
    <3> QED
      BY <2>1, <2>2, <2>3, <3>1, ScriptLength DEF TypeOK, process, markers, final, bounds
  <2>5. ASSUME NEW p \in Queues PROVE QueueInv(p)'
    <3>1. CASE queue'[p] = queue[p] /\ next'[p] = next[p]
      BY <3>1, <2>3, <2>5, Frame DEF QueueInv, markers
    <3>2. CASE queue'[p] = "choose" /\ next'[p] = 1
      BY <3>2, <2>3, <2>5, Reset DEF markers
    <3> QED BY <3>1, <3>2, <2>1, <2>2 DEF TypeOK, process
  <2> QED BY <2>4, <2>5
<1>2. CASE Wait \/ StartPreflight \/ EndPreflight \/ Summarise \/ Merge \/ BuildFailureMap
  <2>1. at' \in 1..20
    BY <1>0, <1>2, ScriptEnds
       DEF Wait, StartPreflight, EndPreflight, Summarise, Merge, BuildFailureMap
  <2>2. UNCHANGED <<child, process, markers, bounds>>
    BY <1>2 DEF Wait, StartPreflight, EndPreflight, Summarise, Merge, BuildFailureMap, final
  <2>3. preflight' \in {"todo", "running", "passed"} /\ merged' \in BOOLEAN /\ failureMap' \in BOOLEAN
    BY <1>2 DEF Wait, StartPreflight, EndPreflight, Summarise, Merge, BuildFailureMap, final, TypeOK
  <2>4. TypeOK'
    BY <2>1, <2>2, <2>3, ScriptLength DEF TypeOK, process, markers, bounds
  <2>5. ASSUME NEW p \in Queues PROVE QueueInv(p)'
    BY <2>2, <2>5, Frame DEF process, markers, QueueInv
  <2> QED BY <2>4, <2>5
<1> QED BY <1>1, <1>2 DEF SupervisorStep

\* A step of a queue keeps the types.
LEMMA QueueTypesKept ==
    ASSUME TypeOK, NEW q \in Queues, QueueInv(q), QueueStep(q)
    PROVE  TypeOK'
<1> USE DEF supervisor, markers, final, bounds
<1>0. /\ NextOK /\ Runs[q] \in Nat /\ next[q] \in 1..(Runs[q] + 1)
      /\ queue[q] \in Busy => next[q] <= Runs[q]
  BY QueueTypes DEF QueueInv
<1>1. CASE Choose(q)
  <2>1. NextOK'
    <3>1. CASE next' = next
      BY <1>0, <3>1 DEF NextOK
    <3>2. CASE next' = [next EXCEPT ![q] = next[q] + 1]
      <4>1. next[q] + 1 \in 1..(Runs[q] + 1)
        BY <1>0, <1>1 DEF Choose
      <4> QED BY <1>0, <3>2, <4>1, NextMoves
    <3> QED BY <3>1, <3>2, <1>1 DEF Choose
  <2> QED BY <1>0, <1>1, <2>1 DEF Choose, TypeOK, NextOK
<1>2. CASE Succeeds(q) \/ Fails(q) \/ OpenDone(q) \/ OrphanEnds(q)
  <2>1. CASE Succeeds(q)
    BY <2>1 DEF Succeeds, TypeOK
  <2>2. CASE Fails(q)
    <3>1. /\ queue' \in [Queues -> {"off", "choose", "first", "second", "good", "bad", "mark success",
                                    "mark failure", "finish"}]
          /\ cli' \in [Queues -> Nat]
      BY <2>2 DEF Fails, TypeOK
    <3> QED BY <2>2, <3>1 DEF Fails, TypeOK
  <2>3. CASE OpenDone(q)
    BY <2>3 DEF OpenDone, TypeOK
  <2>4. CASE OrphanEnds(q)
    BY <2>4 DEF OrphanEnds, TypeOK
  <2> QED BY <1>2, <2>1, <2>2, <2>3, <2>4
<1>3. CASE Unmark(q)
  BY <1>3 DEF Unmark, TypeOK
<1>4. CASE MarkSuccess(q)
  <2>1. next[q] + 1 \in 1..(Runs[q] + 1) /\ next[q] <= Runs[q]
    <3>1. queue[q] \in Busy
      BY <1>4 DEF MarkSuccess, Busy
    <3> QED BY <1>0, <3>1
  <2>2. NextOK'
    BY <1>0, <1>4, <2>1, NextMoves DEF MarkSuccess
  <2>3. succeeded' \subseteq UNION {RunsOf(p) : p \in Queues}
    BY <1>4, <2>1, MarkTypes DEF MarkSuccess, TypeOK
  <2> QED BY <1>4, <2>2, <2>3 DEF MarkSuccess, TypeOK, NextOK
<1>5. CASE MarkFailure(q)
  <2>1. next[q] <= Runs[q] /\ 1 \in 1..(Runs[q] + 1)
    <3>1. queue[q] \in Busy
      BY <1>5 DEF MarkFailure, Busy
    <3> QED BY <1>0, <3>1
  <2>2. NextOK'
    BY <1>0, <1>5, <2>1, NextMoves DEF MarkFailure
  <2>3. failed' \subseteq UNION {RunsOf(p) : p \in Queues}
    BY <1>5, <2>1, MarkTypes DEF MarkFailure, TypeOK
  <2> QED BY <1>5, <2>2, <2>3 DEF MarkFailure, TypeOK, NextOK
<1>6. CASE Refuse(q) \/ WriteDone(q)
  <2>1. 1 \in 1..(Runs[q] + 1)
    BY <1>0
  <2>2. NextOK'
    BY <1>0, <1>6, <2>1, NextMoves DEF Refuse, WriteDone
  <2> QED BY <1>6, <2>2 DEF Refuse, WriteDone, TypeOK, NextOK
<1> QED BY <1>1, <1>2, <1>3, <1>4, <1>5, <1>6 DEF QueueStep

\* A queue changes itself only, and the markers of the run it is busy with.
LEMMA QueueAlone ==
    ASSUME TypeOK, NEW q \in Queues, QueueStep(q), QueueInv(q)
    PROVE  /\ \A p \in Queues \ {q} : queue'[p] = queue[p] /\ next'[p] = next[p] /\ done'[p] = done[p]
           /\ succeeded \subseteq succeeded' /\ succeeded' \subseteq succeeded \cup {Current(q)}
<1> USE DEF markers
<1>0. DOMAIN queue = Queues /\ DOMAIN next = Queues /\ DOMAIN done = Queues
  BY DEF TypeOK
<1>1. CASE Choose(q)
  <2>1. \/ next' = [next EXCEPT ![q] = next[q] + 1] /\ UNCHANGED queue
        \/ queue' = [queue EXCEPT ![q] = "first"] /\ UNCHANGED next
    BY <1>1 DEF Choose
  <2> QED BY <1>0, <1>1, <2>1 DEF Choose
<1>2. CASE Succeeds(q) \/ Fails(q) \/ OrphanEnds(q)
  BY <1>0, <1>2 DEF Succeeds, Fails, OrphanEnds
<1>3. CASE Unmark(q)
  <2>1. Current(q) \notin succeeded
    BY <1>3 DEF Unmark, QueueInv, Busy
  <2> QED BY <1>0, <1>3, <2>1 DEF Unmark
<1>4. CASE MarkSuccess(q)
  BY <1>0, <1>4 DEF MarkSuccess
<1>5. CASE MarkFailure(q)
  BY <1>0, <1>5 DEF MarkFailure
<1>6. CASE Refuse(q)
  BY <1>0, <1>6 DEF Refuse
<1>7. CASE OpenDone(q)
  BY <1>0, <1>7 DEF OpenDone
<1>8. CASE WriteDone(q)
  BY <1>0, <1>8 DEF WriteDone
<1> QED BY <1>1, <1>2, <1>3, <1>4, <1>5, <1>6, <1>7, <1>8 DEF QueueStep

\* A step of a queue keeps its invariant.
LEMMA QueueItself ==
    ASSUME TypeOK, NEW q \in Queues, QueueInv(q), QueueStep(q)
    PROVE  QueueInv(q)'
<1> USE DEF supervisor, markers, final, bounds
<1>0. Runs[q] \in Nat /\ next[q] \in 1..(Runs[q] + 1) /\ next \in [Queues -> Nat]
  BY QueueTypes DEF NextOK
<1>1. queue \in [Queues -> {"off", "choose", "first", "second", "good", "bad", "mark success",
                            "mark failure", "finish"}] /\ done \in [Queues -> {"none", "torn", "complete"}]
  BY DEF TypeOK
<1>2. succeeded \subseteq succeeded'
  BY QueueAlone
<1>3. done'[q] = "complete" => RunsOf(q)' \subseteq succeeded'
  <2>1. CASE WriteDone(q)
    <3>1. RunsOf(q) \subseteq succeeded
      BY <1>0, <2>1 DEF WriteDone, QueueInv, RunsOf
    <3> QED BY <3>1, <1>2 DEF RunsOf
  <2>2. CASE ~WriteDone(q)
    <3>1. done'[q] \in {done[q], "torn"}
      BY <1>1, <2>2 DEF QueueStep, Choose, Succeeds, Fails, Unmark, MarkSuccess, MarkFailure, Refuse,
                        OpenDone, OrphanEnds
    <3> QED BY <3>1, <1>2 DEF QueueInv, RunsOf
  <2> QED BY <2>1, <2>2
<1>4. \A j \in 1..(next'[q] - 1) : <<q, j>> \in succeeded'
  <2>1. CASE next'[q] = next[q] \/ next'[q] = 1
    BY <2>1, <1>2 DEF QueueInv
  <2>2. CASE next'[q] = next[q] + 1 /\ Current(q) \in succeeded'
    BY <2>2, <1>0, <1>2 DEF QueueInv, Current
  <2>3. next'[q] = next[q] \/ next'[q] = 1 \/ (next'[q] = next[q] + 1 /\ Current(q) \in succeeded')
    BY <1>0 DEF QueueStep, Choose, Succeeds, Fails, Unmark, MarkSuccess, MarkFailure, Refuse,
                OpenDone, WriteDone, OrphanEnds
  <2> QED BY <2>1, <2>2, <2>3
<1>5. queue'[q] \in Busy => next'[q] <= Runs[q] /\ Current(q)' \notin succeeded'
  <2>1. CASE queue'[q] \in Busy
    <3>1. /\ next'[q] = next[q] /\ succeeded' \subseteq succeeded
          /\ queue[q] \in Busy \/ (next[q] <= Runs[q] /\ Current(q) \notin succeeded)
      BY <1>1, <2>1 DEF QueueStep, Choose, Succeeds, Fails, Unmark, MarkSuccess, MarkFailure, Refuse,
                OpenDone, WriteDone, OrphanEnds, Busy
    <3> QED BY <3>1 DEF QueueInv, Current
  <2> QED BY <2>1
<1>6. queue'[q] = "finish" => next'[q] = Runs[q] + 1
  <2>1. CASE OpenDone(q)
    BY <1>0, <2>1 DEF OpenDone
  <2>2. CASE OrphanEnds(q)
    BY <2>2 DEF OrphanEnds
  <2>3. CASE ~OpenDone(q) /\ ~OrphanEnds(q)
    <3>1. queue'[q] # "finish"
      BY <1>1, <2>3 DEF QueueStep, Choose, Succeeds, Fails, Unmark, MarkSuccess, MarkFailure, Refuse,
                        WriteDone
    <3> QED BY <3>1
  <2> QED BY <2>1, <2>2, <2>3
<1> QED BY <1>3, <1>4, <1>5, <1>6 DEF QueueInv

\* A step of a queue keeps the invariant of all.
LEMMA QueueMarkers ==
    ASSUME MarkersInv, NEW q \in Queues, QueueStep(q)
    PROVE  MarkersInv'
<1>0. TypeOK /\ QueueInv(q)
  BY DEF MarkersInv
<1>1. ASSUME NEW p \in Queues \ {q} PROVE QueueInv(p)'
  <2>1. QueueInv(p) /\ (queue[p] \in Busy => Current(p) \notin succeeded)
    BY DEF MarkersInv, QueueInv
  <2>2. queue[p] \in Busy => Current(p) \notin succeeded'
    BY <1>0, <2>1, QueueAlone DEF Current
  <2> QED BY <1>0, <2>1, <2>2, QueueAlone, Frame
<1> QED BY <1>0, <1>1, QueueTypesKept, QueueItself DEF MarkersInv

\* A signal or a reboot stops queues and touches no marker.
LEMMA InterruptMarkers ==
    ASSUME MarkersInv, Signal \/ Reboot
    PROVE  MarkersInv'
<1> DEFINE States == {"off", "choose", "first", "second", "good", "bad", "mark success",
                      "mark failure", "finish"}
<1>0. TypeOK /\ NextOK /\ \A q \in Queues : Runs[q] \in Nat
  BY MatrixAssumption DEF MarkersInv, TypeOK, NextOK
<1>1. UNCHANGED markers /\ UNCHANGED final
  BY DEF Signal, Reboot
<1>2. \A q \in Queues :
        \/ queue'[q] = queue[q] /\ next'[q] = next[q]
        \/ queue'[q] = "off" /\ next'[q] = 1
  <2>1. CASE Reboot
    BY <2>1 DEF Reboot
  <2>2. CASE Signal
    <3>1. PICK dead \in SUBSET {q \in Queues : child[q]} :
            /\ queue' = [q \in Queues |-> IF q \in dead THEN "off" ELSE queue[q]]
            /\ next' = [q \in Queues |-> IF q \in dead THEN 1 ELSE next[q]]
      BY <2>2 DEF Signal
    <3> QED BY <3>1
  <2> QED BY <2>1, <2>2
<1>3. queue' \in [Queues -> States] /\ next' \in [Queues -> Nat]
  <2>1. CASE Reboot
    BY <2>1 DEF Reboot
  <2>2. CASE Signal
    <3>1. queue \in [Queues -> States] /\ next \in [Queues -> Nat]
      BY <1>0 DEF TypeOK
    <3>2. PICK dead \in SUBSET {q \in Queues : child[q]} :
            /\ queue' = [q \in Queues |-> IF q \in dead THEN "off" ELSE queue[q]]
            /\ next' = [q \in Queues |-> IF q \in dead THEN 1 ELSE next[q]]
      BY <2>2 DEF Signal
    <3>3. \A q \in Queues : queue[q] \in States /\ next[q] \in Nat
      BY <3>1
    <3> QED BY <3>2, <3>3
  <2> QED BY <2>1, <2>2
<1>4. NextOK'
  <2>1. \A q \in Queues : 1 \in 1..(Runs[q] + 1)
    BY <1>0
  <2> QED BY <1>0, <1>2, <1>3, <2>1 DEF NextOK
<1>5. at' \in 1..(Len(Script) + 1)
  <2>1. CASE Reboot
    BY <2>1, ScriptLength DEF Reboot
  <2>2. CASE Signal
    <3>1. at \in 1..20 /\ at <= Len(Script)
      BY <1>0, <2>2, ScriptLength DEF TypeOK, Signal
    <3>2. at' \in {at, at + 1}
      BY <2>2 DEF Signal
    <3> QED BY <3>1, <3>2, ScriptCommands
  <2> QED BY <2>1, <2>2
<1>10. reboots \in 0..MaxReboots /\ signals \in 0..MaxSignals /\ MaxReboots \in Nat /\ MaxSignals \in Nat
  BY <1>0, MatrixAssumption DEF TypeOK
<1>6. reboots' \in 0..MaxReboots /\ signals' \in 0..MaxSignals
  <2>1. CASE Reboot
    BY <1>10, <2>1 DEF Reboot
  <2>2. CASE Signal
    BY <1>10, <2>2 DEF Signal
  <2> QED BY <2>1, <2>2
<1>7. child' \in [Queues -> BOOLEAN] /\ cli' \in [Queues -> Nat] /\ preflight' \in {"todo", "running", "passed"}
  <2>1. CASE Reboot
    BY <1>0, <2>1 DEF Reboot, TypeOK
  <2>2. CASE Signal
    BY <1>0, <2>2 DEF Signal, TypeOK
  <2> QED BY <2>1, <2>2
<1>8. TypeOK'
  BY <1>0, <1>1, <1>3, <1>4, <1>5, <1>6, <1>7 DEF TypeOK, NextOK, markers, final
<1>9. ASSUME NEW q \in Queues PROVE QueueInv(q)'
  <2>1. QueueInv(q)
    BY DEF MarkersInv
  <2>2. CASE queue'[q] = queue[q] /\ next'[q] = next[q]
    BY <1>1, <2>1, <2>2, Frame DEF markers, QueueInv
  <2>3. CASE queue'[q] = "off" /\ next'[q] = 1
    BY <1>1, <2>1, <2>3, Reset DEF markers
  <2> QED BY <1>2, <2>2, <2>3
<1> QED BY <1>8, <1>9 DEF MarkersInv

\* No step disturbs the invariant of the markers.
LEMMA NextMarkers == MarkersInv /\ [Next]_vars => MarkersInv'
<1> SUFFICES ASSUME MarkersInv, [Next]_vars PROVE MarkersInv'
  OBVIOUS
<1>1. CASE Next
  BY <1>1, SupervisorMarkers, QueueMarkers, InterruptMarkers DEF Next
<1>2. CASE UNCHANGED vars
  <2>1. TypeOK'
    BY <1>2 DEF MarkersInv, TypeOK, vars, supervisor, process, markers, final, bounds
  <2>2. ASSUME NEW q \in Queues PROVE QueueInv(q)'
    BY <1>2, Frame DEF MarkersInv, QueueInv, vars, process, markers
  <2> QED BY <2>1, <2>2 DEF MarkersInv
<1> QED BY <1>1, <1>2

\* The markers tell what the queues have done, always.
THEOREM MarkersAlways == Spec => []MarkersInv
<1> QED BY InitMarkers, NextMarkers, PTL DEF Spec

\* A done.json that a later supervisor trusts speaks of runs that all have
\* their success marker, whatever was killed, torn or tried again before.
THEOREM DoneIsTrue == Spec => []DoneMeansAllSucceeded
<1>1. MarkersInv => DoneMeansAllSucceeded
  BY DEF MarkersInv, QueueInv, DoneMeansAllSucceeded
<1> QED BY <1>1, MarkersAlways, PTL

\* A run that has succeeded keeps its marker and is never made again, over
\* any number of reboots and signals.
THEOREM SuccessForever == Spec => SuccessIsFinal
<1> DEFINE Kept == \A q \in Queues : \A r \in RunsOf(q) \cap succeeded :
                    r \in succeeded' /\ (cli'[q] = r[2] => cli[q] = r[2])
<1>1. ASSUME MarkersInv, [Next]_vars PROVE Kept
  <2> SUFFICES ASSUME NEW q \in Queues, NEW r \in RunsOf(q) \cap succeeded
               PROVE  r \in succeeded' /\ (cli'[q] = r[2] => cli[q] = r[2])
    OBVIOUS
  <2>0. TypeOK /\ Runs[q] \in Nat /\ r[2] # 0 /\ r = <<q, r[2]>>
    BY <1>1, MatrixAssumption DEF MarkersInv, RunsOf
  <2>1. CASE SupervisorStep \/ UNCHANGED vars
    <3>1. UNCHANGED <<succeeded, cli>>
      BY <2>1 DEF SupervisorStep, StartQueue, Wait, StartPreflight, EndPreflight, Summarise, Merge,
                  BuildFailureMap, vars, process, markers
    <3> QED BY <3>1
  <2>2. CASE Signal \/ Reboot
    <3>1. UNCHANGED succeeded /\ cli'[q] \in {cli[q], 0}
      BY <2>2 DEF Signal, Reboot, markers
    <3> QED BY <3>1, <2>0
  <2>3. ASSUME NEW p \in Queues, QueueStep(p) PROVE r \in succeeded' /\ (cli'[q] = r[2] => cli[q] = r[2])
    <3>1. QueueInv(p) /\ DOMAIN cli = Queues
      BY <1>1 DEF MarkersInv, TypeOK
    <3>2. r \in succeeded'
      BY <2>0, <2>3, <3>1, QueueAlone
    <3>3. CASE Choose(p)
      <4>1. \/ UNCHANGED cli
            \/ cli' = [cli EXCEPT ![p] = next[p]] /\ <<p, next[p]>> \notin succeeded
        BY <3>3 DEF Choose, Current
      <4> QED BY <2>0, <3>1, <3>2, <4>1
    <3>4. CASE ~Choose(p)
      <4>1. cli'[q] \in {cli[q], 0}
        BY <2>3, <3>1, <3>4 DEF QueueStep, Succeeds, Fails, Unmark, MarkSuccess, MarkFailure, Refuse,
                                OpenDone, WriteDone, OrphanEnds
      <4> QED BY <2>0, <3>2, <4>1
    <3> QED BY <3>3, <3>4
  <2> QED BY <1>1, <2>1, <2>2, <2>3 DEF Next
<1>2. MarkersInv /\ [Next]_vars => [Kept]_vars
  BY <1>1
<1> QED BY <1>2, MarkersAlways, PTL DEF Spec, SuccessIsFinal

-----------------------------------------------------------------------------
\* Where the supervisor is, by its command.
LEMMA CommandPlaces ==
    ASSUME at \in 1..20
    PROVE  /\ Command("start") => at = Starts(Script[at].queue)
           /\ Command("wait") => at = Awaited(Script[at].queue)
           /\ Command("preflight") <=> at = 13
           /\ Command("summarise") => at >= 16
           /\ Command("merge") \/ Command("map") => at >= 16
<1>1. Command("start") => at = Starts(Script[at].queue)
  BY ScriptCommands DEF Command, Start, WaitFor, Do, Starts
<1>2. Command("wait") => at = Awaited(Script[at].queue)
  BY ScriptCommands DEF Command, Start, WaitFor, Do, Awaited
<1>3. Command("preflight") <=> at = 13
  BY ScriptCommands DEF Command, Start, WaitFor, Do
<1>4. Command("summarise") \/ Command("merge") \/ Command("map") => at >= 16
  BY ScriptCommands DEF Command, Start, WaitFor, Do
<1> QED BY <1>1, <1>2, <1>3, <1>4

\* No two queues are started or awaited by one command.
LEMMA Places ==
    /\ \A q \in Queues : Starts(q) \in 1..14 /\ Awaited(q) \in 1..15 /\ Starts(q) < Awaited(q)
    /\ \A p, q \in Queues : Starts(p) = Starts(q) \/ Awaited(p) = Awaited(q) => p = q
    /\ \A q \in Queues : Starts(q) # 13 /\ ~(Starts(q) < 13 /\ 13 <= Awaited(q))
<1>1. \A q \in Queues : Starts(q) \in 1..14 /\ Awaited(q) \in 1..15 /\ Starts(q) < Awaited(q)
  BY DEF Queues, Starts, Awaited
<1>2. \A p, q \in Queues : Starts(p) = Starts(q) => p = q
  BY DEF Queues, Starts
<1>3. \A p, q \in Queues : Awaited(p) = Awaited(q) => p = q
  BY DEF Queues, Awaited
<1>4. \A q \in Queues : Starts(q) # 13 /\ ~(Starts(q) < 13 /\ 13 <= Awaited(q))
  BY DEF Queues, Starts, Awaited
<1> QED BY <1>1, <1>2, <1>3, <1>4

\* Queues that may run at the same time have no device in common.
LEMMA WindowsApart ==
    ASSUME NEW p \in Queues, NEW q \in Queues, NEW d, d \in Devices[p], d \in Devices[q],
           NEW n \in Nat, Starts(p) < n, n <= Awaited(p), Starts(q) < n, n <= Awaited(q)
    PROVE  p = q
BY DEF Queues, Starts, Awaited, Devices, AllDevices

\* Only a command to start a queue is at its start, and so for waiting.
LEMMA OtherCommands ==
    ASSUME NEW q \in Queues
    PROVE  /\ at = Starts(q) => Command("start") /\ Script[at].queue = q
           /\ at = Awaited(q) => Command("wait") /\ Script[at].queue = q
<1>1. at = Starts(q) => Command("start") /\ Script[at].queue = q
  BY ScriptCommands DEF Command, Start, Starts, Queues
<1>2. at = Awaited(q) => Command("wait") /\ Script[at].queue = q
  BY ScriptCommands DEF Command, WaitFor, Awaited, Queues
<1> QED BY <1>1, <1>2

\* A queue that a step leaves alone keeps its phase, if the supervisor does
\* not leave the queue's window or enter it.
LEMMA PhaseFrame ==
    ASSUME NEW q \in Queues, PhaseOf(q), queue'[q] = queue[q], cli'[q] = cli[q],
           done'[q] = done[q], child'[q] = child[q], succeeded \subseteq succeeded',
           \A i \in 1..Runs[q] : <<q, i>> \in failed => <<q, i>> \in failed',
           Starts(q) < at' => Starts(q) < at,
           child[q] => Starts(q) < at' /\ at' <= Awaited(q)
    PROVE  PhaseOf(q)'
<1>1. Settled(q) => Settled(q)'
  BY DEF Settled, Stopped
<1> QED BY <1>1 DEF PhaseOf

\* The first state is before every start.
LEMMA InitPhases == Init => Phases
<1> SUFFICES ASSUME Init PROVE Phases
  OBVIOUS
<1>1. ASSUME NEW q \in Queues PROVE PhaseOf(q)
  <2>1. Starts(q) \in 1..14 /\ at = 1
    BY Places DEF Init
  <2>2. queue[q] = "off" /\ cli[q] = 0 /\ ~child[q]
    BY DEF Init
  <2> QED BY <2>1, <2>2 DEF PhaseOf
<1> QED BY <1>1 DEF Phases, Init

\* The supervisor starts what is not running and passes what has ended.
LEMMA SupervisorPhases ==
    ASSUME MarkersInv, Phases, SupervisorStep
    PROVE  Phases'
<1> SUFFICES ASSUME signals = 0
             PROVE  /\ \A q \in Queues : PhaseOf(q)'
                    /\ preflight' = "running" => at' = 13
  <2>1. signals' = signals
    BY DEF SupervisorStep, StartQueue, Wait, StartPreflight, EndPreflight, Summarise, Merge,
           BuildFailureMap, bounds
  <2> QED BY <2>1 DEF Phases
<1>0. /\ at \in 1..20 /\ \A q \in Queues : PhaseOf(q)
      /\ preflight = "running" => at = 13
  BY ScriptLength DEF MarkersInv, TypeOK, Phases
<1>1. CASE StartQueue
  <2>0. PICK q0 \in Queues : q0 = Script[at].queue
    BY <1>0, <1>1, ScriptQueues DEF StartQueue
  <2>1. at = Starts(q0) /\ at' = at + 1 /\ Command("start")
    BY <1>0, <1>1, <2>0, CommandPlaces DEF StartQueue
  <2>2. UNCHANGED <<preflight, markers, cli>>
    BY <1>1 DEF StartQueue, process
  <2>3. \/ UNCHANGED <<child, queue>> /\ done[q0] = "complete"
        \/ child' = [child EXCEPT ![q0] = TRUE] /\ queue' = [queue EXCEPT ![q0] = "choose"]
    BY <1>1, <2>0 DEF StartQueue, process
  <2>4. DOMAIN child = Queues /\ DOMAIN queue = Queues
    BY DEF MarkersInv, TypeOK
  <2>5. ~child[q0] /\ queue[q0] = "off" /\ cli[q0] = 0
    BY <1>0, <2>1, Places DEF PhaseOf
  <2>6. PhaseOf(q0)'
    <3>1. Starts(q0) < at' /\ at' <= Awaited(q0)
      BY <2>1, Places
    <3>2. CASE UNCHANGED <<child, queue>> /\ done[q0] = "complete"
      BY <2>2, <2>5, <3>2 DEF PhaseOf, Settled, markers
    <3>3. CASE child' = [child EXCEPT ![q0] = TRUE] /\ queue' = [queue EXCEPT ![q0] = "choose"]
      <4>1. child'[q0] /\ queue'[q0] = "choose" /\ cli'[q0] = 0
        BY <2>1, <2>2, <2>4, <2>5, <3>3
      <4> QED BY <3>1, <4>1 DEF PhaseOf
    <3> QED BY <2>3, <3>2, <3>3
  <2>7. ASSUME NEW p \in Queues \ {q0} PROVE PhaseOf(p)'
    <3>1. at # Starts(p) /\ at # Awaited(p)
      BY <2>0, <2>1, OtherCommands DEF Command
    <3>2. Starts(p) \in 1..14 /\ Awaited(p) \in 1..15
      BY Places
    <3>3. /\ Starts(p) < at' => Starts(p) < at
          /\ child[p] => Starts(p) < at' /\ at' <= Awaited(p)
      BY <1>0, <2>1, <3>1, <3>2 DEF PhaseOf
    <3>4. queue'[p] = queue[p] /\ child'[p] = child[p]
      BY <2>3, <2>4
    <3> QED BY <1>0, <2>2, <3>3, <3>4, PhaseFrame DEF markers
  <2>8. preflight' # "running"
    BY <1>0, <2>1, <2>2, Places
  <2> QED BY <2>6, <2>7, <2>8
<1>2. CASE Wait
  <2> DEFINE q0 == Script[at].queue
  <2>1. at = Awaited(q0) /\ q0 \in Queues /\ at' = at + 1 /\ Command("wait") /\ ~child[q0]
    BY <1>0, <1>2, CommandPlaces, ScriptQueues DEF Wait
  <2>2. UNCHANGED <<preflight, markers, process, child>>
    BY <1>2 DEF Wait
  <2>3. ASSUME NEW p \in Queues PROVE PhaseOf(p)'
    <3>1. at # Starts(p) /\ (at = Awaited(p) => ~child[p])
      BY <2>1, OtherCommands DEF Command
    <3>2. Starts(p) \in 1..14 /\ Awaited(p) \in 1..15
      BY Places
    <3>3. /\ Starts(p) < at' => Starts(p) < at
          /\ child[p] => Starts(p) < at' /\ at' <= Awaited(p)
      BY <1>0, <2>1, <3>1, <3>2 DEF PhaseOf
    <3> QED BY <1>0, <2>2, <3>3, PhaseFrame DEF markers, process
  <2>4. preflight' # "running"
    BY <1>0, <2>1, <2>2, CommandPlaces DEF Command
  <2> QED BY <2>3, <2>4
<1>3. CASE StartPreflight
  <2>1. at' = at /\ at = 13 /\ UNCHANGED <<markers, process, child>>
    BY <1>0, <1>3, CommandPlaces DEF StartPreflight
  <2>2. ASSUME NEW p \in Queues PROVE PhaseOf(p)'
    BY <1>0, <2>1, PhaseFrame DEF markers, process, PhaseOf
  <2> QED BY <2>1, <2>2
<1>4. CASE EndPreflight \/ Summarise \/ Merge \/ BuildFailureMap
  <2>1. /\ at >= 13 /\ at' \in {at + 1, at + 2} /\ (at' = at + 2 => at >= 16)
        /\ UNCHANGED <<markers, process, child>>
    BY <1>0, <1>4, CommandPlaces DEF EndPreflight, Summarise, Merge, BuildFailureMap
  <2>2. preflight' # "running"
    BY <1>0, <1>4, CommandPlaces DEF EndPreflight, Summarise, Merge, BuildFailureMap
  <2>3. ASSUME NEW p \in Queues PROVE PhaseOf(p)'
    <3>1. /\ Starts(p) \in 1..14 /\ Awaited(p) \in 1..15 /\ Starts(p) # 13
          /\ ~(Starts(p) < 13 /\ 13 <= Awaited(p))
      BY Places
    <3>2. at # Starts(p) /\ at # Awaited(p)
      BY <1>4, OtherCommands DEF Command, EndPreflight, Summarise, Merge, BuildFailureMap
    <3>3. /\ Starts(p) < at' => Starts(p) < at
          /\ child[p] => Starts(p) < at' /\ at' <= Awaited(p)
      BY <1>0, <2>1, <3>1, <3>2 DEF PhaseOf
    <3> QED BY <1>0, <2>1, <3>3, PhaseFrame DEF markers, process
  <2> QED BY <2>2, <2>3
<1> QED BY <1>1, <1>2, <1>3, <1>4 DEF SupervisorStep

\* A queue ends with nothing to do, done, or stopped at a failure.
LEMMA QueuePhases ==
    ASSUME MarkersInv, Phases, NEW q \in Queues, QueueStep(q)
    PROVE  Phases'
<1> SUFFICES ASSUME signals = 0
             PROVE  /\ \A p \in Queues : PhaseOf(p)'
                    /\ preflight' = "running" => at' = 13
  <2>1. signals' = signals
    BY DEF QueueStep, Choose, Succeeds, Fails, Unmark, MarkSuccess, MarkFailure, Refuse, OpenDone,
           WriteDone, OrphanEnds, bounds
  <2> QED BY <2>1 DEF Phases
<1>0. /\ TypeOK /\ QueueInv(q) /\ \A p \in Queues : PhaseOf(p)
      /\ preflight = "running" => at = 13
      /\ DOMAIN child = Queues /\ DOMAIN queue = Queues /\ DOMAIN cli = Queues /\ DOMAIN done = Queues
  BY DEF MarkersInv, TypeOK, Phases
<1>1. /\ UNCHANGED <<at, preflight>>
      /\ \A p \in Queues \ {q} : child'[p] = child[p] /\ cli'[p] = cli[p]
      /\ child'[q] = child[q] \/ ~child'[q]
  BY <1>0 DEF QueueStep, Choose, Succeeds, Fails, Unmark, MarkSuccess, MarkFailure, Refuse, OpenDone,
           WriteDone, OrphanEnds, supervisor
<1>2. \A p \in Queues \ {q} : \A i \in 1..Runs[p] : <<p, i>> \in failed => <<p, i>> \in failed'
  BY DEF QueueStep, Choose, Succeeds, Fails, Unmark, MarkSuccess, MarkFailure, Refuse, OpenDone,
         WriteDone, OrphanEnds, markers, Current
<1>3. ASSUME NEW p \in Queues \ {q} PROVE PhaseOf(p)'
  <2>1. queue'[p] = queue[p] /\ done'[p] = done[p] /\ succeeded \subseteq succeeded'
    BY <1>0, QueueAlone
  <2>2. child[p] => Starts(p) < at' /\ at' <= Awaited(p)
    BY <1>0, <1>1 DEF PhaseOf
  <2> QED BY <1>0, <1>1, <1>2, <2>1, <2>2, PhaseFrame
<1>4. PhaseOf(q)'
  <2>0. PhaseOf(q)
    BY <1>0
  <2>1. CASE Refuse(q) \/ WriteDone(q) \/ MarkFailure(q)
    <3>1. queue'[q] = "off" /\ ~child'[q] /\ cli'[q] = cli[q] /\ cli[q] = 0
      BY <1>0, <2>0, <2>1 DEF Refuse, WriteDone, MarkFailure, PhaseOf
    <3>2. Settled(q)'
      <4>1. CASE Refuse(q)
        BY <4>1 DEF Refuse, Settled
      <4>2. CASE WriteDone(q)
        BY <1>0, <4>2 DEF WriteDone, Settled
      <4>3. CASE MarkFailure(q)
        <5>1. next[q] \in 1..Runs[q] /\ <<q, next[q]>> \in failed'
          <6>1. queue[q] \in Busy
            BY <4>3 DEF MarkFailure, Busy
          <6>2. next[q] <= Runs[q]
            BY <1>0, <6>1 DEF QueueInv
          <6>3. next[q] \in 1..(Runs[q] + 1) /\ Runs[q] \in Nat
            BY <1>0, QueueTypes
          <6>4. <<q, next[q]>> \in failed'
            BY <4>3 DEF MarkFailure, Current
          <6> QED BY <6>2, <6>3, <6>4
        <5>2. \A j \in 1..(next[q] - 1) : <<q, j>> \in succeeded'
          BY <1>0, <4>3 DEF MarkFailure, QueueInv
        <5> QED BY <5>1, <5>2 DEF Settled, Stopped
      <4> QED BY <2>1, <4>1, <4>2, <4>3
    <3> QED BY <3>1, <3>2 DEF PhaseOf
  <2>2. CASE Choose(q) \/ Succeeds(q) \/ Fails(q) \/ Unmark(q) \/ MarkSuccess(q) \/ OpenDone(q)
    <3>1. queue[q] # "off" /\ queue'[q] # "off" /\ child'[q] = child[q]
      BY <1>0, <2>2 DEF Choose, Succeeds, Fails, Unmark, MarkSuccess, OpenDone, supervisor
    <3>2. cli'[q] # 0 => queue'[q] \in {"first", "second"}
      BY <1>0, <2>0, <2>2 DEF Choose, Succeeds, Fails, Unmark, MarkSuccess, OpenDone, PhaseOf
    <3> QED BY <1>1, <2>0, <3>1, <3>2 DEF PhaseOf
  <2>3. CASE OrphanEnds(q)
    BY <2>0, <2>3 DEF OrphanEnds, PhaseOf
  <2> QED BY <2>1, <2>2, <2>3 DEF QueueStep
<1> QED BY <1>0, <1>1, <1>3, <1>4

\* A reboot starts from the first command with nothing left.
LEMMA InterruptPhases ==
    ASSUME MarkersInv, Phases, Signal \/ Reboot
    PROVE  Phases'
<1>1. CASE Signal
  <2>1. signals' # 0
    <3>1. signals \in 0..MaxSignals /\ MaxSignals \in Nat
      BY MatrixAssumption DEF MarkersInv, TypeOK
    <3> QED BY <1>1, <3>1 DEF Signal
  <2> QED BY <2>1 DEF Phases
<1>2. CASE Reboot
  <2>1. preflight' # "running" /\ at' = 1
    BY <1>2 DEF Reboot
  <2>2. ASSUME NEW q \in Queues PROVE PhaseOf(q)'
    <3>1. queue'[q] = "off" /\ cli'[q] = 0 /\ ~child'[q]
      BY <1>2 DEF Reboot
    <3>2. Starts(q) \in 1..14
      BY Places
    <3> QED BY <2>1, <3>1, <3>2 DEF PhaseOf
  <2> QED BY <2>1, <2>2 DEF Phases
<1> QED BY <1>1, <1>2

\* Without a signal the phases are kept apart, always.
THEOREM PhasesAlways == Spec => [](MarkersInv /\ Phases)
<1>1. Init => MarkersInv /\ Phases
  BY InitMarkers, InitPhases
<1>2. MarkersInv /\ Phases /\ [Next]_vars => (MarkersInv /\ Phases)'
  <2> SUFFICES ASSUME MarkersInv, Phases, [Next]_vars PROVE Phases'
    BY NextMarkers
  <2>1. CASE Next
    BY <2>1, SupervisorPhases, QueuePhases, InterruptPhases DEF Next
  <2>2. CASE UNCHANGED vars
    <3>1. UNCHANGED <<at, child, preflight, queue, cli, succeeded, failed, done, signals>>
      BY <2>2 DEF vars, supervisor, process, markers, bounds
    <3>2. ASSUME NEW q \in Queues, PhaseOf(q) PROVE PhaseOf(q)'
      BY <3>1, <3>2, PhaseFrame DEF PhaseOf
    <3> QED BY <3>1, <3>2 DEF Phases
  <2> QED BY <2>1, <2>2
<1> QED BY <1>1, <1>2, PTL DEF Spec

\* As long as no signal came, no device is ever used by two processes at
\* once, for any number of runs and reboots.
THEOREM DevicesAreExclusive == Spec => []DevicesExclusive
<1>1. ASSUME MarkersInv, Phases, signals = 0, NEW d \in AllDevices
      PROVE  Cardinality(Using(d)) + (IF preflight = "running" THEN 1 ELSE 0) <= 1
  <2>1. /\ \A q \in Queues : PhaseOf(q)
        /\ preflight = "running" => at = 13
        /\ at \in 1..20
    BY <1>1, ScriptLength DEF Phases, MarkersInv, TypeOK
  <2>2. ASSUME NEW q \in Using(d)
        PROVE  q \in Queues /\ d \in Devices[q] /\ Starts(q) < at /\ at <= Awaited(q)
    BY <2>1, <2>2 DEF Using, PhaseOf
  <2>3. \A p, q \in Using(d) : p = q
    BY <2>1, <2>2, WindowsApart
  <2>4. Using(d) = {} \/ \E q \in Using(d) : Using(d) = {q}
    BY <2>3
  <2>5. Cardinality(Using(d)) \in {0, 1} /\ (Using(d) = {} => Cardinality(Using(d)) = 0)
    BY <2>4, FS_EmptySet, FS_Singleton
  <2>6. preflight = "running" => Using(d) = {}
    BY <2>1, <2>2, Places
  <2> QED BY <2>5, <2>6
<1>2. MarkersInv /\ Phases => DevicesExclusive
  BY <1>1 DEF DevicesExclusive
<1> QED BY <1>2, PhasesAlways, PTL

\* As long as no signal came, the summary is made of queues that have
\* finished or stopped at a run marked as failed.
THEOREM SummaryOfSettled == Spec => []SettledBeforeSummary
<1>1. ASSUME MarkersInv, Phases, signals = 0, Command("summarise"), NEW q \in Queues
      PROVE  cli[q] = 0 /\ Settled(q)
  <2>1. PhaseOf(q) /\ at \in 1..20 /\ at >= 16
    BY <1>1, ScriptLength, CommandPlaces DEF Phases, MarkersInv, TypeOK
  <2>2. Starts(q) \in 1..14 /\ Awaited(q) \in 1..15
    BY Places
  <2> QED BY <2>1, <2>2 DEF PhaseOf
<1>2. MarkersInv /\ Phases => SettledBeforeSummary
  BY <1>1 DEF SettledBeforeSummary, Settled
<1> QED BY <1>2, PhasesAlways, PTL

=============================================================================
