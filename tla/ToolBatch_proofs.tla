-------------------------- MODULE ToolBatch_proofs --------------------------
(***************************************************************************)
(* Proofs about ToolBatch, for any set of calls and listener failures.     *)
(*                                                                         *)
(* What the executors of agent-loop.ts rely on is spread over awaits: that *)
(* a call still has its controller when it executes, that a discarded      *)
(* speculation was told to stop, that a sequential tool is alone and that  *)
(* results come out in call order.  The inductive invariant ties each of   *)
(* them to where the batch and the call's pipeline are.                    *)
(***************************************************************************)
EXTENDS ToolBatch, WellFoundedInduction, SequenceTheorems, TLAPS

\* Pipelines run only for calls of the final message, and only in the phases
\* whose executor starts them.
StageInv ==
    /\ final \subseteq Calls
    /\ phase \in {"stream", "noBatch"} => final = {}
    /\ \A i \in Calls \ final : stage[i] = "waiting"
    /\ phase \in {"stream", "starts"} =>
          \A i \in Calls : stage[i] \in {"waiting", "started"}

\* The sequential calls wait for the concurrent ones, and run in order.
SerialInv ==
    /\ phase \in {"stream", "starts", "parallel"} =>
          /\ current = 0
          /\ \A i \in Sequential : stage[i] = "waiting"
    /\ phase \in {"serial", "skipping", "results", "returned"} =>
          \A i \in Parallel : stage[i] = "ended"
    /\ phase \in {"serial", "skipping"} =>
          \A i \in Serial : stage[i] \in {"waiting", "ended"} \/ i = current
    /\ phase = "skipping" => current = 0
    /\ phase \in {"results", "returned"} => \A i \in final : stage[i] = "ended"
    /\ \A i \in Serial, j \in ToRun : stage[i] # "waiting" => i < j

\* While a sequential call is at work, every other call waits or has ended.
AloneInv ==
    \A i \in Serial : stage[i] \notin {"waiting", "ended"} =>
        \A j \in final \ {i} : stage[j] \in {"waiting", "ended"}

\* A speculation that was not discarded owns the controller of its call, whose
\* pipeline has not begun or consumes it.
SpecInv ==
    /\ phase \in {"stream", "starts"} =>
          \A i \in Calls : spec[i] \in {"none", "running", "settled"}
    /\ \A i \in Calls : spec[i] \in {"running", "settled"} =>
          registry[i] = "spec" /\ stage[i] \in {"waiting", "started", "consuming"}
    /\ \A i \in Calls : stage[i] = "consuming" => spec[i] \in {"running", "settled"}

\* A call that goes its own way told its speculation to stop.
ToldToStop ==
    \A i \in Calls : stage[i] \in {"preparing", "executing"} /\ spec[i] # "none"
        => <<i, "spec">> \in tripped

\* A call is shown as pending only while its pipeline is at work, and the calls
\* of a batch that returned left no speculation to its own.
ShownInv ==
    /\ \A i \in shown : stage[i] \notin {"waiting", "ended"}
    /\ phase = "returned" => \A i \in Calls : spec[i] \notin {"running", "settled"}

\* The results of the first calls are dealt with, in call order, and all of them
\* are recorded unless a second listener failure hit the pairing - when no
\* listener throws on the end of a result's message.
Unwound == phase \in {"unwind", "thrown"}

ResultSet == {results[k] : k \in 1 .. Len(results)}

ResultsInv ==
    /\ Unwound => throws >= 1
    /\ "resultEnd" \notin ThrowOn =>
          /\ ResultSet \subseteq emitted
          /\ ~ Unwound \/ throws <= 1 => emitted = ResultSet
          /\ emitted \subseteq final
          /\ \A k \in 1 .. Len(results) - 1 : results[k] < results[k + 1]
          /\ \A i \in emitted, j \in Missing : i < j
          /\ phase \in {"returned", "thrown"} => Missing = {}

\* In a batch of sequential calls at most one result is due.
DueInv ==
    ~ Deferred =>
        /\ phase \in {"serial", "skipping"} =>
              \A i, j \in Missing : stage[i] # "waiting" /\ stage[j] # "waiting" => i = j
        /\ phase = "serial" => \A i \in Missing : stage[i] # "waiting" => i = current

IInv ==
    /\ TypeOK
    /\ StageInv
    /\ SerialInv
    /\ AloneInv
    /\ SpecInv
    /\ ToldToStop
    /\ ShownInv
    /\ ResultsInv
    /\ DueInv
    /\ ControllerIsLive
    /\ OnlyCancelAborts

-----------------------------------------------------------------------------
(* Order.                                                                   *)

\* First picks the least element.
LEMMA FirstIn ==
    ASSUME NEW S, S \subseteq Nat, S # {}
    PROVE  First(S) \in S /\ \A k \in S : First(S) <= k
<1> DEFINE R == {p \in Nat \X Nat : p[1] < p[2]}
<1>1. IsWellFoundedOn(R, Nat)
  BY NatLessThanWellFounded DEF OpToRel
<1>2. \A x, y \in Nat : <<x, y>> \in R <=> x < y
  OBVIOUS
<1> HIDE DEF R
<1>3. PICK m \in S : \A y \in S : ~ (<<y, m>> \in R)
  BY <1>1, WFMin
<1>4. ASSUME NEW k \in S PROVE m <= k
  <2>1. k \in Nat /\ m \in Nat
    OBVIOUS
  <2>2. ~ (k < m)
    BY <1>2, <1>3, <2>1
  <2> QED BY <2>1, <2>2
<1> QED BY <1>4 DEF First

\* The next result to record is the first missing one, in both kinds of batch.
LEMMA RecordableIsNext ==
    ASSUME IInv, NEW i \in Recordable
    PROVE  i \in Missing /\ \A j \in Missing : i <= j
<1>1. Missing \subseteq Nat
  BY CallsAssumption DEF IInv, StageInv, Missing
<1>2. CASE Deferred
  BY <1>1, <1>2, FirstIn DEF Recordable
<1>3. CASE ~ Deferred
  <2>1. i \in Missing /\ stage[i] = "ended" /\ phase \in {"serial", "skipping"}
    BY <1>3 DEF Recordable
  <2>2. final \subseteq Sequential
    BY <1>3 DEF Deferred, Parallel
  <2>3. ASSUME NEW j \in Missing, j # i PROVE i <= j
    <3>1. stage[j] = "waiting"
      BY <1>3, <2>1, <2>3 DEF IInv, DueInv
    <3>2. i \in Serial /\ j \in ToRun
      BY <2>1, <2>2, <3>1 DEF Missing, Serial, ToRun
    <3> QED BY <1>1, <2>1, <3>2 DEF IInv, SerialInv
  <2> QED BY <1>1, <2>1, <2>3
<1> QED BY <1>2, <1>3

\* Recording the first missing result keeps the results ordered and complete.
LEMMA AppendResult ==
    ASSUME IInv, NEW i \in Missing, \A j \in Missing : i <= j,
           results' = Append(results, i), emitted' = emitted \cup {i},
           UNCHANGED <<phase, final, throws>>, phase \notin {"returned", "thrown"}
    PROVE  ResultsInv'
<1>1. /\ results \in Seq(Calls) /\ i \in Calls /\ i \in final /\ Calls \subseteq Nat
      /\ final \subseteq Calls
  BY CallsAssumption DEF IInv, TypeOK, StageInv, Missing
<1>2. Unwound' => throws' >= 1
  BY DEF IInv, ResultsInv, Unwound
<1> SUFFICES ASSUME "resultEnd" \notin ThrowOn
             PROVE  /\ ResultSet' \subseteq emitted'
                    /\ ~ Unwound' \/ throws' <= 1 => emitted' = ResultSet'
                    /\ emitted' \subseteq final'
                    /\ \A k \in 1 .. Len(results') - 1 : results'[k] < results'[k + 1]
                    /\ \A e \in emitted', j \in Missing' : e < j
                    /\ phase' \in {"returned", "thrown"} => Missing' = {}
  BY <1>2 DEF ResultsInv
<1>3. /\ ResultSet \subseteq emitted
      /\ ~ Unwound \/ throws <= 1 => emitted = ResultSet
      /\ emitted \subseteq final
      /\ \A k \in 1 .. Len(results) - 1 : results[k] < results[k + 1]
      /\ \A e \in emitted, j \in Missing : e < j
  BY DEF IInv, ResultsInv
<1>4. /\ Len(results') = Len(results) + 1
      /\ \A k \in 1 .. Len(results) : results'[k] = results[k]
      /\ results'[Len(results) + 1] = i
      /\ Len(results) \in Nat
  BY <1>1
<1>5. ResultSet' = ResultSet \cup {i}
  <2>1. ASSUME NEW e \in ResultSet' PROVE e \in ResultSet \cup {i}
    <3>1. PICK k \in 1 .. Len(results') : e = results'[k]
      BY <2>1 DEF ResultSet
    <3>2. k \in 1 .. Len(results) \/ k = Len(results) + 1
      BY <1>4
    <3> QED BY <1>4, <3>1, <3>2 DEF ResultSet
  <2>2. ASSUME NEW e \in ResultSet \cup {i} PROVE \E k \in 1 .. Len(results') : e = results'[k]
    <3>1. CASE e = i
      BY <1>4, <3>1
    <3>2. CASE e \in ResultSet
      <4>1. PICK k \in 1 .. Len(results) : e = results[k]
        BY <3>2 DEF ResultSet
      <4>2. k \in 1 .. Len(results') /\ e = results'[k]
        BY <1>4, <4>1
      <4> QED BY <4>2
    <3> QED BY <2>2, <3>1, <3>2
  <2> QED BY <2>1, <2>2 DEF ResultSet
<1>6. \A k \in 1 .. Len(results') - 1 : results'[k] < results'[k + 1]
  <2> SUFFICES ASSUME NEW k \in 1 .. Len(results)
               PROVE  results'[k] < results'[k + 1]
    BY <1>4
  <2>1. CASE k < Len(results)
    BY <1>3, <1>4, <2>1
  <2>2. CASE k = Len(results)
    <3>1. results[k] \in emitted
      BY <1>3, <2>2 DEF ResultSet
    <3> QED BY <1>3, <1>4, <2>2, <3>1
  <2> QED BY <1>4, <2>1, <2>2
<1>7. \A e \in emitted', j \in Missing' : e < j
  BY <1>1, <1>3 DEF Missing
<1> QED BY <1>1, <1>3, <1>5, <1>6, <1>7 DEF Unwound

-----------------------------------------------------------------------------
(* The invariant is inductive: one lemma per action.                        *)

\* The end of the stream fixes the batch: no pipeline has begun.
LEMMA StreamEndsStep ==
    ASSUME IInv, StreamEnds
    PROVE  IInv'
<1>1. TypeOK'
  BY DEF StreamEnds, IInv, TypeOK
<1>2. StageInv'
  BY DEF StreamEnds, IInv, StageInv
<1>3. SerialInv'
  BY DEF StreamEnds, IInv, SerialInv, Parallel, Serial
<1>4. AloneInv'
  BY DEF StreamEnds, IInv, AloneInv, StageInv
<1>5. SpecInv'
  BY DEF StreamEnds, IInv, SpecInv
<1>6. ShownInv'
  BY DEF StreamEnds, IInv, ShownInv
<1>7. ResultsInv'
  BY CallsAssumption DEF StreamEnds, IInv, ResultsInv, Missing, Unwound, ResultSet,
     TypeOK, StageInv
<1>8. DueInv'
  BY DEF StreamEnds, IInv, DueInv, Missing, StageInv
<1>9. ToldToStop' /\ ControllerIsLive' /\ OnlyCancelAborts'
  BY DEF StreamEnds, IInv, ToldToStop, ControllerIsLive, OnlyCancelAborts
<1> QED BY <1>1, <1>2, <1>3, <1>4, <1>5, <1>6, <1>7, <1>8, <1>9 DEF IInv

\* A failed stream discards every speculation before the turn ends.
LEMMA StreamFailsStep ==
    ASSUME IInv, StreamFails
    PROVE  IInv'
<1>1. TypeOK'
  BY DEF StreamFails, Discard, Entries, Aborting, IInv, TypeOK, Over
<1>2. StageInv'
  BY DEF StreamFails, IInv, StageInv
<1>3. SerialInv'
  BY DEF StreamFails, IInv, SerialInv, Serial, ToRun, TypeOK
<1>4. SpecInv'
  BY DEF StreamFails, Discard, Entries, IInv, SpecInv
<1>5. ToldToStop'
  BY DEF StreamFails, Discard, Entries, IInv, ToldToStop
<1>6. ShownInv'
  BY DEF StreamFails, IInv, ShownInv
<1>7. ResultsInv'
  BY CallsAssumption DEF StreamFails, Discard, Entries, Aborting, IInv, ResultsInv,
     Missing, Unwound, ResultSet, TypeOK
<1>8. DueInv'
  BY DEF StreamFails, DueInv, Parallel, Missing, TypeOK
<1>9. ControllerIsLive'
  BY DEF StreamFails, Discard, IInv, ControllerIsLive
<1>10. OnlyCancelAborts'
  BY DEF StreamFails, Discard, Entries, Aborting, IInv, OnlyCancelAborts, SpecInv
<1>11. AloneInv'
  BY DEF StreamFails, IInv, AloneInv, Serial
<1> QED BY <1>1, <1>2, <1>3, <1>4, <1>5, <1>6, <1>7, <1>8, <1>9, <1>10, <1>11 DEF IInv

\* A parallel call is announced, and shown, before any pipeline runs.
LEMMA EmitStartStep ==
    ASSUME IInv, EmitStart
    PROVE  IInv'
<1>1. PICK s \in Calls :
          s = First(ToStart) /\ s \in ToStart /\ \A k \in ToStart : s <= k
  BY CallsAssumption, FirstIn DEF EmitStart, ToStart, Parallel, IInv, TypeOK
<1>2. /\ phase = "starts" /\ stage' = [stage EXCEPT ![s] = "started"]
      /\ shown' = shown \cup {s}
      /\ UNCHANGED <<final, phase, current, spec, registry, tripped, executing, results,
                     emitted, runAborted, cancelled, throws>>
  BY <1>1 DEF EmitStart
<1>3. TypeOK'
  BY <1>2 DEF IInv, TypeOK
<1>4. StageInv'
  BY <1>1, <1>2 DEF ToStart, Parallel, IInv, StageInv
<1>5. SerialInv'
  BY <1>1, <1>2 DEF ToStart, Parallel, IInv, SerialInv, Serial, ToRun, TypeOK
<1>6. AloneInv'
  BY <1>1, <1>2 DEF ToStart, Parallel, IInv, AloneInv, Serial, TypeOK, SerialInv,
     ToRun
<1>7. SpecInv'
  BY <1>2 DEF IInv, SpecInv
<1>8. ToldToStop'
  BY <1>2 DEF IInv, ToldToStop
<1>9. ShownInv'
  BY <1>2 DEF IInv, ShownInv, TypeOK
<1>10. DueInv'
  BY <1>2 DEF DueInv, Missing, TypeOK
<1>11. ControllerIsLive'
  BY <1>1, <1>2 DEF ToStart, IInv, ControllerIsLive
<1>12. ResultsInv' /\ OnlyCancelAborts'
  BY DEF EmitStart, IInv, ResultsInv, OnlyCancelAborts, Missing, Unwound, ResultSet
<1> QED BY <1>3, <1>4, <1>5, <1>6, <1>7, <1>8, <1>9, <1>10, <1>11, <1>12 DEF IInv

\* Fan-out hands each live speculation to its call or tells it to stop.
LEMMA FanOutStep ==
    ASSUME IInv, FanOut
    PROVE  IInv'
<1>1. TypeOK'
  BY DEF FanOut, Discard, Entries, Aborting, IInv, TypeOK, Over
<1>2. StageInv'
  BY DEF FanOut, Parallel, IInv, StageInv, TypeOK
<1>3. SerialInv'
  BY CallsAssumption DEF FanOut, Parallel, IInv, SerialInv, Serial, ToRun, TypeOK
<1>4. AloneInv'
  BY DEF FanOut, ToStart, IInv, AloneInv, Serial, TypeOK, StageInv
<1>5. SpecInv'
  BY DEF FanOut, Discard, Entries, IInv, SpecInv, TypeOK, StageInv
<1>6. ToldToStop'
  BY DEF FanOut, Discard, Entries, Aborting, IInv, ToldToStop, TypeOK, StageInv,
     SpecInv
<1>7. ShownInv'
  BY DEF FanOut, IInv, ShownInv, TypeOK
<1>8. ResultsInv'
  BY CallsAssumption DEF FanOut, Discard, Entries, Aborting, ToStart, Parallel, IInv,
     ResultsInv, Missing, Unwound, ResultSet, TypeOK
<1>9. DueInv'
  BY DEF FanOut, DueInv, Deferred, Missing, TypeOK
<1>10. ControllerIsLive'
  BY DEF FanOut, Discard, Entries, IInv, ControllerIsLive, TypeOK, StageInv, SpecInv
<1>11. OnlyCancelAborts'
  BY DEF FanOut, Discard, Entries, Aborting, IInv, OnlyCancelAborts, TypeOK, SpecInv
<1> QED BY <1>1, <1>2, <1>3, <1>4, <1>5, <1>6, <1>7, <1>8, <1>9, <1>10, <1>11 DEF IInv

\* The sequential part begins only when every concurrent pipeline has ended.
LEMMA ParallelDoneStep ==
    ASSUME IInv, ParallelDone
    PROVE  IInv'
<1>1. TypeOK'
  BY DEF ParallelDone, IInv, TypeOK
<1>2. StageInv'
  BY DEF ParallelDone, IInv, StageInv
<1>3. SerialInv'
  BY DEF ParallelDone, Parallel, IInv, SerialInv, Serial
<1>4. SpecInv'
  BY DEF ParallelDone, IInv, SpecInv
<1>5. ShownInv'
  BY DEF ParallelDone, IInv, ShownInv
<1>6. ResultsInv'
  BY CallsAssumption DEF ParallelDone, Parallel, IInv, ResultsInv, Missing, Unwound,
     ResultSet, TypeOK
<1>7. DueInv'
  BY DEF ParallelDone, Parallel, IInv, DueInv, Deferred, Missing, SerialInv, Serial,
     ToRun
<1>8. AloneInv' /\ ToldToStop' /\ ControllerIsLive' /\ OnlyCancelAborts'
  BY DEF ParallelDone, IInv, AloneInv, ToldToStop, ControllerIsLive,
         OnlyCancelAborts, Serial
<1> QED BY <1>1, <1>2, <1>3, <1>4, <1>5, <1>6, <1>7, <1>8 DEF IInv

\* The next sequential call in order starts when its predecessor has ended.
LEMMA SerialStartStep ==
    ASSUME IInv, SerialStart
    PROVE  IInv'
<1>1. PICK s \in Calls :
          s = First(ToRun) /\ s \in ToRun /\ \A k \in ToRun : s <= k
  BY CallsAssumption, FirstIn DEF SerialStart, ToRun, Serial, IInv, TypeOK
<1>2. /\ phase = "serial" /\ current = 0 /\ current' = s
      /\ stage' = [stage EXCEPT ![s] = "preparing"] /\ shown' = shown \cup {s}
      /\ UNCHANGED <<final, phase, spec, registry, tripped, executing, results, emitted,
                     runAborted, cancelled, throws>>
  BY <1>1 DEF SerialStart
<1>3. TypeOK'
  BY <1>2 DEF IInv, TypeOK
<1>4. StageInv'
  BY <1>1, <1>2 DEF ToRun, Serial, IInv, StageInv
<1>5. SerialInv'
  BY CallsAssumption, <1>1, <1>2 DEF ToRun, Serial, IInv, SerialInv, Parallel,
     TypeOK
<1>6. AloneInv'
  BY <1>1, <1>2 DEF Serial, IInv, AloneInv, TypeOK, SerialInv, Parallel
<1>7. SpecInv'
  BY CallsAssumption, <1>1, <1>2 DEF ToRun, Serial, IInv, SpecInv, TypeOK
<1>8. ToldToStop'
  BY CallsAssumption, <1>1, <1>2 DEF ToRun, Serial, IInv, ToldToStop, TypeOK
<1>9. ShownInv'
  BY <1>2 DEF IInv, ShownInv, TypeOK
<1>10. DueInv'
  BY CallsAssumption, <1>2 DEF IInv, DueInv, Deferred, Parallel, Missing, TypeOK
<1>11. ControllerIsLive'
  BY <1>1, <1>2 DEF ToRun, IInv, ControllerIsLive
<1>12. ResultsInv' /\ OnlyCancelAborts'
  BY DEF SerialStart, IInv, ResultsInv, OnlyCancelAborts, Missing, Unwound,
         ResultSet
<1> QED BY <1>3, <1>4, <1>5, <1>6, <1>7, <1>8, <1>9, <1>10, <1>11, <1>12 DEF IInv

\* After each sequential call the executor looks whether the run was aborted.
LEMMA SerialCheckStep ==
    ASSUME IInv, SerialCheck
    PROVE  IInv'
<1>1. TypeOK'
  BY DEF SerialCheck, IInv, TypeOK
<1>2. StageInv'
  BY DEF SerialCheck, IInv, StageInv
<1>3. SerialInv'
  BY DEF SerialCheck, Parallel, IInv, SerialInv, Serial, ToRun, TypeOK
<1>4. SpecInv'
  BY DEF SerialCheck, IInv, SpecInv
<1>5. ShownInv'
  BY DEF SerialCheck, IInv, ShownInv
<1>6. ResultsInv'
  BY CallsAssumption DEF SerialCheck, Deferred, Parallel, IInv, ResultsInv, Missing,
     Unwound, ResultSet, TypeOK
<1>7. DueInv'
  BY DEF SerialCheck, Deferred, Parallel, IInv, DueInv, Missing
<1>8. AloneInv' /\ ToldToStop' /\ ControllerIsLive' /\ OnlyCancelAborts'
  BY DEF SerialCheck, IInv, AloneInv, ToldToStop, ControllerIsLive, OnlyCancelAborts,
         Serial
<1> QED BY <1>1, <1>2, <1>3, <1>4, <1>5, <1>6, <1>7, <1>8 DEF IInv

\* After an abort the remaining sequential calls end without executing.
LEMMA SkipCallStep ==
    ASSUME IInv, SkipCall
    PROVE  IInv'
<1>1. PICK s \in Calls :
          s = First(ToRun) /\ s \in ToRun /\ \A k \in ToRun : s <= k
  BY CallsAssumption, FirstIn DEF SkipCall, ToRun, Serial, IInv, TypeOK
<1>2. /\ phase = "skipping" /\ stage' = [stage EXCEPT ![s] = "ended"]
      /\ Deferred \/ \A k \in Serial : stage[k] = "ended" => k \in emitted
      /\ UNCHANGED <<final, phase, current, spec, registry, tripped, executing, shown,
                     results, emitted, runAborted, cancelled, throws>>
  BY <1>1 DEF SkipCall
<1>3. TypeOK'
  BY <1>2 DEF IInv, TypeOK, Over
<1>4. StageInv'
  BY <1>1, <1>2 DEF ToRun, Serial, IInv, StageInv, TypeOK
<1>5. SerialInv'
  BY CallsAssumption, <1>1, <1>2 DEF ToRun, Serial, Parallel, IInv, SerialInv,
     TypeOK
<1>6. AloneInv'
  BY <1>2 DEF Serial, IInv, AloneInv, TypeOK
<1>7. SpecInv'
  BY CallsAssumption, <1>1, <1>2 DEF ToRun, Serial, IInv, SpecInv, TypeOK
<1>8. ToldToStop'
  BY <1>2 DEF IInv, ToldToStop, TypeOK
<1>9. ShownInv'
  BY <1>1, <1>2 DEF ToRun, IInv, ShownInv, TypeOK
<1>10. DueInv'
  BY <1>2 DEF Serial, Deferred, Parallel, IInv, DueInv, Missing, TypeOK, SerialInv
<1>11. ControllerIsLive'
  BY <1>1, <1>2 DEF ToRun, IInv, ControllerIsLive, TypeOK
<1>12. ResultsInv' /\ OnlyCancelAborts'
  BY DEF SkipCall, IInv, ResultsInv, OnlyCancelAborts, Missing, Unwound, ResultSet
<1> QED BY <1>3, <1>4, <1>5, <1>6, <1>7, <1>8, <1>9, <1>10, <1>11, <1>12 DEF IInv

\* The results phase is entered when every call of the message has ended.
LEMMA AllRanStep ==
    ASSUME IInv, AllRan
    PROVE  IInv'
<1>1. TypeOK'
  BY DEF AllRan, IInv, TypeOK, Over
<1>2. StageInv'
  BY DEF AllRan, IInv, StageInv, TypeOK
<1>3. SerialInv'
  BY DEF AllRan, ToRun, Serial, Deferred, Parallel, IInv, SerialInv, TypeOK
<1>4. SpecInv'
  BY DEF AllRan, IInv, SpecInv, TypeOK
<1>5. ShownInv'
  BY DEF AllRan, IInv, ShownInv, TypeOK
<1>6. ResultsInv'
  BY CallsAssumption DEF AllRan, ToRun, Serial, Deferred, Parallel, IInv, ResultsInv,
     Missing, Unwound, ResultSet, TypeOK
<1>7. DueInv'
  BY DEF AllRan, DueInv, Missing, TypeOK
<1>8. AloneInv' /\ ToldToStop' /\ ControllerIsLive' /\ OnlyCancelAborts'
  BY DEF AllRan, IInv, AloneInv, ToldToStop, ControllerIsLive, OnlyCancelAborts,
         Serial
<1> QED BY <1>1, <1>2, <1>3, <1>4, <1>5, <1>6, <1>7, <1>8 DEF IInv

\* A returning batch has recorded every result and discards what is left.
LEMMA BatchReturnsStep ==
    ASSUME IInv, BatchReturns
    PROVE  IInv'
<1>1. TypeOK'
  BY DEF BatchReturns, Discard, Entries, Aborting, IInv, TypeOK, Over
<1>2. StageInv'
  BY DEF BatchReturns, IInv, StageInv, TypeOK
<1>3. SerialInv'
  BY DEF BatchReturns, IInv, SerialInv, Parallel, Serial, ToRun, TypeOK
<1>4. SpecInv'
  BY DEF BatchReturns, Discard, Entries, IInv, SpecInv, TypeOK
<1>5. ToldToStop'
  BY DEF BatchReturns, Discard, Entries, IInv, ToldToStop, TypeOK
<1>6. ShownInv'
  BY DEF BatchReturns, Discard, Entries, IInv, ShownInv, TypeOK, StageInv, SerialInv,
     Parallel, Serial, ToRun
<1>7. ResultsInv'
  BY CallsAssumption DEF BatchReturns, Discard, Entries, Aborting, Missing, IInv,
     ResultsInv, Unwound, ResultSet, TypeOK
<1>8. DueInv'
  BY DEF BatchReturns, DueInv, Deferred, Parallel, TypeOK
<1>9. ControllerIsLive'
  BY DEF BatchReturns, Discard, IInv, ControllerIsLive, TypeOK
<1>10. OnlyCancelAborts'
  BY DEF BatchReturns, Discard, Entries, Aborting, IInv, OnlyCancelAborts, TypeOK,
     SpecInv
<1>11. AloneInv'
  BY DEF BatchReturns, IInv, AloneInv, Serial
<1> QED BY <1>1, <1>2, <1>3, <1>4, <1>5, <1>6, <1>7, <1>8, <1>9, <1>10, <1>11 DEF IInv

\* The unwind records the missing results in call order.
LEMMA SynthesizeStep ==
    ASSUME IInv, Synthesize
    PROVE  IInv'
<1>1. First(Missing) \in Missing /\ \A j \in Missing : First(Missing) <= j
  BY CallsAssumption, FirstIn DEF Synthesize, Missing, IInv, StageInv
<1>2. TypeOK'
  <2>1. First(Missing) \in Calls
    BY <1>1 DEF Missing, IInv, TypeOK
  <2> QED BY <2>1 DEF Synthesize, IInv, TypeOK, Over
<1>3. ResultsInv'
  BY <1>1, AppendResult DEF Synthesize
<1>4. DueInv'
  BY DEF Synthesize, DueInv, TypeOK
<1>5. /\ StageInv' /\ SerialInv' /\ AloneInv' /\ SpecInv'
      /\ ToldToStop' /\ ShownInv' /\ ControllerIsLive' /\ OnlyCancelAborts'
  BY DEF Synthesize, IInv, StageInv, SerialInv, AloneInv, SpecInv, ToldToStop,
         ShownInv, ControllerIsLive, OnlyCancelAborts, Parallel, Serial, ToRun
<1> QED BY <1>2, <1>3, <1>4, <1>5 DEF IInv

\* A batch is rethrown only when no result is missing.
LEMMA BatchThrowsStep ==
    ASSUME IInv, BatchThrows
    PROVE  IInv'
<1>1. TypeOK'
  BY DEF BatchThrows, IInv, TypeOK, Over
<1>2. StageInv'
  BY DEF BatchThrows, IInv, StageInv
<1>3. SerialInv'
  BY DEF BatchThrows, IInv, SerialInv, Serial, ToRun, TypeOK
<1>4. SpecInv'
  BY DEF BatchThrows, IInv, SpecInv
<1>5. ShownInv'
  BY DEF BatchThrows, IInv, ShownInv
<1>6. ResultsInv'
  BY CallsAssumption DEF BatchThrows, Missing, IInv, ResultsInv, Unwound, ResultSet,
     TypeOK
<1>7. DueInv'
  BY DEF BatchThrows, DueInv
<1>8. AloneInv' /\ ToldToStop' /\ ControllerIsLive' /\ OnlyCancelAborts'
  BY DEF BatchThrows, IInv, AloneInv, ToldToStop, ControllerIsLive, OnlyCancelAborts,
         Serial
<1> QED BY <1>1, <1>2, <1>3, <1>4, <1>5, <1>6, <1>7, <1>8 DEF IInv

\* A speculation settles and waits to be taken.
LEMMA SpecSettlesStep ==
    ASSUME IInv, NEW i \in Calls, SpecSettles(i)
    PROVE  IInv'
<1>1. TypeOK'
  BY DEF SpecSettles, IInv, TypeOK
<1>2. SpecInv'
  BY DEF SpecSettles, IInv, SpecInv
<1>3. ToldToStop'
  BY DEF SpecSettles, IInv, ToldToStop
<1>4. ShownInv'
  BY DEF SpecSettles, IInv, ShownInv
<1>5. ControllerIsLive'
  BY DEF SpecSettles, IInv, ControllerIsLive
<1>6. StageInv' /\ SerialInv' /\ AloneInv' /\ ResultsInv' /\ DueInv' /\ OnlyCancelAborts'
  BY DEF SpecSettles, IInv, StageInv, SerialInv, AloneInv, ResultsInv, DueInv,
         OnlyCancelAborts, Parallel, Serial, ToRun, Missing, Deferred, Unwound,
         ResultSet
<1> QED BY <1>1, <1>2, <1>3, <1>4, <1>5, <1>6 DEF IInv

\* A discarded speculation settles and releases only its own controller.
LEMMA DropSettlesStep ==
    ASSUME IInv, NEW i \in Calls, DropSettles(i)
    PROVE  IInv'
<1>1. TypeOK'
  BY DEF DropSettles, Released, IInv, TypeOK
<1>2. SpecInv'
  BY DEF DropSettles, Released, IInv, SpecInv
<1>3. ToldToStop'
  BY DEF DropSettles, IInv, ToldToStop
<1>4. ShownInv'
  BY DEF DropSettles, IInv, ShownInv
<1>5. ControllerIsLive'
  BY DEF DropSettles, Released, IInv, ControllerIsLive, TypeOK, SpecInv
<1>6. StageInv' /\ SerialInv' /\ AloneInv' /\ ResultsInv' /\ DueInv' /\ OnlyCancelAborts'
  BY DEF DropSettles, IInv, StageInv, SerialInv, AloneInv, ResultsInv, DueInv,
         OnlyCancelAborts, Parallel, Serial, ToRun, Missing, Deferred, Unwound,
         ResultSet
<1> QED BY <1>1, <1>2, <1>3, <1>4, <1>5, <1>6 DEF IInv

\* A pipeline that took a speculation goes on when the speculation settled.
LEMMA ConsumeStep ==
    ASSUME IInv, NEW i \in Calls, Consume(i)
    PROVE  IInv'
<1>1. TypeOK'
  BY DEF Consume, Released, IInv, TypeOK
<1>2. StageInv'
  BY DEF Consume, IInv, StageInv
<1>3. SerialInv'
  BY DEF Consume, IInv, SerialInv, Parallel, Serial, ToRun, TypeOK
<1>4. AloneInv'
  BY DEF Consume, IInv, AloneInv, Serial
<1>5. SpecInv'
  BY DEF Consume, Released, IInv, SpecInv, TypeOK, StageInv
<1>6. ToldToStop'
  BY DEF Consume, IInv, ToldToStop
<1>7. ShownInv'
  BY DEF Consume, IInv, ShownInv
<1>8. DueInv'
  BY DEF Consume, IInv, DueInv, Deferred, Parallel, Missing, TypeOK
<1>9. ControllerIsLive'
  BY DEF Consume, Released, IInv, ControllerIsLive, TypeOK
<1>10. ResultsInv' /\ OnlyCancelAborts'
  BY DEF Consume, IInv, ResultsInv, OnlyCancelAborts, Missing, Unwound, ResultSet
<1> QED BY <1>1, <1>2, <1>3, <1>4, <1>5, <1>6, <1>7, <1>8, <1>9, <1>10 DEF IInv

\* A call may be answered without being executed.
LEMMA PrepareAnswersStep ==
    ASSUME IInv, NEW i \in Calls, PrepareAnswers(i)
    PROVE  IInv'
<1>1. TypeOK'
  BY DEF PrepareAnswers, IInv, TypeOK
<1>2. StageInv'
  BY DEF PrepareAnswers, IInv, StageInv
<1>3. SerialInv'
  BY DEF PrepareAnswers, IInv, SerialInv, Parallel, Serial, ToRun
<1>4. AloneInv'
  BY DEF PrepareAnswers, IInv, AloneInv, Serial
<1>5. SpecInv'
  BY DEF PrepareAnswers, IInv, SpecInv
<1>6. ToldToStop'
  BY DEF PrepareAnswers, IInv, ToldToStop
<1>7. ShownInv'
  BY DEF PrepareAnswers, IInv, ShownInv
<1>8. DueInv'
  BY DEF PrepareAnswers, IInv, DueInv, Deferred, Parallel, Missing
<1>9. ControllerIsLive'
  BY DEF PrepareAnswers, IInv, ControllerIsLive
<1>10. ResultsInv' /\ OnlyCancelAborts'
  BY DEF PrepareAnswers, IInv, ResultsInv, OnlyCancelAborts, Missing, Unwound,
         ResultSet
<1> QED BY <1>1, <1>2, <1>3, <1>4, <1>5, <1>6, <1>7, <1>8, <1>9, <1>10 DEF IInv

\* An execution starts with a controller of its own.
LEMMA ExecuteStep ==
    ASSUME IInv, NEW i \in Calls, Execute(i)
    PROVE  IInv'
<1>1. TypeOK'
  BY DEF Execute, IInv, TypeOK
<1>2. StageInv'
  BY DEF Execute, IInv, StageInv
<1>3. SerialInv'
  BY DEF Execute, IInv, SerialInv, Parallel, Serial, ToRun
<1>4. AloneInv'
  BY DEF Execute, IInv, AloneInv, Serial
<1>5. SpecInv'
  BY DEF Execute, IInv, SpecInv
<1>6. ToldToStop'
  BY DEF Execute, IInv, ToldToStop
<1>7. ShownInv'
  BY DEF Execute, IInv, ShownInv
<1>8. DueInv'
  BY DEF Execute, IInv, DueInv, Deferred, Parallel, Missing
<1>9. ControllerIsLive'
  BY DEF Execute, IInv, ControllerIsLive, TypeOK
<1>10. ResultsInv' /\ OnlyCancelAborts'
  BY DEF Execute, IInv, ResultsInv, OnlyCancelAborts, Missing, Unwound, ResultSet
<1> QED BY <1>1, <1>2, <1>3, <1>4, <1>5, <1>6, <1>7, <1>8, <1>9, <1>10 DEF IInv

\* The pipeline goes on when the tool returned or its signal fired.
LEMMA ExecuteSettlesStep ==
    ASSUME IInv, NEW i \in Calls, ExecuteSettles(i)
    PROVE  IInv'
<1>1. TypeOK'
  BY DEF ExecuteSettles, IInv, TypeOK
<1>2. StageInv'
  BY DEF ExecuteSettles, IInv, StageInv
<1>3. SerialInv'
  BY DEF ExecuteSettles, IInv, SerialInv, Parallel, Serial, ToRun
<1>4. AloneInv'
  BY DEF ExecuteSettles, IInv, AloneInv, Serial
<1>5. SpecInv'
  BY DEF ExecuteSettles, IInv, SpecInv
<1>6. ToldToStop'
  BY DEF ExecuteSettles, IInv, ToldToStop
<1>7. ShownInv'
  BY DEF ExecuteSettles, IInv, ShownInv
<1>8. DueInv'
  BY DEF ExecuteSettles, IInv, DueInv, Deferred, Parallel, Missing
<1>9. ControllerIsLive'
  BY DEF ExecuteSettles, IInv, ControllerIsLive
<1>10. ResultsInv' /\ OnlyCancelAborts'
  BY DEF ExecuteSettles, IInv, ResultsInv, OnlyCancelAborts, Missing, Unwound,
         ResultSet
<1> QED BY <1>1, <1>2, <1>3, <1>4, <1>5, <1>6, <1>7, <1>8, <1>9, <1>10 DEF IInv

\* A pipeline ends and its call is no longer shown.
LEMMA EndCallStep ==
    ASSUME IInv, NEW i \in Calls, EndCall(i)
    PROVE  IInv'
<1>1. TypeOK'
  BY DEF EndCall, Released, IInv, TypeOK
<1>2. StageInv'
  BY DEF EndCall, IInv, StageInv
<1>3. SerialInv'
  BY DEF EndCall, IInv, SerialInv, Parallel, Serial, ToRun, TypeOK
<1>4. AloneInv'
  BY DEF EndCall, IInv, AloneInv, Serial
<1>5. SpecInv'
  BY DEF EndCall, Released, IInv, SpecInv
<1>6. ToldToStop'
  BY DEF EndCall, IInv, ToldToStop
<1>7. ShownInv'
  BY DEF EndCall, IInv, ShownInv
<1>8. DueInv'
  BY DEF EndCall, IInv, DueInv, Deferred, Parallel, Missing, TypeOK
<1>9. ControllerIsLive'
  BY DEF EndCall, Released, IInv, ControllerIsLive, TypeOK
<1>10. ResultsInv' /\ OnlyCancelAborts'
  BY DEF EndCall, IInv, ResultsInv, OnlyCancelAborts, Missing, Unwound, ResultSet
<1> QED BY <1>1, <1>2, <1>3, <1>4, <1>5, <1>6, <1>7, <1>8, <1>9, <1>10 DEF IInv

\* The result recorded is the next one in call order.
LEMMA RecordResultStep ==
    ASSUME IInv, NEW i \in Calls, RecordResult(i)
    PROVE  IInv'
<1>1. i \in Missing /\ \A j \in Missing : i <= j
  BY RecordableIsNext DEF RecordResult
<1>2. TypeOK'
  BY DEF RecordResult, IInv, TypeOK
<1>3. ResultsInv'
  BY <1>1, AppendResult DEF RecordResult, Recordable
<1>4. DueInv'
  BY DEF RecordResult, IInv, DueInv, Deferred, Parallel, Missing, TypeOK
<1>5. /\ StageInv' /\ SerialInv' /\ AloneInv' /\ SpecInv'
      /\ ToldToStop' /\ ShownInv' /\ ControllerIsLive' /\ OnlyCancelAborts'
  BY DEF RecordResult, IInv, StageInv, SerialInv, AloneInv, SpecInv, ToldToStop,
         ShownInv, ControllerIsLive, OnlyCancelAborts, Parallel, Serial, ToRun
<1> QED BY <1>2, <1>3, <1>4, <1>5 DEF IInv

\* A speculation starts only for a call that has none, while streaming.
LEMMA MaybeStartStep ==
    ASSUME IInv, NEW i \in Calls, MaybeStart(i)
    PROVE  IInv'
<1>1. TypeOK'
  BY DEF MaybeStart, IInv, TypeOK
<1>2. SpecInv'
  BY DEF MaybeStart, IInv, SpecInv, TypeOK, StageInv
<1>3. ToldToStop'
  BY DEF MaybeStart, IInv, ToldToStop, StageInv
<1>4. ShownInv'
  BY DEF MaybeStart, IInv, ShownInv
<1>5. ControllerIsLive'
  BY DEF MaybeStart, IInv, ControllerIsLive, TypeOK, StageInv
<1>6. StageInv' /\ SerialInv' /\ AloneInv' /\ ResultsInv' /\ DueInv' /\ OnlyCancelAborts'
  BY DEF MaybeStart, IInv, StageInv, SerialInv, AloneInv, ResultsInv, DueInv,
         OnlyCancelAborts, Parallel, Serial, ToRun, Missing, Deferred, Unwound,
         ResultSet
<1> QED BY <1>1, <1>2, <1>3, <1>4, <1>5, <1>6 DEF IInv

\* A cancel aborts the controller that is registered.
LEMMA CancelToolStep ==
    ASSUME IInv, NEW i \in Calls, CancelTool(i)
    PROVE  IInv'
<1>1. TypeOK'
  BY DEF CancelTool, IInv, TypeOK
<1>2. ToldToStop'
  BY DEF CancelTool, IInv, ToldToStop
<1>3. OnlyCancelAborts'
  BY DEF CancelTool, IInv, OnlyCancelAborts
<1>4. /\ StageInv' /\ SerialInv' /\ AloneInv' /\ SpecInv'
      /\ ShownInv' /\ ResultsInv' /\ DueInv' /\ ControllerIsLive'
  BY DEF CancelTool, IInv, StageInv, SerialInv, AloneInv, SpecInv, ShownInv,
         ResultsInv, DueInv, ControllerIsLive, Parallel, Serial, ToRun, Missing,
         Deferred, Unwound, ResultSet
<1> QED BY <1>1, <1>2, <1>3, <1>4 DEF IInv

\* A tool returns, whoever is still waiting for it.
LEMMA ToolReturnsStep ==
    ASSUME IInv, NEW e \in executing, ToolReturns(e)
    PROVE  IInv'
<1>1. TypeOK'
  BY DEF ToolReturns, IInv, TypeOK
<1>2. /\ StageInv' /\ SerialInv' /\ AloneInv' /\ SpecInv' /\ ToldToStop'
      /\ ShownInv' /\ ResultsInv' /\ DueInv' /\ ControllerIsLive' /\ OnlyCancelAborts'
  BY DEF ToolReturns, IInv, StageInv, SerialInv, AloneInv, SpecInv, ToldToStop,
         ShownInv, ResultsInv, DueInv, ControllerIsLive, OnlyCancelAborts, Parallel,
         Serial, ToRun, Missing, Deferred, Unwound, ResultSet
<1> QED BY <1>1, <1>2 DEF IInv

\* An abort reaches every controller through the run's signal.
LEMMA AbortStep ==
    ASSUME IInv, Abort
    PROVE  IInv'
<1>1. TypeOK'
  BY DEF Abort, IInv, TypeOK
<1>2. /\ StageInv' /\ SerialInv' /\ AloneInv' /\ SpecInv' /\ ToldToStop'
      /\ ShownInv' /\ ResultsInv' /\ DueInv' /\ ControllerIsLive' /\ OnlyCancelAborts'
  BY DEF Abort, IInv, StageInv, SerialInv, AloneInv, SpecInv, ToldToStop, ShownInv,
         ResultsInv, DueInv, ControllerIsLive, OnlyCancelAborts, Parallel, Serial,
         ToRun, Missing, Deferred, Unwound, ResultSet
<1> QED BY <1>1, <1>2 DEF IInv

\* A listener fails on a start event: the batch unwinds.
LEMMA ListenerThrowsOnStartStep ==
    ASSUME IInv, ListenerThrowsOnStart
    PROVE  IInv'
<1>1. /\ ToStart # {} => First(ToStart) \in ToStart
      /\ ToRun # {} => First(ToRun) \in ToRun /\ \A k \in ToRun : First(ToRun) <= k
      /\ ToStart \subseteq Calls /\ ToRun \subseteq Calls
  BY CallsAssumption, FirstIn DEF ToStart, ToRun, Parallel, Serial, IInv, TypeOK
<1>2. TypeOK'
  <2>1. /\ stage' \in [Calls -> {"waiting", "started", "consuming", "preparing",
                                 "executing", "executed", "ended"}]
        /\ shown' \subseteq Calls
    BY <1>1 DEF ListenerThrowsOnStart, StartThrows, SkipThrows, IInv, TypeOK
  <2>2. throws' \in 0 .. MaxThrows
    BY CallsAssumption DEF ListenerThrowsOnStart, IInv, TypeOK
  <2> QED BY <2>1, <2>2 DEF ListenerThrowsOnStart, IInv, TypeOK, Over
<1>3. StageInv'
  BY <1>1 DEF ListenerThrowsOnStart, StartThrows, SkipThrows, ToStart, ToRun,
     Parallel, Serial, IInv, StageInv, TypeOK
<1>4. SerialInv'
  BY CallsAssumption, <1>1 DEF ListenerThrowsOnStart, StartThrows, SkipThrows,
     ToStart, ToRun, Parallel, Serial, IInv, SerialInv, TypeOK
<1>5. AloneInv'
  BY CallsAssumption, <1>1 DEF ListenerThrowsOnStart, StartThrows, SkipThrows,
     ToStart, Parallel, Serial, IInv, AloneInv, TypeOK, SerialInv
<1>6. SpecInv'
  BY CallsAssumption, <1>1 DEF ListenerThrowsOnStart, StartThrows, SkipThrows, ToRun,
     Serial, IInv, SpecInv, TypeOK
<1>7. ToldToStop'
  BY DEF ListenerThrowsOnStart, StartThrows, SkipThrows, Serial, IInv, ToldToStop,
     TypeOK
<1>8. ShownInv'
  BY <1>1 DEF ListenerThrowsOnStart, StartThrows, SkipThrows, ToRun, Serial, IInv,
     ShownInv, TypeOK
<1>9. ResultsInv'
  BY CallsAssumption, <1>1 DEF ListenerThrowsOnStart, StartThrows, SkipThrows,
     ToStart, ToRun, Parallel, Serial, IInv, ResultsInv, Missing, Unwound, ResultSet,
     TypeOK
<1>10. DueInv'
  BY DEF ListenerThrowsOnStart, Serial, IInv, DueInv, Deferred, Missing, TypeOK
<1>11. ControllerIsLive'
  BY <1>1 DEF ListenerThrowsOnStart, StartThrows, SkipThrows, ToStart, ToRun, Serial,
     IInv, ControllerIsLive, TypeOK
<1>12. OnlyCancelAborts'
  BY DEF ListenerThrowsOnStart, IInv, OnlyCancelAborts
<1> QED BY <1>2, <1>3, <1>4, <1>5, <1>6, <1>7, <1>8, <1>9, <1>10, <1>11, <1>12 DEF IInv

\* A listener fails on an end event: the batch unwinds.
LEMMA ListenerThrowsOnEndStep ==
    ASSUME IInv, NEW i \in Calls, ListenerThrowsOnEnd(i)
    PROVE  IInv'
<1>1. TypeOK'
  BY CallsAssumption DEF ListenerThrowsOnEnd, Released, IInv, TypeOK
<1>2. StageInv'
  BY DEF ListenerThrowsOnEnd, IInv, StageInv
<1>3. SerialInv'
  BY DEF ListenerThrowsOnEnd, IInv, SerialInv, Parallel, Serial, ToRun, TypeOK
<1>4. AloneInv'
  BY DEF ListenerThrowsOnEnd, IInv, AloneInv, Serial
<1>5. SpecInv'
  BY DEF ListenerThrowsOnEnd, Released, IInv, SpecInv
<1>6. ToldToStop'
  BY DEF ListenerThrowsOnEnd, IInv, ToldToStop
<1>7. ShownInv'
  BY DEF ListenerThrowsOnEnd, IInv, ShownInv
<1>8. ResultsInv'
  <2>1. /\ UNCHANGED <<final, results, emitted>> /\ throws' = throws + 1 /\ throws \in Nat
        /\ Unwound => phase' = phase
        /\ Missing' = Missing /\ ResultSet' = ResultSet
        /\ phase' \in {"returned", "thrown"} => phase' = phase
    BY CallsAssumption DEF ListenerThrowsOnEnd, IInv, TypeOK, Unwound, Missing, ResultSet
  <2>2. Unwound => throws >= 1 /\ ~ (throws' <= 1)
    BY <2>1 DEF IInv, ResultsInv
  <2>3. Unwound' => throws' >= 1
    BY <2>1
  <2>4. ~ Unwound' => ~ Unwound
    BY <2>1 DEF Unwound
  <2> QED BY <2>1, <2>2, <2>3, <2>4 DEF IInv, ResultsInv
<1>9. DueInv'
  BY DEF ListenerThrowsOnEnd, IInv, DueInv, Deferred, Parallel, Missing, TypeOK
<1>10. ControllerIsLive'
  BY DEF ListenerThrowsOnEnd, Released, IInv, ControllerIsLive, TypeOK
<1>11. OnlyCancelAborts'
  BY DEF ListenerThrowsOnEnd, IInv, OnlyCancelAborts
<1> QED BY <1>1, <1>2, <1>3, <1>4, <1>5, <1>6, <1>7, <1>8, <1>9, <1>10, <1>11 DEF IInv

\* A listener fails on a result's message, before the result is noted as emitted.
LEMMA ListenerThrowsOnResultStep ==
    ASSUME IInv, NEW i \in Calls, ListenerThrowsOnResult(i)
    PROVE  IInv'
<1>1. i \in Missing /\ \A j \in Missing : i <= j
  BY RecordableIsNext DEF ListenerThrowsOnResult
<1>2. TypeOK'
  BY CallsAssumption DEF ListenerThrowsOnResult, IInv, TypeOK
<1>3. StageInv'
  BY DEF ListenerThrowsOnResult, IInv, StageInv
<1>4. SerialInv'
  BY DEF ListenerThrowsOnResult, IInv, SerialInv, Serial, ToRun, TypeOK
<1>5. SpecInv'
  BY DEF ListenerThrowsOnResult, IInv, SpecInv
<1>6. ShownInv'
  BY DEF ListenerThrowsOnResult, IInv, ShownInv
<1>7. ResultsInv'
  BY CallsAssumption, <1>1 DEF ListenerThrowsOnResult, IInv, ResultsInv, Missing,
     Unwound, ResultSet, TypeOK
<1>8. DueInv'
  BY DEF ListenerThrowsOnResult, DueInv, TypeOK
<1>9. AloneInv' /\ ToldToStop' /\ ControllerIsLive' /\ OnlyCancelAborts'
  BY DEF ListenerThrowsOnResult, IInv, AloneInv, ToldToStop, ControllerIsLive,
         OnlyCancelAborts, Serial
<1> QED BY <1>2, <1>3, <1>4, <1>5, <1>6, <1>7, <1>8, <1>9 DEF IInv

\* A second failure ends the pairing; it cannot disturb anything else.
LEMMA ListenerThrowsOnSynthesisStep ==
    ASSUME IInv, ListenerThrowsOnSynthesis
    PROVE  IInv'
<1>1. First(Missing) \in Missing /\ \A j \in Missing : First(Missing) <= j
  BY CallsAssumption, FirstIn DEF ListenerThrowsOnSynthesis, Missing, IInv, StageInv
<1>2. TypeOK'
  <2>1. First(Missing) \in Calls
    BY <1>1 DEF Missing, IInv, TypeOK
  <2>2. throws' \in 0 .. MaxThrows
    BY CallsAssumption DEF ListenerThrowsOnSynthesis, IInv, TypeOK
  <2>3. results' \in Seq(Calls) /\ emitted' \subseteq Calls
    BY <2>1 DEF ListenerThrowsOnSynthesis, IInv, TypeOK
  <2> QED BY <2>2, <2>3 DEF ListenerThrowsOnSynthesis, IInv, TypeOK, Over
<1>3. ResultsInv'
  <2>1. /\ throws \in Nat /\ throws' = throws + 1 /\ phase = "unwind" /\ phase' = phase
        /\ final' = final /\ emitted' = emitted \cup {First(Missing)}
    BY CallsAssumption DEF ListenerThrowsOnSynthesis, IInv, TypeOK
  <2>2. throws' >= 1 /\ ~ (throws' <= 1)
    BY <2>1 DEF IInv, ResultsInv, Unwound
  <2>3. "resultEnd" \notin ThrowOn => results' = results
    BY DEF ListenerThrowsOnSynthesis
  <2>4. /\ First(Missing) \in final /\ Missing' = Missing \ {First(Missing)}
        /\ Missing \subseteq Nat
    BY CallsAssumption, <1>1, <2>1 DEF Missing, IInv, StageInv
  <2>5. ASSUME NEW j \in Missing' PROVE First(Missing) < j
    <3>1. j \in Missing /\ j # First(Missing) /\ First(Missing) \in Missing
      BY <1>1, <2>4
    <3>2. j \in Nat /\ First(Missing) \in Nat /\ First(Missing) <= j
      BY <1>1, <2>4, <3>1
    <3> QED BY <3>1, <3>2
  <2> QED BY <2>1, <2>2, <2>3, <2>4, <2>5 DEF IInv, ResultsInv, Unwound, ResultSet
<1>4. DueInv'
  BY CallsAssumption, <1>1 DEF ListenerThrowsOnSynthesis, IInv, DueInv, Deferred,
     Parallel, Missing, TypeOK
<1>5. /\ StageInv' /\ SerialInv' /\ AloneInv' /\ SpecInv'
      /\ ToldToStop' /\ ShownInv' /\ ControllerIsLive' /\ OnlyCancelAborts'
  BY DEF ListenerThrowsOnSynthesis, IInv, StageInv, SerialInv, AloneInv, SpecInv,
         ToldToStop, ShownInv, ControllerIsLive, OnlyCancelAborts, Parallel, Serial,
         ToRun
<1> QED BY <1>2, <1>3, <1>4, <1>5 DEF IInv

-----------------------------------------------------------------------------
(* The theorems.                                                            *)

\* The invariant holds of every reachable state, whatever the calls, the order
\* they settle in, aborts, cancels and listener failures.
THEOREM Invariance == Spec => []IInv
<1>1. Init => IInv
  <2> SUFFICES ASSUME Init PROVE IInv
    OBVIOUS
  <2>1. TypeOK
    <3>1. results \in Seq(Calls) /\ throws \in 0 .. MaxThrows
      BY CallsAssumption DEF Init
    <3>2. /\ stage \in [Calls -> {"waiting", "started", "consuming", "preparing",
                                  "executing", "executed", "ended"}]
          /\ spec \in [Calls -> {"none", "running", "settled", "dropping", "gone"}]
          /\ registry \in [Calls -> {"none", "spec", "real"}]
          /\ \A i \in Calls \ SpecSafe : spec[i] = "none"
      BY DEF Init
    <3> QED BY <3>1, <3>2 DEF Init, TypeOK
  <2>2. /\ phase = "stream" /\ final = {} /\ current = 0 /\ shown = {}
        /\ \A i \in Calls : stage[i] = "waiting"
        /\ Sequential \subseteq Calls
        /\ Parallel = {} /\ Serial = {} /\ Missing = {}
    BY CallsAssumption DEF Init, Parallel, Serial, Missing
  <2>5. StageInv
    BY <2>2 DEF StageInv
  <2>6. SerialInv /\ AloneInv
    BY <2>2 DEF SerialInv, AloneInv
  <2>7. ShownInv /\ DueInv
    BY <2>2 DEF ShownInv, DueInv
  <2>3. SpecInv /\ ToldToStop /\ ControllerIsLive /\ OnlyCancelAborts
    BY DEF Init, SpecInv, ToldToStop, ControllerIsLive, OnlyCancelAborts
  <2>4. ResultsInv
    <3>1. results = <<>> /\ emitted = {} /\ Missing = {} /\ Len(results) = 0
      BY DEF Init, Missing
    <3>2. ResultSet = {}
      BY <3>1 DEF ResultSet
    <3> QED BY <3>1, <3>2 DEF Init, ResultsInv, Unwound
  <2> QED BY <2>1, <2>3, <2>4, <2>5, <2>6, <2>7 DEF IInv
<1>2. IInv /\ [Next]_vars => IInv'
  <2> SUFFICES ASSUME IInv, [Next]_vars PROVE IInv'
    OBVIOUS
  <2>1. CASE UNCHANGED vars
    BY <2>1 DEF vars, IInv, TypeOK, StageInv, SerialInv, AloneInv, SpecInv, ToldToStop,
       ShownInv, ResultsInv, DueInv, ControllerIsLive, OnlyCancelAborts, Missing,
       Unwound, ResultSet,
       Parallel, Serial, ToRun, Deferred
  <2>2. CASE LoopStep
    BY <2>2, StreamEndsStep, StreamFailsStep, EmitStartStep, FanOutStep, ParallelDoneStep,
       SerialStartStep, SerialCheckStep, SkipCallStep, AllRanStep, BatchReturnsStep,
       SynthesizeStep, BatchThrowsStep, SpecSettlesStep, DropSettlesStep, ConsumeStep,
       PrepareAnswersStep, ExecuteStep, ExecuteSettlesStep, EndCallStep, RecordResultStep
       DEF LoopStep
  <2>3. CASE Environment
    BY <2>3, MaybeStartStep, CancelToolStep, ToolReturnsStep, AbortStep,
       ListenerThrowsOnStartStep, ListenerThrowsOnSynthesisStep,
       ListenerThrowsOnEndStep, ListenerThrowsOnResultStep
       DEF Environment
  <2> QED BY <2>1, <2>2, <2>3 DEF Next
<1> QED BY <1>1, <1>2, PTL DEF Spec

\* Every variable keeps its type, and only speculation-safe calls are speculated.
THEOREM TypeCorrect == Spec => []TypeOK
<1>1. IInv => TypeOK
  BY DEF IInv
<1> QED BY <1>1, Invariance, PTL

\* cancelTool reaches the execution the batch waits for, in every reachable state.
THEOREM ControllersAreLive == Spec => []ControllerIsLive
<1>1. IInv => ControllerIsLive
  BY DEF IInv
<1> QED BY <1>1, Invariance, PTL

\* Discarding a speculation never aborts the call's real execution.
THEOREM DiscardSparesCall == Spec => []OnlyCancelAborts
<1>1. IInv => OnlyCancelAborts
  BY DEF IInv
<1> QED BY <1>1, Invariance, PTL

\* A call executes for real only if its speculation never ran or was told to stop.
THEOREM ExecutedOnce == Spec => []NoDoubleExecution
<1>1. IInv => NoDoubleExecution
  BY DEF IInv, ToldToStop, NoDoubleExecution
<1> QED BY <1>1, Invariance, PTL

\* A sequential tool executes while no other pipeline of its batch is at work.
THEOREM SequentialIsAlone == Spec => []SequentialAlone
<1>1. IInv => SequentialAlone
  BY DEF IInv, AloneInv, SequentialAlone
<1> QED BY <1>1, Invariance, PTL

\* A batch that returned leaves no pending call and no running speculation.
THEOREM NothingIsLeft == Spec => []NothingLeftBehind
<1>1. IInv => NothingLeftBehind
  BY DEF IInv, TypeOK, StageInv, SerialInv, ShownInv, NothingLeftBehind
<1> QED BY <1>1, Invariance, PTL

\* If no listener throws on the end of a result's message, the results of every
\* batch, returned or unwound by one failure, are its calls in order, each once.
THEOREM ResultsArePaired ==
    ASSUME "resultEnd" \notin ThrowOn
    PROVE  Spec => []ResultsPaired
<1>1. IInv => ResultsPaired
  BY DEF IInv, ResultsInv, ResultsPaired, Missing, Unwound, ResultSet
<1> QED BY <1>1, Invariance, PTL

=============================================================================
