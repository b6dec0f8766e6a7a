------------------------------ MODULE ToolBatch ------------------------------
(***************************************************************************)
(* The execution of one assistant message's tool calls                     *)
(* (executeToolCalls and its executors, packages/agent/src/agent-loop.ts), *)
(* together with the speculative runs started while the message was still  *)
(* streaming (SpeculationController) and the per-tool abort controllers.   *)
(*                                                                         *)
(* Calls are numbered in the model's order.  The parallel-safe ones run a  *)
(* pipeline each, concurrently; the sequential ones follow, one by one;    *)
(* then the results are recorded in call order.  A batch of sequential     *)
(* calls only records each result as it goes.  A listener may throw, which *)
(* unwinds the batch and leaves sibling pipelines running.                 *)
(*                                                                         *)
(* An execution is a pair <<call, kind>>, where kind is "spec" or "real".  *)
(* It may go on after its pipeline stopped waiting for it.                 *)
(*                                                                         *)
(* X_Y, where X is an operator, is a faulty variant of X for the negative  *)
(* tests; no operator refers to it.                                        *)
(***************************************************************************)
EXTENDS Integers, Sequences, FiniteSets

CONSTANTS
    Calls,       \* the tool calls that streamed, numbered from 1
    Sequential,  \* calls of tools whose executionMode is "sequential"
    SpecSafe,    \* calls of tools with speculationSafe
    ThrowOn,     \* the events whose listeners may throw
    MaxThrows    \* bound: listener failures

ASSUME CallsAssumption ==
    /\ Calls \subseteq Nat \ {0}
    /\ IsFiniteSet(Calls)
    /\ Sequential \subseteq Calls
    /\ SpecSafe \subseteq Calls \ Sequential
    /\ ThrowOn \subseteq {"start", "end", "resultStart", "resultEnd"}
    /\ MaxThrows \in Nat

VARIABLES
    phase,       \* where the batch is
    final,       \* the calls of the final message, once the stream has ended
    stage,       \* where each call's pipeline is
    current,     \* the sequential call in progress, 0 for none
    spec,        \* each call's speculative run
    registry,    \* toolAbortControllers: whose controller a call's id maps to
    tripped,     \* executions whose controller was aborted
    executing,   \* executions whose tool.execute has not settled
    shown,       \* pendingToolCalls
    results,     \* the result messages recorded, in order
    emitted,     \* emittedResultIds
    runAborted,  \* the run's abort signal
    cancelled,   \* calls the host cancelled with cancelTool
    throws       \* listener failures so far

vars == <<phase, final, stage, current, spec, registry, tripped, executing, shown, results,
          emitted, runAborted, cancelled, throws>>

Parallel == final \ Sequential
Serial   == final \cap Sequential
Deferred == Parallel # {}   \* results are recorded after all calls ended

First(S) == CHOOSE i \in S : \A j \in S : i <= j

Init ==
    /\ phase = "stream"
    /\ final = {}
    /\ stage = [i \in Calls |-> "waiting"]
    /\ current = 0
    /\ spec = [i \in Calls |-> "none"]
    /\ registry = [i \in Calls |-> "none"]
    /\ tripped = {}
    /\ executing = {}
    /\ shown = {}
    /\ results = <<>>
    /\ emitted = {}
    /\ runAborted = FALSE
    /\ cancelled = {}
    /\ throws = 0

Over == {"returned", "thrown", "noBatch"}

-----------------------------------------------------------------------------
(* Controllers and speculation.                                            *)

\* release(): compare-and-delete.
Released_Blind(i, kind) == [registry EXCEPT ![i] = "none"]

Released(i, kind) == [registry EXCEPT ![i] = IF @ = kind THEN "none" ELSE @]

\* discardEntry: aborts the controller the registry holds for the call.
Aborting_Nothing(S) == {}

Aborting(S) == {<<i, registry[i]>> : i \in {j \in S : registry[j] # "none"}}

Entries == {i \in Calls : spec[i] \in {"running", "settled"} /\ stage[i] # "consuming"}

\* maybeStart, at the toolcall_end of a speculation-safe call.
MaybeStart(i) ==
    /\ phase = "stream"
    /\ ~runAborted
    /\ i \in SpecSafe
    /\ spec[i] = "none"
    /\ spec' = [spec EXCEPT ![i] = "running"]
    /\ registry' = [registry EXCEPT ![i] = "spec"]
    /\ executing' = executing \cup {<<i, "spec">>}
    /\ UNCHANGED <<final, phase, stage, current, tripped, shown, results, emitted, runAborted,
                   cancelled, throws>>

\* The speculative prepare and execute settle: the tool returned, or an abort
\* unblocked the race and the tool goes on by itself.
SpecSettles(i) ==
    /\ spec[i] = "running"
    /\ <<i, "spec">> \notin executing \/ runAborted \/ <<i, "spec">> \in tripped
    /\ spec' = [spec EXCEPT ![i] = "settled"]
    /\ UNCHANGED <<final, phase, stage, current, registry, tripped, executing, shown, results,
                   emitted, runAborted, cancelled, throws>>

\* The outcome of a discarded run settles: its controller is released.
DropSettles(i) ==
    /\ spec[i] = "dropping"
    /\ spec' = [spec EXCEPT ![i] = "gone"]
    /\ registry' = Released(i, "spec")
    /\ UNCHANGED <<final, phase, stage, current, tripped, executing, shown, results, emitted,
                   runAborted, cancelled, throws>>

\* discardLeftovers and the mismatch case of take.
Discard(S) ==
    /\ spec' = [i \in Calls |-> IF i \in S THEN "dropping" ELSE spec[i]]
    /\ tripped' = tripped \cup Aborting(S)

-----------------------------------------------------------------------------
(* The stream ends.                                                        *)

StreamEnds ==
    /\ phase = "stream"
    /\ final' \in SUBSET Calls \ {{}}
    /\ phase' = IF final' \ Sequential # {} THEN "starts" ELSE "serial"
    /\ UNCHANGED <<stage, current, spec, registry, tripped, executing, shown, results,
                   emitted, runAborted, cancelled, throws>>

\* An error or aborted answer, an interrupt, an exception, or no call at all.
StreamFails ==
    /\ phase = "stream"
    /\ Discard(Entries)
    /\ phase' = "noBatch"
    /\ UNCHANGED <<final, stage, current, registry, executing, shown, results, emitted,
                   runAborted, cancelled, throws>>

-----------------------------------------------------------------------------
(* The parallel-safe calls.                                                *)

ToStart == {i \in Parallel : stage[i] = "waiting"}

\* emitParallelStarts: in the model's order, before the fan-out.
EmitStart ==
    /\ phase = "starts"
    /\ ToStart # {}
    /\ stage' = [stage EXCEPT ![First(ToStart)] = "started"]
    /\ shown' = shown \cup {First(ToStart)}
    /\ UNCHANGED <<final, phase, current, spec, registry, tripped, executing, results, emitted,
                   runAborted, cancelled, throws>>

\* Every pipeline begins: it takes its speculative run, or discards it when the
\* final call differs from the streamed one, or prepares from scratch.
FanOut ==
    /\ phase = "starts"
    /\ ToStart = {}
    /\ \E kept \in SUBSET (Entries \cap Parallel) :
         /\ stage' = [i \in Calls |->
               IF i \notin Parallel THEN stage[i]
               ELSE IF i \in kept THEN "consuming" ELSE "preparing"]
         /\ Discard((Entries \cap Parallel) \ kept)
    /\ phase' = "parallel"
    /\ UNCHANGED <<final, current, registry, executing, shown, results, emitted, runAborted,
                   cancelled, throws>>

\* prepareParallelCall with a consumed speculation.
Consume(i) ==
    /\ stage[i] = "consuming"
    /\ spec[i] = "settled"
    /\ spec' = [spec EXCEPT ![i] = "gone"]
    /\ registry' = Released(i, "spec")
    /\ stage' = [stage EXCEPT ![i] = "executed"]
    /\ UNCHANGED <<final, phase, current, tripped, executing, shown, results, emitted, runAborted,
                   cancelled, throws>>

ParallelDone_NoWait ==
    /\ phase = "parallel"
    /\ \E i \in Parallel : stage[i] = "ended"
    /\ phase' = "serial"
    /\ UNCHANGED <<final, stage, current, spec, registry, tripped, executing, shown, results,
                   emitted, runAborted, cancelled, throws>>

ParallelDone ==
    /\ phase = "parallel"
    /\ \A i \in Parallel : stage[i] = "ended"
    /\ phase' = "serial"
    /\ UNCHANGED <<final, stage, current, spec, registry, tripped, executing, shown, results,
                   emitted, runAborted, cancelled, throws>>

-----------------------------------------------------------------------------
(* One call's pipeline, in any executor.                                   *)

\* prepareToolCall answers by itself: unknown tool, invalid arguments, a hook
\* that blocks, an abort seen after the hook.
PrepareAnswers(i) ==
    /\ stage[i] = "preparing"
    /\ stage' = [stage EXCEPT ![i] = "executed"]
    /\ UNCHANGED <<final, phase, current, spec, registry, tripped, executing, shown, results,
                   emitted, runAborted, cancelled, throws>>

\* makePerToolSignal and tool.execute.
Execute(i) ==
    /\ stage[i] = "preparing"
    /\ stage' = [stage EXCEPT ![i] = "executing"]
    /\ registry' = [registry EXCEPT ![i] = "real"]
    /\ executing' = executing \cup {<<i, "real">>}
    /\ UNCHANGED <<final, phase, current, spec, tripped, shown, results, emitted, runAborted,
                   cancelled, throws>>

\* tool.execute settles, waited for or not.
ToolReturns(e) ==
    /\ e \in executing
    /\ executing' = executing \ {e}
    /\ UNCHANGED <<final, phase, stage, current, spec, registry, tripped, shown, results, emitted,
                   runAborted, cancelled, throws>>

\* raceToolExecute: the tool returned, the run was aborted or the call cancelled.
ExecuteSettles_ToolOnly(i) ==
    /\ stage[i] = "executing"
    /\ <<i, "real">> \notin executing
    /\ stage' = [stage EXCEPT ![i] = "executed"]
    /\ UNCHANGED <<final, phase, current, spec, registry, tripped, executing, shown, results,
                   emitted, runAborted, cancelled, throws>>

ExecuteSettles(i) ==
    /\ stage[i] = "executing"
    /\ <<i, "real">> \notin executing \/ runAborted \/ <<i, "real">> \in tripped
    /\ stage' = [stage EXCEPT ![i] = "executed"]
    /\ UNCHANGED <<final, phase, current, spec, registry, tripped, executing, shown, results,
                   emitted, runAborted, cancelled, throws>>

\* finalizeExecutedToolCall, tool_execution_end and the release of the controller.
EndCall(i) ==
    /\ stage[i] = "executed"
    /\ stage' = [stage EXCEPT ![i] = "ended"]
    /\ shown' = shown \ {i}
    /\ registry' = Released(i, "real")
    /\ UNCHANGED <<final, phase, current, spec, tripped, executing, results, emitted, runAborted,
                   cancelled, throws>>

-----------------------------------------------------------------------------
(* The sequential calls.                                                   *)

ToRun == {i \in Serial : stage[i] = "waiting"}

SerialStart ==
    /\ phase = "serial"
    /\ current = 0
    /\ ToRun # {}
    /\ current' = First(ToRun)
    /\ stage' = [stage EXCEPT ![First(ToRun)] = "preparing"]
    /\ shown' = shown \cup {First(ToRun)}
    /\ UNCHANGED <<final, phase, spec, registry, tripped, executing, results, emitted, runAborted,
                   cancelled, throws>>

\* The abort check behind every sequential call.
SerialCheck ==
    /\ phase = "serial"
    /\ current # 0
    /\ stage[current] = "ended"
    /\ Deferred \/ current \in emitted
    /\ current' = 0
    /\ phase' = IF runAborted THEN "skipping" ELSE phase
    /\ UNCHANGED <<final, stage, spec, registry, tripped, executing, shown, results, emitted,
                   runAborted, cancelled, throws>>

\* After an abort the remaining calls get a start, an end and an aborted result.
SkipCall ==
    /\ phase = "skipping"
    /\ ToRun # {}
    /\ Deferred \/ \A i \in Serial : stage[i] = "ended" => i \in emitted
    /\ stage' = [stage EXCEPT ![First(ToRun)] = "ended"]
    /\ UNCHANGED <<final, phase, current, spec, registry, tripped, executing, shown, results,
                   emitted, runAborted, cancelled, throws>>

AllRan ==
    /\ phase \in {"serial", "skipping"}
    /\ current = 0
    /\ ToRun = {}
    /\ Deferred \/ final \subseteq emitted
    /\ phase' = "results"
    /\ UNCHANGED <<final, stage, current, spec, registry, tripped, executing, shown, results,
                   emitted, runAborted, cancelled, throws>>

-----------------------------------------------------------------------------
(* The results.                                                            *)

Missing == final \ emitted

\* The next call whose result may be recorded.
Recordable_AsEnded ==
    {i \in Missing : stage[i] = "ended" /\ phase \in {"parallel", "serial", "skipping", "results"}}

Recordable ==
    IF Deferred
    THEN IF phase = "results" /\ Missing # {} THEN {First(Missing)} ELSE {}
    ELSE {i \in Missing : stage[i] = "ended" /\ phase \in {"serial", "skipping"}}

RecordResult(i) ==
    /\ i \in Recordable
    /\ results' = Append(results, i)
    /\ emitted' = emitted \cup {i}
    /\ UNCHANGED <<final, phase, stage, current, spec, registry, tripped, executing, shown,
                   runAborted, cancelled, throws>>

\* The batch returns; runLoop discards the speculations nobody took.
BatchReturns ==
    /\ phase = "results"
    /\ Missing = {}
    /\ Discard(Entries)
    /\ phase' = "returned"
    /\ UNCHANGED <<final, stage, current, registry, executing, shown, results, emitted,
                   runAborted, cancelled, throws>>

\* synthesizeMissingToolResults, on the unwind.
Synthesize ==
    /\ phase = "unwind"
    /\ Missing # {}
    /\ results' = Append(results, First(Missing))
    /\ emitted' = emitted \cup {First(Missing)}
    /\ UNCHANGED <<final, phase, stage, current, spec, registry, tripped, executing, shown,
                   runAborted, cancelled, throws>>

\* The exception leaves executeToolCalls and ends the run.
BatchThrows ==
    /\ phase = "unwind"
    /\ Missing = {}
    /\ phase' = "thrown"
    /\ UNCHANGED <<final, stage, current, spec, registry, tripped, executing, shown, results,
                   emitted, runAborted, cancelled, throws>>

-----------------------------------------------------------------------------
(* Listener failures.  The state was updated before the listener ran.      *)

StartThrows ==
    \/ /\ phase = "starts"
       /\ ToStart # {}
       /\ stage' = [stage EXCEPT ![First(ToStart)] = "started"]
       /\ shown' = shown \cup {First(ToStart)}
    \/ /\ phase = "serial"
       /\ current = 0
       /\ ToRun # {}
       /\ stage' = [stage EXCEPT ![First(ToRun)] = "started"]
       /\ shown' = shown \cup {First(ToRun)}

\* The start, or the end, of a skipped call throws.
SkipThrows ==
    /\ phase = "skipping"
    /\ ToRun # {}
    /\ \/ /\ "start" \in ThrowOn
          /\ stage' = [stage EXCEPT ![First(ToRun)] = "started"]
          /\ shown' = shown \cup {First(ToRun)}
       \/ /\ "end" \in ThrowOn
          /\ stage' = [stage EXCEPT ![First(ToRun)] = "ended"]
          /\ UNCHANGED shown

ListenerThrowsOnStart ==
    /\ throws < MaxThrows
    /\ ("start" \in ThrowOn /\ StartThrows) \/ SkipThrows
    /\ throws' = throws + 1
    /\ phase' = "unwind"
    /\ UNCHANGED <<final, current, spec, registry, tripped, executing, results, emitted,
                   runAborted, cancelled>>

\* tool_execution_end throws; a pipeline whose batch already unwound is alone.
ListenerThrowsOnEnd(i) ==
    /\ "end" \in ThrowOn
    /\ throws < MaxThrows
    /\ stage[i] = "executed"
    /\ stage' = [stage EXCEPT ![i] = "ended"]
    /\ shown' = shown \ {i}
    /\ registry' = Released(i, "real")
    /\ throws' = throws + 1
    /\ phase' = IF phase \in {"parallel", "serial"} THEN "unwind" ELSE phase
    /\ UNCHANGED <<final, current, spec, tripped, executing, results, emitted, runAborted, cancelled>>

\* The message_start or the message_end of a result throws, before
\* emittedResultIds is told; the message_end has recorded the result.
ListenerThrowsOnResult(i) ==
    /\ throws < MaxThrows
    /\ i \in Recordable
    /\ \E e \in ThrowOn \cap {"resultStart", "resultEnd"} :
          results' = IF e = "resultEnd" THEN Append(results, i) ELSE results
    /\ throws' = throws + 1
    /\ phase' = "unwind"
    /\ UNCHANGED <<final, stage, current, spec, registry, tripped, executing, shown, emitted,
                   runAborted, cancelled>>

\* The unwind swallows a throw in the middle of pairing: a call whose
\* message_start threw stays without a result.
ListenerThrowsOnSynthesis ==
    /\ throws < MaxThrows
    /\ phase = "unwind"
    /\ Missing # {}
    /\ \E e \in ThrowOn \cap {"resultStart", "resultEnd"} :
          results' = IF e = "resultEnd" THEN Append(results, First(Missing)) ELSE results
    /\ emitted' = emitted \cup {First(Missing)}
    /\ throws' = throws + 1
    /\ UNCHANGED <<final, phase, stage, current, spec, registry, tripped, executing, shown,
                   runAborted, cancelled>>

-----------------------------------------------------------------------------
(* The host.                                                               *)

Abort ==
    /\ ~runAborted
    /\ phase \notin Over
    /\ runAborted' = TRUE
    /\ UNCHANGED <<final, phase, stage, current, spec, registry, tripped, executing, shown,
                   results, emitted, cancelled, throws>>

CancelTool(i) ==
    /\ registry[i] # "none"
    /\ <<i, registry[i]>> \notin tripped
    /\ tripped' = tripped \cup {<<i, registry[i]>>}
    /\ cancelled' = cancelled \cup {i}
    /\ UNCHANGED <<final, phase, stage, current, spec, registry, executing, shown, results,
                   emitted, runAborted, throws>>

-----------------------------------------------------------------------------
LoopStep ==
    \/ StreamEnds \/ StreamFails
    \/ EmitStart \/ FanOut \/ ParallelDone
    \/ SerialStart \/ SerialCheck \/ SkipCall \/ AllRan
    \/ BatchReturns \/ Synthesize \/ BatchThrows
    \/ \E i \in Calls :
          \/ SpecSettles(i) \/ DropSettles(i) \/ Consume(i)
          \/ PrepareAnswers(i) \/ Execute(i) \/ ExecuteSettles(i) \/ EndCall(i)
          \/ RecordResult(i)

Environment ==
    \/ \E i \in Calls : MaybeStart(i) \/ CancelTool(i)
    \/ \E e \in executing : ToolReturns(e)
    \/ Abort
    \/ ListenerThrowsOnStart
    \/ ListenerThrowsOnSynthesis
    \/ \E i \in Calls : ListenerThrowsOnEnd(i) \/ ListenerThrowsOnResult(i)

Next == LoopStep \/ Environment

Spec == Init /\ [][Next]_vars

\* The loop, its hooks and its promises make progress; a tool need not return.
FairSpec == Spec /\ WF_vars(LoopStep)

-----------------------------------------------------------------------------
(* Properties.                                                             *)

\* Every variable has its type, and only a speculation-safe call is speculated.
TypeOK ==
    /\ phase \in {"stream", "starts", "parallel", "serial", "skipping", "results",
                  "unwind"} \cup Over
    /\ final \subseteq Calls
    /\ stage \in [Calls -> {"waiting", "started", "consuming", "preparing", "executing",
                            "executed", "ended"}]
    /\ current \in Calls \cup {0}
    /\ spec \in [Calls -> {"none", "running", "settled", "dropping", "gone"}]
    /\ \A i \in Calls \ SpecSafe : spec[i] = "none"
    /\ registry \in [Calls -> {"none", "spec", "real"}]
    /\ tripped \subseteq Calls \X {"spec", "real"}
    /\ executing \subseteq Calls \X {"spec", "real"}
    /\ shown \subseteq Calls
    /\ results \in Seq(Calls)
    /\ emitted \subseteq Calls
    /\ runAborted \in BOOLEAN
    /\ cancelled \subseteq Calls
    /\ throws \in 0 .. MaxThrows

\* The results are recorded in the model's call order, whatever order the calls
\* finish in, each once, and none is missing when the batch is over, whether it
\* returned, was aborted or was unwound by one failing listener: the next request
\* pairs every tool_use.  (A second failure can hit the pairing itself.)
ResultsPaired ==
    /\ \A k \in 1 .. Len(results) - 1 : results[k] < results[k + 1]
    /\ phase = "returned" \/ (phase = "thrown" /\ throws = 1) =>
          {results[k] : k \in 1 .. Len(results)} = final

\* cancelTool reaches the execution the batch waits for, and an id maps to
\* nothing once nobody waits: a discarded speculation that settles late neither
\* unregisters the real execution nor leaves its own controller behind.
ControllerIsLive ==
    \A i \in Calls :
        /\ stage[i] = "executing" => registry[i] = "real"
        /\ stage[i] = "consuming" => registry[i] = "spec"
        /\ registry[i] = "real" => stage[i] \in {"executing", "executed"}
        /\ registry[i] = "spec" => spec[i] \in {"running", "settled", "dropping"}

\* Only cancelTool aborts the execution the batch waits for: discarding a
\* speculation of the same call does not.
OnlyCancelAborts == \A i \in Calls : <<i, "real">> \in tripped => i \in cancelled

\* A call is executed for real only when its speculative run was never started
\* or was told to stop.
NoDoubleExecution ==
    \A i \in Calls : stage[i] = "executing" /\ spec[i] # "none" => <<i, "spec">> \in tripped

\* A sequential tool is executed while no other pipeline of the batch is at work.
SequentialAlone ==
    \A i \in Serial : stage[i] \in {"preparing", "executing"} =>
        \A j \in final \ {i} : stage[j] \in {"waiting", "ended"}

\* When a batch returns, no call is shown as pending and no speculation is left
\* running on its own account.
NothingLeftBehind ==
    phase = "returned" => shown = {} /\ \A i \in Calls : spec[i] \notin {"running", "settled"}

\* After an abort the batch is over, whether or not any tool ever returns.
AbortUnblocks == runAborted ~> phase \in Over

=============================================================================
