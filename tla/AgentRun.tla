------------------------------ MODULE AgentRun ------------------------------
(***************************************************************************)
(* One Agent (packages/agent/src/agent.ts) and the loop that executes its  *)
(* runs (runAgentLoop and runLoop, packages/agent/src/agent-loop.ts).      *)
(*                                                                         *)
(* The host queues messages at any moment: steering (regular or priority), *)
(* follow-ups and passive notices.  A run drains them at fixed points,     *)
(* records them in the transcript by emitting events to listeners, asks    *)
(* the provider for an answer, executes tools, and ends.  Each step is the *)
(* code between two points where the host can act; a message_start and its *)
(* message_end are one step, since the loop reads nothing between them     *)
(* that the host writes.  A listener may throw in any emit; of the events  *)
(* themselves only message_end, which records, is kept.                    *)
(*                                                                         *)
(* A message is submitted at most once; the messages of a channel are      *)
(* submitted in the order of Source[channel], which loses no generality.   *)
(*                                                                         *)
(* X_Y, where X is an operator, is a faulty variant of X for the negative  *)
(* tests; no operator refers to it.                                        *)
(***************************************************************************)
EXTENDS Integers, Sequences, SequencesExt

CONSTANTS
    Source,        \* the messages the host may submit, per channel, in order
    SteeringMode,  \* "one-at-a-time" or "all"
    FollowUpMode,  \* "one-at-a-time" or "all"
    MaxTurns,      \* config.maxTurns, the turn budget of a run
    MaxRetries,    \* stream interrupts replayed per turn (TTSR, overthink)
    CallTurns,     \* bound: the model calls tools only in the first CallTurns turns of a run
    MaxRuns,       \* bound: runs started
    MaxFailures    \* bound: emits in which a listener throws

Queues   == {"priority", "steer", "followUp", "passive"}
Channels == Queues \cup {"prompt"}
Steering == {"priority", "steer"}
Msgs     == UNION {Range(Source[c]) : c \in Channels}

\* The entries of a transcript that are no host message, by role.
Assistant  == {"call", "answer", "error", "aborted", "notice"}
ToolResult == {"result", "final"}
Entries    == Msgs \cup Assistant \cup ToolResult \cup {"reminder"}

ASSUME SourceAssumption ==
    /\ Source \in [Channels -> Seq(Msgs)]
    /\ \A c \in Channels : IsInjective(Source[c])
    /\ \A c, d \in Channels : c # d => Range(Source[c]) \cap Range(Source[d]) = {}
    /\ Msgs \cap (Assistant \cup ToolResult \cup {"reminder", "partial"}) = {}

ASSUME ConfigAssumption ==
    /\ {SteeringMode, FollowUpMode} \subseteq {"one-at-a-time", "all"}
    /\ MaxTurns \in Nat \ {0}
    /\ {MaxRetries, CallTurns, MaxRuns, MaxFailures} \subseteq Nat

VARIABLES
    queue,       \* the pending message queues, one sequence per queue
    transcript,  \* _state.messages: what listeners recorded
    pc,          \* where the run is; "idle" when activeRun is undefined
    context,     \* the loop's own copy of the conversation
    pending,     \* messages drained and not yet injected (prompts, pendingMessages)
    moreTools,   \* hasMoreToolCalls
    skipPoll,    \* skipInitialSteeringPoll
    turnCount,   \* turns begun in this run
    retries,     \* interrupts replayed in this turn
    aborted,     \* the run's abort signal
    stop,        \* how the last run ended
    submitted,   \* how many messages of each channel were submitted
    runOf,       \* the run during which a passive message was submitted, 0 when idle
    late,        \* steering and follow-up messages submitted since the last turn ended or run began
    takenBack,   \* messages the host removed from the queues
    runs,        \* runs started
    failures     \* emits in which a listener threw

runVars  == <<pc, context, pending, moreTools, skipPoll, turnCount, retries,
              aborted, stop>>
hostVars == <<submitted, runOf, late, takenBack, runs, failures>>
vars == <<queue, transcript, runVars, hostVars>>

Running == pc # "idle"

Init ==
    /\ queue = [c \in Queues |-> <<>>]
    /\ transcript = <<>>
    /\ pc = "idle"
    /\ context = <<>>
    /\ pending = <<>>
    /\ moreTools = FALSE
    /\ skipPoll = FALSE
    /\ turnCount = 0
    /\ retries = 0
    /\ aborted = FALSE
    /\ stop = "none"
    /\ submitted = [c \in Channels |-> 0]
    /\ runOf = [m \in Range(Source["passive"]) |-> 0]
    /\ late = {}
    /\ takenBack = {}
    /\ runs = 0
    /\ failures = 0

-----------------------------------------------------------------------------
(* The pending message queues.                                             *)

\* What a drain takes from a queue: one message, or all of it.
Taken(s, mode) == IF mode = "all" \/ s = <<>> THEN s ELSE <<Head(s)>>
Kept(s, mode)  == IF mode = "all" \/ s = <<>> THEN <<>> ELSE Tail(s)

\* A steering drain: every priority message, then the regular ones by mode.
SteeringDrain_RegularFirst ==
    IF queue["steer"] # <<>>
    THEN [taken |-> Taken(queue["steer"], SteeringMode),
          left  |-> [queue EXCEPT !["steer"] = Kept(@, SteeringMode)]]
    ELSE [taken |-> queue["priority"], left |-> [queue EXCEPT !["priority"] = <<>>]]

SteeringDrain_ClearsRest ==
    [taken |-> queue["priority"] \o Taken(queue["steer"], SteeringMode),
     left  |-> [queue EXCEPT !["priority"] = <<>>, !["steer"] = <<>>]]

SteeringDrain ==
    [taken |-> queue["priority"] \o Taken(queue["steer"], SteeringMode),
     left  |-> [queue EXCEPT !["priority"] = <<>>, !["steer"] = Kept(@, SteeringMode)]]

FollowUpDrain ==
    [taken |-> Taken(queue["followUp"], FollowUpMode),
     left  |-> [queue EXCEPT !["followUp"] = Kept(@, FollowUpMode)]]

-----------------------------------------------------------------------------
(* The host.                                                               *)

\* steer, followUp, injectPassive: allowed at any moment, running or not.
Note(c, m) ==
    /\ submitted' = [submitted EXCEPT ![c] = @ + 1]
    /\ runOf' = IF c = "passive" THEN [runOf EXCEPT ![m] = IF Running THEN runs ELSE 0] ELSE runOf
    /\ late' = IF c = "passive" THEN late ELSE late \cup {m}

Submit_Unshifts(c) ==
    /\ submitted[c] < Len(Source[c])
    /\ LET m == Source[c][submitted[c] + 1] IN
         /\ queue' = [queue EXCEPT ![c] = <<m>> \o @]
         /\ Note(c, m)
    /\ UNCHANGED <<transcript, runVars, takenBack, runs, failures>>

Submit(c) ==
    /\ submitted[c] < Len(Source[c])
    /\ LET m == Source[c][submitted[c] + 1] IN
         /\ queue' = [queue EXCEPT ![c] = Append(@, m)]
         /\ Note(c, m)
    /\ UNCHANGED <<transcript, runVars, takenBack, runs, failures>>

\* clearSteeringQueue, clearFollowUpQueue, clearAllQueues, takeQueuedMessages.
TakeBack(cs) ==
    /\ \E c \in cs : queue[c] # <<>>
    /\ takenBack' = takenBack \cup UNION {Range(queue[c]) : c \in cs}
    /\ queue' = [c \in Queues |-> IF c \in cs THEN <<>> ELSE queue[c]]
    /\ UNCHANGED <<transcript, runVars, submitted, runOf, late, runs, failures>>

Abort ==
    /\ Running
    /\ ~aborted
    /\ aborted' = TRUE
    /\ UNCHANGED <<queue, transcript, pc, context, pending, moreTools, skipPoll,
                   turnCount, retries, stop, hostVars>>

\* runWithLifecycle up to the first emit of runAgentLoop / runAgentLoopContinue.
StartRun(prompts, skip) ==
    /\ ~Running
    /\ runs < MaxRuns
    /\ runs' = runs + 1
    /\ pc' = "opening"
    /\ pending' = prompts
    /\ context' = transcript \o prompts
    /\ moreTools' = TRUE
    /\ skipPoll' = skip
    /\ turnCount' = 0
    /\ retries' = 0
    /\ aborted' = FALSE
    /\ stop' = "none"
    /\ late' = {}

Prompt ==
    /\ submitted["prompt"] < Len(Source["prompt"])
    /\ StartRun(<<Source["prompt"][submitted["prompt"] + 1]>>, FALSE)
    /\ submitted' = [submitted EXCEPT !["prompt"] = @ + 1]
    /\ UNCHANGED <<queue, transcript, runOf, takenBack, failures>>

\* continue(): the queued steering messages, else the follow-ups, become the
\* prompts of a run when the transcript ends with an assistant message.
ContinueFrom_NoRoleCheck ==
    /\ StartRun(<<>>, FALSE)
    /\ UNCHANGED queue

ContinueFrom ==
    \/ /\ Last(transcript) \notin Assistant
       /\ StartRun(<<>>, FALSE)
       /\ UNCHANGED queue
    \/ /\ Last(transcript) \in Assistant
       /\ SteeringDrain.taken # <<>>
       /\ StartRun(SteeringDrain.taken, TRUE)
       /\ queue' = SteeringDrain.left
    \/ /\ Last(transcript) \in Assistant
       /\ SteeringDrain.taken = <<>>
       /\ FollowUpDrain.taken # <<>>
       /\ StartRun(FollowUpDrain.taken, FALSE)
       /\ queue' = FollowUpDrain.left

Continue ==
    /\ transcript # <<>>
    /\ ContinueFrom
    /\ UNCHANGED <<transcript, submitted, runOf, takenBack, failures>>

-----------------------------------------------------------------------------
(* The loop.                                                               *)

\* agent_start and the first turn_start.
OpenRun ==
    /\ pc = "opening"
    /\ pc' = "prompting"
    /\ UNCHANGED <<queue, transcript, context, pending, moreTools, skipPoll, turnCount,
                   retries, aborted, stop, hostVars>>

RecordPrompt ==
    /\ pc = "prompting"
    /\ pending # <<>>
    /\ transcript' = Append(transcript, Head(pending))
    /\ pending' = Tail(pending)
    /\ UNCHANGED <<queue, pc, context, moreTools, skipPoll, turnCount, retries, aborted,
                   stop, hostVars>>

\* drainSteering: before the first turn, and after every turn.
PollSteering_OnlyAfterTools ==
    /\ pc = "between" \/ (pc = "prompting" /\ pending = <<>>)
    /\ \/ (skipPoll \/ ~moreTools) /\ pending' = <<>> /\ UNCHANGED queue
       \/ ~skipPoll /\ moreTools /\ pending' = SteeringDrain.taken /\ queue' = SteeringDrain.left
    /\ skipPoll' = FALSE
    /\ pc' = "check"
    /\ UNCHANGED <<transcript, context, moreTools, turnCount, retries, aborted, stop,
                   hostVars>>

PollSteering ==
    /\ pc = "between" \/ (pc = "prompting" /\ pending = <<>>)
    /\ \/ skipPoll /\ pending' = <<>> /\ UNCHANGED queue
       \/ ~skipPoll /\ pending' = SteeringDrain.taken /\ queue' = SteeringDrain.left
    /\ skipPoll' = FALSE
    /\ pc' = "check"
    /\ UNCHANGED <<transcript, context, moreTools, turnCount, retries, aborted, 
                   stop, hostVars>>

AnotherTurn == moreTools \/ pending # <<>>

\* The turn budget is spent: a notice turn of its own ends the run.
BudgetStop ==
    /\ pc = "check"
    /\ AnotherTurn
    /\ turnCount >= MaxTurns
    /\ transcript' = Append(transcript, "notice")
    /\ stop' = "budget"
    /\ pc' = "ending"
    /\ UNCHANGED <<queue, context, pending, moreTools, skipPoll, turnCount, retries, aborted,
                   hostVars>>

\* A turn begins: its turn_start (the first was emitted by OpenRun), then the
\* passive messages join the pending ones.
BeginTurn ==
    /\ pc = "check"
    /\ AnotherTurn
    /\ turnCount < MaxTurns
    /\ turnCount' = turnCount + 1
    /\ pending' = pending \o queue["passive"]
    /\ queue' = [queue EXCEPT !["passive"] = <<>>]
    /\ retries' = 0
    /\ pc' = "inject"
    /\ UNCHANGED <<transcript, context, moreTools, skipPoll, aborted, stop, hostVars>>

Inject ==
    /\ pc = "inject"
    /\ pending # <<>>
    /\ transcript' = Append(transcript, Head(pending))
    /\ context' = Append(context, Head(pending))
    /\ pending' = Tail(pending)
    /\ UNCHANGED <<queue, pc, moreTools, skipPoll, turnCount, retries, aborted, 
                   stop, hostVars>>

\* streamAssistantResponse, up to the construction of the stream.
AtRequest == pc = "inject" /\ pending = <<>>

SendRequest ==
    /\ AtRequest
    /\ ~aborted
    /\ pc' = "streaming"
    /\ UNCHANGED <<queue, transcript, context, pending, moreTools, skipPoll, turnCount,
                   retries, aborted, stop, hostVars>>

\* An abort before construction, or a hook, key or stream that fails, throws.
StreamThrows ==
    /\ AtRequest \/ pc = "streaming"
    /\ pc' = "failing"
    /\ UNCHANGED <<queue, transcript, context, pending, moreTools, skipPoll, turnCount,
                   retries, aborted, stop, hostVars>>

HasPartial == context # <<>> /\ Last(context) = "partial"

\* The "start" event puts the partial answer into the context.
StreamStarts ==
    /\ pc = "streaming"
    /\ ~HasPartial
    /\ context' = Append(context, "partial")
    /\ UNCHANGED <<queue, transcript, pc, pending, moreTools, skipPoll, turnCount, retries,
                   aborted, stop, hostVars>>

\* The answers a stream may end with.  "error" includes the round watchdog and a
\* stream that ends without a terminal event.
Answers ==
    {"answer", "error"} \cup (IF aborted THEN {"aborted"} ELSE {})
        \cup (IF turnCount <= CallTurns THEN {"call"} ELSE {})

\* rollbackPartialContext
Rollback_None == context

Rollback == IF HasPartial THEN Front(context) ELSE context

\* publishFinalAssistantMessage: the final message replaces the partial one.
AnswerArrives(a) ==
    /\ pc = "streaming"
    /\ context' = Append(Rollback, a)
    /\ transcript' = Append(transcript, a)
    /\ moreTools' = (a = "call")
    /\ pc' = CASE a = "call" -> "tools" [] a = "answer" -> "turnEnd" [] OTHER -> "stopped"
    /\ stop' = IF a \in {"error", "aborted"} THEN a ELSE stop
    /\ UNCHANGED <<queue, pending, skipPoll, turnCount, retries, aborted, 
                   hostVars>>

\* A stream guard interrupts: the partial answer is rolled back, a reminder is
\* added, and the turn is replayed.
Interrupt ==
    /\ pc = "streaming"
    /\ HasPartial
    /\ retries < MaxRetries
    /\ retries' = retries + 1
    /\ context' = Append(Rollback, "reminder")
    /\ transcript' = Append(transcript, "reminder")
    /\ pc' = "inject"
    /\ UNCHANGED <<queue, pending, moreTools, skipPoll, turnCount, aborted, 
                   stop, hostVars>>

\* The retries are spent: an error turn is recorded, outside the context.
InterruptLimit ==
    /\ pc = "streaming"
    /\ HasPartial
    /\ retries >= MaxRetries
    /\ context' = Rollback
    /\ transcript' = Append(transcript, "error")
    /\ stop' = "error"
    /\ pc' = "stopped"
    /\ UNCHANGED <<queue, pending, moreTools, skipPoll, turnCount, retries, aborted,
                   hostVars>>

\* The tool batch settles; "final" when every tool asked to terminate.
RunTools(r) ==
    /\ pc = "tools"
    /\ transcript' = Append(transcript, r)
    /\ context' = Append(context, r)
    /\ moreTools' = (r # "final" /\ ~aborted)
    /\ pc' = "turnEnd"
    /\ UNCHANGED <<queue, pending, skipPoll, turnCount, retries, aborted, 
                   stop, hostVars>>

\* turn_end, then the abort check.
EndTurn ==
    /\ pc = "turnEnd"
    /\ pc' = IF aborted THEN "ending" ELSE "between"
    /\ stop' = IF aborted THEN "aborted" ELSE stop
    /\ late' = {}
    /\ UNCHANGED <<queue, transcript, context, pending, moreTools, skipPoll, turnCount,
                   retries, aborted, submitted, runOf, takenBack, runs, failures>>

\* turn_end of a turn whose answer was an error or aborted.
StopTurn ==
    /\ pc = "stopped"
    /\ pc' = "ending"
    /\ UNCHANGED <<queue, transcript, context, pending, moreTools, skipPoll, turnCount,
                   retries, aborted, stop, hostVars>>

\* The agent would stop: follow-ups keep it going.
PollFollowUps_Peek ==
    /\ pc = "check"
    /\ ~AnotherTurn
    /\ pending' = FollowUpDrain.taken
    /\ queue' = queue
    /\ moreTools' = TRUE
    /\ pc' = IF pending' = <<>> THEN "ending" ELSE "check"
    /\ stop' = IF pending' = <<>> THEN "done" ELSE stop
    /\ UNCHANGED <<transcript, context, skipPoll, turnCount, retries, aborted, 
                   hostVars>>

PollFollowUps_Eager ==
    /\ pc = "check"
    /\ pending = <<>>
    /\ FollowUpDrain.taken # <<>> \/ ~moreTools
    /\ pending' = FollowUpDrain.taken
    /\ queue' = FollowUpDrain.left
    /\ moreTools' = TRUE
    /\ pc' = IF pending' = <<>> THEN "ending" ELSE "check"
    /\ stop' = IF pending' = <<>> THEN "done" ELSE stop
    /\ UNCHANGED <<transcript, context, skipPoll, turnCount, retries, aborted, 
                   hostVars>>

PollFollowUps ==
    /\ pc = "check"
    /\ ~AnotherTurn
    /\ pending' = FollowUpDrain.taken
    /\ queue' = FollowUpDrain.left
    /\ moreTools' = TRUE
    /\ pc' = IF pending' = <<>> THEN "ending" ELSE "check"
    /\ stop' = IF pending' = <<>> THEN "done" ELSE stop
    /\ UNCHANGED <<transcript, context, skipPoll, turnCount, retries, aborted, 
                   hostVars>>

EmitAgentEnd ==
    /\ pc = "ending"
    /\ pc' = "finishing"
    /\ UNCHANGED <<queue, transcript, context, pending, moreTools, skipPoll, turnCount,
                   retries, aborted, stop, hostVars>>

\* handleRunFailure: a failure message, turn_end and agent_end, each isolated.
FailRun ==
    /\ pc = "failing"
    /\ transcript' = Append(transcript, IF aborted THEN "aborted" ELSE "error")
    /\ stop' = "failure"
    /\ pc' = "finishing"
    /\ UNCHANGED <<queue, context, pending, moreTools, skipPoll, turnCount, retries,
                   aborted, hostVars>>

\* finishRun; the loop's local state goes with it.
FinishRun_KeepsPassive ==
    /\ pc = "finishing"
    /\ pc' = "idle"
    /\ context' = <<>>
    /\ pending' = <<>>
    /\ moreTools' = FALSE
    /\ skipPoll' = FALSE
    /\ turnCount' = 0
    /\ retries' = 0
    /\ UNCHANGED <<queue, transcript, aborted, stop, hostVars>>

FinishRun_NotAfterFailure ==
    /\ pc = "finishing"
    /\ stop # "failure"
    /\ queue' = [queue EXCEPT !["passive"] = <<>>]
    /\ pc' = "idle"
    /\ context' = <<>>
    /\ pending' = <<>>
    /\ moreTools' = FALSE
    /\ skipPoll' = FALSE
    /\ turnCount' = 0
    /\ retries' = 0
    /\ UNCHANGED <<transcript, aborted, stop, hostVars>>

FinishRun ==
    /\ pc = "finishing"
    /\ queue' = [queue EXCEPT !["passive"] = <<>>]
    /\ pc' = "idle"
    /\ context' = <<>>
    /\ pending' = <<>>
    /\ moreTools' = FALSE
    /\ skipPoll' = FALSE
    /\ turnCount' = 0
    /\ retries' = 0
    /\ UNCHANGED <<transcript, aborted, stop, hostVars>>

\* A listener throws in an emit of the loop.  processEvents has already updated
\* the state (a message_end has recorded its message), the step the emit belongs
\* to stops there, and the exception ends the loop.
EmitThrows(recorded) == transcript' = transcript \o recorded

\* The message_start, or the message_end, of message m throws.
MessageThrows(m) == EmitThrows(<<>>) \/ EmitThrows(<<m>>)

ListenerThrows ==
    /\ failures < MaxFailures
    /\ failures' = failures + 1
    /\ \/ /\ \/ pc \in {"opening", "turnEnd", "stopped", "ending"}
             \/ pc = "check" /\ AnotherTurn /\ turnCount > 0
          /\ EmitThrows(<<>>)
       \/ /\ pc \in {"prompting", "inject"}
          /\ pending # <<>>
          /\ MessageThrows(Head(pending))
       \/ /\ pc = "check" /\ AnotherTurn /\ turnCount >= MaxTurns
          /\ EmitThrows(<<"notice">>)
       \/ /\ pc = "streaming"
          /\ \E a \in Answers : MessageThrows(a)
       \/ /\ pc = "streaming" /\ HasPartial /\ retries < MaxRetries
          /\ MessageThrows("reminder")
       \/ /\ pc = "tools"
          /\ MessageThrows("result")
    /\ pc' = "failing"
    /\ pending' = <<>>
    /\ UNCHANGED <<queue, context, moreTools, skipPoll, turnCount, retries,
                   aborted, stop, submitted, runOf, late, takenBack, runs>>

-----------------------------------------------------------------------------
HostStep ==
    \/ \E c \in Queues : Submit(c)
    \/ \E cs \in {Steering, {"followUp"}, Steering \cup {"followUp"}} : TakeBack(cs)
    \/ Abort
    \/ Prompt
    \/ Continue

LoopStep ==
    \/ OpenRun \/ RecordPrompt \/ PollSteering
    \/ BudgetStop \/ BeginTurn \/ Inject
    \/ SendRequest \/ StreamThrows \/ StreamStarts
    \/ \E a \in Answers : AnswerArrives(a)
    \/ Interrupt \/ InterruptLimit
    \/ \E r \in ToolResult : RunTools(r)
    \/ EndTurn \/ StopTurn \/ PollFollowUps
    \/ EmitAgentEnd \/ FailRun \/ FinishRun

Next == HostStep \/ LoopStep \/ ListenerThrows

Spec == Init /\ [][Next]_vars

\* The loop runs whenever it can: a provider round is bounded by its watchdogs,
\* a tool call by its own timeout or an abort, a listener by its time budget.
FairSpec == Spec /\ WF_vars(LoopStep)

\* The session's safety net (_handlePostAgentRun): after a run that completed
\* cleanly it continues while a queue holds messages.
SessionContinue_SteeringOnly ==
    /\ stop = "done"
    /\ ~aborted
    /\ \E c \in Steering : queue[c] # <<>>
    /\ Continue

SessionContinue ==
    /\ stop = "done"
    /\ ~aborted
    /\ \E c \in Queues \ {"passive"} : queue[c] # <<>>
    /\ Continue

SessionSpec == FairSpec /\ WF_vars(SessionContinue)

-----------------------------------------------------------------------------
(* Properties.                                                             *)

Recorded == Range(transcript)
Queued   == UNION {Range(queue[c]) : c \in Queues}
InFlight == Range(pending)
Place(m) == CHOOSE i \in DOMAIN transcript : transcript[i] = m

\* Every variable has its type; a run never begins more turns than its budget
\* and never replays a turn more often than the guards' cap.
TypeOK ==
    /\ queue \in [Queues -> Seq(Msgs)]
    /\ transcript \in Seq(Entries)
    /\ pc \in {"idle", "opening", "prompting", "between", "check", "inject", "streaming",
               "tools", "turnEnd", "stopped", "ending", "failing", "finishing"}
    /\ context \in Seq(Entries \cup {"partial"})
    /\ pending \in Seq(Msgs)
    /\ moreTools \in BOOLEAN
    /\ skipPoll \in BOOLEAN
    /\ turnCount \in 0 .. MaxTurns
    /\ retries \in 0 .. MaxRetries
    /\ aborted \in BOOLEAN
    /\ stop \in {"none", "done", "error", "aborted", "budget", "failure"}
    /\ submitted \in [Channels -> Nat]
    /\ runOf \in [Range(Source["passive"]) -> Nat]
    /\ late \subseteq Msgs
    /\ takenBack \subseteq Msgs
    /\ runs \in 0 .. MaxRuns
    /\ failures \in 0 .. MaxFailures

\* No message is delivered twice: it is in one queue, or drained and in flight,
\* or recorded in the transcript, and there once, whatever the host and the
\* failures do (drain, runAgentLoop, runLoop's injection, continue).
DeliveredOnce ==
    LET places == transcript \o (IF Running THEN pending ELSE <<>>)
                    \o queue["priority"] \o queue["steer"] \o queue["followUp"]
                    \o queue["passive"]
    IN  \A i, j \in DOMAIN places : i # j /\ places[i] = places[j] => places[i] \notin Msgs

\* A message the host queued or prompted with is still queued, in flight,
\* recorded, or was taken back by the host: unless the budget or a listener
\* cuts a run short, no message is lost, aborts and provider failures included.
SubmittedOf(c) == {Source[c][i] : i \in 1 .. submitted[c]}
Lost(c) == SubmittedOf(c) \ (Queued \cup InFlight \cup Recorded \cup takenBack)
NothingLost == \A c \in Channels \ {"passive"} : Lost(c) = {}

\* Messages of one channel are recorded in the order they were submitted, and
\* none overtakes an earlier one that still waits (drain, one-at-a-time mode,
\* continue's prompts).
ChannelOrder ==
    \A c \in Channels : \A i, j \in 1 .. submitted[c] :
        LET earlier == Source[c][i]
            later   == Source[c][j]
        IN  i < j /\ later \in Recorded =>
                /\ earlier \in Recorded => Place(earlier) < Place(later)
                /\ earlier \notin Queued \cup InFlight

\* A regular steering message is recorded only when no priority message that was
\* there when the last turn ended still waits: recovery steers are heard first.
NewlyRecorded == Range(transcript') \ Range(transcript)
PriorityFirst ==
    [][NewlyRecorded \cap Range(Source["steer"]) # {} => Range(queue["priority"]) \subseteq late]_vars

\* A follow-up is injected only when the agent would have stopped: no tool
\* result that asks for another turn is left unanswered before it
\* (getFollowUpMessages after the inner loop, continue).
FollowUpsWait ==
    \A i \in DOMAIN transcript :
        transcript[i] \in Range(Source["followUp"]) =>
            \E k \in 1 .. i - 1 :
                /\ transcript[k] \in Assistant \cup {"final"}
                /\ \A n \in k + 1 .. i - 1 : transcript[n] \in Msgs \cup {"final"}
                /\ transcript[k] = "call" => \E n \in k + 1 .. i - 1 : transcript[n] = "final"

\* What the model is asked with is what was recorded: at every request the
\* loop's private context equals the transcript, after prompts, injections,
\* interrupts, replays and tool results, so a resumed session continues the
\* same conversation.
RequestMatchesTranscript == AtRequest => context = transcript

\* The model is never asked to answer an assistant message (continue's role
\* check, the rollback of an interrupted stream, the stop after an error turn).
RequestAnswersUser ==
    AtRequest => context # <<>> /\ Last(context) \notin Assistant \cup {"partial"}

\* A run that stops by itself leaves behind only steering messages and
\* follow-ups submitted after its last turn ended: what was queued before, in
\* whatever order and mode, was heard.
StrandedOnlyLate ==
    pc = "idle" /\ stop = "done" =>
        Range(queue["priority"]) \cup Range(queue["steer"]) \cup Range(queue["followUp"])
            \subseteq late

\* A passive notice queued during a run is never recorded by a later run: what
\* the loop did not drain expires with the run (finishRun).
ExpiresWithRun ==
    [][\A m \in NewlyRecorded \cap Range(Source["passive"]) : runOf[m] \in {0, runs}]_vars

\* Every run ends, whatever the host, the provider and the tools do: the turn
\* budget bounds a model that keeps calling tools.
EveryRunEnds == []<>(pc = "idle")

\* With the session's safety net, a steering message or follow-up that is queued
\* is recorded, taken back, or the last run did not complete cleanly.
QueuedIsHeard ==
    \A c \in Queues \ {"passive"} : \A m \in Range(Source[c]) :
        (m \in Queued) ~> (m \notin Queued \/ (pc = "idle" /\ (stop # "done" \/ aborted \/ runs = MaxRuns)))

=============================================================================
