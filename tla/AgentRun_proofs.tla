--------------------------- MODULE AgentRun_proofs ---------------------------
(* The run loop for every number of messages, turns, retries and runs:      *)
(* types, what a request is made of, what a run leaves behind, when a       *)
(* message may be recorded, where it is, and in which order messages are.   *)
EXTENDS AgentRun, TLAPS

USE SourceAssumption, ConfigAssumption

-----------------------------------------------------------------------------
(* Sequences.                                                              *)

\* What the elements of an extended, joined or consumed sequence are.
LEMMA AppendFacts ==
    ASSUME NEW S, NEW s \in Seq(S), NEW e \in S
    PROVE  /\ Append(s, e) \in Seq(S) /\ Append(s, e) # <<>>
           /\ Range(Append(s, e)) = Range(s) \cup {e}
           /\ Last(Append(s, e)) = e
           /\ s \o <<e>> = Append(s, e)
<1>1. Append(s, e) \in Seq(S) /\ Append(s, e) # <<>> /\ Last(Append(s, e)) = e
  BY DEF Last
<1>2. s \o <<e>> = Append(s, e)
  OBVIOUS
<1>3. Range(Append(s, e)) = Range(s) \cup {e}
  <2>1. DOMAIN Append(s, e) = 1 .. Len(s) + 1 /\ DOMAIN s = 1 .. Len(s) /\ Len(s) \in Nat
    OBVIOUS
  <2>2. \A i \in 1 .. Len(s) : Append(s, e)[i] = s[i]
    OBVIOUS
  <2>3. Append(s, e)[Len(s) + 1] = e
    OBVIOUS
  <2>4. e \in Range(Append(s, e)) /\ Range(s) \subseteq Range(Append(s, e))
    BY <2>1, <2>2, <2>3 DEF Range
  <2>5. Range(Append(s, e)) \subseteq Range(s) \cup {e}
    BY <2>1, <2>2, <2>3 DEF Range
  <2> QED BY <2>4, <2>5
<1> QED BY <1>1, <1>2, <1>3

LEMMA ConcatFacts ==
    ASSUME NEW S, NEW s \in Seq(S), NEW t \in Seq(S)
    PROVE  /\ s \o t \in Seq(S)
           /\ Range(s \o t) = Range(s) \cup Range(t)
           /\ s \o <<>> = s /\ <<>> \o t = t
           /\ s \o t = <<>> <=> s = <<>> /\ t = <<>>
           /\ t # <<>> => Last(s \o t) = Last(t)
<1>1. s \o t \in Seq(S) /\ s \o <<>> = s /\ <<>> \o t = t /\ (s \o t = <<>> <=> s = <<>> /\ t = <<>>)
  OBVIOUS
<1>2. Range(s \o t) \subseteq Range(s) \cup Range(t)
  BY DEF Range
<1>3. Range(s) \subseteq Range(s \o t)
  BY DEF Range
<1>4. ASSUME NEW i \in 1 .. Len(t) PROVE t[i] \in Range(s \o t)
  <2>1. Len(s) + i \in DOMAIN (s \o t) /\ (s \o t)[Len(s) + i] = t[i]
    OBVIOUS
  <2> DEFINE u == s \o t
             k == Len(s) + i
  <2>2. k \in DOMAIN u /\ u[k] = t[i]
    BY <2>1
  <2> HIDE DEF u, k
  <2>3. t[i] \in Range(u)
    BY <2>2 DEF Range
  <2> QED BY <2>3 DEF u
<1>5. t # <<>> => Last(s \o t) = Last(t)
  <2> SUFFICES ASSUME t # <<>> PROVE Last(s \o t) = Last(t)
    OBVIOUS
  <2>1. Len(t) \in Nat \ {0} /\ Len(s) \in Nat /\ Len(s \o t) = Len(s) + Len(t)
    OBVIOUS
  <2>2. (s \o t)[Len(s \o t)] = t[Len(t)]
    BY <2>1
  <2> QED BY <2>2 DEF Last
<1>6. Range(t) \subseteq Range(s \o t)
  <2>1. DOMAIN t = 1 .. Len(t)
    OBVIOUS
  <2> QED BY <1>4, <2>1 DEF Range
<1> QED BY <1>1, <1>2, <1>3, <1>5, <1>6

LEMMA HeadFacts ==
    ASSUME NEW S, NEW s \in Seq(S), s # <<>>
    PROVE  /\ Head(s) \in S /\ Head(s) \in Range(s) /\ <<Head(s)>> \in Seq(S)
           /\ Tail(s) \in Seq(S) /\ Range(Tail(s)) \subseteq Range(s)
           /\ Range(<<Head(s)>>) = {Head(s)} /\ s = <<Head(s)>> \o Tail(s)
BY DEF Range

LEMMA MoveHead ==
    ASSUME NEW S, NEW s \in Seq(S), NEW t \in Seq(S), t # <<>>
    PROVE  Append(s, Head(t)) \o Tail(t) = s \o t
OBVIOUS

LEMMA FrontAppend ==
    ASSUME NEW S, NEW s \in Seq(S), NEW e \in S
    PROVE  Front(Append(s, e)) = s
BY DEF Front

LEMMA FrontType ==
    ASSUME NEW S, NEW s \in Seq(S), s # <<>>
    PROVE  Front(s) \in Seq(S)
BY DEF Front

LEMMA EmptyRange == Range(<<>>) = {}
BY DEF Range

LEMMA RangeType ==
    ASSUME NEW S, NEW s \in Seq(S)
    PROVE  Range(s) \subseteq S
BY DEF Range

-----------------------------------------------------------------------------
(* The messages of the host, and what a drain takes.                       *)

LEMMA SourceFacts ==
    ASSUME NEW c \in Channels
    PROVE  /\ Source[c] \in Seq(Msgs) /\ Range(Source[c]) \subseteq Msgs
           /\ DOMAIN Source[c] = 1 .. Len(Source[c]) /\ Len(Source[c]) \in Nat
           /\ \A i \in 1 .. Len(Source[c]) : Source[c][i] \in Range(Source[c])
<1>1. Source[c] \in Seq(Msgs)
  OBVIOUS
<1> HIDE SourceAssumption
<1> QED BY <1>1 DEF Range

\* A message is nothing that the loop itself records.
LEMMA MessageKinds ==
    /\ Msgs \subseteq Entries /\ Assistant \subseteq Entries /\ ToolResult \subseteq Entries
    /\ "reminder" \in Entries /\ "partial" \notin Entries
    /\ Msgs \cap (Assistant \cup ToolResult \cup {"reminder", "partial"}) = {}
    /\ Assistant \cap (ToolResult \cup {"reminder"}) = {}
BY DEF Entries, Assistant, ToolResult

LEMMA TakenFacts ==
    ASSUME NEW s \in Seq(Msgs), NEW mode
    PROVE  /\ Taken(s, mode) \in Seq(Msgs) /\ Kept(s, mode) \in Seq(Msgs)
           /\ s = Taken(s, mode) \o Kept(s, mode)
           /\ Range(Taken(s, mode)) \cup Range(Kept(s, mode)) = Range(s)
           /\ Taken(s, mode) = <<>> => s = <<>>
<1>1. CASE mode = "all" \/ s = <<>>
  <2>1. Taken(s, mode) = s /\ Kept(s, mode) = <<>>
    BY <1>1 DEF Taken, Kept
  <2>2. s \o <<>> = s /\ <<>> \in Seq(Msgs)
    OBVIOUS
  <2> QED BY <2>1, <2>2, EmptyRange
<1>2. CASE ~ (mode = "all" \/ s = <<>>)
  <2>1. Taken(s, mode) = <<Head(s)>> /\ Kept(s, mode) = Tail(s)
    BY <1>2 DEF Taken, Kept
  <2>2. s = <<Head(s)>> \o Tail(s) /\ <<Head(s)>> \in Seq(Msgs) /\ Tail(s) \in Seq(Msgs)
    BY <1>2, HeadFacts
  <2>3. Range(s) = Range(<<Head(s)>>) \cup Range(Tail(s))
    <3> DEFINE h == <<Head(s)>>
               t == Tail(s)
    <3>1. h \in Seq(Msgs) /\ t \in Seq(Msgs) /\ s = h \o t
      BY <2>2
    <3> HIDE DEF h, t
    <3>2. Range(h \o t) = Range(h) \cup Range(t)
      BY <3>1, ConcatFacts
    <3> QED BY <3>1, <3>2 DEF h, t
  <2>4. <<Head(s)>> # <<>>
    OBVIOUS
  <2> QED BY <2>1, <2>2, <2>3, <2>4
<1> QED BY <1>1, <1>2

LEMMA DrainTypes ==
    ASSUME TypeOK
    PROVE  /\ SteeringDrain.taken \in Seq(Msgs) /\ SteeringDrain.left \in [Queues -> Seq(Msgs)]
           /\ FollowUpDrain.taken \in Seq(Msgs) /\ FollowUpDrain.left \in [Queues -> Seq(Msgs)]
<1>1. \A c \in Queues : queue[c] \in Seq(Msgs)
  BY DEF TypeOK
<1>2. {"priority", "steer", "followUp"} \subseteq Queues
  BY DEF Queues
<1>3. queue["priority"] \o Taken(queue["steer"], SteeringMode) \in Seq(Msgs)
  BY <1>1, <1>2, TakenFacts, ConcatFacts
<1>4. SteeringDrain.left \in [Queues -> Seq(Msgs)]
  <2>1. <<>> \in Seq(Msgs) /\ Kept(queue["steer"], SteeringMode) \in Seq(Msgs)
    BY <1>1, <1>2, TakenFacts
  <2> QED BY <2>1 DEF SteeringDrain, TypeOK
<1>5. FollowUpDrain.left \in [Queues -> Seq(Msgs)]
  <2>1. Kept(queue["followUp"], FollowUpMode) \in Seq(Msgs)
    BY <1>1, <1>2, TakenFacts
  <2> QED BY <2>1 DEF FollowUpDrain, TypeOK
<1>6. FollowUpDrain.taken \in Seq(Msgs)
  BY <1>1, <1>2, TakenFacts DEF FollowUpDrain
<1> QED BY <1>3, <1>4, <1>5, <1>6 DEF SteeringDrain

-----------------------------------------------------------------------------
(* Types.                                                                  *)

LEMMA HostTypes ==
    ASSUME TypeOK, HostStep
    PROVE  TypeOK'
<1>1. ASSUME NEW c \in Queues, Submit(c) PROVE TypeOK'
  <2> DEFINE m == Source[c][submitted[c] + 1]
  <2>1. c \in Channels /\ submitted[c] \in Nat /\ submitted[c] < Len(Source[c])
    BY <1>1 DEF Submit, Channels, TypeOK
  <2>2. submitted[c] + 1 \in 1 .. Len(Source[c])
    BY <2>1, SourceFacts
  <2>3. m \in Range(Source[c]) /\ m \in Msgs
    BY <2>1, <2>2, SourceFacts
  <2>4. queue' = [queue EXCEPT ![c] = Append(@, m)] /\ Note(c, m)
        /\ UNCHANGED <<transcript, runVars, takenBack, runs, failures>>
    BY <1>1 DEF Submit
  <2> HIDE DEF m
  <2>5. queue' \in [Queues -> Seq(Msgs)]
    BY <2>3, <2>4 DEF TypeOK
  <2>6. submitted' \in [Channels -> Nat] /\ late' \subseteq Msgs
    BY <2>1, <2>3, <2>4 DEF Note, TypeOK
  <2>7. runOf' \in [Range(Source["passive"]) -> Nat]
    BY <2>3, <2>4 DEF Note, TypeOK
  <2> QED BY <2>4, <2>5, <2>6, <2>7 DEF TypeOK, runVars
<1>2. ASSUME NEW cs \in {Steering, {"followUp"}, Steering \cup {"followUp"}}, TakeBack(cs)
      PROVE  TypeOK'
  <2>1. queue' \in [Queues -> Seq(Msgs)]
    BY <1>2 DEF TakeBack, TypeOK
  <2>2. cs \subseteq Queues
    BY DEF Steering, Queues
  <2>3. \A c \in cs : Range(queue[c]) \subseteq Msgs
    BY <2>2, RangeType DEF TypeOK
  <2> QED BY <1>2, <2>1, <2>3 DEF TakeBack, TypeOK, runVars
<1>3. CASE Abort
  BY <1>3 DEF Abort, TypeOK, hostVars
<1>4. ASSUME NEW prompts \in Seq(Msgs), NEW skip \in BOOLEAN, StartRun(prompts, skip)
      PROVE  /\ pc' = "opening" /\ pending' \in Seq(Msgs)
             /\ context' \in Seq(Entries \cup {"partial"})
             /\ moreTools' \in BOOLEAN /\ skipPoll' \in BOOLEAN /\ turnCount' \in 0 .. MaxTurns
             /\ retries' \in 0 .. MaxRetries /\ aborted' \in BOOLEAN /\ stop' = "none"
             /\ late' = {} /\ runs' \in 0 .. MaxRuns
  <2>1. transcript \in Seq(Entries \cup {"partial"}) /\ prompts \in Seq(Entries \cup {"partial"})
    BY MessageKinds DEF TypeOK
  <2>2. transcript \o prompts \in Seq(Entries \cup {"partial"})
    BY <2>1, ConcatFacts
  <2>3. runs' \in 0 .. MaxRuns /\ turnCount' \in 0 .. MaxTurns /\ retries' \in 0 .. MaxRetries
    BY <1>4 DEF StartRun, TypeOK
  <2>4. pending' \in Seq(Msgs) /\ context' \in Seq(Entries \cup {"partial"})
    BY <1>4, <2>2 DEF StartRun
  <2>5. pc' = "opening" /\ stop' = "none" /\ late' = {}
    BY <1>4 DEF StartRun
  <2>6. moreTools' \in BOOLEAN /\ skipPoll' \in BOOLEAN /\ aborted' \in BOOLEAN
    BY <1>4 DEF StartRun
  <2> QED BY <2>3, <2>4, <2>5, <2>6
<1>5. CASE Prompt
  <2> DEFINE m == Source["prompt"][submitted["prompt"] + 1]
  <2>1. "prompt" \in Channels /\ submitted["prompt"] \in Nat
        /\ submitted["prompt"] < Len(Source["prompt"])
    BY <1>5 DEF Prompt, Channels, TypeOK
  <2>2. submitted["prompt"] + 1 \in 1 .. Len(Source["prompt"])
    BY <2>1, SourceFacts
  <2>3. m \in Msgs
    BY <2>1, <2>2, SourceFacts
  <2>4. StartRun(<<m>>, FALSE)
    BY <1>5 DEF Prompt
  <2> HIDE DEF m
  <2>5. <<m>> \in Seq(Msgs)
    BY <2>3
  <2>6. submitted' \in [Channels -> Nat] /\ UNCHANGED <<queue, transcript, runOf, takenBack, failures>>
    BY <1>5, <2>1 DEF Prompt, TypeOK
  <2> QED BY <2>4, <2>5, <2>6, <1>4 DEF TypeOK
<1>6. CASE Continue
  <2>1. PICK prompts \in Seq(Msgs), skip \in BOOLEAN :
           StartRun(prompts, skip) /\ queue' \in [Queues -> Seq(Msgs)]
    <3>1. <<>> \in Seq(Msgs) /\ queue \in [Queues -> Seq(Msgs)]
      BY DEF TypeOK
    <3> QED BY <1>6, <3>1, DrainTypes DEF Continue, ContinueFrom
  <2>2. UNCHANGED <<transcript, submitted, runOf, takenBack, failures>>
    BY <1>6 DEF Continue
  <2> QED BY <2>1, <2>2, <1>4 DEF TypeOK
<1> QED BY <1>1, <1>2, <1>3, <1>5, <1>6 DEF HostStep

LEMMA LoopTypes ==
    ASSUME TypeOK, LoopStep
    PROVE  TypeOK'
<1> DEFINE Ctx == Entries \cup {"partial"}
<1>0. /\ Msgs \subseteq Entries /\ Entries \subseteq Ctx
      /\ Assistant \subseteq Entries /\ ToolResult \subseteq Entries /\ "reminder" \in Entries
  BY MessageKinds
<1> HIDE DEF Ctx
<1>t. transcript \in Seq(Entries) /\ context \in Seq(Ctx) /\ pending \in Seq(Msgs)
  BY DEF TypeOK, Ctx
<1>a. \A e \in Entries : Append(transcript, e) \in Seq(Entries)
  BY <1>t
<1>b. \A e \in Ctx : Append(context, e) \in Seq(Ctx)
  BY <1>t
<1>c. Rollback \in Seq(Ctx)
  BY <1>t, FrontType DEF Rollback, HasPartial
<1>d. \A e \in Ctx : Append(Rollback, e) \in Seq(Ctx)
  BY <1>c
<1>e. Answers \subseteq Assistant
  BY DEF Answers, Assistant
<1>f. pending # <<>> => Head(pending) \in Msgs /\ Tail(pending) \in Seq(Msgs)
  BY <1>t, HeadFacts
<1>1. CASE OpenRun
  BY <1>1 DEF OpenRun, TypeOK, hostVars
<1>2. CASE RecordPrompt
  <2>1. transcript' \in Seq(Entries) /\ pending' \in Seq(Msgs)
    BY <1>2, <1>0, <1>a, <1>f DEF RecordPrompt
  <2> QED BY <1>2, <2>1 DEF RecordPrompt, TypeOK, hostVars
<1>3. CASE PollSteering
  <2>1. pending' \in Seq(Msgs) /\ queue' \in [Queues -> Seq(Msgs)]
    <3>1. <<>> \in Seq(Msgs)
      OBVIOUS
    <3>2. queue \in [Queues -> Seq(Msgs)]
      BY DEF TypeOK
    <3> QED BY <1>3, <3>1, <3>2, DrainTypes DEF PollSteering
  <2> QED BY <1>3, <2>1 DEF PollSteering, TypeOK, hostVars
<1>4. CASE BudgetStop
  <2>1. transcript' \in Seq(Entries)
    BY <1>4, <1>0, <1>a DEF BudgetStop, Assistant
  <2> QED BY <1>4, <2>1 DEF BudgetStop, TypeOK, hostVars
<1>5. CASE BeginTurn
  <2>1. queue["passive"] \in Seq(Msgs) /\ <<>> \in Seq(Msgs)
    BY DEF TypeOK, Queues
  <2>2. pending' \in Seq(Msgs)
    BY <1>5, <1>t, <2>1 DEF BeginTurn
  <2>3. queue' \in [Queues -> Seq(Msgs)]
    BY <1>5, <2>1 DEF BeginTurn, TypeOK
  <2>4. turnCount' \in 0 .. MaxTurns /\ retries' \in 0 .. MaxRetries
    BY <1>5 DEF BeginTurn, TypeOK
  <2> QED BY <1>5, <2>2, <2>3, <2>4 DEF BeginTurn, TypeOK, hostVars
<1>6. CASE Inject
  <2>1. transcript' \in Seq(Entries) /\ pending' \in Seq(Msgs) /\ context' \in Seq(Ctx)
    BY <1>6, <1>0, <1>a, <1>b, <1>f DEF Inject
  <2> QED BY <1>6, <2>1 DEF Inject, TypeOK, hostVars, Ctx
<1>7. CASE SendRequest
  BY <1>7 DEF SendRequest, TypeOK, hostVars
<1>8. CASE StreamThrows
  BY <1>8 DEF StreamThrows, TypeOK, hostVars
<1>9. CASE StreamStarts
  <2>1. context' \in Seq(Ctx)
    BY <1>9, <1>b DEF StreamStarts, Ctx
  <2> QED BY <1>9, <2>1 DEF StreamStarts, TypeOK, hostVars, Ctx
<1>10. ASSUME NEW a \in Answers, AnswerArrives(a) PROVE TypeOK'
  <2>1. a \in Entries /\ a \in Ctx
    BY <1>0, <1>e
  <2>2. transcript' \in Seq(Entries) /\ context' \in Seq(Ctx)
    BY <1>10, <2>1, <1>a, <1>d DEF AnswerArrives
  <2>3. pc' \in {"tools", "turnEnd", "stopped"} /\ moreTools' \in BOOLEAN
    BY <1>10 DEF AnswerArrives
  <2>4. stop' \in {"error", "aborted", stop}
    BY <1>10 DEF AnswerArrives
  <2> QED BY <1>10, <2>2, <2>3, <2>4 DEF AnswerArrives, TypeOK, hostVars, Ctx
<1>11. CASE Interrupt
  <2>1. transcript' \in Seq(Entries) /\ context' \in Seq(Ctx)
    BY <1>11, <1>0, <1>a, <1>d DEF Interrupt
  <2>2. retries' \in 0 .. MaxRetries
    BY <1>11 DEF Interrupt, TypeOK
  <2> QED BY <1>11, <2>1, <2>2 DEF Interrupt, TypeOK, hostVars, Ctx
<1>12. CASE InterruptLimit
  <2>1. transcript' \in Seq(Entries) /\ context' \in Seq(Ctx)
    BY <1>12, <1>0, <1>a, <1>c DEF InterruptLimit, Assistant
  <2> QED BY <1>12, <2>1 DEF InterruptLimit, TypeOK, hostVars, Ctx
<1>13. ASSUME NEW r \in ToolResult, RunTools(r) PROVE TypeOK'
  <2>1. transcript' \in Seq(Entries) /\ context' \in Seq(Ctx)
    BY <1>13, <1>0, <1>a, <1>b DEF RunTools
  <2>2. moreTools' \in BOOLEAN
    BY <1>13 DEF RunTools
  <2> QED BY <1>13, <2>1, <2>2 DEF RunTools, TypeOK, hostVars, Ctx
<1>14. CASE EndTurn
  BY <1>14 DEF EndTurn, TypeOK
<1>15. CASE StopTurn
  BY <1>15 DEF StopTurn, TypeOK, hostVars
<1>16. CASE PollFollowUps
  <2>1. pending' \in Seq(Msgs) /\ queue' \in [Queues -> Seq(Msgs)]
    BY <1>16, DrainTypes DEF PollFollowUps
  <2>2. pc' \in {"ending", "check"} /\ stop' \in {"done", stop}
    BY <1>16 DEF PollFollowUps
  <2> QED BY <1>16, <2>1, <2>2 DEF PollFollowUps, TypeOK, hostVars
<1>17. CASE EmitAgentEnd
  BY <1>17 DEF EmitAgentEnd, TypeOK, hostVars
<1>18. CASE FailRun
  <2>1. transcript' \in Seq(Entries)
    BY <1>18, <1>0, <1>a DEF FailRun, Assistant
  <2> QED BY <1>18, <2>1 DEF FailRun, TypeOK, hostVars
<1>19. CASE FinishRun
  <2>1. <<>> \in Seq(Msgs) /\ <<>> \in Seq(Ctx)
    OBVIOUS
  <2>2. queue' \in [Queues -> Seq(Msgs)]
    BY <1>19, <2>1 DEF FinishRun, TypeOK
  <2>3. 0 \in 0 .. MaxTurns /\ 0 \in 0 .. MaxRetries
    OBVIOUS
  <2> QED BY <1>19, <2>1, <2>2, <2>3 DEF FinishRun, TypeOK, hostVars, Ctx
<1> QED BY <1>1, <1>2, <1>3, <1>4, <1>5, <1>6, <1>7, <1>8, <1>9, <1>10, <1>11, <1>12, <1>13,
           <1>14, <1>15, <1>16, <1>17, <1>18, <1>19 DEF LoopStep

\* What a listener's exception leaves recorded: nothing new, or the message the
\* loop was recording.
LEMMA ThrowFacts ==
    ASSUME TypeOK, ListenerThrows
    PROVE  /\ \/ transcript' = transcript
              \/ \E e \in Entries : transcript' = Append(transcript, e)
           /\ \/ transcript' = transcript
              \/ /\ pc \in {"prompting", "inject"} /\ pending # <<>>
                 /\ transcript' = Append(transcript, Head(pending))
              \/ \E e \in Assistant \cup ToolResult \cup {"reminder"} :
                    transcript' = Append(transcript, e)
           /\ pc' = "failing" /\ pending' = <<>> /\ failures' = failures + 1
           /\ failures < MaxFailures
           /\ UNCHANGED <<queue, context, moreTools, skipPoll, turnCount, retries,
                          aborted, stop, submitted, runOf, late, takenBack, runs>>
<1>1. transcript \in Seq(Entries) /\ pending \in Seq(Msgs)
  BY DEF TypeOK
<1>2. transcript \o <<>> = transcript
  BY <1>1
<1>3. \A e : transcript \o <<e>> = Append(transcript, e)
  BY <1>1
<1>4. Answers \subseteq Assistant /\ "notice" \in Assistant /\ "result" \in ToolResult
  BY DEF Answers, Assistant, ToolResult
<1>5. \/ transcript' = transcript
      \/ /\ pc \in {"prompting", "inject"} /\ pending # <<>>
         /\ transcript' = Append(transcript, Head(pending))
      \/ \E e \in Assistant \cup ToolResult \cup {"reminder"} :
            transcript' = Append(transcript, e)
  BY <1>2, <1>3, <1>4 DEF ListenerThrows, EmitThrows, MessageThrows
<1>6. pending # <<>> => Head(pending) \in Msgs
  BY <1>1, HeadFacts
<1>7. \/ transcript' = transcript
      \/ \E e \in Entries : transcript' = Append(transcript, e)
  BY <1>5, <1>6, MessageKinds
<1> QED BY <1>5, <1>7 DEF ListenerThrows

\* The agent starts with empty queues and no run.
LEMMA InitTypes == Init => TypeOK
<1> SUFFICES ASSUME Init PROVE TypeOK
    OBVIOUS
<1>1. <<>> \in Seq(Msgs) /\ <<>> \in Seq(Entries) /\ <<>> \in Seq(Entries \cup {"partial"})
  OBVIOUS
<1>2. queue \in [Queues -> Seq(Msgs)]
  BY <1>1 DEF Init
<1>3. submitted \in [Channels -> Nat] /\ runOf \in [Range(Source["passive"]) -> Nat]
  BY DEF Init
<1>4. turnCount \in 0 .. MaxTurns /\ retries \in 0 .. MaxRetries /\ runs \in 0 .. MaxRuns
      /\ failures \in 0 .. MaxFailures
  BY DEF Init
<1> QED BY <1>1, <1>2, <1>3, <1>4 DEF Init, TypeOK

\* Every variable keeps its type, and a run never begins more turns than its
\* budget nor replays a turn more often than it may (runLoop).
THEOREM TypeCorrect == Spec => []TypeOK
<1>1. Init => TypeOK
  BY InitTypes
<1>2. TypeOK /\ [Next]_vars => TypeOK'
  <2> SUFFICES ASSUME TypeOK, [Next]_vars PROVE TypeOK'
    OBVIOUS
  <2>1. CASE UNCHANGED vars
    BY <2>1 DEF vars, runVars, hostVars, TypeOK
  <2>2. CASE ListenerThrows
    <3>1. transcript' \in Seq(Entries) /\ pending' \in Seq(Msgs)
      <4>1. transcript \in Seq(Entries) /\ <<>> \in Seq(Msgs)
        BY DEF TypeOK
      <4>2. \A e \in Entries : Append(transcript, e) \in Seq(Entries)
        BY <4>1
      <4> QED BY <2>2, <4>1, <4>2, ThrowFacts
    <3>2. failures' \in 0 .. MaxFailures
      BY <2>2, ThrowFacts DEF TypeOK
    <3> QED BY <2>2, <3>1, <3>2, ThrowFacts DEF TypeOK
  <2> QED BY <2>1, <2>2, HostTypes, LoopTypes DEF Next
<1> QED BY <1>1, <1>2, PTL DEF Spec

-----------------------------------------------------------------------------
(* What a request is made of.                                              *)

\* Messages are in flight only until the first turn, or around the point where
\* a turn is decided on; the budget stop abandons them.
FlightInv ==
    /\ pc \in {"between", "streaming", "tools", "turnEnd", "stopped", "failing", "idle"} =>
         pending = <<>>
    /\ pc \in {"ending", "finishing"} => pending = <<>> \/ stop = "budget"

\* The loop's copy of the conversation follows what is recorded: ahead of it
\* by the prompts still to be recorded, or by a partial answer.
ContextInv ==
    /\ pc \in {"opening", "prompting"} => context = transcript \o pending
    /\ pc \in {"between", "check", "inject", "tools", "turnEnd"} => context = transcript
    /\ pc = "streaming" => context = transcript \/ context = Append(transcript, "partial")

\* The conversation ends with something an assistant is to answer.
Asks(s) == s # <<>> /\ Last(s) \notin Assistant

AnswerInv ==
    /\ pc \in {"opening", "prompting"} => moreTools /\ Asks(transcript \o pending)
    /\ pc \in {"between", "turnEnd"} /\ moreTools => Asks(transcript)
    /\ pc = "check" /\ moreTools /\ pending = <<>> => Asks(transcript)
    /\ pc = "inject" /\ pending = <<>> => Asks(transcript)

ConversationInv == TypeOK /\ FlightInv /\ ContextInv /\ AnswerInv

\* The host's steps: a run starts on a conversation that asks for an answer.
LEMMA ConversationHost ==
    ASSUME ConversationInv, HostStep
    PROVE  FlightInv' /\ ContextInv' /\ AnswerInv'
<1>1. ASSUME UNCHANGED <<transcript, pc, context, pending, moreTools, stop>>
      PROVE  FlightInv' /\ ContextInv' /\ AnswerInv'
  BY <1>1 DEF ConversationInv, FlightInv, ContextInv, AnswerInv, Asks
<1>2. ASSUME NEW prompts \in Seq(Msgs), NEW skip \in BOOLEAN, StartRun(prompts, skip),
             transcript' = transcript, prompts # <<>> \/ Asks(transcript)
      PROVE  FlightInv' /\ ContextInv' /\ AnswerInv'
  <2>1. pc' = "opening" /\ pending' = prompts /\ context' = transcript \o prompts
        /\ moreTools' = TRUE
    BY <1>2 DEF StartRun
  <2>2. transcript \in Seq(Entries) /\ prompts \in Seq(Entries)
    BY MessageKinds DEF ConversationInv, TypeOK
  <2>3. Asks(transcript \o prompts)
    <3>1. CASE prompts = <<>>
      BY <1>2, <2>2, <3>1, ConcatFacts
    <3>2. CASE prompts # <<>>
      <4>1. Last(prompts) \in Msgs
        BY <3>2 DEF Last
      <4>2. transcript \o prompts # <<>> /\ Last(transcript \o prompts) = Last(prompts)
        BY <2>2, <3>2, ConcatFacts
      <4> QED BY <4>1, <4>2, MessageKinds DEF Asks
    <3> QED BY <3>1, <3>2
  <2> QED BY <1>2, <2>1, <2>3 DEF FlightInv, ContextInv, AnswerInv, Asks
<1>3. CASE \E c \in Queues : Submit(c)
  BY <1>1, <1>3 DEF Submit, runVars
<1>4. CASE \E cs \in {Steering, {"followUp"}, Steering \cup {"followUp"}} : TakeBack(cs)
  BY <1>1, <1>4 DEF TakeBack, runVars
<1>5. CASE Abort
  BY <1>1, <1>5 DEF Abort
<1>6. CASE Prompt
  <2> DEFINE m == Source["prompt"][submitted["prompt"] + 1]
  <2>1. "prompt" \in Channels /\ submitted["prompt"] \in Nat
        /\ submitted["prompt"] < Len(Source["prompt"])
    BY <1>6 DEF Prompt, Channels, ConversationInv, TypeOK
  <2>2. m \in Msgs
    BY <2>1, SourceFacts
  <2>3. StartRun(<<m>>, FALSE) /\ transcript' = transcript
    BY <1>6 DEF Prompt
  <2> HIDE DEF m
  <2>4. <<m>> \in Seq(Msgs) /\ <<m>> # <<>>
    BY <2>2
  <2> QED BY <1>2, <2>3, <2>4
<1>7. CASE Continue
  <2>1. TypeOK /\ transcript # <<>> /\ transcript' = transcript
    BY <1>7 DEF Continue, ConversationInv
  <2>2. PICK prompts \in Seq(Msgs), skip \in BOOLEAN :
           StartRun(prompts, skip) /\ (prompts # <<>> \/ Asks(transcript))
    <3>1. <<>> \in Seq(Msgs)
      OBVIOUS
    <3> QED BY <1>7, <2>1, <3>1, DrainTypes DEF Continue, ContinueFrom, Asks
  <2> QED BY <1>2, <2>1, <2>2
<1> QED BY <1>3, <1>4, <1>5, <1>6, <1>7 DEF HostStep

\* A context with a partial answer is the transcript and the partial answer.
LEMMA PartialFacts ==
    ASSUME ConversationInv, pc = "streaming"
    PROVE  Rollback = transcript
<1>1. transcript \in Seq(Entries) /\ transcript \in Seq(Entries \cup {"partial"})
  BY DEF ConversationInv, TypeOK
<1>2. CASE context = Append(transcript, "partial")
  <2>1. HasPartial /\ Front(context) = transcript
    BY <1>1, <1>2, AppendFacts, FrontAppend DEF HasPartial
  <2> QED BY <2>1 DEF Rollback
<1>3. CASE context = transcript
  <2>1. ~ HasPartial
    <3>1. transcript # <<>> => Last(transcript) \in Entries
      BY <1>1 DEF Last
    <3> QED BY <1>3, <3>1, MessageKinds DEF HasPartial
  <2> QED BY <1>3, <2>1 DEF Rollback
<1> QED BY <1>2, <1>3 DEF ConversationInv, ContextInv

\* The loop's steps.
LEMMA ConversationLoop ==
    ASSUME ConversationInv, LoopStep
    PROVE  FlightInv' /\ ContextInv' /\ AnswerInv'
<1> USE DEF ConversationInv, FlightInv, ContextInv, AnswerInv
<1>t. transcript \in Seq(Entries) /\ pending \in Seq(Msgs) /\ pending \in Seq(Entries)
  BY MessageKinds DEF TypeOK
<1>a. \A e \in Entries : e \notin Assistant => Asks(Append(transcript, e))
  BY <1>t, AppendFacts DEF Asks
<1>b. pending # <<>> => Head(pending) \in Msgs /\ Head(pending) \in Entries /\ Head(pending) \notin Assistant
  BY <1>t, HeadFacts, MessageKinds
<1>1. CASE OpenRun
  BY <1>1 DEF OpenRun
<1>2. CASE RecordPrompt
  <2>1. transcript' \o pending' = transcript \o pending
    BY <1>2, <1>t, MoveHead DEF RecordPrompt
  <2> QED BY <1>2, <2>1 DEF RecordPrompt
<1>3. CASE PollSteering
  <2>1. transcript \o <<>> = transcript
    BY <1>t
  <2> QED BY <1>3, <2>1 DEF PollSteering
<1>4. CASE BudgetStop
  BY <1>4 DEF BudgetStop
<1>5. CASE BeginTurn
  <2>1. pending' = <<>> => pending = <<>>
    <3>1. queue["passive"] \in Seq(Msgs)
      BY DEF TypeOK, Queues
    <3> DEFINE q == queue["passive"]
    <3>2. q \in Seq(Msgs) /\ pending' = pending \o q
      BY <1>5, <3>1 DEF BeginTurn
    <3> HIDE DEF q
    <3>3. pending \o q = <<>> => pending = <<>>
      BY <1>t, <3>2
    <3> QED BY <3>2, <3>3
  <2>2. pending' = <<>> => Asks(transcript)
    BY <1>5, <2>1 DEF BeginTurn, AnotherTurn
  <2>3. pc' = "inject" /\ context' = context /\ transcript' = transcript
        /\ pc = "check"
    BY <1>5 DEF BeginTurn
  <2> QED BY <2>2, <2>3 DEF Asks
<1>6. CASE Inject
  <2>1. Asks(Append(transcript, Head(pending)))
    BY <1>6, <1>a, <1>b DEF Inject
  <2> QED BY <1>6, <2>1 DEF Inject
<1>7. CASE SendRequest
  BY <1>7 DEF SendRequest, AtRequest
<1>8. CASE StreamThrows
  BY <1>8 DEF StreamThrows, AtRequest
<1>9. CASE StreamStarts
  <2>1. context = transcript
    <3>1. transcript \in Seq(Entries \cup {"partial"})
      BY DEF TypeOK
    <3>2. context = Append(transcript, "partial") => HasPartial
      BY <3>1, AppendFacts DEF HasPartial
    <3> QED BY <1>9, <3>2 DEF StreamStarts
  <2> QED BY <1>9, <2>1 DEF StreamStarts
<1>10. ASSUME NEW a \in Answers, AnswerArrives(a)
       PROVE  FlightInv' /\ ContextInv' /\ AnswerInv'
  <2>1. context' = transcript'
    BY <1>10, PartialFacts DEF AnswerArrives
  <2>2. pc' \in {"tools", "stopped"} \/ (pc' = "turnEnd" /\ moreTools' = FALSE)
    BY <1>10 DEF AnswerArrives
  <2>3. pending' = pending /\ pc = "streaming"
    BY <1>10 DEF AnswerArrives
  <2> QED BY <2>1, <2>2, <2>3
<1>11. CASE Interrupt
  <2>1. context' = transcript' /\ transcript' = Append(transcript, "reminder")
    BY <1>11, PartialFacts DEF Interrupt
  <2>2. Asks(transcript')
    BY <2>1, <1>a, MessageKinds
  <2> QED BY <1>11, <2>1, <2>2 DEF Interrupt
<1>12. CASE InterruptLimit
  BY <1>12 DEF InterruptLimit
<1>13. ASSUME NEW r \in ToolResult, RunTools(r)
       PROVE  FlightInv' /\ ContextInv' /\ AnswerInv'
  <2>1. Asks(Append(transcript, r))
    BY <1>a, MessageKinds
  <2> QED BY <1>13, <2>1 DEF RunTools
<1>14. CASE EndTurn
  BY <1>14 DEF EndTurn
<1>15. CASE StopTurn
  BY <1>15 DEF StopTurn
<1>16. CASE PollFollowUps
  BY <1>16 DEF PollFollowUps
<1>17. CASE EmitAgentEnd
  BY <1>17 DEF EmitAgentEnd
<1>18. CASE FailRun
  BY <1>18 DEF FailRun
<1>19. CASE FinishRun
  BY <1>19 DEF FinishRun
<1> QED BY <1>1, <1>2, <1>3, <1>4, <1>5, <1>6, <1>7, <1>8, <1>9, <1>10, <1>11, <1>12, <1>13,
           <1>14, <1>15, <1>16, <1>17, <1>18, <1>19 DEF LoopStep

LEMMA Conversation == Spec => []ConversationInv
<1>1. Init => ConversationInv
  BY InitTypes DEF Init, ConversationInv, FlightInv, ContextInv, AnswerInv
<1>2. ConversationInv /\ TypeOK' /\ [Next]_vars => ConversationInv'
  <2> SUFFICES ASSUME ConversationInv, TypeOK', [Next]_vars
               PROVE  FlightInv' /\ ContextInv' /\ AnswerInv'
    BY DEF ConversationInv
  <2>1. CASE UNCHANGED vars
    BY <2>1 DEF vars, runVars, ConversationInv, FlightInv, ContextInv, AnswerInv, Asks
  <2>2. CASE ListenerThrows
    <3>1. TypeOK
      BY DEF ConversationInv
    <3>2. pc' = "failing" /\ pending' = <<>>
      BY <2>2, <3>1, ThrowFacts
    <3> QED BY <3>2 DEF FlightInv, ContextInv, AnswerInv
  <2> QED BY <2>1, <2>2, ConversationHost, ConversationLoop DEF Next
<1> QED BY <1>1, <1>2, TypeCorrect, PTL DEF Spec

\* At every request the model is asked with exactly what is recorded, after
\* prompts, injections, rolled back streams, replays and tool results.
THEOREM RequestIsTranscript == Spec => []RequestMatchesTranscript
<1>1. ConversationInv => RequestMatchesTranscript
  BY DEF ConversationInv, ContextInv, RequestMatchesTranscript, AtRequest
<1> QED BY <1>1, Conversation, PTL

\* The model is never asked to answer an assistant message, nor a partial one
\* (continue's role check, rollbackPartialContext, the stop after an error).
THEOREM RequestAsks == Spec => []RequestAnswersUser
<1>1. ConversationInv => RequestAnswersUser
  <2> SUFFICES ASSUME ConversationInv, AtRequest
               PROVE  context # <<>> /\ Last(context) \notin Assistant \cup {"partial"}
    BY DEF RequestAnswersUser
  <2>1. context = transcript /\ Asks(transcript) /\ transcript \in Seq(Entries)
    BY DEF ConversationInv, ContextInv, AnswerInv, AtRequest, TypeOK
  <2>2. transcript # <<>> /\ Last(transcript) \in Entries
    BY <2>1 DEF Asks, Last
  <2> QED BY <2>1, <2>2, MessageKinds DEF Asks
<1> QED BY <1>1, Conversation, PTL

-----------------------------------------------------------------------------
(* What waits, and when it is heard.                                       *)

\* A queue holds messages of its own channel only.
KindsInv == \A c \in Queues : Range(queue[c]) \subseteq Range(Source[c])

\* When the loop finds nothing to do it has just drained the steering queues,
\* and when it ends by itself it has drained the follow-ups too: what waits
\* came in since.
LateInv ==
    /\ skipPoll => moreTools /\ pc \in {"opening", "prompting", "failing", "finishing"}
    /\ pc = "check" /\ ~AnotherTurn =>
         Range(queue["priority"]) \cup Range(queue["steer"]) \subseteq late
    /\ stop = "done" =>
         /\ pc \in {"ending", "failing", "finishing", "idle"}
         /\ \A c \in {"priority", "steer", "followUp"} : Range(queue[c]) \subseteq late

\* While a regular steering message is in flight, no older priority message waits.
PriorityInv ==
    Range(pending) \cap Range(Source["steer"]) # {} => Range(queue["priority"]) \subseteq late

\* A passive message that waits or is in flight belongs to no earlier run.
ExpireInv ==
    \A m \in Range(Source["passive"]) :
        m \in Range(queue["passive"]) \cup Range(pending) =>
            runOf[m] \in {0} \cup (IF Running THEN {runs} ELSE {})

WaitingInv == ConversationInv /\ KindsInv /\ LateInv /\ PriorityInv /\ ExpireInv

\* A host message is recorded from the front of those in flight, or not at all.
LEMMA RecordFacts ==
    ASSUME TypeOK, [Next]_vars
    PROVE  \/ transcript' = transcript
           \/ /\ pc \in {"prompting", "inject"} /\ pending # <<>>
              /\ transcript' = Append(transcript, Head(pending))
              /\ pending' \in {Tail(pending), <<>>}
              /\ UNCHANGED <<queue, submitted>>
           \/ /\ \E e \in Entries \ Msgs : transcript' = Append(transcript, e)
              /\ pending' \in {pending, <<>>}
              /\ UNCHANGED <<queue, submitted>>
<1> DEFINE Own == Assistant \cup ToolResult \cup {"reminder"}
<1>1. Own \subseteq Entries \ Msgs
  BY MessageKinds
<1> HIDE DEF Own
<1>2. CASE UNCHANGED vars
  BY <1>2 DEF vars
<1>3. CASE HostStep
  BY <1>3 DEF HostStep, Submit, TakeBack, Abort, Prompt, Continue
<1>4. CASE ListenerThrows
  BY <1>4, <1>1, ThrowFacts DEF Own
<1>5. CASE LoopStep
  <2>1. CASE RecordPrompt \/ Inject
    BY <2>1 DEF RecordPrompt, Inject, hostVars
  <2>2. CASE BudgetStop \/ Interrupt \/ InterruptLimit \/ FailRun
    <3>1. {"notice", "reminder", "error", "aborted"} \subseteq Entries \ Msgs
      BY <1>1 DEF Own, Assistant
    <3> QED BY <2>2, <3>1 DEF BudgetStop, Interrupt, InterruptLimit, FailRun, hostVars
  <2>3. CASE \E a \in Answers : AnswerArrives(a)
    <3>1. Answers \subseteq Entries \ Msgs
      BY <1>1 DEF Own, Answers, Assistant
    <3> QED BY <2>3, <3>1 DEF AnswerArrives, hostVars
  <2>4. CASE \E r \in ToolResult : RunTools(r)
    <3>1. ToolResult \subseteq Entries \ Msgs
      BY <1>1 DEF Own
    <3> QED BY <2>4, <3>1 DEF RunTools, hostVars
  <2>5. CASE OpenRun \/ PollSteering \/ BeginTurn \/ SendRequest \/ StreamThrows \/ StreamStarts
             \/ EndTurn \/ StopTurn \/ PollFollowUps \/ EmitAgentEnd \/ FinishRun
    BY <2>5 DEF OpenRun, PollSteering, BeginTurn, SendRequest, StreamThrows, StreamStarts,
                EndTurn, StopTurn, PollFollowUps, EmitAgentEnd, FinishRun
  <2> QED BY <1>5, <2>1, <2>2, <2>3, <2>4, <2>5 DEF LoopStep
<1> QED BY <1>2, <1>3, <1>4, <1>5 DEF Next

\* A drain takes the whole of the priority queue before any of the other, and
\* nothing that it did not find there.
LEMMA DrainRanges ==
    ASSUME TypeOK
    PROVE  /\ SteeringDrain.left["priority"] = <<>>
           /\ Range(SteeringDrain.left["steer"]) \subseteq Range(queue["steer"])
           /\ \A c \in {"followUp", "passive"} : SteeringDrain.left[c] = queue[c]
           /\ Range(SteeringDrain.taken) \subseteq Range(queue["priority"]) \cup Range(queue["steer"])
           /\ SteeringDrain.taken = <<>> => queue["priority"] = <<>> /\ queue["steer"] = <<>>
           /\ Range(FollowUpDrain.left["followUp"]) \subseteq Range(queue["followUp"])
           /\ \A c \in Queues \ {"followUp"} : FollowUpDrain.left[c] = queue[c]
           /\ Range(FollowUpDrain.taken) \subseteq Range(queue["followUp"])
           /\ FollowUpDrain.taken = <<>> => queue["followUp"] = <<>>
<1>1. {"priority", "steer", "followUp", "passive"} = Queues /\ DOMAIN queue = Queues
  BY DEF Queues, TypeOK
<1>2. queue["priority"] \in Seq(Msgs) /\ queue["steer"] \in Seq(Msgs) /\ queue["followUp"] \in Seq(Msgs)
  BY <1>1 DEF TypeOK
<1> DEFINE t == Taken(queue["steer"], SteeringMode)
<1>3. /\ t \in Seq(Msgs) /\ Range(t) \subseteq Range(queue["steer"])
      /\ Range(Kept(queue["steer"], SteeringMode)) \subseteq Range(queue["steer"])
      /\ t = <<>> => queue["steer"] = <<>>
  BY <1>2, TakenFacts
<1>4. /\ Range(Taken(queue["followUp"], FollowUpMode)) \subseteq Range(queue["followUp"])
      /\ Range(Kept(queue["followUp"], FollowUpMode)) \subseteq Range(queue["followUp"])
      /\ Taken(queue["followUp"], FollowUpMode) = <<>> => queue["followUp"] = <<>>
  BY <1>2, TakenFacts
<1> HIDE DEF t
<1>5. /\ Range(queue["priority"] \o t) = Range(queue["priority"]) \cup Range(t)
      /\ queue["priority"] \o t = <<>> => queue["priority"] = <<>> /\ t = <<>>
  BY <1>2, <1>3, ConcatFacts
<1>6. SteeringDrain.taken = queue["priority"] \o t
  BY DEF SteeringDrain, t
<1>7. FollowUpDrain.taken = Taken(queue["followUp"], FollowUpMode)
  BY DEF FollowUpDrain
<1>8. /\ SteeringDrain.left["priority"] = <<>>
      /\ SteeringDrain.left["steer"] = Kept(queue["steer"], SteeringMode)
      /\ \A c \in {"followUp", "passive"} : SteeringDrain.left[c] = queue[c]
  BY <1>1 DEF SteeringDrain
<1>9. /\ FollowUpDrain.left["followUp"] = Kept(queue["followUp"], FollowUpMode)
      /\ \A c \in Queues \ {"followUp"} : FollowUpDrain.left[c] = queue[c]
  BY <1>1 DEF FollowUpDrain
<1> QED BY <1>3, <1>4, <1>5, <1>6, <1>7, <1>8, <1>9

\* Channels share no message.
LEMMA ChannelsDiffer ==
    ASSUME NEW c \in Channels, NEW d \in Channels, NEW m, m \in Range(Source[c]), m \in Range(Source[d])
    PROVE  c = d
OBVIOUS

\* A run starts: what it is given came from one drain, or from its caller.
LEMMA WaitingStart ==
    ASSUME WaitingInv, NEW prompts, NEW skip \in BOOLEAN, StartRun(prompts, skip),
           runOf' = runOf, \A c \in Queues : Range(queue'[c]) \subseteq Range(queue[c]),
           Range(prompts) \cap Range(Source["passive"]) = {},
           Range(prompts) \cap Range(Source["steer"]) # {} => queue'["priority"] = <<>>
    PROVE  KindsInv' /\ LateInv' /\ PriorityInv' /\ ExpireInv'
<1>1. pc = "idle" /\ pc' = "opening" /\ pending' = prompts /\ moreTools' = TRUE /\ stop' = "none"
  BY DEF StartRun, Running
<1>2. KindsInv'
  BY DEF WaitingInv, KindsInv
<1>3. LateInv'
  BY <1>1 DEF LateInv
<1>4. PriorityInv'
  BY <1>1, EmptyRange DEF PriorityInv
<1>5. ExpireInv'
  <2> SUFFICES ASSUME NEW m \in Range(Source["passive"]),
                      m \in Range(queue'["passive"]) \cup Range(pending')
               PROVE  runOf'[m] = 0
    BY DEF ExpireInv
  <2>1. m \in Range(queue["passive"])
    BY <1>1 DEF Queues
  <2> QED BY <1>1, <2>1 DEF WaitingInv, ExpireInv, Running
<1> QED BY <1>2, <1>3, <1>4, <1>5

LEMMA WaitingHost ==
    ASSUME WaitingInv, HostStep
    PROVE  KindsInv' /\ LateInv' /\ PriorityInv' /\ ExpireInv'
<1>t. TypeOK /\ \A c \in Queues : queue[c] \in Seq(Msgs)
  BY DEF WaitingInv, ConversationInv, TypeOK
<1>q. Queues = {"priority", "steer", "followUp", "passive"} /\ Queues \subseteq Channels
      /\ "prompt" \in Channels
  BY DEF Queues, Channels
<1>1. ASSUME NEW c \in Queues, Submit(c)
      PROVE  KindsInv' /\ LateInv' /\ PriorityInv' /\ ExpireInv'
  <2> DEFINE m == Source[c][submitted[c] + 1]
  <2>1. m \in Range(Source[c]) /\ m \in Msgs
    <3>1. c \in Channels /\ submitted[c] \in Nat /\ submitted[c] < Len(Source[c])
      BY <1>1, <1>t, <1>q DEF Submit, TypeOK
    <3> QED BY <3>1, SourceFacts
  <2>2. queue' = [queue EXCEPT ![c] = Append(@, m)] /\ Note(c, m)
        /\ UNCHANGED <<pc, pending, moreTools, skipPoll, stop, runs>>
    BY <1>1 DEF Submit, runVars
  <2> HIDE DEF m
  <2>3. Range(Append(queue[c], m)) = Range(queue[c]) \cup {m}
    BY <1>t, <2>1, AppendFacts
  <2>4. /\ Range(queue'[c]) = Range(queue[c]) \cup {m}
        /\ \A d \in Queues \ {c} : queue'[d] = queue[d]
    BY <1>t, <2>2, <2>3 DEF TypeOK
  <2>5. late \subseteq late' /\ (c # "passive" => m \in late')
    BY <2>2 DEF Note
  <2>6. ASSUME NEW d \in Queues
        PROVE  /\ Range(queue'[d]) \subseteq Range(Source[d])
               /\ d # "passive" /\ Range(queue[d]) \subseteq late => Range(queue'[d]) \subseteq late'
    <3>1. Range(queue[d]) \subseteq Range(Source[d])
      BY DEF WaitingInv, KindsInv
    <3>2. CASE d = c
      BY <2>1, <2>4, <2>5, <3>1, <3>2
    <3>3. CASE d # c
      <4>1. queue'[d] = queue[d]
        BY <2>4, <3>3
      <4> QED BY <2>5, <3>1, <4>1
    <3> QED BY <3>2, <3>3
  <2>7. \A d \in Queues \ {"passive"} : Range(queue[d]) \subseteq late => Range(queue'[d]) \subseteq late'
    BY <2>6
  <2>11. KindsInv'
    BY <2>6 DEF KindsInv
  <2>8. LateInv'
    <3>1. AnotherTurn' = AnotherTurn
      BY <2>2 DEF AnotherTurn
    <3> QED BY <2>2, <2>7, <3>1, <1>q DEF WaitingInv, LateInv
  <2>9. PriorityInv'
    BY <2>2, <2>7, <1>q DEF WaitingInv, PriorityInv
  <2>10. ExpireInv'
    <3>1. CASE c = "passive"
      <4>1. runOf' = [runOf EXCEPT ![m] = IF Running THEN runs ELSE 0]
            /\ runOf \in [Range(Source["passive"]) -> Nat]
        BY <1>t, <2>2, <3>1 DEF Note, TypeOK
      <4>2. runOf'[m] = IF Running THEN runs ELSE 0
        BY <2>1, <3>1, <4>1
      <4>3. \A x \in Range(Source["passive"]) \ {m} : runOf'[x] = runOf[x]
        BY <4>1
      <4> QED BY <2>2, <2>4, <3>1, <4>2, <4>3 DEF WaitingInv, ExpireInv, Running
    <3>2. CASE c # "passive"
      <4>1. runOf' = runOf /\ queue'["passive"] = queue["passive"]
        BY <2>2, <2>4, <3>2, <1>q DEF Note
      <4> QED BY <2>2, <4>1 DEF WaitingInv, ExpireInv, Running
    <3> QED BY <3>1, <3>2
  <2> QED BY <2>8, <2>9, <2>10, <2>11
<1>2. ASSUME NEW cs \in {Steering, {"followUp"}, Steering \cup {"followUp"}}, TakeBack(cs)
      PROVE  KindsInv' /\ LateInv' /\ PriorityInv' /\ ExpireInv'
  <2>1. UNCHANGED <<pc, pending, moreTools, skipPoll, stop, runs, runOf, late>>
    BY <1>2 DEF TakeBack, runVars
  <2>2. \A d \in Queues : Range(queue'[d]) \subseteq Range(queue[d])
    <3> SUFFICES ASSUME NEW d \in Queues PROVE Range(queue'[d]) \subseteq Range(queue[d])
      OBVIOUS
    <3>1. queue'[d] \in {queue[d], <<>>}
      BY <1>2 DEF TakeBack
    <3> QED BY <3>1, EmptyRange
  <2>3. AnotherTurn' = AnotherTurn
    BY <2>1 DEF AnotherTurn
  <2>4. KindsInv'
    BY <2>2 DEF WaitingInv, KindsInv
  <2>5. LateInv'
    BY <2>1, <2>2, <2>3, <1>q DEF WaitingInv, LateInv
  <2>6. PriorityInv'
    BY <2>1, <2>2, <1>q DEF WaitingInv, PriorityInv
  <2>7. ExpireInv'
    BY <2>1, <2>2, <1>q DEF WaitingInv, ExpireInv, Running
  <2> QED BY <2>4, <2>5, <2>6, <2>7
<1>3. CASE Abort
  BY <1>3 DEF Abort, hostVars, AnotherTurn, Running, WaitingInv, KindsInv, LateInv,
              PriorityInv, ExpireInv
<1>4. CASE Prompt
  <2> DEFINE m == Source["prompt"][submitted["prompt"] + 1]
  <2>1. m \in Range(Source["prompt"])
    <3>1. submitted["prompt"] \in Nat /\ submitted["prompt"] < Len(Source["prompt"])
      BY <1>4, <1>t, <1>q DEF Prompt, TypeOK
    <3>2. submitted["prompt"] + 1 \in 1 .. Len(Source["prompt"])
      BY <3>1, <1>q, SourceFacts
    <3> QED BY <3>2, <1>q, SourceFacts
  <2>2. StartRun(<<m>>, FALSE) /\ queue' = queue /\ runOf' = runOf
    BY <1>4 DEF Prompt
  <2> HIDE DEF m
  <2>3. Range(<<m>>) = {m}
    BY DEF Range
  <2>4. m \notin Range(Source["passive"]) /\ m \notin Range(Source["steer"])
    BY <2>1, <1>q, ChannelsDiffer
  <2> QED BY <2>2, <2>3, <2>4, WaitingStart
<1>5. CASE Continue
  <2>1. runOf' = runOf
    BY <1>5 DEF Continue
  <2>2. CASE StartRun(<<>>, FALSE) /\ UNCHANGED queue
    BY <2>1, <2>2, WaitingStart, EmptyRange
  <2>3. CASE StartRun(SteeringDrain.taken, TRUE) /\ queue' = SteeringDrain.left
    <3>1. \A c \in Queues : Range(queue'[c]) \subseteq Range(queue[c])
      BY <1>t, <1>q, <2>3, DrainRanges, EmptyRange
    <3>2. Range(SteeringDrain.taken) \cap Range(Source["passive"]) = {}
      BY <1>t, <1>q, DrainRanges, ChannelsDiffer DEF WaitingInv, KindsInv
    <3> QED BY <1>t, <2>1, <2>3, <3>1, <3>2, WaitingStart, DrainRanges
  <2>4. CASE StartRun(FollowUpDrain.taken, FALSE) /\ queue' = FollowUpDrain.left
    <3>1. \A c \in Queues : Range(queue'[c]) \subseteq Range(queue[c])
      BY <1>t, <1>q, <2>4, DrainRanges
    <3>2. /\ Range(FollowUpDrain.taken) \cap Range(Source["passive"]) = {}
          /\ Range(FollowUpDrain.taken) \cap Range(Source["steer"]) = {}
      BY <1>t, <1>q, DrainRanges, ChannelsDiffer DEF WaitingInv, KindsInv
    <3> QED BY <2>1, <2>4, <3>1, <3>2, WaitingStart
  <2> QED BY <1>5, <2>2, <2>3, <2>4 DEF Continue, ContinueFrom
<1> QED BY <1>1, <1>2, <1>3, <1>4, <1>5 DEF HostStep

LEMMA WaitingLoop ==
    ASSUME WaitingInv, LoopStep
    PROVE  KindsInv' /\ LateInv' /\ PriorityInv' /\ ExpireInv'
<1>t. TypeOK /\ FlightInv /\ AnswerInv /\ pending \in Seq(Msgs)
  BY DEF WaitingInv, ConversationInv, TypeOK
<1>q. Queues = {"priority", "steer", "followUp", "passive"} /\ Queues \subseteq Channels
  BY DEF Queues, Channels
<1>i. KindsInv /\ LateInv /\ PriorityInv /\ ExpireInv
  BY DEF WaitingInv
<1>p. pending # <<>> => Range(Tail(pending)) \subseteq Range(pending)
  BY <1>t, HeadFacts
<1>g. ASSUME \A c \in Queues : Range(queue'[c]) \subseteq Range(queue[c]),
             UNCHANGED <<late, runOf, runs>>, pc # "idle", pc' # "idle",
             Range(pending') \subseteq Range(pending)
      PROVE  KindsInv' /\ PriorityInv' /\ ExpireInv'
  <2>1. KindsInv'
    BY <1>g, <1>i DEF KindsInv
  <2>2. PriorityInv'
    BY <1>g, <1>i, <1>q DEF PriorityInv
  <2>3. ExpireInv'
    BY <1>g, <1>i, <1>q DEF ExpireInv, Running
  <2> QED BY <2>1, <2>2, <2>3
<1>1. CASE OpenRun \/ SendRequest \/ StreamThrows \/ StreamStarts \/ StopTurn \/ EmitAgentEnd
           \/ Interrupt \/ InterruptLimit \/ BudgetStop \/ FailRun
  <2>1. KindsInv' /\ PriorityInv' /\ ExpireInv'
    <3>1. /\ UNCHANGED <<queue, pending, late, runOf, runs>>
          /\ pc # "idle" /\ pc' # "idle"
      BY <1>1 DEF OpenRun, SendRequest, StreamThrows, StreamStarts, StopTurn, EmitAgentEnd,
                  Interrupt, InterruptLimit, BudgetStop, FailRun, hostVars, AtRequest
    <3> QED BY <1>g, <3>1
  <2>2. LateInv'
    BY <1>1, <1>i DEF OpenRun, SendRequest, StreamThrows, StreamStarts, StopTurn, EmitAgentEnd,
                Interrupt, InterruptLimit, BudgetStop, FailRun, hostVars, AtRequest, LateInv,
                AnotherTurn
  <2> QED BY <2>1, <2>2
<1>2. CASE RecordPrompt \/ Inject
  <2>1. KindsInv' /\ PriorityInv' /\ ExpireInv'
    BY <1>2, <1>g, <1>p DEF RecordPrompt, Inject, hostVars
  <2>2. LateInv'
    BY <1>2, <1>i DEF RecordPrompt, Inject, hostVars, LateInv, AnotherTurn
  <2> QED BY <2>1, <2>2
<1>3. CASE PollSteering
  <2>1. /\ UNCHANGED <<late, runOf, runs, moreTools, stop>> /\ skipPoll' = FALSE /\ pc' = "check"
        /\ pc \in {"between", "prompting"} /\ pending = <<>>
    BY <1>3, <1>t DEF PollSteering, hostVars, FlightInv
  <2>2. CASE skipPoll /\ pending' = <<>> /\ UNCHANGED queue
    <3>1. KindsInv' /\ PriorityInv' /\ ExpireInv'
      BY <1>g, <2>1, <2>2
    <3>2. LateInv'
      BY <2>1, <2>2, <1>i DEF LateInv, AnotherTurn
    <3> QED BY <3>1, <3>2
  <2>3. CASE pending' = SteeringDrain.taken /\ queue' = SteeringDrain.left
    <3>1. queue'["priority"] = <<>> /\ \A c \in Queues : Range(queue'[c]) \subseteq Range(queue[c])
      BY <1>t, <1>q, <2>3, DrainRanges, EmptyRange
    <3>2. KindsInv'
      BY <1>i, <3>1 DEF KindsInv
    <3>3. PriorityInv'
      BY <3>1, EmptyRange DEF PriorityInv
    <3>4. Range(pending') \cap Range(Source["passive"]) = {}
      BY <1>t, <1>q, <1>i, <2>3, DrainRanges, ChannelsDiffer DEF KindsInv
    <3>5. ExpireInv'
      BY <1>i, <1>q, <2>1, <3>1, <3>4 DEF ExpireInv, Running
    <3>6. LateInv'
      <4>1. pending' = <<>> => Range(queue'["priority"]) = {} /\ Range(queue'["steer"]) = {}
        BY <1>t, <1>q, <2>3, <3>1, DrainRanges, EmptyRange
      <4>2. stop' # "done"
        BY <1>i, <2>1 DEF LateInv
      <4> QED BY <2>1, <4>1, <4>2 DEF LateInv, AnotherTurn
    <3> QED BY <3>2, <3>3, <3>5, <3>6
  <2> QED BY <1>3, <2>2, <2>3 DEF PollSteering
<1>4. CASE BeginTurn
  <2> DEFINE x == queue["passive"]
  <2>1. x \in Seq(Msgs) /\ Range(x) \subseteq Range(Source["passive"])
    BY <1>t, <1>q, <1>i DEF TypeOK, KindsInv
  <2>2. /\ pending' = pending \o x /\ queue' = [queue EXCEPT !["passive"] = <<>>]
        /\ UNCHANGED <<late, runOf, runs, skipPoll, stop>> /\ pc = "check" /\ pc' = "inject"
    BY <1>4 DEF BeginTurn, hostVars
  <2>3. queue'["passive"] = <<>> /\ \A c \in Queues \ {"passive"} : queue'[c] = queue[c]
    BY <1>t, <1>q, <2>2 DEF TypeOK
  <2>4. x = queue["passive"]
    OBVIOUS
  <2> HIDE DEF x
  <2>5. Range(pending') = Range(pending) \cup Range(x)
    BY <1>t, <2>1, <2>2, ConcatFacts
  <2>6. Range(x) \cap Range(Source["steer"]) = {}
    BY <1>q, <2>1, ChannelsDiffer
  <2>7. KindsInv'
    BY <1>i, <2>3, EmptyRange DEF KindsInv
  <2>8. PriorityInv'
    BY <1>i, <1>q, <2>2, <2>3, <2>5, <2>6 DEF PriorityInv
  <2>9. ExpireInv'
    BY <1>i, <2>2, <2>3, <2>4, <2>5, EmptyRange DEF ExpireInv, Running
  <2>10. LateInv'
    BY <1>i, <2>2 DEF LateInv
  <2> QED BY <2>7, <2>8, <2>9, <2>10
<1>5. ASSUME NEW a \in Answers, AnswerArrives(a)
      PROVE  KindsInv' /\ LateInv' /\ PriorityInv' /\ ExpireInv'
  <2>1. pc = "streaming" /\ pc' \in {"tools", "turnEnd", "stopped"}
        /\ stop' \in {"error", "aborted", stop}
        /\ UNCHANGED <<queue, late, runOf, runs, pending, skipPoll>>
    BY <1>5 DEF AnswerArrives, hostVars
  <2>2. KindsInv' /\ PriorityInv' /\ ExpireInv'
    BY <1>g, <2>1
  <2>3. LateInv'
    BY <1>i, <2>1 DEF LateInv
  <2> QED BY <2>2, <2>3
<1>6. ASSUME NEW r \in ToolResult, RunTools(r)
      PROVE  KindsInv' /\ LateInv' /\ PriorityInv' /\ ExpireInv'
  <2>1. pc = "tools" /\ pc' = "turnEnd" /\ UNCHANGED <<stop, queue, late, runOf, runs, pending, skipPoll>>
    BY <1>6 DEF RunTools, hostVars
  <2>2. KindsInv' /\ PriorityInv' /\ ExpireInv'
    BY <1>g, <2>1
  <2>3. LateInv'
    BY <1>i, <2>1 DEF LateInv
  <2> QED BY <2>2, <2>3
<1>7. CASE EndTurn
  <2>1. /\ pc = "turnEnd" /\ pc' \in {"ending", "between"} /\ stop' \in {"aborted", stop}
        /\ UNCHANGED <<queue, runOf, runs, pending, skipPoll>> /\ pending = <<>>
    BY <1>7, <1>t DEF EndTurn, FlightInv
  <2>2. KindsInv' /\ ExpireInv' /\ PriorityInv'
    BY <1>i, <2>1, EmptyRange DEF KindsInv, ExpireInv, PriorityInv, Running
  <2>3. LateInv'
    BY <1>i, <2>1 DEF LateInv
  <2> QED BY <2>2, <2>3
<1>8. CASE PollFollowUps
  <2>1. /\ pc = "check" /\ pc' = (IF pending' = <<>> THEN "ending" ELSE "check") /\ moreTools' = TRUE
        /\ stop' = (IF pending' = <<>> THEN "done" ELSE stop)
        /\ UNCHANGED <<late, runOf, runs, skipPoll>> /\ ~ AnotherTurn /\ pending = <<>>
        /\ pending' = FollowUpDrain.taken /\ queue' = FollowUpDrain.left
    BY <1>8 DEF PollFollowUps, hostVars, AnotherTurn
  <2>2. /\ \A c \in Queues \ {"followUp"} : queue'[c] = queue[c]
        /\ \A c \in Queues : Range(queue'[c]) \subseteq Range(queue[c])
    BY <1>t, <2>1, DrainRanges
  <2>3. Range(pending') \subseteq Range(Source["followUp"])
    BY <1>t, <1>q, <1>i, <2>1, DrainRanges DEF KindsInv
  <2>4. Range(pending') \cap (Range(Source["passive"]) \cup Range(Source["steer"])) = {}
    BY <1>q, <2>3, ChannelsDiffer
  <2>5. KindsInv'
    BY <1>i, <2>2 DEF KindsInv
  <2>6. PriorityInv'
    BY <2>4 DEF PriorityInv
  <2>7. ExpireInv'
    BY <1>i, <1>q, <2>1, <2>2, <2>4 DEF ExpireInv, Running
  <2>8. LateInv'
    <3>1. pending' = <<>> => Range(queue'["followUp"]) = {}
      BY <1>t, <1>q, <2>1, <2>2, DrainRanges, EmptyRange
    <3>2. ~ skipPoll /\ stop # "done"
      BY <1>i, <2>1 DEF LateInv
    <3>3. \A c \in {"priority", "steer"} : Range(queue'[c]) \subseteq late
      BY <1>i, <1>q, <2>1, <2>2 DEF LateInv
    <3> QED BY <2>1, <3>1, <3>2, <3>3 DEF LateInv, AnotherTurn
  <2> QED BY <2>5, <2>6, <2>7, <2>8
<1>9. CASE FinishRun
  <2>1. /\ pc = "finishing" /\ pc' = "idle" /\ pending' = <<>> /\ skipPoll' = FALSE
        /\ UNCHANGED <<late, runOf, runs, stop>> /\ queue' = [queue EXCEPT !["passive"] = <<>>]
    BY <1>9 DEF FinishRun, hostVars
  <2>2. queue'["passive"] = <<>> /\ \A c \in Queues \ {"passive"} : queue'[c] = queue[c]
    BY <1>t, <1>q, <2>1 DEF TypeOK
  <2>3. KindsInv'
    BY <1>i, <2>2, EmptyRange DEF KindsInv
  <2>4. PriorityInv' /\ ExpireInv'
    BY <2>1, <2>2, EmptyRange DEF PriorityInv, ExpireInv
  <2>5. LateInv'
    BY <1>i, <1>q, <2>1, <2>2 DEF LateInv
  <2> QED BY <2>3, <2>4, <2>5
<1> QED BY <1>1, <1>2, <1>3, <1>4, <1>5, <1>6, <1>7, <1>8, <1>9 DEF LoopStep

LEMMA Waiting == Spec => []WaitingInv
<1>1. Init => WaitingInv
  <2> SUFFICES ASSUME Init PROVE WaitingInv
    OBVIOUS
  <2>1. ConversationInv
    BY InitTypes DEF Init, ConversationInv, FlightInv, ContextInv, AnswerInv
  <2>2. \A c \in Queues : Range(queue[c]) = {}
    BY EmptyRange DEF Init
  <2>3. Range(pending) = {} /\ "passive" \in Queues
    BY EmptyRange DEF Init, Queues
  <2>4. KindsInv /\ PriorityInv /\ ExpireInv
    BY <2>2, <2>3 DEF KindsInv, PriorityInv, ExpireInv
  <2>5. LateInv
    BY DEF Init, LateInv
  <2> QED BY <2>1, <2>4, <2>5 DEF WaitingInv
<1>2. WaitingInv /\ ConversationInv' /\ [Next]_vars => WaitingInv'
  <2> SUFFICES ASSUME WaitingInv, [Next]_vars
               PROVE  KindsInv' /\ LateInv' /\ PriorityInv' /\ ExpireInv'
    BY DEF WaitingInv
  <2>1. CASE UNCHANGED vars
    BY <2>1 DEF vars, runVars, hostVars, WaitingInv, KindsInv, LateInv, PriorityInv, ExpireInv,
                Running, AnotherTurn
  <2>2. CASE ListenerThrows
    <3>1. TypeOK
      BY DEF WaitingInv, ConversationInv
    <3>2. /\ pc' = "failing" /\ pending' = <<>> /\ pc # "idle"
          /\ UNCHANGED <<queue, moreTools, skipPoll, stop, runOf, late, runs>>
      BY <2>2, <3>1, ThrowFacts DEF ListenerThrows
    <3>3. KindsInv' /\ PriorityInv' /\ ExpireInv'
      BY <3>2, EmptyRange DEF WaitingInv, KindsInv, PriorityInv, ExpireInv, Running
    <3>4. LateInv'
      BY <3>2 DEF WaitingInv, LateInv
    <3> QED BY <3>3, <3>4
  <2> QED BY <2>1, <2>2, WaitingHost, WaitingLoop DEF Next
<1> QED BY <1>1, <1>2, Conversation, PTL DEF Spec

\* When a run has ended by itself, only steering messages and follow-ups that
\* came after its last turn wait: whatever was queued before was heard.
THEOREM OnlyLateStrands == Spec => []StrandedOnlyLate
<1>1. WaitingInv => StrandedOnlyLate
  BY DEF WaitingInv, LateInv, StrandedOnlyLate
<1> QED BY <1>1, Waiting, PTL

\* What a step records anew of the host's messages was in flight.
LEMMA NewlyRecordedFacts ==
    ASSUME TypeOK, [Next]_vars
    PROVE  NewlyRecorded \cap Msgs \subseteq Range(pending)
<1>1. transcript \in Seq(Entries) /\ pending \in Seq(Msgs) /\ Msgs \subseteq Entries
  BY MessageKinds DEF TypeOK
<1>2. CASE transcript' = transcript
  BY <1>2 DEF NewlyRecorded
<1>3. ASSUME NEW e \in Entries, transcript' = Append(transcript, e)
      PROVE  NewlyRecorded \subseteq {e}
  <2>1. Range(Append(transcript, e)) = Range(transcript) \cup {e}
    BY <1>1, AppendFacts
  <2> QED BY <1>3, <2>1 DEF NewlyRecorded
<1>4. pending # <<>> => Head(pending) \in Entries /\ Head(pending) \in Range(pending)
  BY <1>1, HeadFacts
<1> QED BY <1>2, <1>3, <1>4, RecordFacts

\* A regular steering message is recorded only when no priority message that
\* was there at the end of the last turn still waits (drain).
THEOREM PriorityIsFirst == Spec => PriorityFirst
<1>1. WaitingInv /\ [Next]_vars =>
        [NewlyRecorded \cap Range(Source["steer"]) # {} => Range(queue["priority"]) \subseteq late]_vars
  <2> SUFFICES ASSUME WaitingInv, [Next]_vars, NewlyRecorded \cap Range(Source["steer"]) # {}
               PROVE  Range(queue["priority"]) \subseteq late
    OBVIOUS
  <2>1. TypeOK /\ PriorityInv
    BY DEF WaitingInv, ConversationInv
  <2>2. Range(Source["steer"]) \subseteq Msgs
    BY SourceFacts DEF Channels, Queues
  <2> QED BY <2>1, <2>2, NewlyRecordedFacts DEF PriorityInv
<1> QED BY <1>1, Waiting, PTL DEF Spec, PriorityFirst

\* A passive notice queued during a run is never recorded by a later one: what
\* the loop did not drain expires with the run (finishRun).
THEOREM NoticesExpire == Spec => ExpiresWithRun
<1>1. WaitingInv /\ [Next]_vars =>
        [\A m \in NewlyRecorded \cap Range(Source["passive"]) : runOf[m] \in {0, runs}]_vars
  <2> SUFFICES ASSUME WaitingInv, [Next]_vars, NEW m \in NewlyRecorded \cap Range(Source["passive"])
               PROVE  runOf[m] \in {0, runs}
    OBVIOUS
  <2>1. TypeOK /\ ExpireInv
    BY DEF WaitingInv, ConversationInv
  <2>2. m \in Msgs
    BY SourceFacts DEF Channels, Queues
  <2> QED BY <2>1, <2>2, NewlyRecordedFacts DEF ExpireInv
<1> QED BY <1>1, Waiting, PTL DEF Spec, ExpiresWithRun

-----------------------------------------------------------------------------
(* Follow-ups.                                                             *)

\* Transcript s has come to a point where the agent would stop.
Settled(s) ==
    \E k \in DOMAIN s :
        /\ s[k] \in Assistant \cup {"final"}
        /\ \A n \in k + 1 .. Len(s) : s[n] \in Msgs \cup {"final"}
        /\ s[k] = "call" => \E n \in k + 1 .. Len(s) : s[n] = "final"

\* Follow-ups are in flight only in a settled conversation.
FlightSettled ==
    /\ pc \in {"opening", "prompting", "check", "inject"}
    /\ Range(pending) \cap Range(Source["followUp"]) # {}
    => Settled(transcript)

\* A turn that asks for no other one leaves no tool result to answer.
TurnSettled ==
    \/ pc \in {"between", "check"} /\ ~ moreTools
    \/ pc = "turnEnd" /\ ~ moreTools /\ ~ aborted
    => Settled(transcript)

\* A tool call is the last entry only while it executes, or after a failure.
CallIsLast == transcript # <<>> /\ Last(transcript) = "call" => pc \in {"tools", "failing"}

FollowUpInv == FollowUpsWait /\ FlightSettled /\ TurnSettled /\ CallIsLast

\* An assistant's entry other than a tool call, or a final result, settles it.
LEMMA SettledEnd ==
    ASSUME NEW s \in Seq(Entries), s # <<>>, Last(s) \in (Assistant \cup {"final"}) \ {"call"}
    PROVE  Settled(s)
<1>1. Len(s) \in DOMAIN s /\ Len(s) + 1 .. Len(s) = {}
  OBVIOUS
<1> QED BY <1>1 DEF Settled, Last

\* A host message recorded after it leaves it settled.
LEMMA SettledAppend ==
    ASSUME NEW s \in Seq(Entries), NEW m \in Msgs, Settled(s)
    PROVE  Settled(Append(s, m))
<1> DEFINE t == Append(s, m)
<1>1. m \in Entries
  BY MessageKinds
<1>2. /\ Len(t) = Len(s) + 1 /\ Len(s) \in Nat /\ DOMAIN t = 1 .. Len(s) + 1
      /\ DOMAIN s = 1 .. Len(s) /\ t[Len(s) + 1] = m
      /\ \A i \in 1 .. Len(s) : t[i] = s[i]
  BY <1>1
<1> HIDE DEF t
<1>3. PICK k \in DOMAIN s :
        /\ s[k] \in Assistant \cup {"final"}
        /\ \A n \in k + 1 .. Len(s) : s[n] \in Msgs \cup {"final"}
        /\ s[k] = "call" => \E n \in k + 1 .. Len(s) : s[n] = "final"
  BY DEF Settled
<1>4. k \in DOMAIN t /\ t[k] = s[k]
  BY <1>2
<1>5. ASSUME NEW n \in k + 1 .. Len(t) PROVE t[n] \in Msgs \cup {"final"}
  <2>1. CASE n = Len(s) + 1
    BY <1>2, <2>1
  <2>2. CASE n # Len(s) + 1
    <3>1. n \in k + 1 .. Len(s) /\ t[n] = s[n]
      BY <1>2, <2>2
    <3> QED BY <1>3, <3>1
  <2> QED BY <2>1, <2>2
<1>6. ASSUME s[k] = "call" PROVE \E n \in k + 1 .. Len(t) : t[n] = "final"
  <2>1. PICK n \in k + 1 .. Len(s) : s[n] = "final"
    BY <1>3, <1>6
  <2>2. n \in k + 1 .. Len(t) /\ t[n] = "final"
    BY <1>2, <2>1
  <2> QED BY <2>2
<1>7. Settled(t)
  BY <1>3, <1>4, <1>5, <1>6 DEF Settled
<1> QED BY <1>7 DEF t

\* A transcript grows by a follow-up only when it is settled.
LEMMA FollowUpRecorded ==
    ASSUME TypeOK, FollowUpsWait, NEW e \in Entries, transcript' = Append(transcript, e),
           e \in Range(Source["followUp"]) => Settled(transcript)
    PROVE  FollowUpsWait'
<1> DEFINE s == transcript
           t == transcript'
           Before(u, i) ==
             \E k \in 1 .. i - 1 :
                /\ u[k] \in Assistant \cup {"final"}
                /\ \A n \in k + 1 .. i - 1 : u[n] \in Msgs \cup {"final"}
                /\ u[k] = "call" => \E n \in k + 1 .. i - 1 : u[n] = "final"
<1>1. s \in Seq(Entries)
  BY DEF TypeOK
<1>2. /\ Len(s) \in Nat /\ DOMAIN t = 1 .. Len(s) + 1 /\ DOMAIN s = 1 .. Len(s)
      /\ t[Len(s) + 1] = e /\ \A i \in 1 .. Len(s) : t[i] = s[i]
  BY <1>1
<1>3. \A i \in DOMAIN s : s[i] \in Range(Source["followUp"]) => Before(s, i)
  BY DEF FollowUpsWait
<1>s. Settled(s) => Before(s, Len(s) + 1)
  <2>1. (Len(s) + 1) - 1 = Len(s) /\ DOMAIN s = 1 .. Len(s)
    BY <1>2
  <2> QED BY <2>1 DEF Settled
<1> HIDE DEF s, t
<1>4. ASSUME NEW i \in 1 .. Len(s) + 1, Before(s, i) PROVE Before(t, i)
  <2>1. \A n \in 1 .. i - 1 : t[n] = s[n]
    BY <1>2
  <2>2. PICK k \in 1 .. i - 1 :
          /\ s[k] \in Assistant \cup {"final"}
          /\ \A n \in k + 1 .. i - 1 : s[n] \in Msgs \cup {"final"}
          /\ s[k] = "call" => \E n \in k + 1 .. i - 1 : s[n] = "final"
    BY <1>4
  <2>3. \A n \in k + 1 .. i - 1 : n \in 1 .. i - 1
    OBVIOUS
  <2> QED BY <2>1, <2>2, <2>3
<1>5. ASSUME NEW i \in DOMAIN t, t[i] \in Range(Source["followUp"]) PROVE Before(t, i)
  <2>1. CASE i = Len(s) + 1
    <3>1. Before(s, i)
      BY <1>2, <1>5, <1>s, <2>1 DEF s
    <3> QED BY <1>2, <1>4, <3>1
  <2>2. CASE i # Len(s) + 1
    <3>1. i \in DOMAIN s /\ t[i] = s[i]
      BY <1>2, <2>2
    <3>2. Before(s, i)
      BY <1>3, <1>5, <3>1
    <3> QED BY <1>2, <1>4, <3>2
  <2> QED BY <2>1, <2>2
<1>6. FollowUpsWait' <=> \A i \in DOMAIN t : t[i] \in Range(Source["followUp"]) => Before(t, i)
  BY DEF FollowUpsWait, t
<1> QED BY <1>5, <1>6

\* Whatever is recorded, a follow-up is recorded in a settled transcript.
LEMMA FollowUpsWaitStep ==
    ASSUME WaitingInv, FollowUpInv, [Next]_vars
    PROVE  FollowUpsWait'
<1>1. TypeOK /\ pending \in Seq(Msgs)
  BY DEF WaitingInv, ConversationInv, TypeOK
<1>2. Range(Source["followUp"]) \subseteq Msgs
  BY SourceFacts DEF Channels, Queues
<1>3. CASE transcript' = transcript
  BY <1>3 DEF FollowUpInv, FollowUpsWait
<1>4. CASE /\ pc \in {"prompting", "inject"} /\ pending # <<>>
           /\ transcript' = Append(transcript, Head(pending))
  <2>1. Head(pending) \in Entries /\ Head(pending) \in Range(pending)
    BY <1>1, <1>4, HeadFacts, MessageKinds
  <2>2. Head(pending) \in Range(Source["followUp"]) => Settled(transcript)
    BY <1>4, <2>1 DEF FollowUpInv, FlightSettled
  <2> QED BY <1>1, <1>4, <2>1, <2>2, FollowUpRecorded DEF FollowUpInv
<1>5. CASE \E e \in Entries \ Msgs : transcript' = Append(transcript, e)
  BY <1>1, <1>2, <1>5, FollowUpRecorded DEF FollowUpInv
<1> QED BY <1>1, <1>3, <1>4, <1>5, RecordFacts

\* A run that continues takes follow-ups only after an assistant's answer.
LEMMA FollowUpStart ==
    ASSUME WaitingInv, FollowUpInv, NEW prompts, NEW skip, StartRun(prompts, skip),
           transcript' = transcript,
           \/ Range(prompts) \cap Range(Source["followUp"]) = {}
           \/ transcript # <<>> /\ Last(transcript) \in Assistant
    PROVE  FlightSettled' /\ TurnSettled' /\ CallIsLast'
<1>1. pc = "idle" /\ pc' = "opening" /\ pending' = prompts /\ moreTools' = TRUE
  BY DEF StartRun, Running
<1>2. transcript # <<>> => Last(transcript) # "call"
  BY <1>1 DEF FollowUpInv, CallIsLast
<1>3. transcript # <<>> /\ Last(transcript) \in Assistant => Settled(transcript)
  BY <1>2, SettledEnd DEF WaitingInv, ConversationInv, TypeOK
<1>4. FlightSettled'
  BY <1>1, <1>3 DEF FlightSettled, Settled
<1> QED BY <1>1, <1>2, <1>4 DEF TurnSettled, CallIsLast

LEMMA FollowUpHost ==
    ASSUME WaitingInv, FollowUpInv, HostStep
    PROVE  FlightSettled' /\ TurnSettled' /\ CallIsLast'
<1>t. TypeOK /\ KindsInv
  BY DEF WaitingInv, ConversationInv
<1>q. Queues = {"priority", "steer", "followUp", "passive"} /\ Queues \subseteq Channels
      /\ "prompt" \in Channels
  BY DEF Queues, Channels
<1>1. CASE \/ \E c \in Queues : Submit(c)
           \/ \E cs \in {Steering, {"followUp"}, Steering \cup {"followUp"}} : TakeBack(cs)
           \/ Abort
  <2>1. UNCHANGED <<pc, transcript, pending, moreTools>> /\ (aborted' = aborted \/ aborted' = TRUE)
    BY <1>1 DEF Submit, TakeBack, Abort, runVars
  <2> QED BY <2>1 DEF FollowUpInv, FlightSettled, TurnSettled, CallIsLast, Settled
<1>2. CASE Prompt
  <2> DEFINE m == Source["prompt"][submitted["prompt"] + 1]
  <2>1. m \in Range(Source["prompt"])
    <3>1. submitted["prompt"] \in Nat /\ submitted["prompt"] < Len(Source["prompt"])
      BY <1>2, <1>t, <1>q DEF Prompt, TypeOK
    <3>2. submitted["prompt"] + 1 \in 1 .. Len(Source["prompt"])
      BY <3>1, <1>q, SourceFacts
    <3> QED BY <3>2, <1>q, SourceFacts
  <2>2. StartRun(<<m>>, FALSE) /\ transcript' = transcript
    BY <1>2 DEF Prompt
  <2> HIDE DEF m
  <2>3. Range(<<m>>) = {m}
    BY DEF Range
  <2>4. m \notin Range(Source["followUp"])
    BY <2>1, <1>q, ChannelsDiffer
  <2> QED BY <2>2, <2>3, <2>4, FollowUpStart
<1>3. CASE Continue
  <2>1. transcript' = transcript /\ transcript # <<>>
    BY <1>3 DEF Continue
  <2>2. CASE StartRun(<<>>, FALSE)
    BY <2>1, <2>2, EmptyRange, FollowUpStart
  <2>3. CASE Last(transcript) \in Assistant
             /\ (StartRun(SteeringDrain.taken, TRUE) \/ StartRun(FollowUpDrain.taken, FALSE))
    BY <2>1, <2>3, FollowUpStart
  <2> QED BY <1>3, <2>2, <2>3 DEF Continue, ContinueFrom
<1> QED BY <1>1, <1>2, <1>3 DEF HostStep

LEMMA FollowUpLoop ==
    ASSUME WaitingInv, FollowUpInv, LoopStep
    PROVE  FlightSettled' /\ TurnSettled' /\ CallIsLast'
<1>t. TypeOK /\ FlightInv /\ AnswerInv /\ KindsInv /\ transcript \in Seq(Entries) /\ pending \in Seq(Msgs)
  BY DEF WaitingInv, ConversationInv, TypeOK
<1>q. Queues = {"priority", "steer", "followUp", "passive"} /\ Queues \subseteq Channels
  BY DEF Queues, Channels
<1>i. FlightSettled /\ TurnSettled /\ CallIsLast
  BY DEF FollowUpInv
<1>a. ASSUME NEW e \in Entries
      PROVE  Append(transcript, e) # <<>> /\ Last(Append(transcript, e)) = e
             /\ Append(transcript, e) \in Seq(Entries)
  BY <1>t, AppendFacts
<1>m. "call" \notin Msgs \cup ToolResult \cup {"reminder"}
  BY MessageKinds DEF Assistant
<1>p. pending # <<>> => /\ Head(pending) \in Msgs /\ Head(pending) \in Entries
                        /\ Range(Tail(pending)) \subseteq Range(pending)
  BY <1>t, HeadFacts, MessageKinds
<1>1. CASE OpenRun \/ SendRequest \/ StreamThrows \/ StreamStarts \/ StopTurn \/ EmitAgentEnd \/ EndTurn
  <2>1. transcript' = transcript /\ pending' = pending /\ moreTools' = moreTools
    BY <1>1 DEF OpenRun, SendRequest, StreamThrows, StreamStarts, StopTurn, EmitAgentEnd, EndTurn
  <2>2. CASE pc = "opening" /\ pc' = "prompting"
    BY <1>i, <2>1, <2>2 DEF FlightSettled, TurnSettled, CallIsLast, Settled
  <2>3. CASE pc \notin {"tools", "failing"} /\ pc' \in {"streaming", "failing", "ending", "finishing"}
    BY <1>i, <2>1, <2>3 DEF FlightSettled, TurnSettled, CallIsLast, Settled
  <2>4. CASE pc = "turnEnd" /\ ~ aborted /\ pc' = "between"
    BY <1>i, <2>1, <2>4 DEF FlightSettled, TurnSettled, CallIsLast, Settled
  <2> QED BY <1>1, <2>2, <2>3, <2>4 DEF OpenRun, SendRequest, StreamThrows, StreamStarts,
             StopTurn, EmitAgentEnd, EndTurn, AtRequest
<1>2. CASE RecordPrompt \/ Inject
  <2>1. /\ pc \in {"prompting", "inject"} /\ pc' = pc /\ pending # <<>>
        /\ transcript' = Append(transcript, Head(pending)) /\ pending' = Tail(pending)
    BY <1>2 DEF RecordPrompt, Inject
  <2>2. CallIsLast'
    BY <2>1, <1>a, <1>m, <1>p DEF CallIsLast
  <2>3. Settled(transcript) => Settled(transcript')
    BY <1>t, <1>p, <2>1, SettledAppend
  <2>4. FlightSettled'
    <3>1. Range(pending') \subseteq Range(pending)
      BY <1>p, <2>1
    <3> QED BY <1>i, <2>1, <2>3, <3>1 DEF FlightSettled, Settled
  <2> QED BY <2>1, <2>2, <2>4 DEF TurnSettled
<1>3. CASE PollSteering
  <2>1. /\ pc \in {"between", "prompting"} /\ pc' = "check" /\ transcript' = transcript
        /\ moreTools' = moreTools
        /\ pending' = <<>> \/ pending' = SteeringDrain.taken
    BY <1>3 DEF PollSteering
  <2>2. Range(pending') \cap Range(Source["followUp"]) = {}
    BY <1>t, <1>q, <2>1, DrainRanges, ChannelsDiffer, EmptyRange DEF KindsInv
  <2>3. pc = "prompting" => moreTools
    BY <1>t DEF AnswerInv
  <2> QED BY <1>i, <2>1, <2>2, <2>3 DEF FlightSettled, TurnSettled, CallIsLast, Settled
<1>4. CASE BeginTurn
  <2> DEFINE x == queue["passive"]
  <2>1. x \in Seq(Msgs) /\ Range(x) \cap Range(Source["followUp"]) = {}
    BY <1>t, <1>q, ChannelsDiffer DEF TypeOK, KindsInv
  <2>2. pending' = pending \o x /\ pc = "check" /\ pc' = "inject" /\ transcript' = transcript
    BY <1>4 DEF BeginTurn
  <2> HIDE DEF x
  <2>3. Range(pending') = Range(pending) \cup Range(x)
    BY <1>t, <2>1, <2>2, ConcatFacts
  <2> QED BY <1>i, <2>1, <2>2, <2>3 DEF FlightSettled, TurnSettled, CallIsLast, Settled
<1>5. CASE BudgetStop \/ InterruptLimit \/ FailRun \/ Interrupt
  <2>1. PICK e \in {"notice", "error", "aborted", "reminder"} : transcript' = Append(transcript, e)
    BY <1>5 DEF BudgetStop, InterruptLimit, FailRun, Interrupt
  <2>2. e \in Entries /\ e # "call"
    BY MessageKinds DEF Assistant
  <2>3. CallIsLast'
    BY <1>a, <2>1, <2>2 DEF CallIsLast
  <2>4. pc' \in {"ending", "stopped", "finishing"} \/ (pc' = "inject" /\ pending' = <<>>)
    BY <1>5, <1>t DEF BudgetStop, InterruptLimit, FailRun, Interrupt, FlightInv
  <2>5. FlightSettled'
    BY <2>4, EmptyRange DEF FlightSettled
  <2> QED BY <2>3, <2>4, <2>5 DEF TurnSettled
<1>6. ASSUME NEW a \in Answers, AnswerArrives(a)
      PROVE  FlightSettled' /\ TurnSettled' /\ CallIsLast'
  <2>1. a \in Entries /\ a \in Assistant
    BY MessageKinds DEF Answers, Assistant
  <2>2. /\ transcript' = Append(transcript, a)
        /\ pc' = CASE a = "call" -> "tools" [] a = "answer" -> "turnEnd" [] OTHER -> "stopped"
    BY <1>6 DEF AnswerArrives
  <2>3. CallIsLast'
    BY <1>a, <2>1, <2>2 DEF CallIsLast
  <2>4. a = "answer" => Settled(transcript')
    BY <1>a, <2>1, <2>2, SettledEnd
  <2> QED BY <2>2, <2>3, <2>4 DEF FlightSettled, TurnSettled, Settled
<1>7. ASSUME NEW r \in ToolResult, RunTools(r)
      PROVE  FlightSettled' /\ TurnSettled' /\ CallIsLast'
  <2>1. r \in Entries /\ r # "call" /\ (r # "final" => r = "result")
    BY MessageKinds DEF ToolResult, Assistant
  <2>2. /\ transcript' = Append(transcript, r) /\ pc' = "turnEnd"
        /\ moreTools' = (r # "final" /\ ~ aborted) /\ aborted' = aborted
    BY <1>7 DEF RunTools
  <2>3. CallIsLast'
    BY <1>a, <2>1, <2>2 DEF CallIsLast
  <2>4. r = "final" => Settled(transcript')
    BY <1>a, <2>1, <2>2, SettledEnd
  <2> QED BY <2>2, <2>3, <2>4 DEF FlightSettled, TurnSettled, Settled
<1>8. CASE PollFollowUps
  <2>1. /\ pc = "check" /\ ~ moreTools /\ moreTools' = TRUE /\ pc' \in {"ending", "check"}
        /\ transcript' = transcript
    BY <1>8 DEF PollFollowUps, AnotherTurn
  <2> QED BY <1>i, <2>1 DEF FlightSettled, TurnSettled, CallIsLast, Settled
<1>9. CASE FinishRun
  BY <1>9, <1>i DEF FinishRun, FlightSettled, TurnSettled, CallIsLast
<1> QED BY <1>1, <1>2, <1>3, <1>4, <1>5, <1>6, <1>7, <1>8, <1>9 DEF LoopStep

\* A follow-up is recorded only where the agent would have stopped: no tool
\* result that asks for another turn is left unanswered before it.
THEOREM FollowUpsAreLast == Spec => []FollowUpsWait
<1>1. Init => FollowUpInv
  BY DEF Init, FollowUpInv, FollowUpsWait, FlightSettled, TurnSettled, CallIsLast
<1>2. WaitingInv /\ FollowUpInv /\ [Next]_vars => FollowUpInv'
  <2> SUFFICES ASSUME WaitingInv, FollowUpInv, [Next]_vars PROVE FollowUpInv'
    OBVIOUS
  <2>1. FollowUpsWait'
    BY FollowUpsWaitStep
  <2>2. CASE UNCHANGED vars
    BY <2>1, <2>2 DEF vars, runVars, FollowUpInv, FlightSettled, TurnSettled, CallIsLast, Settled
  <2>3. CASE ListenerThrows
    <3>1. pc' = "failing"
      BY <2>3 DEF ListenerThrows
    <3> QED BY <2>1, <3>1 DEF FollowUpInv, FlightSettled, TurnSettled, CallIsLast
  <2> QED BY <2>1, <2>2, <2>3, FollowUpHost, FollowUpLoop DEF Next, FollowUpInv
<1>3. FollowUpInv => FollowUpsWait
  BY DEF FollowUpInv
<1> QED BY <1>1, <1>2, <1>3, Waiting, PTL DEF Spec

-----------------------------------------------------------------------------
(* Order.                                                                  *)

\* The messages of channel c in sequence s are in the order of their submission.
InOrder(s, c) ==
    \A p, q \in DOMAIN s : \A i, j \in DOMAIN Source[c] :
        p < q /\ s[p] = Source[c][i] /\ s[q] = Source[c][j] => i < j

\* Every message of channel c in set S was submitted before every one in set T.
Precedes(S, T, c) ==
    \A i, j \in DOMAIN Source[c] : Source[c][i] \in S /\ Source[c][j] \in T => i < j

\* The sequence in which messages of channel c wait.
WaitIn(q, c) == IF c \in Queues THEN q[c] ELSE <<>>

\* A channel's messages move, in order, from the queue to those in flight and
\* from there to the transcript.
OrderOf(t, p, w, n, c) ==
    /\ InOrder(t, c) /\ InOrder(p, c) /\ InOrder(w, c)
    /\ Precedes(Range(t), Range(p), c)
    /\ Precedes(Range(t) \cup Range(p), Range(w), c)
    /\ \A i \in DOMAIN Source[c] :
          Source[c][i] \in Range(t) \cup Range(p) \cup Range(w) => i <= n

OrderInv ==
    \A c \in Channels :
        /\ submitted[c] <= Len(Source[c])
        /\ OrderOf(transcript, pending, WaitIn(queue, c), submitted[c], c)

\* Joining and splitting sequences whose messages are in order.
LEMMA InOrderConcat ==
    ASSUME NEW S, NEW s \in Seq(S), NEW t \in Seq(S), NEW c \in Channels
    PROVE  InOrder(s \o t, c) <=>
             InOrder(s, c) /\ InOrder(t, c) /\ Precedes(Range(s), Range(t), c)
<1> DEFINE u == s \o t
<1>1. /\ Len(s) \in Nat /\ Len(t) \in Nat /\ DOMAIN s = 1 .. Len(s) /\ DOMAIN t = 1 .. Len(t)
      /\ DOMAIN u = 1 .. Len(s) + Len(t)
      /\ \A p \in DOMAIN s : u[p] = s[p]
      /\ \A p \in DOMAIN t : u[Len(s) + p] = t[p]
  OBVIOUS
<1>s. /\ DOMAIN Source[c] \subseteq Nat /\ \A i \in DOMAIN Source[c] : i \in Nat
  BY SourceFacts
<1> HIDE DEF u
<1>2. ASSUME InOrder(u, c)
      PROVE  InOrder(s, c) /\ InOrder(t, c) /\ Precedes(Range(s), Range(t), c)
  <2>1. InOrder(s, c)
    BY <1>1, <1>2 DEF InOrder
  <2>2. InOrder(t, c)
    <3> SUFFICES ASSUME NEW p \in DOMAIN t, NEW q \in DOMAIN t,
                        NEW i \in DOMAIN Source[c], NEW j \in DOMAIN Source[c],
                        p < q, t[p] = Source[c][i], t[q] = Source[c][j]
                 PROVE  i < j
      BY DEF InOrder
    <3>1. /\ Len(s) + p \in DOMAIN u /\ Len(s) + q \in DOMAIN u /\ Len(s) + p < Len(s) + q
          /\ u[Len(s) + p] = t[p] /\ u[Len(s) + q] = t[q]
      BY <1>1
    <3> QED BY <1>2, <3>1 DEF InOrder
  <2>3. Precedes(Range(s), Range(t), c)
    <3> SUFFICES ASSUME NEW i \in DOMAIN Source[c], NEW j \in DOMAIN Source[c],
                        NEW p \in DOMAIN s, NEW q \in DOMAIN t,
                        Source[c][i] = s[p], Source[c][j] = t[q]
                 PROVE  i < j
      BY DEF Precedes, Range
    <3>1. /\ p \in DOMAIN u /\ Len(s) + q \in DOMAIN u /\ p < Len(s) + q
          /\ u[p] = s[p] /\ u[Len(s) + q] = t[q]
      BY <1>1
    <3> QED BY <1>2, <3>1 DEF InOrder
  <2> QED BY <2>1, <2>2, <2>3
<1>3. ASSUME InOrder(s, c), InOrder(t, c), Precedes(Range(s), Range(t), c)
      PROVE  InOrder(u, c)
  <2> SUFFICES ASSUME NEW p \in DOMAIN u, NEW q \in DOMAIN u,
                      NEW i \in DOMAIN Source[c], NEW j \in DOMAIN Source[c],
                      p < q, u[p] = Source[c][i], u[q] = Source[c][j]
               PROVE  i < j
    BY DEF InOrder
  <2>1. CASE q \in DOMAIN s
    <3>1. p \in DOMAIN s /\ u[p] = s[p] /\ u[q] = s[q]
      BY <1>1, <2>1
    <3> QED BY <1>3, <2>1, <3>1 DEF InOrder
  <2>2. CASE p \in DOMAIN s /\ q \notin DOMAIN s
    <3>1. q - Len(s) \in DOMAIN t /\ u[q] = t[q - Len(s)] /\ u[p] = s[p]
      <4>1. q \in Nat /\ q > Len(s) /\ q <= Len(s) + Len(t)
        BY <1>1, <2>2
      <4>2. q - Len(s) \in DOMAIN t /\ Len(s) + (q - Len(s)) = q
        BY <1>1, <4>1
      <4>3. u[Len(s) + (q - Len(s))] = t[q - Len(s)]
        BY <1>1, <4>2
      <4> QED BY <1>1, <2>2, <4>2, <4>3
    <3>2. u[p] \in Range(s) /\ u[q] \in Range(t)
      BY <2>2, <3>1 DEF Range
    <3> QED BY <1>3, <3>2 DEF Precedes
  <2>3. CASE p \notin DOMAIN s
    <3>1. /\ p - Len(s) \in DOMAIN t /\ q - Len(s) \in DOMAIN t /\ p - Len(s) < q - Len(s)
          /\ u[p] = t[p - Len(s)] /\ u[q] = t[q - Len(s)]
      <4>1. p \in Nat /\ q \in Nat /\ p > Len(s) /\ q > Len(s)
            /\ p <= Len(s) + Len(t) /\ q <= Len(s) + Len(t)
        BY <1>1, <2>3
      <4>2. p - Len(s) \in DOMAIN t /\ q - Len(s) \in DOMAIN t /\ p - Len(s) < q - Len(s)
        BY <1>1, <4>1
      <4>3. Len(s) + (p - Len(s)) = p /\ Len(s) + (q - Len(s)) = q
        BY <1>1, <4>1
      <4>4. u[Len(s) + (p - Len(s))] = t[p - Len(s)] /\ u[Len(s) + (q - Len(s))] = t[q - Len(s)]
        BY <1>1, <4>2
      <4> QED BY <4>2, <4>3, <4>4
    <3> QED BY <1>3, <3>1 DEF InOrder
  <2> QED BY <1>1, <2>1, <2>2, <2>3
<1>4. InOrder(u, c) <=> InOrder(s, c) /\ InOrder(t, c) /\ Precedes(Range(s), Range(t), c)
  BY <1>2, <1>3
<1> QED BY <1>4 DEF u

\* A sequence without messages of the channel disturbs nothing.
LEMMA Foreign ==
    ASSUME NEW c \in Channels, NEW s, Range(s) \cap Range(Source[c]) = {}, NEW T
    PROVE  InOrder(s, c) /\ Precedes(Range(s), T, c) /\ Precedes(T, Range(s), c)
<1>1. \A i \in DOMAIN Source[c] : Source[c][i] \notin Range(s)
  BY DEF Range
<1>2. \A p \in DOMAIN s : s[p] \in Range(s)
  BY DEF Range
<1> QED BY <1>1, <1>2 DEF InOrder, Precedes

LEMMA SingleInOrder ==
    ASSUME NEW c \in Channels, NEW e
    PROVE  InOrder(<<e>>, c) /\ InOrder(<<>>, c) /\ Range(<<e>>) = {e}
<1>1. DOMAIN <<e>> = {1} /\ DOMAIN <<>> = {}
  OBVIOUS
<1> QED BY <1>1 DEF InOrder, Range

\* The front message of those in flight is recorded.
LEMMA OrderRecord ==
    ASSUME NEW c \in Channels, NEW t \in Seq(Entries), NEW p \in Seq(Msgs), NEW w, NEW n,
           p # <<>>, OrderOf(t, p, w, n, c)
    PROVE  OrderOf(Append(t, Head(p)), Tail(p), w, n, c)
<1> DEFINE h == Head(p)
           f == <<h>>
           r == Tail(p)
<1>1. /\ h \in Msgs /\ h \in Entries /\ r \in Seq(Msgs) /\ p = f \o r
      /\ f \in Seq(Msgs) /\ f \in Seq(Entries)
  BY HeadFacts, MessageKinds
<1>f. InOrder(f, c) /\ Range(f) = {h}
  BY SingleInOrder
<1>4. Range(Append(t, h)) = Range(t) \cup {h} /\ t \o f = Append(t, h)
  BY <1>1, AppendFacts
<1> HIDE DEF h, r, f
<1>2. Range(p) = {h} \cup Range(r)
  BY <1>1, <1>f, ConcatFacts
<1>3. InOrder(r, c) /\ Precedes({h}, Range(r), c)
  <2>1. InOrder(f \o r, c)
    BY <1>1 DEF OrderOf
  <2>2. InOrder(r, c) /\ Precedes(Range(f), Range(r), c)
    BY <1>1, <2>1, InOrderConcat
  <2> QED BY <1>f, <2>2
<1>5. InOrder(Append(t, h), c)
  <2>1. Precedes(Range(t), Range(f), c)
    BY <1>2, <1>f DEF OrderOf, Precedes
  <2>2. InOrder(t \o f, c)
    BY <1>1, <1>f, <2>1, InOrderConcat DEF OrderOf
  <2> QED BY <1>4, <2>2
<1>6. Precedes(Range(Append(t, h)), Range(r), c)
  BY <1>2, <1>3, <1>4 DEF OrderOf, Precedes
<1>7. OrderOf(Append(t, h), r, w, n, c)
  BY <1>2, <1>3, <1>4, <1>5, <1>6 DEF OrderOf
<1> QED BY <1>7 DEF h, r

\* Something that is no message is recorded.
LEMMA OrderOther ==
    ASSUME NEW c \in Channels, NEW t \in Seq(Entries), NEW p, NEW w, NEW n,
           NEW e \in Entries \ Msgs, OrderOf(t, p, w, n, c)
    PROVE  OrderOf(Append(t, e), p, w, n, c)
<1> DEFINE f == <<e>>
<1>1. Range(Append(t, e)) = Range(t) \cup {e} /\ t \o f = Append(t, e)
  BY AppendFacts
<1>2. \A i \in DOMAIN Source[c] : Source[c][i] # e
  BY SourceFacts
<1>3. Range(f) \cap Range(Source[c]) = {}
  BY SourceFacts, SingleInOrder
<1>4. f \in Seq(Entries)
  OBVIOUS
<1> HIDE DEF f
<1>5. InOrder(Append(t, e), c)
  <2>1. InOrder(f, c) /\ Precedes(Range(t), Range(f), c)
    BY <1>3, Foreign
  <2>2. InOrder(t, c)
    BY DEF OrderOf
  <2>3. InOrder(t \o f, c)
    BY <1>4, <2>1, <2>2, InOrderConcat
  <2> QED BY <1>1, <2>3
<1> QED BY <1>1, <1>2, <1>5 DEF OrderOf, Precedes

\* What waits first is taken.
LEMMA OrderDrain ==
    ASSUME NEW c \in Channels, NEW t, NEW p \in Seq(Msgs), NEW n,
           NEW d \in Seq(Msgs), NEW l \in Seq(Msgs), OrderOf(t, p, d \o l, n, c)
    PROVE  OrderOf(t, p \o d, l, n, c)
<1>1. Range(d \o l) = Range(d) \cup Range(l) /\ Range(p \o d) = Range(p) \cup Range(d)
  BY ConcatFacts
<1>2. InOrder(d, c) /\ InOrder(l, c) /\ Precedes(Range(d), Range(l), c)
  BY InOrderConcat DEF OrderOf
<1>3. Precedes(Range(p), Range(d), c)
  BY <1>1 DEF OrderOf, Precedes
<1>4. InOrder(p \o d, c)
  BY <1>2, <1>3, InOrderConcat DEF OrderOf
<1> QED BY <1>1, <1>2, <1>4 DEF OrderOf, Precedes

\* Messages of other channels join those in flight.
LEMMA OrderForeign ==
    ASSUME NEW c \in Channels, NEW t, NEW p \in Seq(Msgs), NEW w, NEW n, NEW x \in Seq(Msgs),
           Range(x) \cap Range(Source[c]) = {}, OrderOf(t, p, w, n, c)
    PROVE  OrderOf(t, p \o x, w, n, c)
<1>1. Range(p \o x) = Range(p) \cup Range(x)
  BY ConcatFacts
<1>2. \A i \in DOMAIN Source[c] : Source[c][i] \notin Range(x)
  BY SourceFacts
<1>3. InOrder(p \o x, c)
  BY InOrderConcat, Foreign DEF OrderOf
<1> QED BY <1>1, <1>2, <1>3 DEF OrderOf, Precedes

\* What is in flight or waits is given up.
LEMMA OrderDropped ==
    ASSUME NEW c \in Channels, NEW t, NEW p, NEW w, NEW n, OrderOf(t, p, w, n, c)
    PROVE  OrderOf(t, <<>>, w, n, c) /\ OrderOf(t, p, <<>>, n, c) /\ OrderOf(t, <<>>, <<>>, n, c)
BY EmptyRange, SingleInOrder DEF OrderOf, Precedes

\* The next message of the channel is submitted.
LEMMA OrderSubmit ==
    ASSUME NEW c \in Channels, NEW t, NEW p, NEW w \in Seq(Msgs), NEW n \in Nat,
           n < Len(Source[c]), OrderOf(t, p, w, n, c)
    PROVE  OrderOf(t, p, Append(w, Source[c][n + 1]), n + 1, c)
<1> DEFINE m == Source[c][n + 1]
<1>1. n + 1 \in DOMAIN Source[c] /\ m \in Msgs /\ DOMAIN Source[c] \subseteq Nat
  BY SourceFacts
<1>2. \A i \in DOMAIN Source[c] : Source[c][i] = m => i = n + 1
  BY <1>1 DEF IsInjective
<1> HIDE DEF m
<1>3. Range(Append(w, m)) = Range(w) \cup {m} /\ w \o <<m>> = Append(w, m)
  BY <1>1, AppendFacts
<1>4. ASSUME NEW S, S \subseteq Range(t) \cup Range(p) \cup Range(w)
      PROVE  Precedes(S, {m}, c)
  <2> SUFFICES ASSUME NEW i \in DOMAIN Source[c], NEW j \in DOMAIN Source[c],
                      Source[c][i] \in S, Source[c][j] \in {m}
               PROVE  i < j
    BY DEF Precedes
  <2>1. i <= n
    BY <1>4 DEF OrderOf
  <2>2. j = n + 1
    BY <1>2
  <2> QED BY <1>1, <2>1, <2>2
<1>5. InOrder(Append(w, m), c)
  <2>1. <<m>> \in Seq(Msgs) /\ Range(<<m>>) = {m} /\ InOrder(<<m>>, c)
    BY <1>1, SingleInOrder
  <2>2. Precedes(Range(w), {m}, c)
    BY <1>4
  <2>3. InOrder(w, c)
    BY DEF OrderOf
  <2>4. InOrder(w \o <<m>>, c) <=>
           InOrder(w, c) /\ InOrder(<<m>>, c) /\ Precedes(Range(w), Range(<<m>>), c)
    BY <2>1, InOrderConcat
  <2> QED BY <1>3, <2>1, <2>2, <2>3, <2>4
<1>6. Precedes(Range(t) \cup Range(p), Range(Append(w, m)), c)
  <2>1. Precedes(Range(t) \cup Range(p), {m}, c)
    BY <1>4
  <2> QED BY <1>3, <2>1 DEF OrderOf, Precedes
<1>7. ASSUME NEW i \in DOMAIN Source[c],
             Source[c][i] \in Range(t) \cup Range(p) \cup Range(Append(w, m))
      PROVE  i <= n + 1
  <2>1. CASE Source[c][i] = m
    BY <1>1, <1>2, <2>1
  <2>2. CASE Source[c][i] # m
    <3>1. i <= n
      BY <1>3, <1>7, <2>2 DEF OrderOf
    <3> QED BY <1>1, <3>1
  <2> QED BY <2>1, <2>2
<1>8. OrderOf(t, p, Append(w, m), n + 1, c)
  BY <1>5, <1>6, <1>7 DEF OrderOf
<1> QED BY <1>8 DEF m

\* A steering drain keeps the order of every channel, with nothing in flight.
LEMMA OrderSteeringDrain ==
    ASSUME TypeOK, KindsInv, NEW c \in Channels, NEW t, NEW n,
           OrderOf(t, <<>>, WaitIn(queue, c), n, c)
    PROVE  OrderOf(t, SteeringDrain.taken, WaitIn(SteeringDrain.left, c), n, c)
<1> DEFINE u == queue["priority"]
           k == Taken(queue["steer"], SteeringMode)
           l == Kept(queue["steer"], SteeringMode)
<1>q. Queues = {"priority", "steer", "followUp", "passive"} /\ Queues \subseteq Channels
  BY DEF Queues, Channels
<1>1. /\ u \in Seq(Msgs) /\ k \in Seq(Msgs) /\ l \in Seq(Msgs) /\ queue["steer"] = k \o l
      /\ Range(u) \subseteq Range(Source["priority"]) /\ Range(k) \subseteq Range(Source["steer"])
  <2>1. queue["priority"] \in Seq(Msgs) /\ queue["steer"] \in Seq(Msgs)
    BY <1>q DEF TypeOK
  <2>2. /\ queue["steer"] = k \o l /\ k \in Seq(Msgs) /\ l \in Seq(Msgs)
        /\ Range(k) \cup Range(l) = Range(queue["steer"])
    BY <2>1, TakenFacts
  <2> QED BY <2>1, <2>2, <1>q DEF KindsInv
<1>2. /\ SteeringDrain.taken = u \o k /\ SteeringDrain.left["priority"] = <<>>
      /\ SteeringDrain.left["steer"] = l
      /\ \A d \in {"followUp", "passive"} : SteeringDrain.left[d] = queue[d]
  BY <1>q DEF SteeringDrain, TypeOK
<1>3. u = queue["priority"]
  OBVIOUS
<1> HIDE DEF u, k, l
<1>4. /\ <<>> \in Seq(Msgs) /\ <<>> \o u = u /\ u \o <<>> = u /\ u \o k \in Seq(Msgs)
  BY <1>1
<1>5. CASE c = "priority"
  <2>1. WaitIn(queue, c) = u \o <<>> /\ WaitIn(SteeringDrain.left, c) = <<>>
    BY <1>q, <1>2, <1>3, <1>4, <1>5 DEF WaitIn
  <2>2. OrderOf(t, <<>> \o u, <<>>, n, c)
    BY <1>1, <1>4, <2>1, OrderDrain
  <2>3. Range(k) \cap Range(Source[c]) = {}
    BY <1>q, <1>1, <1>5, ChannelsDiffer
  <2>4. OrderOf(t, u \o k, <<>>, n, c)
    BY <1>1, <1>4, <2>2, <2>3, OrderForeign
  <2> QED BY <1>2, <2>1, <2>4
<1>6. CASE c = "steer"
  <2>1. WaitIn(queue, c) = k \o l /\ WaitIn(SteeringDrain.left, c) = l
    BY <1>q, <1>1, <1>2, <1>6 DEF WaitIn
  <2>2. Range(u) \cap Range(Source[c]) = {}
    BY <1>q, <1>1, <1>6, ChannelsDiffer
  <2>3. OrderOf(t, <<>> \o u, k \o l, n, c)
    BY <1>1, <1>4, <2>1, <2>2, OrderForeign
  <2>4. OrderOf(t, u \o k, l, n, c)
    BY <1>1, <1>4, <2>3, OrderDrain
  <2> QED BY <1>2, <2>1, <2>4
<1>7. CASE c \notin {"priority", "steer"}
  <2>1. WaitIn(SteeringDrain.left, c) = WaitIn(queue, c)
    BY <1>q, <1>2, <1>7 DEF WaitIn
  <2>2. Range(u) \cap Range(Source[c]) = {} /\ Range(k) \cap Range(Source[c]) = {}
    BY <1>q, <1>1, <1>7, ChannelsDiffer
  <2>3. OrderOf(t, <<>> \o u, WaitIn(queue, c), n, c)
    BY <1>1, <1>4, <2>2, OrderForeign
  <2>4. OrderOf(t, u \o k, WaitIn(queue, c), n, c)
    BY <1>1, <1>4, <2>2, <2>3, OrderForeign
  <2> QED BY <1>2, <2>1, <2>4
<1> QED BY <1>5, <1>6, <1>7

\* So does a follow-up drain.
LEMMA OrderFollowUpDrain ==
    ASSUME TypeOK, KindsInv, NEW c \in Channels, NEW t, NEW n,
           OrderOf(t, <<>>, WaitIn(queue, c), n, c)
    PROVE  OrderOf(t, FollowUpDrain.taken, WaitIn(FollowUpDrain.left, c), n, c)
<1> DEFINE k == Taken(queue["followUp"], FollowUpMode)
           l == Kept(queue["followUp"], FollowUpMode)
<1>q. Queues = {"priority", "steer", "followUp", "passive"} /\ Queues \subseteq Channels
  BY DEF Queues, Channels
<1>1. /\ k \in Seq(Msgs) /\ l \in Seq(Msgs) /\ queue["followUp"] = k \o l
      /\ Range(k) \subseteq Range(Source["followUp"])
  <2>1. queue["followUp"] \in Seq(Msgs)
    BY <1>q DEF TypeOK
  <2>2. /\ queue["followUp"] = k \o l /\ k \in Seq(Msgs) /\ l \in Seq(Msgs)
        /\ Range(k) \cup Range(l) = Range(queue["followUp"])
    BY <2>1, TakenFacts
  <2> QED BY <2>2, <1>q DEF KindsInv
<1>2. /\ FollowUpDrain.taken = k /\ FollowUpDrain.left["followUp"] = l
      /\ \A d \in Queues \ {"followUp"} : FollowUpDrain.left[d] = queue[d]
  BY <1>q DEF FollowUpDrain, TypeOK
<1> HIDE DEF k, l
<1>3. <<>> \in Seq(Msgs) /\ <<>> \o k = k
  BY <1>1
<1>4. CASE c = "followUp"
  <2>1. WaitIn(queue, c) = k \o l /\ WaitIn(FollowUpDrain.left, c) = l
    BY <1>q, <1>1, <1>2, <1>4 DEF WaitIn
  <2>2. OrderOf(t, <<>> \o k, l, n, c)
    BY <1>1, <1>3, <2>1, OrderDrain
  <2> QED BY <1>2, <1>3, <2>1, <2>2
<1>5. CASE c # "followUp"
  <2>1. WaitIn(FollowUpDrain.left, c) = WaitIn(queue, c)
    BY <1>q, <1>2, <1>5 DEF WaitIn
  <2>2. Range(k) \cap Range(Source[c]) = {}
    BY <1>q, <1>1, <1>5, ChannelsDiffer
  <2>3. OrderOf(t, <<>> \o k, WaitIn(queue, c), n, c)
    BY <1>1, <1>3, <2>2, OrderForeign
  <2> QED BY <1>2, <1>3, <2>1, <2>3
<1> QED BY <1>4, <1>5

\* Drains move messages on; a dropped queue or flight only forgets them.
LEMMA OrderHost ==
    ASSUME WaitingInv, OrderInv, HostStep
    PROVE  OrderInv'
<1>t. TypeOK /\ KindsInv /\ FlightInv
  BY DEF WaitingInv, ConversationInv
<1>q. Queues = {"priority", "steer", "followUp", "passive"} /\ Queues \subseteq Channels
      /\ "prompt" \in Channels \ Queues
  BY DEF Queues, Channels
<1>o. \A c \in Channels : /\ submitted[c] <= Len(Source[c]) /\ submitted[c] \in Nat
                          /\ OrderOf(transcript, pending, WaitIn(queue, c), submitted[c], c)
  BY <1>t DEF OrderInv, TypeOK
<1>1. ASSUME NEW d \in Queues, Submit(d) PROVE OrderInv'
  <2> DEFINE m == Source[d][submitted[d] + 1]
  <2>1. /\ d \in Channels /\ submitted[d] < Len(Source[d]) /\ submitted[d] \in Nat
        /\ queue[d] \in Seq(Msgs)
    BY <1>1, <1>t, <1>q DEF Submit, TypeOK
  <2>2. /\ queue' = [queue EXCEPT ![d] = Append(@, m)]
        /\ submitted' = [submitted EXCEPT ![d] = @ + 1]
        /\ UNCHANGED <<transcript, pending>>
    BY <1>1 DEF Submit, Note, runVars
  <2> HIDE DEF m
  <2>3. /\ queue'[d] = Append(queue[d], m) /\ submitted'[d] = submitted[d] + 1
        /\ \A c \in Queues \ {d} : queue'[c] = queue[c]
        /\ \A c \in Channels \ {d} : submitted'[c] = submitted[c]
    BY <1>t, <1>q, <2>2 DEF TypeOK
  <2> SUFFICES ASSUME NEW c \in Channels
               PROVE  /\ submitted'[c] <= Len(Source[c])
                      /\ OrderOf(transcript', pending', WaitIn(queue', c), submitted'[c], c)
    BY DEF OrderInv
  <2>4. CASE c = d
    <3>1. WaitIn(queue, c) = queue[d] /\ WaitIn(queue', c) = Append(queue[d], m)
      BY <2>3, <2>4 DEF WaitIn
    <3>2. OrderOf(transcript, pending, Append(queue[d], m), submitted[d] + 1, c)
      BY <1>o, <2>1, <2>4, <3>1, OrderSubmit DEF m
    <3>3. submitted[d] + 1 <= Len(Source[d])
      BY <2>1, SourceFacts
    <3> QED BY <2>2, <2>3, <2>4, <3>1, <3>2, <3>3
  <2>5. CASE c # d
    <3>1. WaitIn(queue', c) = WaitIn(queue, c) /\ submitted'[c] = submitted[c]
      BY <2>3, <2>5 DEF WaitIn
    <3> QED BY <1>o, <2>2, <3>1
  <2> QED BY <2>4, <2>5
<1>2. ASSUME NEW cs \in {Steering, {"followUp"}, Steering \cup {"followUp"}}, TakeBack(cs)
      PROVE  OrderInv'
  <2>1. UNCHANGED <<transcript, pending, submitted>>
        /\ queue' = [c \in Queues |-> IF c \in cs THEN <<>> ELSE queue[c]]
    BY <1>2 DEF TakeBack, runVars
  <2>2. \A c \in Channels : WaitIn(queue', c) \in {WaitIn(queue, c), <<>>}
    BY <2>1 DEF WaitIn
  <2>3. \A c \in Channels : OrderOf(transcript, pending, WaitIn(queue', c), submitted[c], c)
    BY <1>o, <2>2, OrderDropped
  <2> QED BY <1>o, <2>1, <2>3 DEF OrderInv
<1>3. CASE Abort
  BY <1>3 DEF Abort, hostVars, OrderInv, WaitIn
<1>s. ASSUME NEW prompts, NEW skip, StartRun(prompts, skip)
      PROVE  pending = <<>> /\ pending' = prompts
  BY <1>s, <1>t DEF StartRun, Running, FlightInv
<1>4. CASE Prompt
  <2> DEFINE m == Source["prompt"][submitted["prompt"] + 1]
             f == <<m>>
  <2>1. submitted["prompt"] < Len(Source["prompt"]) /\ submitted["prompt"] \in Nat
    BY <1>4, <1>t, <1>q DEF Prompt, TypeOK
  <2>2. m \in Msgs
    BY <2>1, <1>q, SourceFacts
  <2>3. /\ pending = <<>> /\ pending' = f /\ UNCHANGED <<transcript, queue>>
        /\ submitted' = [submitted EXCEPT !["prompt"] = @ + 1]
    BY <1>4, <1>s DEF Prompt
  <2>4. f \in Seq(Msgs) /\ Append(<<>>, m) = f \o <<>> /\ <<>> \o f = f /\ <<>> \in Seq(Msgs)
    BY <2>2
  <2>5. OrderOf(transcript, <<>>, Append(<<>>, m), submitted["prompt"] + 1, "prompt")
    <3>1. OrderOf(transcript, <<>>, <<>>, submitted["prompt"], "prompt")
      BY <1>o, <1>q, <2>3 DEF WaitIn
    <3> QED BY <1>q, <2>1, <2>4, <3>1, OrderSubmit
  <2> HIDE DEF f
  <2>6. OrderOf(transcript, <<>> \o f, <<>>, submitted["prompt"] + 1, "prompt")
    BY <1>q, <2>4, <2>5, OrderDrain
  <2>r. Range(f) = {m}
    <3> HIDE DEF m
    <3> QED BY DEF f, Range
  <2>m. m \in Range(Source["prompt"])
    <3>1. submitted["prompt"] + 1 \in 1 .. Len(Source["prompt"])
      BY <2>1, <1>q, SourceFacts
    <3> QED BY <3>1, <1>q, SourceFacts
  <2> HIDE DEF m
  <2>7. submitted'["prompt"] = submitted["prompt"] + 1
        /\ \A c \in Channels \ {"prompt"} : submitted'[c] = submitted[c]
    BY <1>t, <1>q, <2>3 DEF TypeOK
  <2> SUFFICES ASSUME NEW c \in Channels
               PROVE  /\ submitted'[c] <= Len(Source[c])
                      /\ OrderOf(transcript', pending', WaitIn(queue', c), submitted'[c], c)
    BY DEF OrderInv
  <2>8. CASE c = "prompt"
    <3>1. WaitIn(queue', c) = <<>>
      BY <1>q, <2>8 DEF WaitIn
    <3>2. submitted["prompt"] + 1 <= Len(Source["prompt"])
      BY <1>q, <2>1, SourceFacts
    <3> QED BY <2>3, <2>4, <2>6, <2>7, <2>8, <3>1, <3>2
  <2>9. CASE c # "prompt"
    <3>1. Range(f) \cap Range(Source[c]) = {}
      BY <1>q, <2>r, <2>m, <2>9, ChannelsDiffer
    <3>2. OrderOf(transcript, <<>> \o f, WaitIn(queue, c), submitted[c], c)
      BY <1>o, <2>3, <2>4, <3>1, OrderForeign
    <3> QED BY <1>o, <2>3, <2>4, <2>7, <2>9, <3>2
  <2> QED BY <2>8, <2>9
<1>5. CASE Continue
  <2>1. UNCHANGED <<transcript, submitted>>
    BY <1>5 DEF Continue
  <2>2. CASE StartRun(<<>>, FALSE) /\ UNCHANGED queue
    <3>1. pending = <<>> /\ pending' = <<>>
      BY <1>s, <2>2
    <3> QED BY <1>o, <2>1, <2>2, <3>1 DEF OrderInv
  <2>3. CASE StartRun(SteeringDrain.taken, TRUE) /\ queue' = SteeringDrain.left
    <3>1. pending = <<>> /\ pending' = SteeringDrain.taken
      BY <1>s, <2>3
    <3>2. \A c \in Channels : OrderOf(transcript, <<>>, WaitIn(queue, c), submitted[c], c)
      BY <1>o, <3>1
    <3>3. \A c \in Channels :
             OrderOf(transcript, SteeringDrain.taken, WaitIn(SteeringDrain.left, c), submitted[c], c)
      BY <1>t, <3>2, OrderSteeringDrain
    <3> QED BY <1>o, <2>1, <2>3, <3>1, <3>3 DEF OrderInv
  <2>4. CASE StartRun(FollowUpDrain.taken, FALSE) /\ queue' = FollowUpDrain.left
    <3>1. pending = <<>> /\ pending' = FollowUpDrain.taken
      BY <1>s, <2>4
    <3>2. \A c \in Channels : OrderOf(transcript, <<>>, WaitIn(queue, c), submitted[c], c)
      BY <1>o, <3>1
    <3>3. \A c \in Channels :
             OrderOf(transcript, FollowUpDrain.taken, WaitIn(FollowUpDrain.left, c), submitted[c], c)
      BY <1>t, <3>2, OrderFollowUpDrain
    <3> QED BY <1>o, <2>1, <2>4, <3>1, <3>3 DEF OrderInv
  <2> QED BY <1>5, <2>2, <2>3, <2>4 DEF Continue, ContinueFrom
<1> QED BY <1>1, <1>2, <1>3, <1>4, <1>5 DEF HostStep

LEMMA OrderLoop ==
    ASSUME WaitingInv, OrderInv, [Next]_vars, ~ HostStep
    PROVE  OrderInv'
<1>t. TypeOK /\ KindsInv /\ FlightInv /\ transcript \in Seq(Entries) /\ pending \in Seq(Msgs)
  BY DEF WaitingInv, ConversationInv, TypeOK
<1>q. Queues = {"priority", "steer", "followUp", "passive"} /\ Queues \subseteq Channels
  BY DEF Queues, Channels
<1>o. \A c \in Channels : /\ submitted[c] <= Len(Source[c])
                          /\ OrderOf(transcript, pending, WaitIn(queue, c), submitted[c], c)
  BY DEF OrderInv
<1>1. CASE /\ pending # <<>> /\ transcript' = Append(transcript, Head(pending))
           /\ pending' \in {Tail(pending), <<>>} /\ UNCHANGED <<queue, submitted>>
  <2>1. ASSUME NEW c \in Channels
        PROVE  OrderOf(transcript', Tail(pending), WaitIn(queue, c), submitted[c], c)
    <3> DEFINE w == WaitIn(queue, c)
               n == submitted[c]
    <3>1. OrderOf(transcript, pending, w, n, c)
      BY <1>o
    <3> HIDE DEF w, n
    <3>2. OrderOf(Append(transcript, Head(pending)), Tail(pending), w, n, c)
      BY <1>t, <1>1, <3>1, OrderRecord
    <3> QED BY <1>1, <3>2 DEF w, n
  <2>2. ASSUME NEW c \in Channels
        PROVE  OrderOf(transcript', pending', WaitIn(queue, c), submitted[c], c)
    <3>1. OrderOf(transcript', Tail(pending), WaitIn(queue, c), submitted[c], c)
      BY <2>1
    <3>2. OrderOf(transcript', <<>>, WaitIn(queue, c), submitted[c], c)
      BY <3>1, OrderDropped
    <3> QED BY <1>1, <3>1, <3>2
  <2> QED BY <1>o, <1>1, <2>2 DEF OrderInv
<1>2. CASE /\ \E e \in Entries \ Msgs : transcript' = Append(transcript, e)
           /\ pending' \in {pending, <<>>} /\ UNCHANGED <<queue, submitted>>
  <2>1. \A c \in Channels : OrderOf(transcript', pending, WaitIn(queue, c), submitted[c], c)
    BY <1>t, <1>o, <1>2, OrderOther
  <2>2. \A c \in Channels : OrderOf(transcript', pending', WaitIn(queue, c), submitted[c], c)
    BY <1>2, <2>1, OrderDropped
  <2> QED BY <1>o, <1>2, <2>2 DEF OrderInv
<1>3. CASE transcript' = transcript /\ pending' \in {pending, <<>>} /\ UNCHANGED <<queue, submitted>>
  <2>1. \A c \in Channels : OrderOf(transcript, pending', WaitIn(queue, c), submitted[c], c)
    BY <1>o, <1>3, OrderDropped
  <2> QED BY <1>o, <1>3, <2>1 DEF OrderInv
<1>4. CASE PollSteering /\ pending' = SteeringDrain.taken /\ queue' = SteeringDrain.left
  <2>1. pending = <<>> /\ UNCHANGED <<transcript, submitted>>
    BY <1>4, <1>t DEF PollSteering, FlightInv, hostVars
  <2>2. \A c \in Channels : OrderOf(transcript, <<>>, WaitIn(queue, c), submitted[c], c)
    BY <1>o, <2>1
  <2>3. \A c \in Channels :
           OrderOf(transcript, SteeringDrain.taken, WaitIn(SteeringDrain.left, c), submitted[c], c)
    BY <1>t, <2>2, OrderSteeringDrain
  <2> QED BY <1>o, <1>4, <2>1, <2>3 DEF OrderInv
<1>5. CASE BeginTurn
  <2> DEFINE x == queue["passive"]
  <2>1. x \in Seq(Msgs) /\ Range(x) \subseteq Range(Source["passive"])
    BY <1>t, <1>q DEF TypeOK, KindsInv
  <2>2. /\ pending' = pending \o x /\ UNCHANGED <<transcript, submitted>>
        /\ queue'["passive"] = <<>> /\ \A d \in Queues \ {"passive"} : queue'[d] = queue[d]
    BY <1>5, <1>t, <1>q DEF BeginTurn, hostVars, TypeOK
  <2>3. x = queue["passive"]
    OBVIOUS
  <2> HIDE DEF x
  <2>4. x \o <<>> = x /\ <<>> \in Seq(Msgs)
    BY <2>1
  <2>5. ASSUME NEW c \in Channels
        PROVE  OrderOf(transcript, pending \o x, WaitIn(queue', c), submitted[c], c)
    <3>1. CASE c = "passive"
      <4>1. WaitIn(queue, c) = x \o <<>> /\ WaitIn(queue', c) = <<>>
        BY <1>q, <2>2, <2>3, <2>4, <3>1 DEF WaitIn
      <4>2. OrderOf(transcript, pending, x \o <<>>, submitted[c], c)
        BY <1>o, <4>1
      <4> QED BY <1>t, <2>1, <2>4, <4>1, <4>2, OrderDrain
    <3>2. CASE c # "passive"
      <4>1. WaitIn(queue', c) = WaitIn(queue, c)
        BY <2>2, <3>2 DEF WaitIn
      <4>2. Range(x) \cap Range(Source[c]) = {}
        BY <1>q, <2>1, <3>2, ChannelsDiffer
      <4>3. OrderOf(transcript, pending, WaitIn(queue, c), submitted[c], c)
        BY <1>o
      <4> QED BY <1>t, <2>1, <4>1, <4>2, <4>3, OrderForeign
    <3> QED BY <3>1, <3>2
  <2> QED BY <1>o, <2>2, <2>5 DEF OrderInv
<1>6. CASE PollFollowUps
  <2>1. /\ pending = <<>> /\ UNCHANGED <<transcript, submitted>>
        /\ pending' = FollowUpDrain.taken /\ queue' = FollowUpDrain.left
    BY <1>6 DEF PollFollowUps, hostVars, AnotherTurn
  <2>2. \A c \in Channels : OrderOf(transcript, <<>>, WaitIn(queue, c), submitted[c], c)
    BY <1>o, <2>1
  <2>3. \A c \in Channels :
           OrderOf(transcript, FollowUpDrain.taken, WaitIn(FollowUpDrain.left, c), submitted[c], c)
    BY <1>t, <2>2, OrderFollowUpDrain
  <2> QED BY <1>o, <2>1, <2>3 DEF OrderInv
<1>7. CASE FinishRun
  <2>1. /\ pending' = <<>> /\ UNCHANGED <<transcript, submitted>>
        /\ queue'["passive"] = <<>> /\ \A d \in Queues \ {"passive"} : queue'[d] = queue[d]
    BY <1>7, <1>t, <1>q DEF FinishRun, hostVars, TypeOK
  <2>2. \A c \in Channels : WaitIn(queue', c) \in {WaitIn(queue, c), <<>>}
    BY <2>1 DEF WaitIn
  <2>3. \A c \in Channels : OrderOf(transcript, <<>>, WaitIn(queue', c), submitted[c], c)
    BY <1>o, <2>2, OrderDropped
  <2> QED BY <1>o, <2>1, <2>3 DEF OrderInv
<1>8. CASE UNCHANGED vars
  BY <1>3, <1>8 DEF vars, runVars, hostVars
<1>9. CASE ListenerThrows
  <2>1. pending' = <<>> /\ UNCHANGED <<queue, submitted>>
    BY <1>9 DEF ListenerThrows
  <2> QED BY <1>t, <1>1, <1>2, <1>3, <2>1, RecordFacts
<1>10. CASE LoopStep
  <2>1. CASE PollSteering
    <3>1. CASE pending' = <<>> /\ UNCHANGED queue
      BY <1>3, <2>1, <3>1 DEF PollSteering, hostVars
    <3> QED BY <1>4, <2>1, <3>1 DEF PollSteering
  <2>2. CASE OpenRun \/ SendRequest \/ StreamThrows \/ StreamStarts \/ EndTurn \/ StopTurn \/ EmitAgentEnd
    BY <1>3, <2>2 DEF OpenRun, SendRequest, StreamThrows, StreamStarts, EndTurn, StopTurn,
                      EmitAgentEnd, hostVars
  <2>3. CASE RecordPrompt \/ Inject
    BY <1>1, <2>3 DEF RecordPrompt, Inject, hostVars
  <2>4. CASE \/ BudgetStop \/ Interrupt \/ InterruptLimit \/ FailRun
             \/ \E a \in Answers : AnswerArrives(a)
             \/ \E r \in ToolResult : RunTools(r)
    <3>1. pending' = pending /\ UNCHANGED <<queue, submitted>>
      BY <2>4 DEF BudgetStop, Interrupt, InterruptLimit, FailRun, AnswerArrives, RunTools, hostVars
    <3> QED BY <1>t, <1>1, <1>2, <1>3, <3>1, RecordFacts
  <2> QED BY <1>5, <1>6, <1>7, <1>10, <2>1, <2>2, <2>3, <2>4 DEF LoopStep
<1> QED BY <1>8, <1>9, <1>10 DEF Next

LEMMA Ordered == Spec => []OrderInv
<1>1. Init => OrderInv
  <2> SUFFICES ASSUME Init, NEW c \in Channels
               PROVE  /\ submitted[c] <= Len(Source[c])
                      /\ OrderOf(transcript, pending, WaitIn(queue, c), submitted[c], c)
    BY DEF OrderInv
  <2>1. /\ transcript = <<>> /\ pending = <<>> /\ WaitIn(queue, c) = <<>> /\ submitted[c] = 0
        /\ Len(Source[c]) \in Nat
    BY SourceFacts DEF Init, WaitIn
  <2>2. OrderOf(<<>>, <<>>, <<>>, 0, c)
    BY EmptyRange, SingleInOrder DEF OrderOf, Precedes
  <2> QED BY <2>1, <2>2
<1>2. WaitingInv /\ OrderInv /\ [Next]_vars => OrderInv'
  BY OrderHost, OrderLoop
<1> QED BY <1>1, <1>2, Waiting, PTL DEF Spec

-----------------------------------------------------------------------------
(* No message twice, and none out of order.                                *)

\* No message occurs twice in s.
Once(s) == \A i, j \in DOMAIN s : i # j /\ s[i] = s[j] => s[i] \notin Msgs

LEMMA MessageIndex ==
    ASSUME NEW m \in Msgs
    PROVE  \E c \in Channels : \E i \in DOMAIN Source[c] : Source[c][i] = m
BY DEF Msgs, Range

LEMMA OnceInOrder ==
    ASSUME NEW S, NEW s \in Seq(S), \A c \in Channels : InOrder(s, c)
    PROVE  Once(s)
<1> SUFFICES ASSUME NEW p \in DOMAIN s, NEW q \in DOMAIN s, p # q, s[p] = s[q], s[p] \in Msgs
             PROVE  FALSE
  BY DEF Once
<1>1. PICK c \in Channels : \E i \in DOMAIN Source[c] : Source[c][i] = s[p]
  BY MessageIndex
<1>2. PICK i \in DOMAIN Source[c] : Source[c][i] = s[p]
  BY <1>1
<1>3. p \in Nat /\ q \in Nat /\ i \in Nat
  <2>1. DOMAIN s \subseteq Nat
    OBVIOUS
  <2> QED BY <2>1, SourceFacts
<1>4. p < q \/ q < p
  BY <1>3
<1>5. i < i
  BY <1>2, <1>4 DEF InOrder
<1> QED BY <1>3, <1>5

LEMMA OnceConcat ==
    ASSUME NEW S, NEW s \in Seq(S), NEW t \in Seq(S), Once(s), Once(t),
           \A m \in Msgs : ~ (m \in Range(s) /\ m \in Range(t))
    PROVE  Once(s \o t)
<1> DEFINE u == s \o t
<1>1. /\ Len(s) \in Nat /\ Len(t) \in Nat /\ DOMAIN s = 1 .. Len(s) /\ DOMAIN t = 1 .. Len(t)
      /\ DOMAIN u = 1 .. Len(s) + Len(t)
      /\ \A p \in DOMAIN s : u[p] = s[p]
      /\ \A p \in DOMAIN t : u[Len(s) + p] = t[p]
  OBVIOUS
<1> HIDE DEF u
<1>2. ASSUME NEW p \in DOMAIN u, p \notin DOMAIN s
      PROVE  \E r \in DOMAIN t : p = Len(s) + r /\ u[p] = t[r]
  <2>1. p \in Nat /\ p - Len(s) \in DOMAIN t /\ p = Len(s) + (p - Len(s))
    BY <1>1, <1>2
  <2>2. u[Len(s) + (p - Len(s))] = t[p - Len(s)]
    BY <1>1, <2>1
  <2> QED BY <2>1, <2>2
<1> SUFFICES ASSUME NEW p \in DOMAIN u, NEW q \in DOMAIN u, p # q, u[p] = u[q], u[p] \in Msgs
             PROVE  FALSE
  BY DEF Once, u
<1>3. CASE p \in DOMAIN s /\ q \in DOMAIN s
  BY <1>1, <1>3 DEF Once
<1>4. CASE p \notin DOMAIN s /\ q \notin DOMAIN s
  <2>1. PICK r \in DOMAIN t : p = Len(s) + r /\ u[p] = t[r]
    BY <1>2, <1>4
  <2>2. PICK o \in DOMAIN t : q = Len(s) + o /\ u[q] = t[o]
    BY <1>2, <1>4
  <2> QED BY <2>1, <2>2 DEF Once
<1>5. CASE p \in DOMAIN s /\ q \notin DOMAIN s
  <2>1. u[p] \in Range(s) /\ u[q] \in Range(t)
    BY <1>1, <1>2, <1>5 DEF Range
  <2> QED BY <2>1
<1>6. CASE p \notin DOMAIN s /\ q \in DOMAIN s
  <2>1. u[q] \in Range(s) /\ u[p] \in Range(t)
    BY <1>1, <1>2, <1>6 DEF Range
  <2> QED BY <2>1
<1> QED BY <1>3, <1>4, <1>5, <1>6

\* No message is delivered twice: it waits in one queue, or is in flight, or is
\* recorded, and there once (drain, runAgentLoop, runLoop, continue).
THEOREM DeliveredOnceHolds == Spec => []DeliveredOnce
<1>1. WaitingInv /\ OrderInv => DeliveredOnce
  <2> SUFFICES ASSUME WaitingInv, OrderInv PROVE DeliveredOnce
    OBVIOUS
  <2> DEFINE T == transcript
             P == IF Running THEN pending ELSE <<>>
             Q1 == queue["priority"]
             Q2 == queue["steer"]
             Q3 == queue["followUp"]
             Q4 == queue["passive"]
  <2>q. Queues = {"priority", "steer", "followUp", "passive"} /\ Queues \subseteq Channels
    BY DEF Queues, Channels
  <2>o. \A c \in Channels : OrderOf(transcript, pending, WaitIn(queue, c), submitted[c], c)
    BY DEF OrderInv
  <2>i. \A c \in Channels : \A i \in DOMAIN Source[c] : ~ (i < i)
    BY SourceFacts
  <2>t. /\ T \in Seq(Entries) /\ P \in Seq(Entries) /\ Q1 \in Seq(Entries) /\ Q2 \in Seq(Entries)
        /\ Q3 \in Seq(Entries) /\ Q4 \in Seq(Entries)
    <3>1. TypeOK
      BY DEF WaitingInv, ConversationInv
    <3>2. \A s \in Seq(Msgs) : s \in Seq(Entries)
      BY MessageKinds
    <3>3. queue \in [Queues -> Seq(Msgs)] /\ pending \in Seq(Msgs) /\ transcript \in Seq(Entries)
      BY <3>1 DEF TypeOK
    <3>4. P \in Seq(Msgs)
      BY <3>3
    <3>5. Q1 \in Seq(Msgs) /\ Q2 \in Seq(Msgs) /\ Q3 \in Seq(Msgs) /\ Q4 \in Seq(Msgs)
      BY <2>q, <3>3
    <3> QED BY <3>2, <3>3, <3>4, <3>5
  <2>p. P = pending
    BY DEF WaitingInv, ConversationInv, FlightInv, Running
  <2>1. Once(T) /\ Once(P)
    <3>1. \A c \in Channels : InOrder(T, c) /\ InOrder(P, c)
      BY <2>o, <2>p DEF OrderOf
    <3> QED BY <2>t, <3>1, OnceInOrder
  <2>2. ASSUME NEW d \in Queues
        PROVE  /\ Once(queue[d])
               /\ \A m \in Msgs : m \in Range(queue[d]) => m \notin Range(T) \cup Range(P)
               /\ \A e \in Queues \ {d} : \A m \in Msgs :
                     ~ (m \in Range(queue[d]) /\ m \in Range(queue[e]))
    <3>1. queue[d] \in Seq(Entries) /\ Range(queue[d]) \subseteq Range(Source[d])
      BY MessageKinds DEF WaitingInv, ConversationInv, TypeOK, KindsInv
    <3>2. InOrder(queue[d], d) /\ Precedes(Range(T) \cup Range(P), Range(queue[d]), d)
      BY <2>o, <2>p, <2>q DEF OrderOf, WaitIn
    <3>3. \A c \in Channels \ {d} : InOrder(queue[d], c)
      <4>1. \A c \in Channels \ {d} : Range(queue[d]) \cap Range(Source[c]) = {}
        BY <2>q, <3>1, ChannelsDiffer
      <4> QED BY <4>1, Foreign
    <3>4. Once(queue[d])
      <4>1. \A c \in Channels : InOrder(queue[d], c)
        BY <3>2, <3>3
      <4> QED BY <3>1, <4>1, OnceInOrder
    <3>5. ASSUME NEW m \in Range(queue[d]) PROVE m \notin Range(T) \cup Range(P)
      <4>1. PICK i \in DOMAIN Source[d] : Source[d][i] = m
        BY <3>1 DEF Range
      <4> QED BY <2>q, <2>i, <3>2, <4>1 DEF Precedes
    <3>6. \A e \in Queues \ {d} : Range(queue[e]) \subseteq Range(Source[e])
      BY DEF WaitingInv, KindsInv
    <3> QED BY <2>q, <3>1, <3>4, <3>5, <3>6, ChannelsDiffer
  <2>3. \A m \in Msgs : ~ (m \in Range(T) /\ m \in Range(P))
    <3> SUFFICES ASSUME NEW m \in Msgs, m \in Range(T), m \in Range(P) PROVE FALSE
      OBVIOUS
    <3>1. PICK c \in Channels : \E i \in DOMAIN Source[c] : Source[c][i] = m
      BY MessageIndex
    <3>2. PICK i \in DOMAIN Source[c] : Source[c][i] = m
      BY <3>1
    <3>3. Precedes(Range(T), Range(P), c)
      BY <2>o, <2>p DEF OrderOf
    <3> QED BY <2>i, <3>2, <3>3 DEF Precedes
  <2>4. Once(Q1) /\ Once(Q2) /\ Once(Q3) /\ Once(Q4)
    BY <2>2, <2>q
  <2>5. \A m \in Msgs :
          /\ m \in Range(Q1) => m \notin Range(T) \cup Range(P)
          /\ m \in Range(Q2) => m \notin Range(T) \cup Range(P) \cup Range(Q1)
          /\ m \in Range(Q3) => m \notin Range(T) \cup Range(P) \cup Range(Q1) \cup Range(Q2)
          /\ m \in Range(Q4) =>
               m \notin Range(T) \cup Range(P) \cup Range(Q1) \cup Range(Q2) \cup Range(Q3)
    BY <2>2, <2>q
  <2>6. DeliveredOnce <=> Once(T \o P \o Q1 \o Q2 \o Q3 \o Q4)
    BY DEF DeliveredOnce, Once
  <2> HIDE DEF T, P, Q1, Q2, Q3, Q4
  <2>7. Once(T \o P) /\ T \o P \in Seq(Entries) /\ Range(T \o P) = Range(T) \cup Range(P)
    BY <2>t, <2>1, <2>3, OnceConcat, ConcatFacts
  <2> DEFINE U == T \o P
  <2>8. U \in Seq(Entries) /\ Once(U) /\ Range(U) = Range(T) \cup Range(P)
    BY <2>7
  <2> HIDE DEF U
  <2>9. Once(U \o Q1) /\ U \o Q1 \in Seq(Entries) /\ Range(U \o Q1) = Range(U) \cup Range(Q1)
    BY <2>t, <2>4, <2>5, <2>8, OnceConcat, ConcatFacts
  <2> DEFINE V == U \o Q1
  <2>10. V \in Seq(Entries) /\ Once(V) /\ Range(V) = Range(T) \cup Range(P) \cup Range(Q1)
    BY <2>8, <2>9
  <2> HIDE DEF V
  <2>11. Once(V \o Q2) /\ V \o Q2 \in Seq(Entries) /\ Range(V \o Q2) = Range(V) \cup Range(Q2)
    BY <2>t, <2>4, <2>5, <2>10, OnceConcat, ConcatFacts
  <2> DEFINE W == V \o Q2
  <2>12. W \in Seq(Entries) /\ Once(W)
         /\ Range(W) = Range(T) \cup Range(P) \cup Range(Q1) \cup Range(Q2)
    BY <2>10, <2>11
  <2> HIDE DEF W
  <2>13. Once(W \o Q3) /\ W \o Q3 \in Seq(Entries) /\ Range(W \o Q3) = Range(W) \cup Range(Q3)
    BY <2>t, <2>4, <2>5, <2>12, OnceConcat, ConcatFacts
  <2> DEFINE X == W \o Q3
  <2>14. X \in Seq(Entries) /\ Once(X)
         /\ Range(X) = Range(T) \cup Range(P) \cup Range(Q1) \cup Range(Q2) \cup Range(Q3)
    BY <2>12, <2>13
  <2> HIDE DEF X
  <2>15. Once(X \o Q4)
    BY <2>t, <2>4, <2>5, <2>14, OnceConcat
  <2> QED BY <2>6, <2>15 DEF U, V, W, X
<1> QED BY <1>1, Waiting, Ordered, PTL

\* Messages of one channel are recorded in the order in which they were
\* submitted, and none overtakes an earlier one that still waits.
THEOREM ChannelOrderHolds == Spec => []ChannelOrder
<1>1. WaitingInv /\ OrderInv => ChannelOrder
  <2> SUFFICES ASSUME WaitingInv, OrderInv, NEW c \in Channels,
                      NEW i \in 1 .. submitted[c], NEW j \in 1 .. submitted[c],
                      i < j, Source[c][j] \in Recorded
               PROVE  /\ Source[c][i] \in Recorded => Place(Source[c][i]) < Place(Source[c][j])
                      /\ Source[c][i] \notin Queued \cup InFlight
    BY DEF ChannelOrder
  <2>1. /\ OrderOf(transcript, pending, WaitIn(queue, c), submitted[c], c)
        /\ submitted[c] <= Len(Source[c]) /\ submitted[c] \in Nat
    BY DEF OrderInv, WaitingInv, ConversationInv, TypeOK
  <2>2. /\ i \in DOMAIN Source[c] /\ j \in DOMAIN Source[c] /\ i \in Nat /\ j \in Nat /\ ~ (j < i)
        /\ ~ (j < j)
    BY <2>1, SourceFacts
  <2>3. ASSUME Source[c][i] \in Recorded PROVE Place(Source[c][i]) < Place(Source[c][j])
    <3> DEFINE p == Place(Source[c][i])
               q == Place(Source[c][j])
    <3>1. p \in DOMAIN transcript /\ transcript[p] = Source[c][i]
      BY <2>3 DEF Recorded, Range, Place
    <3>2. q \in DOMAIN transcript /\ transcript[q] = Source[c][j]
      BY DEF Recorded, Range, Place
    <3> HIDE DEF p, q
    <3>3. p # q
      BY <2>2, <3>1, <3>2 DEF IsInjective
    <3>4. ~ (q < p)
      BY <2>1, <2>2, <3>1, <3>2 DEF OrderOf, InOrder
    <3>5. p \in Nat /\ q \in Nat
      <4>1. DOMAIN transcript \subseteq Nat
        BY DEF WaitingInv, ConversationInv, TypeOK
      <4> QED BY <3>1, <3>2, <4>1
    <3>6. p < q
      BY <3>3, <3>4, <3>5
    <3> QED BY <3>6 DEF p, q
  <2>4. Source[c][i] \notin InFlight
    BY <2>1, <2>2 DEF OrderOf, Precedes, Recorded, InFlight
  <2>5. ASSUME NEW d \in Queues, Source[c][i] \in Range(queue[d]) PROVE FALSE
    <3>1. d \in Channels /\ Source[c][i] \in Range(Source[d]) /\ Source[c][i] \in Range(Source[c])
      BY <2>2, <2>5, SourceFacts DEF WaitingInv, KindsInv, Channels
    <3>2. d = c
      BY <3>1, ChannelsDiffer
    <3>3. WaitIn(queue, c) = queue[c] /\ Source[c][i] \in Range(queue[c])
      BY <2>5, <3>2 DEF WaitIn
    <3> QED BY <2>1, <2>2, <3>3 DEF OrderOf, Precedes, Recorded
  <2> QED BY <2>3, <2>4, <2>5 DEF Queued
<1> QED BY <1>1, Waiting, Ordered, PTL

-----------------------------------------------------------------------------
(* No message lost.                                                        *)

\* Where a submitted message is accounted for.
Held == Queued \cup InFlight \cup Recorded \cup takenBack

\* What a drain takes and leaves is all there was.
LEMMA DrainKeeps ==
    ASSUME TypeOK, NEW d \in Queues
    PROVE  /\ Range(queue[d]) \subseteq Range(SteeringDrain.taken) \cup Range(SteeringDrain.left[d])
           /\ Range(queue[d]) \subseteq Range(FollowUpDrain.taken) \cup Range(FollowUpDrain.left[d])
<1> DEFINE u == queue["priority"]
           s == queue["steer"]
           f == queue["followUp"]
           k == Taken(s, SteeringMode)
<1>q. Queues = {"priority", "steer", "followUp", "passive"}
  BY DEF Queues
<1>1. u \in Seq(Msgs) /\ s \in Seq(Msgs) /\ f \in Seq(Msgs)
  BY <1>q DEF TypeOK
<1> HIDE DEF u, s, f
<1>2. k \in Seq(Msgs) /\ Range(s) = Range(k) \cup Range(Kept(s, SteeringMode))
  BY <1>1, TakenFacts
<1>3. Range(f) = Range(Taken(f, FollowUpMode)) \cup Range(Kept(f, FollowUpMode))
  BY <1>1, TakenFacts
<1> HIDE DEF k
<1>4. Range(u \o k) = Range(u) \cup Range(k)
  BY <1>1, <1>2, ConcatFacts
<1>5. /\ SteeringDrain.taken = u \o k /\ SteeringDrain.left["steer"] = Kept(s, SteeringMode)
      /\ \A e \in {"followUp", "passive"} : SteeringDrain.left[e] = queue[e]
  BY <1>q DEF SteeringDrain, TypeOK, u, s, k
<1>6. /\ FollowUpDrain.taken = Taken(f, FollowUpMode)
      /\ FollowUpDrain.left["followUp"] = Kept(f, FollowUpMode)
      /\ \A e \in Queues \ {"followUp"} : FollowUpDrain.left[e] = queue[e]
  BY <1>q DEF FollowUpDrain, TypeOK, f
<1>7. u = queue["priority"] /\ s = queue["steer"] /\ f = queue["followUp"]
  BY DEF u, s, f
<1>8. Range(queue[d]) \subseteq Range(SteeringDrain.taken) \cup Range(SteeringDrain.left[d])
  <2>1. CASE d = "priority"
    BY <1>4, <1>5, <1>7, <2>1
  <2>2. CASE d = "steer"
    BY <1>2, <1>4, <1>5, <1>7, <2>2
  <2>3. CASE d \in {"followUp", "passive"}
    BY <1>5, <2>3
  <2> QED BY <1>q, <2>1, <2>2, <2>3
<1>9. Range(queue[d]) \subseteq Range(FollowUpDrain.taken) \cup Range(FollowUpDrain.left[d])
  <2>1. CASE d = "followUp"
    BY <1>3, <1>6, <1>7, <2>1
  <2>2. CASE d # "followUp"
    BY <1>6, <2>2
  <2> QED BY <2>1, <2>2
<1> QED BY <1>8, <1>9

\* The transcript only grows.
LEMMA RecordedKept ==
    ASSUME TypeOK, [Next]_vars
    PROVE  Recorded \subseteq Recorded'
<1>1. transcript \in Seq(Entries) /\ pending \in Seq(Msgs) /\ Msgs \subseteq Entries
  BY MessageKinds DEF TypeOK
<1>2. transcript' = transcript \/ \E e \in Entries : transcript' = Append(transcript, e)
  BY <1>1, RecordFacts, HeadFacts
<1>3. \A e \in Entries : Range(transcript) \subseteq Range(Append(transcript, e))
  BY <1>1, AppendFacts
<1> QED BY <1>2, <1>3 DEF Recorded

\* A run that a listener or the budget does not cut short forgets only notices.
LEMMA HeldStep ==
    ASSUME WaitingInv, [Next]_vars, failures' = failures, ~ (pc = "finishing" /\ stop = "budget"),
           NEW m \in Held, m \notin Range(Source["passive"])
    PROVE  m \in Held'
<1>t. TypeOK /\ KindsInv /\ FlightInv /\ pending \in Seq(Msgs) /\ transcript \in Seq(Entries)
      /\ failures \in Nat
  BY DEF WaitingInv, ConversationInv, TypeOK
<1>q. Queues = {"priority", "steer", "followUp", "passive"}
  BY DEF Queues
<1>r. Recorded \subseteq Recorded'
  BY <1>t, RecordedKept
<1>g. ASSUME takenBack \subseteq takenBack',
             \A d \in Queues \ {"passive"} : Range(queue[d]) \subseteq Held',
             Range(pending) \subseteq Held'
      PROVE  m \in Held'
  <2>1. ASSUME NEW d \in Queues, m \in Range(queue[d]) PROVE m \in Held'
    <3>1. d # "passive"
      BY <2>1 DEF WaitingInv, KindsInv
    <3> QED BY <1>g, <2>1, <3>1
  <2>2. Recorded' \subseteq Held' /\ takenBack' \subseteq Held'
    BY DEF Held
  <2> QED BY <1>g, <1>r, <2>1, <2>2 DEF Held, Queued, InFlight
<1>h. /\ \A d \in Queues : Range(queue'[d]) \subseteq Held'
      /\ Range(pending') \subseteq Held' /\ Recorded' \subseteq Held' /\ takenBack' \subseteq Held'
  BY DEF Held, Queued, InFlight
<1>1. CASE UNCHANGED <<queue, pending, takenBack>>
  BY <1>1, <1>g, <1>h
<1>2. ASSUME NEW d \in Queues, Submit(d) PROVE m \in Held'
  <2> DEFINE x == Source[d][submitted[d] + 1]
  <2>1. x \in Msgs
    <3>1. d \in Channels /\ submitted[d] \in Nat /\ submitted[d] < Len(Source[d])
      BY <1>2, <1>t DEF Submit, TypeOK, Channels
    <3>2. submitted[d] + 1 \in 1 .. Len(Source[d])
      BY <3>1, SourceFacts
    <3> QED BY <3>1, <3>2, SourceFacts
  <2>2. queue' = [queue EXCEPT ![d] = Append(@, x)] /\ UNCHANGED <<pending, takenBack>>
    BY <1>2 DEF Submit, runVars
  <2> HIDE DEF x
  <2>3. Range(queue[d]) \subseteq Range(Append(queue[d], x))
    <3>1. queue[d] \in Seq(Msgs)
      BY <1>t DEF TypeOK
    <3> QED BY <2>1, <3>1, AppendFacts
  <2>4. \A e \in Queues : Range(queue[e]) \subseteq Range(queue'[e])
    BY <1>t, <2>2, <2>3 DEF TypeOK
  <2> QED BY <1>g, <1>h, <2>2, <2>4
<1>3. ASSUME NEW cs \in {Steering, {"followUp"}, Steering \cup {"followUp"}}, TakeBack(cs)
      PROVE  m \in Held'
  <2>1. /\ takenBack' = takenBack \cup UNION {Range(queue[c]) : c \in cs}
        /\ queue' = [c \in Queues |-> IF c \in cs THEN <<>> ELSE queue[c]]
        /\ pending' = pending
    BY <1>3 DEF TakeBack, runVars
  <2>2. ASSUME NEW d \in Queues PROVE Range(queue[d]) \subseteq Held'
    <3>1. CASE d \in cs
      BY <1>h, <2>1, <3>1
    <3>2. CASE d \notin cs
      <4>1. queue'[d] = queue[d]
        BY <2>1, <3>2
      <4> QED BY <1>h, <4>1
    <3> QED BY <3>1, <3>2
  <2> QED BY <1>g, <1>h, <2>1, <2>2
<1>4. ASSUME pending = <<>>, takenBack' = takenBack,
             \/ pending' = SteeringDrain.taken /\ queue' = SteeringDrain.left
             \/ pending' = FollowUpDrain.taken /\ queue' = FollowUpDrain.left
      PROVE  m \in Held'
  <2>1. \A d \in Queues : Range(queue[d]) \subseteq Range(pending') \cup Range(queue'[d])
    BY <1>t, <1>4, DrainKeeps
  <2> QED BY <1>g, <1>h, <1>4, <2>1, EmptyRange
<1>5. ASSUME pending = <<>>, UNCHANGED <<queue, takenBack>> PROVE m \in Held'
  BY <1>g, <1>h, <1>5, EmptyRange
<1>s. ASSUME NEW prompts, NEW skip, StartRun(prompts, skip)
      PROVE  pending = <<>> /\ pending' = prompts
  BY <1>s, <1>t DEF StartRun, Running, FlightInv
<1>6. CASE Prompt
  BY <1>5, <1>6, <1>s DEF Prompt
<1>7. CASE Continue
  BY <1>4, <1>5, <1>7, <1>s DEF Continue, ContinueFrom
<1>8. CASE RecordPrompt \/ Inject
  <2>1. /\ pending # <<>> /\ transcript' = Append(transcript, Head(pending))
        /\ pending' = Tail(pending) /\ UNCHANGED <<queue, takenBack>>
    BY <1>8 DEF RecordPrompt, Inject, hostVars
  <2> DEFINE h == Head(pending)
             l == Tail(pending)
             f == <<h>>
  <2>2. /\ h \in Entries /\ f \in Seq(Msgs) /\ l \in Seq(Msgs) /\ pending = f \o l
        /\ Range(f) = {h}
    BY <1>t, <2>1, HeadFacts, MessageKinds
  <2>3. transcript' = Append(transcript, h) /\ pending' = l
    BY <2>1
  <2> HIDE DEF h, l, f
  <2>4. Range(pending) = {h} \cup Range(l)
    BY <2>2, ConcatFacts
  <2>5. h \in Recorded'
    BY <1>t, <2>2, <2>3, AppendFacts DEF Recorded
  <2> QED BY <1>g, <1>h, <2>1, <2>3, <2>4, <2>5
<1>9. CASE PollSteering
  <2>1. pending = <<>> /\ takenBack' = takenBack
    BY <1>9, <1>t DEF PollSteering, FlightInv, hostVars
  <2> QED BY <1>4, <1>5, <1>9, <2>1 DEF PollSteering
<1>10. CASE BeginTurn
  <2> DEFINE x == queue["passive"]
  <2>1. x \in Seq(Msgs)
    BY <1>t, <1>q DEF TypeOK
  <2>2. /\ pending' = pending \o x /\ takenBack' = takenBack
        /\ \A d \in Queues \ {"passive"} : queue'[d] = queue[d]
    BY <1>10, <1>t, <1>q DEF BeginTurn, hostVars, TypeOK
  <2> HIDE DEF x
  <2>3. Range(pending) \subseteq Range(pending')
    BY <1>t, <2>1, <2>2, ConcatFacts
  <2> QED BY <1>g, <1>h, <2>2, <2>3
<1>11. CASE PollFollowUps
  <2>1. /\ pending = <<>> /\ takenBack' = takenBack
        /\ pending' = FollowUpDrain.taken /\ queue' = FollowUpDrain.left
    BY <1>11 DEF PollFollowUps, hostVars, AnotherTurn
  <2> QED BY <1>4, <2>1
<1>12. CASE FinishRun
  <2>1. /\ pending = <<>> /\ takenBack' = takenBack
        /\ \A d \in Queues \ {"passive"} : queue'[d] = queue[d]
    BY <1>12, <1>t, <1>q DEF FinishRun, FlightInv, hostVars, TypeOK
  <2> QED BY <1>g, <1>h, <2>1, EmptyRange
<1>13. CASE Abort
  BY <1>1, <1>13 DEF Abort, hostVars
<1>14. ~ ListenerThrows
  BY <1>t DEF ListenerThrows
<1>15. CASE \/ OpenRun \/ BudgetStop \/ SendRequest \/ StreamThrows \/ StreamStarts
            \/ \E a \in Answers : AnswerArrives(a)
            \/ Interrupt \/ InterruptLimit
            \/ \E r \in ToolResult : RunTools(r)
            \/ EndTurn \/ StopTurn \/ EmitAgentEnd \/ FailRun
  BY <1>1, <1>15 DEF OpenRun, BudgetStop, SendRequest, StreamThrows, StreamStarts, AnswerArrives,
        Interrupt, InterruptLimit, RunTools, EndTurn, StopTurn, EmitAgentEnd, FailRun, hostVars
<1>16. CASE UNCHANGED vars
  BY <1>1, <1>16 DEF vars, runVars, hostVars
<1> QED BY <1>2, <1>3, <1>6, <1>7, <1>8, <1>9, <1>10, <1>11, <1>12, <1>13, <1>14, <1>15, <1>16
    DEF Next, HostStep, LoopStep

\* A message that a step submits is held after it.
LEMMA SubmittedStep ==
    ASSUME WaitingInv, [Next]_vars, NEW c \in Channels
    PROVE  SubmittedOf(c)' \subseteq SubmittedOf(c) \cup Held'
<1>t. TypeOK
  BY DEF WaitingInv, ConversationInv
<1>1. CASE UNCHANGED submitted
  BY <1>1 DEF SubmittedOf
<1>2. ASSUME NEW d \in Channels, submitted' = [submitted EXCEPT ![d] = @ + 1],
             Source[d][submitted[d] + 1] \in Held'
      PROVE  SubmittedOf(c)' \subseteq SubmittedOf(c) \cup Held'
  <2>1. CASE c = d
    <3>1. submitted[c] \in Nat /\ submitted'[c] = submitted[c] + 1
      BY <1>t, <1>2, <2>1 DEF TypeOK
    <3>2. 1 .. submitted'[c] = 1 .. submitted[c] \cup {submitted[c] + 1}
      BY <3>1
    <3> QED BY <1>2, <2>1, <3>2 DEF SubmittedOf
  <2>2. CASE c # d
    <3>1. submitted'[c] = submitted[c]
      BY <1>t, <1>2, <2>2 DEF TypeOK
    <3> QED BY <3>1 DEF SubmittedOf
  <2> QED BY <2>1, <2>2
<1>3. ASSUME NEW d \in Queues, Submit(d)
      PROVE  SubmittedOf(c)' \subseteq SubmittedOf(c) \cup Held'
  <2> DEFINE m == Source[d][submitted[d] + 1]
  <2>1. d \in Channels /\ m \in Msgs
    <3>1. d \in Channels /\ submitted[d] \in Nat /\ submitted[d] < Len(Source[d])
      BY <1>3, <1>t DEF Submit, TypeOK, Channels
    <3>2. submitted[d] + 1 \in 1 .. Len(Source[d])
      BY <3>1, SourceFacts
    <3> QED BY <3>1, <3>2, SourceFacts
  <2>2. queue' = [queue EXCEPT ![d] = Append(@, m)] /\ submitted' = [submitted EXCEPT ![d] = @ + 1]
    BY <1>3 DEF Submit, Note
  <2> HIDE DEF m
  <2>3. queue[d] \in Seq(Msgs) /\ queue'[d] = Append(queue[d], m)
    BY <1>t, <2>2 DEF TypeOK
  <2>4. m \in Range(queue'[d])
    BY <2>1, <2>3, AppendFacts
  <2>5. m \in Held'
    BY <2>4 DEF Held, Queued
  <2> QED BY <1>2, <2>1, <2>2, <2>5 DEF m
<1>4. CASE Prompt
  <2>1. pending' = <<Source["prompt"][submitted["prompt"] + 1]>>
        /\ submitted' = [submitted EXCEPT !["prompt"] = @ + 1] /\ "prompt" \in Channels
    BY <1>4 DEF Prompt, StartRun, Channels
  <2>2. \A e : e \in Range(<<e>>)
    BY SingleInOrder DEF Channels
  <2>3. Source["prompt"][submitted["prompt"] + 1] \in Held'
    BY <2>1, <2>2 DEF Held, InFlight
  <2> QED BY <1>2, <2>1, <2>3
<1>5. CASE \/ UNCHANGED vars \/ ListenerThrows \/ Abort \/ Continue
           \/ \E cs \in {Steering, {"followUp"}, Steering \cup {"followUp"}} : TakeBack(cs)
  BY <1>1, <1>5 DEF vars, hostVars, ListenerThrows, Abort, Continue, TakeBack
<1>6. CASE LoopStep
  BY <1>1, <1>6 DEF LoopStep, OpenRun, RecordPrompt, PollSteering, BudgetStop, BeginTurn, Inject,
        SendRequest, StreamThrows, StreamStarts, AnswerArrives, Interrupt, InterruptLimit,
        RunTools, EndTurn, StopTurn, PollFollowUps, EmitAgentEnd, FailRun, FinishRun, hostVars
<1> QED BY <1>3, <1>4, <1>5, <1>6 DEF Next, HostStep

\* So nothing is lost in such a step.
LEMMA LossStep ==
    ASSUME WaitingInv, OrderInv, [Next]_vars, failures' = failures, ~ (pc = "finishing" /\ stop = "budget"),
           NEW c \in Channels \ {"passive"}
    PROVE  Lost(c)' \subseteq Lost(c)
<1> SUFFICES ASSUME NEW m \in Lost(c)' PROVE m \in Lost(c)
  OBVIOUS
<1>1. m \in SubmittedOf(c)' /\ m \notin Held'
  BY DEF Lost, Held
<1>2. m \in SubmittedOf(c)
  BY <1>1, SubmittedStep
<1>3. m \notin Range(Source["passive"])
  <2>1. submitted[c] <= Len(Source[c]) /\ submitted[c] \in Nat /\ Len(Source[c]) \in Nat
    BY SourceFacts DEF OrderInv, WaitingInv, ConversationInv, TypeOK
  <2>2. PICK i \in 1 .. submitted[c] : Source[c][i] = m
    BY <1>2 DEF SubmittedOf
  <2>3. i \in 1 .. Len(Source[c])
    BY <2>1
  <2>4. m \in Range(Source[c]) /\ "passive" \in Channels
    BY <2>2, <2>3, SourceFacts DEF Channels, Queues
  <2> QED BY <2>4, ChannelsDiffer
<1>4. m \notin Held
  BY <1>1, <1>3, HeldStep
<1> QED BY <1>2, <1>4 DEF Lost, Held

\* A message is lost only when a listener throws, or when a run that spent its
\* turn budget ends with messages it had drained: in no other step, whatever
\* the host, the provider and the tools do.
THEOREM OnlyCutRunsLose ==
    Spec => [][\/ \A c \in Channels \ {"passive"} : Lost(c)' \subseteq Lost(c)
               \/ failures' # failures
               \/ pc = "finishing" /\ stop = "budget"]_vars
<1>1. WaitingInv /\ OrderInv /\ [Next]_vars =>
        [\/ \A c \in Channels \ {"passive"} : Lost(c)' \subseteq Lost(c)
         \/ failures' # failures
         \/ pc = "finishing" /\ stop = "budget"]_vars
  BY LossStep
<1> QED BY <1>1, Waiting, Ordered, PTL DEF Spec

\* Every message the host queued or prompted with is queued, in flight,
\* recorded or taken back, in every behaviour whose runs neither the budget nor
\* a listener cuts short: aborts and provider failures lose nothing.
THEOREM NothingIsLost == Spec /\ [](failures = 0 /\ stop # "budget") => []NothingLost
<1> DEFINE Uncut == failures = 0 /\ stop # "budget"
<1>1. Init => NothingLost
  BY DEF Init, NothingLost, Lost, SubmittedOf
<1>2. WaitingInv /\ OrderInv /\ Uncut /\ Uncut' /\ NothingLost /\ [Next]_vars => NothingLost'
  BY LossStep DEF NothingLost
<1> QED BY <1>1, <1>2, Waiting, Ordered, PTL DEF Spec
=============================================================================
