----------------------------- MODULE MessageBus -----------------------------
(* The bus between agents, messaging/bus.ts, and the responder an agent      *)
(* attaches to it, messaging/responder.ts.  A run reserves an id, attaches   *)
(* the responder and the delivery channel of its agent once that exists      *)
(* (again for every retry of an acceptance gate), and unregisters at its     *)
(* end.  A send captures its targets and asks them in parallel; each answer  *)
(* races a timer and the sender's abort, and the responder goes on when it   *)
(* has lost.                                                                 *)
(*                                                                           *)
(* A step is the code up to the next await, but that the responder's own     *)
(* awaits, which change nothing, are one wait.  All runs ask for the same    *)
(* base name, so that the id is the number of its suffix.  Left out: the     *)
(* texts, the log of recent sends and its observers, setStatus (no caller)   *)
(* and the recipient's passive queue, which is AgentRun's.                   *)
EXTENDS Naturals, Sequences, FiniteSets

CONSTANTS MaxRuns,     \* bound on the agent runs, numbered as they begin
          MaxSends,    \* bound on the calls of send(), numbered likewise
          MaxAgents,   \* bound on the agents of all runs together
          MaxThread    \* MAX_THREAD

ASSUME BusAssumption ==
    /\ MaxRuns \in Nat /\ MaxSends \in Nat
    /\ MaxAgents \in Nat \ {0} /\ MaxThread \in Nat \ {0}

VARIABLES
    state,         \* a run is new, running or over
    id,            \* its id on the bus, 0 before it reserves one
    participants,  \* the run registered under each id
    agent,         \* the agent of the run that is attached, 0 for a placeholder
    thread,        \* per run and agent: the exchanges its responder remembers
    send,          \* the sends
    leg,           \* per send and run: one dispatch
    result         \* per send: the SendResult

vars == <<state, id, participants, agent, thread, send, leg, result>>
runVars == <<state, id, participants, agent>>

Runs == 1..MaxRuns
NoRun == 0
Sends == 1..MaxSends
Ids == 1..MaxRuns
All == 0
Agents == 1..MaxAgents

NoSend == [stage |-> "new", from |-> NoRun, mode |-> "reply", targets |-> {},
           armed |-> FALSE, signalled |-> FALSE]
NoLeg == [stage |-> "none", waiting |-> FALSE, agent |-> 0, shown |-> {}]
NoResult == [delivered |-> {}, replies |-> {}, failed |-> {}, notFound |-> FALSE]

Remembered(th) == {th[i] : i \in 1..Len(th)}

-----------------------------------------------------------------------------
(* The life of a participant *)

Init ==
    /\ state = [r \in Runs |-> "new"]
    /\ id = [r \in Runs |-> 0]
    /\ participants = [i \in Ids |-> NoRun]
    /\ agent = [r \in Runs |-> 0]
    /\ thread = [r \in Runs |-> [a \in Agents |-> <<>>]]
    /\ send = [m \in Sends |-> NoSend]
    /\ leg = [m \in Sends |-> [r \in Runs |-> NoLeg]]
    /\ result = [m \in Sends |-> NoResult]

Free(i) == participants[i] = NoRun

\* Faulty: the suffix counts the participants instead of looking for a gap.
Allocates_Counts(i) == i = Cardinality({j \in Ids : ~Free(j)}) + 1

\* The base name, or the first suffix from 2 that is free.
Allocates(i) == Free(i) /\ \A j \in 1..(i - 1) : ~Free(j)

Reserve(r) ==
    /\ state[r] = "new" /\ \A q \in 1..(r - 1) : state[q] # "new"
    /\ state' = [state EXCEPT ![r] = "running"]
    /\ \E i \in Ids :
        /\ Allocates(i)
        /\ id' = [id EXCEPT ![r] = i]
        /\ participants' = [participants EXCEPT ![i] = r]
    /\ UNCHANGED <<agent, thread, send, leg, result>>

\* The run's next agent exists; its responder replaces the one before.
Attach(r) ==
    /\ state[r] = "running"
    /\ agent[r] + 1 \in Agents
    /\ Cardinality({p \in Runs \X Agents : p[2] <= agent[p[1]]}) < MaxAgents
    /\ agent' = [agent EXCEPT ![r] = @ + 1]
    /\ UNCHANGED <<state, id, participants, thread, send, leg, result>>

Open(m) == send[m].stage = "open"
Sending(r) == \E m \in Sends : Open(m) /\ send[m].from = r

\* The participant's object outlives its entry: dispatches hold on to it.
Unregister(r) ==
    /\ state[r] = "running" /\ ~Sending(r)
    /\ state' = [state EXCEPT ![r] = "over"]
    /\ participants' = [participants EXCEPT ![id[r]] = NoRun]
    /\ UNCHANGED <<id, agent, thread, send, leg, result>>

-----------------------------------------------------------------------------
(* A send *)

\* Everybody else, or the holder of one id unless that is the sender.
Targets(r, to) ==
    {t \in Runs \ {r} : state[t] = "running" /\ (to = All \/ id[t] = to)}

\* Faulty: a disabled timeout without a signal leaves no way out.
Armed_AsAsked(timed, signalled) == timed

\* A disabled timeout is honoured only if a signal can end the wait.
Armed(timed, signalled) == timed \/ ~signalled

Settled(legs) == \A r \in Runs : ~legs[r].waiting

IdsOf(rs) == {id[r] : r \in rs}

\* The respond() of an attached target runs up to its first await, so that the
\* thread is rendered when the message is sent.
Ask(t) == [stage |-> "asked", waiting |-> TRUE, agent |-> agent[t],
           shown |-> Remembered(thread[t][agent[t]])]

Send(m, r, to, mode, timed, signalled) ==
    /\ send[m].stage = "new" /\ \A n \in 1..(m - 1) : send[n].stage # "new"
    /\ state[r] = "running" /\ agent[r] > 0 /\ ~Sending(r)
    /\ LET targets == Targets(r, to)
           reached == {t \in targets : agent[t] > 0}
           asked == IF mode = "reply" THEN reached ELSE {}
       IN
        /\ leg' = [leg EXCEPT ![m] =
                      [t \in Runs |-> IF t \in asked THEN Ask(t) ELSE NoLeg]]
        /\ result' = [result EXCEPT ![m] =
                         [delivered |-> IdsOf(reached \ asked), replies |-> {},
                          failed |-> IdsOf(targets \ reached),
                          notFound |-> to # All /\ targets = {}]]
        /\ send' = [send EXCEPT ![m] =
                       [stage |-> IF asked = {} THEN "settled" ELSE "open",
                        from |-> r, mode |-> mode, targets |-> IdsOf(targets),
                        armed |-> asked # {} /\ Armed(timed, signalled),
                        signalled |-> asked # {} /\ signalled]]
    /\ UNCHANGED <<runVars, thread>>

\* A dispatch has ended; with the last one the send returns, its timers and
\* listeners cleared.
Return(m, legs) ==
    /\ leg' = [leg EXCEPT ![m] = legs]
    /\ send' = IF Settled(legs) /\ Open(m)
               THEN [send EXCEPT ![m].stage = "settled", ![m].armed = FALSE,
                                 ![m].signalled = FALSE]
               ELSE send

\* The race of one dispatch is lost: the timer, the signal or a throw.
GiveUp(m, rs) ==
    result' = [result EXCEPT ![m].failed =
                  @ \cup {id[r] : r \in {t \in rs : leg[m][t].waiting}}]

TimeOut(m, r) ==
    /\ leg[m][r].waiting /\ send[m].armed
    /\ Return(m, [leg[m] EXCEPT ![r].waiting = FALSE])
    /\ GiveUp(m, {r})
    /\ UNCHANGED <<runVars, thread>>

\* The signal of the sender's tool call.
Abort(m) ==
    /\ Open(m) /\ send[m].signalled
    /\ Return(m, [r \in Runs |-> [leg[m][r] EXCEPT !.waiting = FALSE]])
    /\ GiveUp(m, Runs)
    /\ UNCHANGED <<runVars, thread>>

-----------------------------------------------------------------------------
(* The responder *)

Over(l) == [l EXCEPT !.stage = "over", !.waiting = FALSE, !.shown = {}]

\* convertToLlm or streamFn throws; nobody minds if the race is over.
RespondThrows(m, r) ==
    /\ leg[m][r].stage = "asked"
    /\ Return(m, [leg[m] EXCEPT ![r] = Over(@)])
    /\ GiveUp(m, {r})
    /\ UNCHANGED <<runVars, thread>>

\* Faulty: every call of the responder has a thread of its own.
Remember_Forgets(th, m) == <<>>

Remember(th, m) ==
    LET longer == Append(th, m)
    IN IF Len(longer) > MaxThread THEN Tail(longer) ELSE longer

\* Faulty: the answer counts although the race is over.
Replied_Late(m, r) ==
    [result[m] EXCEPT !.delivered = @ \cup {id[r]}, !.replies = @ \cup {id[r]}]

\* What the sender makes of an answer.
Replied(m, r) ==
    IF leg[m][r].waiting
    THEN [result[m] EXCEPT !.delivered = @ \cup {id[r]}, !.replies = @ \cup {id[r]}]
    ELSE result[m]

\* stream.result() resolves, also for a request that failed or was aborted:
\* the exchange is remembered and answered, if only by "(no reply)".
Answer(m, r) ==
    /\ leg[m][r].stage = "asked"
    /\ Return(m, [leg[m] EXCEPT ![r] = Over(@)])
    /\ thread' = [thread EXCEPT ![r][leg[m][r].agent] = Remember(@, m)]
    /\ result' = [result EXCEPT ![m] = Replied(m, r)]
    /\ UNCHANGED runVars

-----------------------------------------------------------------------------
Participant == \E r \in Runs : Reserve(r) \/ Attach(r) \/ Unregister(r)

SendAny ==
    \E m \in Sends, r \in Runs, to \in Ids \cup {All}, mode \in {"reply", "notify"},
       timed, signalled \in BOOLEAN : Send(m, r, to, mode, timed, signalled)

Timer == \E m \in Sends, r \in Runs : TimeOut(m, r)

Responder ==
    \E m \in Sends, r \in Runs :
        RespondThrows(m, r) \/ Answer(m, r)

Next == Participant \/ SendAny \/ Timer \/ Responder \/ (\E m \in Sends : Abort(m))

Spec == Init /\ [][Next]_vars

\* A timer that is set fires, unless the race ends first.  Nothing is asked of
\* the responder: a provider may never answer.
FairSpec ==
    /\ Spec
    /\ \A m \in Sends, r \in Runs : WF_vars(TimeOut(m, r))

-----------------------------------------------------------------------------
(* Properties *)

Leg == [stage : {"none", "asked", "over"}, waiting : BOOLEAN,
        agent : Agents \cup {0}, shown : SUBSET Sends]
SendType == [stage : {"new", "open", "settled"}, from : Runs \cup {NoRun},
             mode : {"reply", "notify"}, targets : SUBSET Ids,
             armed : BOOLEAN, signalled : BOOLEAN]
SendResult == [delivered : SUBSET Ids, replies : SUBSET Ids, failed : SUBSET Ids,
               notFound : BOOLEAN]

\* Every variable keeps its type; a run that began has an id.
TypeOK ==
    /\ state \in [Runs -> {"new", "running", "over"}]
    /\ id \in [Runs -> Ids \cup {0}]
    /\ \A r \in Runs : state[r] # "new" => id[r] \in Ids
    /\ participants \in [Ids -> Runs \cup {NoRun}]
    /\ agent \in [Runs -> Agents \cup {0}]
    /\ thread \in [Runs -> [Agents -> Seq(Sends)]]
    /\ send \in [Sends -> SendType]
    /\ leg \in [Sends -> [Runs -> Leg]]
    /\ result \in [Sends -> SendResult]

\* A run is registered under its id for as long as it runs, whatever ids were
\* given back meanwhile: reserve() never takes an entry from a live agent.
LiveIsReachable ==
    \A r \in Runs : state[r] = "running" => participants[id[r]] = r

\* A send that returned accounts for every target it captured exactly once, as
\* delivered or as failed, and has a reply of each that it asked and reached.
\* An answer that loses against the timer or the abort does not turn up later.
ResultsAddUp ==
    \A m \in Sends : send[m].stage = "settled" =>
        /\ result[m].delivered \cup result[m].failed = send[m].targets
        /\ result[m].delivered \cap result[m].failed = {}
        /\ result[m].replies =
               IF send[m].mode = "reply" THEN result[m].delivered ELSE {}

\* A responder that is asked again shows its agent every exchange whose answer
\* any sender has received from it, unless the thread is at its cap: several
\* dispatches may run on one thread, and end in any order.
ConversationRemembered ==
    [][\A m \in Sends, r \in Runs :
        LET asked == leg'[m][r]
            heard == {n \in Sends : /\ leg[n][r].agent = asked.agent
                                    /\ id[r] \in result[n].replies}
        IN leg[m][r].stage = "none" /\ asked.stage = "asked" =>
            heard \subseteq asked.shown \/ Cardinality(asked.shown) = MaxThread]_vars

\* send() returns, also from a broadcast with a recipient that never answers,
\* unless the caller disabled the timeout and has its signal to end the wait.
EverySendSettles ==
    \A m \in Sends :
        Open(m) /\ (send[m].armed \/ ~send[m].signalled) ~> send[m].stage = "settled"

=============================================================================
