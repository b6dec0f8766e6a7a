-------------------------- MODULE MessageBus_proofs --------------------------
(* Type correctness of MessageBus, that a live run is registered, that the   *)
(* result of a send adds up, and that a responder shows what it answered,    *)
(* for every number of runs, agents and sends and every cap of a thread.     *)
EXTENDS MessageBus, FiniteSetTheorems, TLAPS

\* The targets of a send that still race.
Racing(m) == {r \in Runs : leg[m][r].waiting}

\* A dispatch that races is with a responder, and its target has an id that
\* no other target of the send shares.
LegsInv ==
    \A m \in Sends : \A r \in Runs :
        /\ leg[m][r].stage = "asked" => leg[m][r].agent \in Agents
        /\ leg[m][r].waiting => leg[m][r].stage = "asked" /\ state[r] # "new"
        /\ \A q \in Runs : leg[m][r].waiting /\ leg[m][q].waiting /\ id[r] = id[q] => r = q

StageInv ==
    \A m \in Sends :
        /\ send[m].stage = "open" => send[m].mode = "reply"
        /\ send[m].stage # "open" => Racing(m) = {}

\* At any time, each captured target is delivered, failed or in its race.
Account(m) ==
    /\ result[m].delivered \cup result[m].failed \cup IdsOf(Racing(m)) = send[m].targets
    /\ result[m].delivered \cap result[m].failed = {}
    /\ IdsOf(Racing(m)) \cap (result[m].delivered \cup result[m].failed) = {}
    /\ result[m].replies = IF send[m].mode = "reply" THEN result[m].delivered ELSE {}

AccountInv == \A m \in Sends : send[m].stage # "new" => Account(m)

IInv == TypeOK /\ LiveIsReachable /\ LegsInv /\ StageInv /\ AccountInv

-----------------------------------------------------------------------------
USE BusAssumption

\* Initially nobody runs and nothing is sent.
LEMMA InitIInv == Init => IInv
<1> SUFFICES ASSUME Init PROVE IInv
    OBVIOUS
<1> USE DEF Init
<1>1. TypeOK
  <2>1. NoLeg \in Leg
    BY DEF NoLeg, Leg
  <2>2. NoSend \in SendType
    BY DEF NoSend, SendType
  <2>3. NoResult \in SendResult
    BY DEF NoResult, SendResult
  <2>4. <<>> \in Seq(Sends)
    OBVIOUS
  <2> QED
    BY <2>1, <2>2, <2>3, <2>4 DEF TypeOK, NoRun
<1>2. LiveIsReachable
  BY DEF LiveIsReachable
<1>3. LegsInv
  BY DEF LegsInv, NoLeg
<1>4. StageInv
  BY DEF StageInv, Racing, NoLeg, NoSend
<1>5. AccountInv
  BY DEF AccountInv, NoSend
<1> QED
  BY <1>1, <1>2, <1>3, <1>4, <1>5 DEF IInv

-----------------------------------------------------------------------------
(* Participants *)

\* Registering, attaching and unregistering touch no send.
LEMMA ParticipantKeepsSends ==
    ASSUME IInv, UNCHANGED <<send, leg, result>>, LiveIsReachable',
           \A r \in Runs : state[r] # "new" => state'[r] # "new" /\ id'[r] = id[r]
    PROVE  LegsInv' /\ StageInv' /\ AccountInv'
<1> USE DEF IInv
<1>1. LegsInv'
  BY DEF LegsInv
<1>2. StageInv'
  BY DEF StageInv, Racing
<1>3. AccountInv'
  <2> SUFFICES ASSUME NEW m \in Sends, send[m].stage # "new" PROVE Account(m)'
    BY DEF AccountInv
  <2>1. Account(m)
    BY DEF AccountInv
  <2>2. \A r \in Racing(m) : id'[r] = id[r]
    BY DEF Racing, LegsInv
  <2>3. Racing(m)' = Racing(m)
    BY DEF Racing
  <2>4. IdsOf(Racing(m))' = IdsOf(Racing(m))
    BY <2>2, <2>3 DEF IdsOf
  <2> QED
    BY <2>1, <2>4 DEF Account
<1> QED
  BY <1>1, <1>2, <1>3

\* A new run takes a free id, so no running one loses its entry.
LEMMA ReserveStep == ASSUME IInv, NEW r \in Runs, Reserve(r) PROVE IInv'
<1> USE DEF IInv
<1>1. PICK i \in Ids : /\ Free(i)
                       /\ id' = [id EXCEPT ![r] = i]
                       /\ participants' = [participants EXCEPT ![i] = r]
  BY DEF Reserve, Allocates
<1>2. /\ state[r] = "new"
      /\ state' = [state EXCEPT ![r] = "running"]
      /\ UNCHANGED <<agent, thread, send, leg, result>>
  BY DEF Reserve
<1>3. TypeOK'
  BY <1>1, <1>2 DEF TypeOK
<1>4. LiveIsReachable'
  <2> SUFFICES ASSUME NEW q \in Runs, state'[q] = "running"
               PROVE  participants'[id'[q]] = q
    BY DEF LiveIsReachable
  <2>1. CASE q = r
    BY <2>1, <1>1, <1>2 DEF TypeOK
  <2>2. CASE q # r
    <3>1. state[q] = "running" /\ id'[q] = id[q] /\ id[q] \in Ids
      BY <2>2, <1>1, <1>2 DEF TypeOK
    <3>2. participants[id[q]] = q
      BY <3>1 DEF LiveIsReachable
    <3>3. id[q] # i
      BY <3>2, <1>1 DEF Free, NoRun, Runs
    <3> QED
      BY <3>1, <3>2, <3>3, <1>1 DEF TypeOK
  <2> QED
    BY <2>1, <2>2
<1>5. \A q \in Runs : state[q] # "new" => state'[q] # "new" /\ id'[q] = id[q]
  BY <1>1, <1>2 DEF TypeOK
<1>6. LegsInv' /\ StageInv' /\ AccountInv'
  BY <1>2, <1>4, <1>5, ParticipantKeepsSends
<1> QED
  BY <1>3, <1>4, <1>6

\* An attach changes nothing but the agent.
LEMMA AttachStep == ASSUME IInv, NEW r \in Runs, Attach(r) PROVE IInv'
<1> USE DEF IInv
<1>1. /\ agent' = [agent EXCEPT ![r] = @ + 1] /\ agent[r] + 1 \in Agents
      /\ UNCHANGED <<state, id, participants, thread, send, leg, result>>
  BY DEF Attach
<1>2. TypeOK'
  BY <1>1 DEF TypeOK
<1>3. LiveIsReachable'
  BY <1>1 DEF LiveIsReachable
<1>4. LegsInv' /\ StageInv' /\ AccountInv'
  BY <1>1, <1>3, ParticipantKeepsSends
<1> QED
  BY <1>2, <1>3, <1>4

\* The entry that goes belongs to the run that ends and to no other.
LEMMA UnregisterStep == ASSUME IInv, NEW r \in Runs, Unregister(r) PROVE IInv'
<1> USE DEF IInv
<1>1. /\ state[r] = "running"
      /\ state' = [state EXCEPT ![r] = "over"]
      /\ participants' = [participants EXCEPT ![id[r]] = NoRun]
      /\ UNCHANGED <<id, agent, thread, send, leg, result>>
  BY DEF Unregister
<1>2. TypeOK'
  BY <1>1 DEF TypeOK, NoRun
<1>3. LiveIsReachable'
  <2> SUFFICES ASSUME NEW q \in Runs, state'[q] = "running"
               PROVE  participants'[id[q]] = q
    BY <1>1 DEF LiveIsReachable
  <2>1. q # r /\ state[q] = "running"
    BY <1>1 DEF TypeOK
  <2>2. participants[id[q]] = q /\ participants[id[r]] = r
    BY <2>1, <1>1 DEF LiveIsReachable
  <2> QED
    BY <2>1, <2>2, <1>1 DEF TypeOK
<1>4. \A q \in Runs : state[q] # "new" => state'[q] # "new"
  BY <1>1 DEF TypeOK
<1>5. LegsInv' /\ StageInv' /\ AccountInv'
  BY <1>1, <1>3, <1>4, ParticipantKeepsSends
<1> QED
  BY <1>2, <1>3, <1>5

-----------------------------------------------------------------------------
(* A send *)

\* A thread stays a sequence of sends.
LEMMA RememberType ==
    ASSUME NEW th \in Seq(Sends), NEW m \in Sends
    PROVE  Remember(th, m) \in Seq(Sends)
<1> DEFINE longer == Append(th, m)
<1>1. longer \in Seq(Sends)
  OBVIOUS
<1>2. ASSUME Len(longer) > MaxThread PROVE Tail(longer) \in Seq(Sends)
  <2>1. longer # <<>>
    BY <1>1, <1>2
  <2> QED
    BY <1>1, <2>1
<1> QED
  BY <1>1, <1>2 DEF Remember

\* Running agents share no id.
LEMMA DistinctIds ==
    ASSUME LiveIsReachable, NEW q \in Runs, NEW r \in Runs,
           state[q] = "running", state[r] = "running", id[q] = id[r]
    PROVE  q = r
BY DEF LiveIsReachable

\* A send captures every running run it is meant for once: delivered at once,
\* failed at once for want of a channel, or asked.
LEMMA SendStep ==
    ASSUME IInv, NEW m \in Sends, NEW r \in Runs, NEW to \in Ids \cup {All},
           NEW mode \in {"reply", "notify"}, NEW timed \in BOOLEAN,
           NEW signalled \in BOOLEAN, Send(m, r, to, mode, timed, signalled)
    PROVE  IInv'
<1> USE DEF IInv
<1> DEFINE targets == Targets(r, to)
           reached == {t \in targets : agent[t] > 0}
           asked == IF mode = "reply" THEN reached ELSE {}
           legs == [t \in Runs |-> IF t \in asked THEN Ask(t) ELSE NoLeg]
           res == [delivered |-> IdsOf(reached \ asked), replies |-> {},
                   failed |-> IdsOf(targets \ reached),
                   notFound |-> to # All /\ targets = {}]
           snd == [stage |-> IF asked = {} THEN "settled" ELSE "open",
                   from |-> r, mode |-> mode, targets |-> IdsOf(targets),
                   armed |-> asked # {} /\ Armed(timed, signalled),
                   signalled |-> asked # {} /\ signalled]
<1>1. /\ leg' = [leg EXCEPT ![m] = legs]
      /\ result' = [result EXCEPT ![m] = res]
      /\ send' = [send EXCEPT ![m] = snd]
      /\ UNCHANGED <<state, id, participants, agent, thread>>
  BY DEF Send, runVars
<1>2. /\ targets \subseteq {t \in Runs : state[t] = "running"}
      /\ asked \subseteq reached /\ reached \subseteq targets
  BY DEF Targets
<1>3. \A ts \in SUBSET targets : IdsOf(ts) \subseteq Ids
  BY <1>2 DEF IdsOf, TypeOK
<1>4. \A t \in asked : agent[t] \in Agents
  <2> SUFFICES ASSUME NEW t \in asked PROVE agent[t] \in Agents
    OBVIOUS
  <2>1. t \in Runs /\ agent[t] > 0
    BY <1>2
  <2>2. agent[t] \in Agents \cup {0}
    BY <2>1 DEF TypeOK
  <2> QED
    BY <2>1, <2>2
<1>5. \A t \in asked : Ask(t) \in Leg
  <2> SUFFICES ASSUME NEW t \in asked PROVE Ask(t) \in Leg
    OBVIOUS
  <2>1. t \in Runs /\ agent[t] \in Agents
    BY <1>2, <1>4
  <2>2. thread[t][agent[t]] \in Seq(Sends)
    BY <2>1 DEF TypeOK
  <2>3. Remembered(thread[t][agent[t]]) \subseteq Sends
    BY <2>2 DEF Remembered
  <2> QED
    BY <2>1, <2>3 DEF Ask, Leg
<1>6. legs \in [Runs -> Leg]
  BY <1>5 DEF NoLeg, Leg
<1>7. res \in SendResult
  BY <1>2, <1>3 DEF SendResult
<1>8. snd \in SendType
  BY <1>2, <1>3 DEF SendType, Armed
<1>9. TypeOK'
  BY <1>1, <1>6, <1>7, <1>8 DEF TypeOK
<1>10. LiveIsReachable'
  BY <1>1 DEF LiveIsReachable
<1>11. \A t \in Runs : /\ legs[t].waiting <=> t \in asked
                       /\ legs[t].stage = "asked" => t \in asked
                       /\ t \in asked => legs[t] = Ask(t)
  BY DEF NoLeg, Ask
<1>12. /\ leg'[m] = legs /\ result'[m] = res /\ send'[m] = snd
       /\ \A n \in Sends \ {m} : /\ leg'[n] = leg[n] /\ result'[n] = result[n]
                                 /\ send'[n] = send[n]
  BY <1>1 DEF TypeOK
<1>13. LegsInv'
  <2> SUFFICES ASSUME NEW n \in Sends, NEW q \in Runs
               PROVE  /\ leg'[n][q].stage = "asked" => leg'[n][q].agent \in Agents
                      /\ leg'[n][q].waiting =>
                             leg'[n][q].stage = "asked" /\ state'[q] # "new"
                      /\ \A t \in Runs :
                             leg'[n][q].waiting /\ leg'[n][t].waiting /\ id'[q] = id'[t]
                                 => q = t
    BY DEF LegsInv
  <2>1. CASE n # m
    BY <2>1, <1>1, <1>12 DEF LegsInv
  <2>2. CASE n = m
    <3>1. leg'[n] = legs
      BY <2>2, <1>12
    <3>2. legs[q].stage = "asked" => legs[q].agent \in Agents
      BY <1>4, <1>11 DEF Ask
    <3>3. legs[q].waiting => legs[q].stage = "asked" /\ state'[q] # "new"
      BY <1>1, <1>2, <1>11 DEF Ask
    <3>4. ASSUME NEW t \in Runs, legs[q].waiting, legs[t].waiting, id'[q] = id'[t]
          PROVE  q = t
      BY <3>4, <1>1, <1>2, <1>11, DistinctIds
    <3> HIDE DEF legs
    <3> QED
      BY <3>1, <3>2, <3>3, <3>4
  <2> QED
    BY <2>1, <2>2
<1>14. Racing(m)' = asked
  BY <1>2, <1>11, <1>12 DEF Racing
<1>15. StageInv'
  <2> SUFFICES ASSUME NEW n \in Sends
               PROVE  /\ send'[n].stage = "open" => send'[n].mode = "reply"
                      /\ send'[n].stage # "open" => Racing(n)' = {}
    BY DEF StageInv
  <2>1. CASE n # m
    BY <2>1, <1>12 DEF StageInv, Racing
  <2>2. CASE n = m
    BY <2>2, <1>12, <1>14
  <2> QED
    BY <2>1, <2>2
<1>16. AccountInv'
  <2> SUFFICES ASSUME NEW n \in Sends, send'[n].stage # "new" PROVE Account(n)'
    BY DEF AccountInv
  <2>1. CASE n # m
    <3>1. Account(n)
      BY <2>1, <1>12 DEF AccountInv
    <3>2. IdsOf(Racing(n))' = IdsOf(Racing(n))
      BY <2>1, <1>1, <1>12 DEF IdsOf, Racing
    <3> QED
      BY <2>1, <3>1, <3>2, <1>12 DEF Account
  <2>2. CASE n = m
    <3>1. IdsOf(Racing(n))' = IdsOf(asked)
      BY <2>2, <1>1, <1>14 DEF IdsOf
    <3>2. \A s, t \in SUBSET targets : s \cap t = {} => IdsOf(s) \cap IdsOf(t) = {}
      BY <1>2, DistinctIds DEF IdsOf
    <3>3. IdsOf(reached \ asked) \cup IdsOf(targets \ reached) \cup IdsOf(asked)
              = IdsOf(targets)
      BY <1>2 DEF IdsOf
    <3>4. /\ IdsOf(reached \ asked) \cap IdsOf(targets \ reached) = {}
          /\ IdsOf(asked) \cap IdsOf(reached \ asked) = {}
          /\ IdsOf(asked) \cap IdsOf(targets \ reached) = {}
      <4> HIDE DEF asked, reached, targets
      <4>1. /\ reached \ asked \in SUBSET targets /\ targets \ reached \in SUBSET targets
            /\ asked \in SUBSET targets
        BY <1>2
      <4>2. /\ (reached \ asked) \cap (targets \ reached) = {}
            /\ asked \cap (reached \ asked) = {}
            /\ asked \cap (targets \ reached) = {}
        BY <1>2
      <4> QED
        BY <4>1, <4>2, <3>2
    <3>5. mode = "reply" => IdsOf(reached \ asked) = {}
      BY DEF IdsOf
    <3>6. /\ result'[n].delivered = IdsOf(reached \ asked) /\ result'[n].replies = {}
          /\ result'[n].failed = IdsOf(targets \ reached)
          /\ send'[n].targets = IdsOf(targets) /\ send'[n].mode = mode
      BY <2>2, <1>12
    <3> HIDE DEF asked, reached, targets
    <3>7. /\ result'[n].delivered \cup result'[n].failed \cup IdsOf(Racing(n))'
                 = send'[n].targets
          /\ result'[n].delivered \cap result'[n].failed = {}
          /\ IdsOf(Racing(n))' \cap (result'[n].delivered \cup result'[n].failed) = {}
      BY <3>1, <3>3, <3>4, <3>6
    <3>8. result'[n].replies = IF send'[n].mode = "reply" THEN result'[n].delivered ELSE {}
      BY <3>5, <3>6
    <3> QED
      BY <3>7, <3>8 DEF Account
  <2> QED
    BY <2>1, <2>2
<1> QED
  BY <1>9, <1>10, <1>13, <1>15, <1>16

-----------------------------------------------------------------------------
(* The end of a dispatch *)

\* However a dispatch ends - answered, failed or out of time - its target moves
\* from the race to one side of the account.
LEMMA ReturnStep ==
    ASSUME IInv, NEW m \in Sends, NEW legs \in [Runs -> Leg], Return(m, legs),
           UNCHANGED runVars, thread' \in [Runs -> [Agents -> Seq(Sends)]],
           NEW res \in SendResult, result' = [result EXCEPT ![m] = res],
           \A r \in Runs :
               /\ legs[r].stage = "asked" => leg[m][r].stage = "asked"
               /\ legs[r].agent = leg[m][r].agent
               /\ legs[r].waiting => leg[m][r].waiting /\ legs[r].stage = "asked",
           NEW gone, gone = {r \in Racing(m) : ~legs[r].waiting},
           \/ /\ res.failed = result[m].failed \cup IdsOf(gone)
              /\ res.delivered = result[m].delivered /\ res.replies = result[m].replies
           \/ /\ res.delivered = result[m].delivered \cup IdsOf(gone)
              /\ res.replies = result[m].replies \cup IdsOf(gone)
              /\ res.failed = result[m].failed
    PROVE  IInv'
<1> USE DEF IInv
<1>1. /\ leg' = [leg EXCEPT ![m] = legs]
      /\ UNCHANGED <<state, id, participants, agent>>
  BY DEF Return, runVars
<1>2. /\ leg'[m] = legs /\ result'[m] = res
      /\ \A n \in Sends \ {m} : leg'[n] = leg[n] /\ result'[n] = result[n]
  BY <1>1 DEF TypeOK
<1>3. /\ send' \in [Sends -> SendType]
      /\ \A n \in Sends : send'[n].targets = send[n].targets /\ send'[n].mode = send[n].mode
      /\ \A n \in Sends : n # m => send'[n] = send[n]
  <2>1. CASE Settled(legs) /\ Open(m)
    <3>1. send \in [Sends -> SendType]
      BY DEF TypeOK
    <3>2. send' = [send EXCEPT ![m] = [send[m] EXCEPT !.stage = "settled",
                                          !.armed = FALSE, !.signalled = FALSE]]
      BY <2>1 DEF Return
    <3>3. /\ send[m] \in SendType
          /\ [send[m] EXCEPT !.stage = "settled", !.armed = FALSE, !.signalled = FALSE]
                 \in SendType
      <4>1. send[m] \in SendType
        BY <3>1
      <4>2. \A s \in SendType :
                [s EXCEPT !.stage = "settled", !.armed = FALSE, !.signalled = FALSE]
                    \in SendType
        BY DEF SendType
      <4> QED
        BY <4>1, <4>2
    <3>4. /\ send'[m].targets = send[m].targets /\ send'[m].mode = send[m].mode
          /\ \A n \in Sends : n # m => send'[n] = send[n]
      BY <3>1, <3>2, <3>3 DEF SendType
    <3> QED
      BY <3>1, <3>2, <3>3, <3>4
  <2>2. CASE ~(Settled(legs) /\ Open(m))
    BY <2>2 DEF Return, TypeOK
  <2> QED
    BY <2>1, <2>2
<1>4. /\ send'[m].stage = "new" <=> send[m].stage = "new"
      /\ send'[m].stage = "open" => send[m].stage = "open"
      /\ send'[m].stage # "open" => send[m].stage # "open" \/ Settled(legs)
  BY DEF Return, TypeOK, SendType, Open
<1>5. TypeOK'
  BY <1>1, <1>3 DEF TypeOK
<1>6. LiveIsReachable'
  BY <1>1 DEF LiveIsReachable
<1>7. LegsInv'
  BY <1>1, <1>2 DEF LegsInv
<1>8. Racing(m)' = Racing(m) \ gone /\ gone \subseteq Racing(m)
  BY <1>2 DEF Racing
<1>9. StageInv'
  <2> SUFFICES ASSUME NEW n \in Sends
               PROVE  /\ send'[n].stage = "open" => send'[n].mode = "reply"
                      /\ send'[n].stage # "open" => Racing(n)' = {}
    BY DEF StageInv
  <2>1. CASE n # m
    BY <2>1, <1>2, <1>3 DEF StageInv, Racing
  <2>2. CASE n = m
    <3>1. send'[n].stage = "open" => send'[n].mode = "reply"
      BY <2>2, <1>3, <1>4 DEF StageInv
    <3>2. ASSUME send[m].stage # "open" PROVE Racing(m)' = {}
      BY <3>2, <1>8 DEF StageInv
    <3>3. ASSUME Settled(legs) PROVE Racing(m)' = {}
      BY <3>3, <1>2 DEF Racing, Settled
    <3> QED
      BY <2>2, <3>1, <3>2, <3>3, <1>4
  <2> QED
    BY <2>1, <2>2
<1>10. AccountInv'
  <2> SUFFICES ASSUME NEW n \in Sends, send'[n].stage # "new" PROVE Account(n)'
    BY DEF AccountInv
  <2>1. CASE n # m
    <3>1. Account(n)
      BY <2>1, <1>3 DEF AccountInv
    <3>2. IdsOf(Racing(n))' = IdsOf(Racing(n))
      BY <2>1, <1>1, <1>2 DEF IdsOf, Racing
    <3> QED
      BY <2>1, <3>1, <3>2, <1>2, <1>3 DEF Account
  <2>2. CASE n = m
    <3>1. Account(m)
      BY <2>2, <1>4 DEF AccountInv
    <3>2. IdsOf(Racing(m))' = IdsOf(Racing(m) \ gone)
      BY <1>1, <1>8 DEF IdsOf
    <3>3. IdsOf(Racing(m)) = IdsOf(Racing(m) \ gone) \cup IdsOf(gone)
      BY <1>8 DEF IdsOf
    <3>4. IdsOf(Racing(m) \ gone) \cap IdsOf(gone) = {}
      <4>1. \A q, r \in Racing(m) : id[q] = id[r] => q = r
        BY DEF Racing, LegsInv
      <4>2. ASSUME NEW q \in Racing(m) \ gone, NEW r \in gone, id[q] = id[r] PROVE FALSE
        BY <4>1, <4>2, <1>8
      <4> QED
        BY <4>2 DEF IdsOf
    <3>5. IdsOf(gone) # {} => send[m].mode = "reply"
      BY <1>8, <3>1 DEF IdsOf, StageInv, TypeOK, SendType
    <3> HIDE DEF IInv
    <3>6. /\ res.delivered \cup res.failed \cup IdsOf(Racing(m))' = send[m].targets
          /\ res.delivered \cap res.failed = {}
          /\ IdsOf(Racing(m))' \cap (res.delivered \cup res.failed) = {}
      <4> DEFINE racing == IdsOf(Racing(m) \ gone)
      <4>1. /\ result[m].delivered \cup result[m].failed \cup racing \cup IdsOf(gone)
                   = send[m].targets
            /\ result[m].delivered \cap result[m].failed = {}
            /\ (racing \cup IdsOf(gone))
                   \cap (result[m].delivered \cup result[m].failed) = {}
            /\ racing \cap IdsOf(gone) = {}
        BY <3>1, <3>3, <3>4 DEF Account
      <4> HIDE DEF racing
      <4>2. /\ res.delivered \cup res.failed \cup racing = send[m].targets
            /\ res.delivered \cap res.failed = {}
            /\ racing \cap (res.delivered \cup res.failed) = {}
        BY <4>1
      <4> QED
        BY <4>2, <3>2 DEF racing
    <3>7. res.replies = IF send[m].mode = "reply" THEN res.delivered ELSE {}
      BY <3>1, <3>5 DEF Account
    <3> QED
      BY <2>2, <3>6, <3>7, <1>2, <1>3 DEF Account
  <2> QED
    BY <2>1, <2>2
<1> QED
  BY <1>5, <1>6, <1>7, <1>9, <1>10

\* A dispatch with a waiting leg has lost its race: it counts as failed.
LEMMA FailedType ==
    ASSUME TypeOK, NEW m \in Sends, NEW gone \in SUBSET Runs,
           \A r \in gone : state[r] # "new"
    PROVE  [result[m] EXCEPT !.failed = @ \cup IdsOf(gone)] \in SendResult
<1>1. result[m] \in SendResult
  BY DEF TypeOK
<1>2. IdsOf(gone) \subseteq Ids
  BY DEF IdsOf, TypeOK
<1>3. \A s \in SendResult, f \in SUBSET Ids :
          [s EXCEPT !.failed = @ \cup f] \in SendResult
  BY DEF SendResult
<1> QED
  BY <1>1, <1>2, <1>3

\* Dispatches that are given up for the runs rs are over or out of their race.
LEMMA GiveUpStep ==
    ASSUME IInv, NEW m \in Sends, NEW rs \in SUBSET Runs, NEW legs \in [Runs -> Leg],
           Return(m, legs), GiveUp(m, rs), UNCHANGED <<runVars, thread>>,
           \A r \in Runs :
               /\ legs[r].stage = "asked" => leg[m][r].stage = "asked"
               /\ legs[r].agent = leg[m][r].agent
               /\ legs[r].waiting <=> leg[m][r].waiting /\ r \notin rs
               /\ legs[r].waiting => legs[r].stage = "asked"
    PROVE  IInv'
<1> DEFINE gone == {r \in Racing(m) : ~legs[r].waiting}
           res == [result[m] EXCEPT !.failed = @ \cup IdsOf(gone)]
<1>1. gone = {t \in rs : leg[m][t].waiting} /\ gone \in SUBSET Runs
  BY DEF Racing
<1>2. \A r \in gone : state[r] # "new"
  BY DEF IInv, LegsInv, Racing
<1>3. res \in SendResult
  BY <1>1, <1>2, FailedType DEF IInv
<1>4. result' = [result EXCEPT ![m] = res]
  BY <1>1 DEF GiveUp, IdsOf
<1>5. /\ res.failed = result[m].failed \cup IdsOf(gone)
      /\ res.delivered = result[m].delivered /\ res.replies = result[m].replies
  <2>1. result[m] \in SendResult
    BY DEF IInv, TypeOK
  <2> QED
    BY <2>1 DEF SendResult
<1>6. thread' \in [Runs -> [Agents -> Seq(Sends)]] /\ UNCHANGED runVars
  BY DEF IInv, TypeOK
<1> HIDE DEF res
<1> QED
  BY <1>3, <1>4, <1>5, <1>6, ReturnStep

\* The timer of one dispatch.
LEMMA TimeOutStep ==
    ASSUME IInv, NEW m \in Sends, NEW r \in Runs, TimeOut(m, r) PROVE IInv'
<1> DEFINE legs == [leg[m] EXCEPT ![r].waiting = FALSE]
<1>1. leg[m] \in [Runs -> Leg]
  BY DEF IInv, TypeOK
<1>2. legs \in [Runs -> Leg]
  <2>1. \A l \in Leg : [l EXCEPT !.waiting = FALSE] \in Leg
    BY DEF Leg
  <2>2. legs = [leg[m] EXCEPT ![r] = [leg[m][r] EXCEPT !.waiting = FALSE]]
    BY <1>1
  <2> QED
    BY <1>1, <2>1, <2>2
<1>3. \A q \in Runs :
          /\ legs[q].stage = leg[m][q].stage /\ legs[q].agent = leg[m][q].agent
          /\ legs[q].waiting <=> leg[m][q].waiting /\ q \notin {r}
  BY <1>1 DEF Leg
<1>4. \A q \in Runs : leg[m][q].waiting => leg[m][q].stage = "asked"
  BY DEF IInv, LegsInv
<1>5. Return(m, legs) /\ GiveUp(m, {r}) /\ UNCHANGED <<runVars, thread>>
  BY DEF TimeOut
<1> HIDE DEF legs
<1> QED
  BY <1>2, <1>3, <1>4, <1>5, GiveUpStep

\* The abort takes every dispatch of the send out of its race.
LEMMA AbortStep == ASSUME IInv, NEW m \in Sends, Abort(m) PROVE IInv'
<1> DEFINE legs == [r \in Runs |-> [leg[m][r] EXCEPT !.waiting = FALSE]]
<1>1. \A r \in Runs : leg[m][r] \in Leg
  BY DEF IInv, TypeOK
<1>2. legs \in [Runs -> Leg]
  <2>1. \A l \in Leg : [l EXCEPT !.waiting = FALSE] \in Leg
    BY DEF Leg
  <2> QED
    BY <1>1, <2>1
<1>3. \A q \in Runs :
          /\ legs[q].stage = leg[m][q].stage /\ legs[q].agent = leg[m][q].agent
          /\ ~legs[q].waiting
  BY <1>1 DEF Leg
<1>4. Return(m, legs) /\ GiveUp(m, Runs) /\ UNCHANGED <<runVars, thread>>
  BY DEF Abort
<1> HIDE DEF legs
<1> QED
  BY <1>2, <1>3, <1>4, GiveUpStep

\* A dispatch whose responder is done.
LEMMA OverLegs ==
    ASSUME IInv, NEW m \in Sends, NEW r \in Runs
    PROVE  /\ [leg[m] EXCEPT ![r] = Over(@)] \in [Runs -> Leg]
           /\ \A q \in Runs :
                 LET new == [leg[m] EXCEPT ![r] = Over(@)][q] IN
                 /\ new.stage = "asked" => leg[m][q].stage = "asked"
                 /\ new.agent = leg[m][q].agent
                 /\ new.waiting <=> leg[m][q].waiting /\ q \notin {r}
                 /\ new.waiting => new.stage = "asked"
<1>1. leg[m] \in [Runs -> Leg]
  BY DEF IInv, TypeOK
<1>2. \A l \in Leg : /\ Over(l) \in Leg /\ Over(l).stage = "over" /\ ~Over(l).waiting
                     /\ Over(l).agent = l.agent
  BY DEF Over, Leg
<1>3. \A q \in Runs : leg[m][q].waiting => leg[m][q].stage = "asked"
  BY DEF IInv, LegsInv
<1> QED
  BY <1>1, <1>2, <1>3

\* A responder that throws fails its dispatch, if that still races.
LEMMA RespondThrowsStep ==
    ASSUME IInv, NEW m \in Sends, NEW r \in Runs, RespondThrows(m, r) PROVE IInv'
<1> DEFINE legs == [leg[m] EXCEPT ![r] = Over(@)]
<1>1. Return(m, legs) /\ GiveUp(m, {r}) /\ UNCHANGED <<runVars, thread>>
  BY DEF RespondThrows
<1> QED
  BY <1>1, OverLegs, GiveUpStep

\* An answer counts if its dispatch still races, and is remembered either way.
LEMMA AnswerStep ==
    ASSUME IInv, NEW m \in Sends, NEW r \in Runs, Answer(m, r) PROVE IInv'
<1> DEFINE legs == [leg[m] EXCEPT ![r] = Over(@)]
           gone == {q \in Racing(m) : ~legs[q].waiting}
           res == Replied(m, r)
<1>1. /\ leg[m][r].stage = "asked" /\ Return(m, legs) /\ UNCHANGED runVars
      /\ thread' = [thread EXCEPT ![r][leg[m][r].agent] = Remember(@, m)]
      /\ result' = [result EXCEPT ![m] = res]
  BY DEF Answer
<1>2. leg[m][r].agent \in Agents
  BY <1>1 DEF IInv, LegsInv
<1>3. thread' \in [Runs -> [Agents -> Seq(Sends)]]
  <2>1. thread \in [Runs -> [Agents -> Seq(Sends)]]
    BY DEF IInv, TypeOK
  <2>2. Remember(thread[r][leg[m][r].agent], m) \in Seq(Sends)
    BY <1>2, <2>1, RememberType
  <2> QED
    BY <1>1, <1>2, <2>1, <2>2
<1>4. result[m] \in SendResult
  BY DEF IInv, TypeOK
<1>5. gone = IF leg[m][r].waiting THEN {r} ELSE {}
  <2>1. \A q \in Runs : legs[q].waiting <=> leg[m][q].waiting /\ q \notin {r}
    BY OverLegs
  <2> QED
    BY <2>1 DEF Racing
<1>6. /\ res \in SendResult
      /\ res.delivered = result[m].delivered \cup IdsOf(gone)
      /\ res.replies = result[m].replies \cup IdsOf(gone)
      /\ res.failed = result[m].failed
  <2>1. CASE leg[m][r].waiting
    <3>1. id[r] \in Ids
      BY <2>1 DEF IInv, LegsInv, TypeOK
    <3>2. IdsOf(gone) = {id[r]}
      BY <2>1, <1>5 DEF IdsOf
    <3>3. res = [result[m] EXCEPT !.delivered = @ \cup {id[r]}, !.replies = @ \cup {id[r]}]
      BY <2>1 DEF Replied
    <3>4. \A s \in SendResult :
              LET t == [s EXCEPT !.delivered = @ \cup {id[r]}, !.replies = @ \cup {id[r]}]
              IN /\ t \in SendResult /\ t.failed = s.failed
                 /\ t.delivered = s.delivered \cup {id[r]}
                 /\ t.replies = s.replies \cup {id[r]}
      BY <3>1 DEF SendResult
    <3> QED
      BY <1>4, <3>2, <3>3, <3>4
  <2>2. CASE ~leg[m][r].waiting
    <3>1. IdsOf(gone) = {}
      BY <2>2, <1>5 DEF IdsOf
    <3> QED
      BY <2>2, <1>4, <3>1 DEF Replied
  <2> QED
    BY <2>1, <2>2
<1>7. \A q \in Runs :
          /\ legs[q].stage = "asked" => leg[m][q].stage = "asked"
          /\ legs[q].agent = leg[m][q].agent
          /\ legs[q].waiting => leg[m][q].waiting /\ legs[q].stage = "asked"
  BY OverLegs
<1>8. legs \in [Runs -> Leg]
  BY OverLegs
<1> HIDE DEF res, legs
<1> QED
  BY <1>1, <1>3, <1>6, <1>7, <1>8, ReturnStep

-----------------------------------------------------------------------------
(* What a thread remembers *)

\* A send that has not begun has no legs; a leg with an agent belongs to a run
\* that began, and no other leg of the send to one of the same id.
AskedInv ==
    \A m \in Sends : \A q \in Runs :
        /\ send[m].stage = "new" => leg[m][q] = NoLeg
        /\ leg[m][q].agent # 0 =>
              /\ state[q] # "new"
              /\ \A r \in Runs : leg[m][r].agent # 0 /\ id[q] = id[r] => q = r

\* A thread of run r is within its cap, and has each exchange once, when over.
Recalls(r, th) ==
    /\ Len(th) <= MaxThread
    /\ \A i, j \in 1..Len(th) : th[i] = th[j] => i = j
    /\ \A i \in 1..Len(th) : leg[th[i]][r].stage = "over"

ThreadInv == \A r \in Runs : \A a \in Agents : Recalls(r, thread[r][a])

\* A thread has the exchange with the send n, unless it is at its cap.
Has(th, n) == n \in Remembered(th) \/ Len(th) = MaxThread

HeardInv ==
    \A n \in Sends : \A r \in Runs :
        leg[n][r].agent # 0 /\ id[r] \in result[n].replies =>
            Has(thread[r][leg[n][r].agent], n)

MemoryInv == AskedInv /\ ThreadInv /\ HeardInv

\* Nothing is remembered initially.
LEMMA InitMemory == Init => MemoryInv
<1> SUFFICES ASSUME Init PROVE MemoryInv
    OBVIOUS
<1>1. \A m \in Sends : \A q \in Runs : leg[m][q] = NoLeg
  BY DEF Init
<1>2. AskedInv
  BY <1>1 DEF AskedInv, NoLeg
<1>3. ThreadInv
  <2>1. \A r \in Runs : \A a \in Agents : thread[r][a] = <<>>
    BY DEF Init
  <2> QED
    BY <2>1 DEF ThreadInv, Recalls
<1>4. HeardInv
  BY <1>1 DEF HeardInv, NoLeg
<1> QED
  BY <1>2, <1>3, <1>4 DEF MemoryInv

\* Registering, attaching and unregistering touch no thread, and no id of a run
\* that was asked.
LEMMA ParticipantKeepsMemory ==
    ASSUME MemoryInv, UNCHANGED <<thread, send, leg, result>>,
           \A r \in Runs : state[r] # "new" => state'[r] # "new" /\ id'[r] = id[r]
    PROVE  MemoryInv'
<1> USE DEF MemoryInv
<1>1. \A m \in Sends : \A q \in Runs :
          leg[m][q].agent # 0 => state[q] # "new" /\ id'[q] = id[q]
  BY DEF AskedInv
<1>2. AskedInv'
  BY <1>1 DEF AskedInv
<1>3. ThreadInv'
  BY DEF ThreadInv, Recalls
<1>4. HeardInv'
  BY <1>1 DEF HeardInv
<1> QED
  BY <1>2, <1>3, <1>4

\* A run that begins had no id, and nobody else changes its own.
LEMMA ParticipantIds ==
    ASSUME TypeOK, NEW r \in Runs, Reserve(r) \/ Attach(r) \/ Unregister(r)
    PROVE  /\ UNCHANGED <<thread, send, leg, result>>
           /\ \A q \in Runs : state[q] # "new" => state'[q] # "new" /\ id'[q] = id[q]
<1>1. CASE Reserve(r)
  <2>1. PICK i \in Ids : id' = [id EXCEPT ![r] = i]
    BY <1>1 DEF Reserve
  <2>2. state[r] = "new" /\ state' = [state EXCEPT ![r] = "running"]
    BY <1>1 DEF Reserve
  <2>3. \A q \in Runs : state[q] # "new" => state'[q] # "new" /\ id'[q] = id[q]
    BY <2>1, <2>2 DEF TypeOK
  <2> QED
    BY <2>3, <1>1 DEF Reserve
<1>2. CASE Attach(r)
  BY <1>2 DEF Attach
<1>3. CASE Unregister(r)
  <2>1. state' = [state EXCEPT ![r] = "over"] /\ id' = id
    BY <1>3 DEF Unregister
  <2>2. \A q \in Runs : state[q] # "new" => state'[q] # "new" /\ id'[q] = id[q]
    BY <2>1 DEF TypeOK
  <2> QED
    BY <2>2, <1>3 DEF Unregister
<1> QED
  BY <1>1, <1>2, <1>3

\* A send has no answers yet, and its targets are running, so that their ids
\* differ.
LEMMA SendKeepsMemory ==
    ASSUME IInv, MemoryInv, NEW m \in Sends, NEW r \in Runs, NEW to \in Ids \cup {All},
           NEW mode \in {"reply", "notify"}, NEW timed \in BOOLEAN,
           NEW signalled \in BOOLEAN, Send(m, r, to, mode, timed, signalled)
    PROVE  MemoryInv'
<1> DEFINE targets == Targets(r, to)
           reached == {t \in targets : agent[t] > 0}
           asked == IF mode = "reply" THEN reached ELSE {}
           legs == [t \in Runs |-> IF t \in asked THEN Ask(t) ELSE NoLeg]
<1>1. /\ leg' = [leg EXCEPT ![m] = legs]
      /\ send[m].stage = "new"
      /\ UNCHANGED <<state, id, participants, agent, thread>>
  BY DEF Send, runVars
<1>2. PICK res : result' = [result EXCEPT ![m] = res] /\ res.replies = {}
  <2> DEFINE res == [delivered |-> IdsOf(reached \ asked), replies |-> {},
                     failed |-> IdsOf(targets \ reached),
                     notFound |-> to # All /\ targets = {}]
  <2>1. result' = [result EXCEPT ![m] = res]
    BY DEF Send
  <2>2. res.replies = {}
    OBVIOUS
  <2> HIDE DEF res
  <2> QED
    BY <2>1, <2>2
<1>3. PICK snd : send' = [send EXCEPT ![m] = snd] /\ snd.stage # "new"
  <2> DEFINE snd == [stage |-> IF asked = {} THEN "settled" ELSE "open",
                     from |-> r, mode |-> mode, targets |-> IdsOf(targets),
                     armed |-> asked # {} /\ Armed(timed, signalled),
                     signalled |-> asked # {} /\ signalled]
  <2>1. send' = [send EXCEPT ![m] = snd]
    BY DEF Send
  <2>2. snd.stage # "new"
    OBVIOUS
  <2> HIDE DEF snd
  <2> QED
    BY <2>1, <2>2
<1>4. \A t \in Runs : legs[t].agent # 0 => state[t] = "running"
  BY DEF Targets, NoLeg
<1> HIDE DEF legs
<1>5. /\ leg'[m] = legs /\ result'[m].replies = {} /\ send'[m].stage # "new"
      /\ \A n \in Sends : n # m => /\ leg'[n] = leg[n] /\ result'[n] = result[n]
                                   /\ send'[n] = send[n]
  BY <1>1, <1>2, <1>3 DEF IInv, TypeOK
<1>6. LiveIsReachable
  BY DEF IInv
<1>7. AskedInv'
  <2> SUFFICES ASSUME NEW n \in Sends, NEW q \in Runs
               PROVE  /\ send'[n].stage = "new" => leg'[n][q] = NoLeg
                      /\ leg'[n][q].agent # 0 =>
                            /\ state[q] # "new"
                            /\ \A t \in Runs : leg'[n][t].agent # 0 /\ id[q] = id[t] => q = t
    BY <1>1 DEF AskedInv
  <2>1. CASE n # m
    BY <2>1, <1>5 DEF MemoryInv, AskedInv
  <2>2. CASE n = m
    BY <2>2, <1>4, <1>5, <1>6, DistinctIds
  <2> QED
    BY <2>1, <2>2
<1>8. ThreadInv'
  <2> SUFFICES ASSUME NEW q \in Runs, NEW a \in Agents PROVE Recalls(q, thread[q][a])'
    BY DEF ThreadInv
  <2> DEFINE th == thread[q][a]
  <2>1. Recalls(q, th)
    BY DEF MemoryInv, ThreadInv
  <2>2. th \in Seq(Sends)
    BY DEF IInv, TypeOK
  <2>3. leg[m][q].stage = "none"
    BY <1>1 DEF MemoryInv, AskedInv, NoLeg
  <2>4. ASSUME NEW i \in 1..Len(th) PROVE leg'[th[i]][q].stage = "over"
    <3>1. th[i] \in Sends /\ leg[th[i]][q].stage = "over"
      BY <2>1, <2>2 DEF Recalls
    <3> QED
      BY <3>1, <2>3, <1>5
  <2>5. th' = th
    BY <1>1
  <2> HIDE DEF th
  <2> QED
    BY <2>1, <2>4, <2>5 DEF Recalls, th
<1>9. HeardInv'
  <2> SUFFICES ASSUME NEW n \in Sends, NEW q \in Runs, leg'[n][q].agent # 0,
                      id[q] \in result'[n].replies
               PROVE  Has(thread[q][leg'[n][q].agent], n)
    BY <1>1 DEF HeardInv, Has
  <2>1. n # m
    BY <1>5
  <2> QED
    BY <2>1, <1>5 DEF MemoryInv, HeardInv
<1> QED
  BY <1>7, <1>8, <1>9 DEF MemoryInv

\* A leg that ends keeps its agent, and one that is over stays so.
LEMMA EndKeepsAsked ==
    ASSUME IInv, AskedInv, NEW m \in Sends, NEW legs \in [Runs -> Leg], Return(m, legs),
           UNCHANGED runVars, send[m].stage # "new",
           \A q \in Runs : /\ legs[q].agent = leg[m][q].agent
                           /\ leg[m][q].stage = "over" => legs[q].stage = "over"
    PROVE  /\ AskedInv'
           /\ \A n \in Sends : \A q \in Runs :
                  /\ leg'[n][q].agent = leg[n][q].agent
                  /\ leg[n][q].stage = "over" => leg'[n][q].stage = "over"
<1>1. /\ leg'[m] = legs
      /\ \A n \in Sends : n # m => leg'[n] = leg[n]
      /\ UNCHANGED <<state, id>>
  BY DEF Return, IInv, TypeOK, runVars
<1>2. \A n \in Sends : send'[n].stage = "new" => n # m /\ send[n].stage = "new"
  <2>1. CASE Settled(legs) /\ Open(m)
    <3>1. send' = [send EXCEPT ![m] = [send[m] EXCEPT !.stage = "settled",
                                          !.armed = FALSE, !.signalled = FALSE]]
      BY <2>1 DEF Return
    <3>2. send \in [Sends -> SendType]
      BY DEF IInv, TypeOK
    <3>3. send'[m].stage = "settled"
      BY <3>1, <3>2 DEF SendType
    <3>4. \A n \in Sends : n # m => send'[n] = send[n]
      BY <3>1, <3>2
    <3> QED
      BY <3>3, <3>4
  <2>2. CASE ~(Settled(legs) /\ Open(m))
    BY <2>2 DEF Return
  <2> QED
    BY <2>1, <2>2
<1>3. \A n \in Sends : \A q \in Runs :
          /\ leg'[n][q].agent = leg[n][q].agent
          /\ leg[n][q].stage = "over" => leg'[n][q].stage = "over"
  BY <1>1
<1>4. AskedInv'
  BY <1>1, <1>2, <1>3 DEF AskedInv
<1> QED
  BY <1>3, <1>4

\* A dispatch that is given up tells no thread, and no result of a reply.
LEMMA GiveUpKeepsMemory ==
    ASSUME IInv, MemoryInv, NEW m \in Sends, NEW rs, NEW legs \in [Runs -> Leg],
           Return(m, legs), GiveUp(m, rs), UNCHANGED <<runVars, thread>>,
           send[m].stage # "new",
           \A q \in Runs : /\ legs[q].agent = leg[m][q].agent
                           /\ leg[m][q].stage = "over" => legs[q].stage = "over"
    PROVE  MemoryInv'
<1>1. /\ AskedInv'
      /\ \A n \in Sends : \A q \in Runs :
             /\ leg'[n][q].agent = leg[n][q].agent
             /\ leg[n][q].stage = "over" => leg'[n][q].stage = "over"
  BY EndKeepsAsked DEF MemoryInv
<1>2. \A n \in Sends : result'[n].replies = result[n].replies
  <2>1. result \in [Sends -> SendResult]
    BY DEF IInv, TypeOK
  <2>2. PICK f : result' = [result EXCEPT ![m].failed = f]
    BY DEF GiveUp
  <2>3. result' = [result EXCEPT ![m] = [result[m] EXCEPT !.failed = f]]
    BY <2>2
  <2>4. \A s \in SendResult : [s EXCEPT !.failed = f].replies = s.replies
    BY DEF SendResult
  <2> QED
    BY <2>1, <2>3, <2>4
<1>3. thread' = thread /\ id' = id
  BY DEF runVars
<1>4. ThreadInv'
  <2> SUFFICES ASSUME NEW q \in Runs, NEW a \in Agents PROVE Recalls(q, thread[q][a])'
    BY DEF ThreadInv
  <2> DEFINE th == thread[q][a]
  <2>1. Recalls(q, th) /\ th \in Seq(Sends) /\ th' = th
    BY <1>3 DEF MemoryInv, ThreadInv, IInv, TypeOK
  <2>2. \A i \in 1..Len(th) : th[i] \in Sends
    BY <2>1
  <2> HIDE DEF th
  <2>3. \A i \in 1..Len(th) : leg'[th[i]][q].stage = "over"
    BY <2>1, <2>2, <1>1 DEF Recalls
  <2> QED
    BY <2>1, <2>3 DEF Recalls, th
<1>5. HeardInv'
  BY <1>1, <1>2, <1>3 DEF MemoryInv, HeardInv, Has, Remembered
<1> QED
  BY <1>1, <1>4, <1>5 DEF MemoryInv

\* The last exchange is remembered; one that is dropped makes room at the cap.
LEMMA RememberKeeps ==
    ASSUME NEW th \in Seq(Sends), NEW m \in Sends, Len(th) <= MaxThread,
           \A i, j \in 1..Len(th) : th[i] = th[j] => i = j,
           \A i \in 1..Len(th) : th[i] # m
    PROVE  LET new == Remember(th, m) IN
           /\ new \in Seq(Sends) /\ Len(new) <= MaxThread
           /\ \A i, j \in 1..Len(new) : new[i] = new[j] => i = j
           /\ \A i \in 1..Len(new) : new[i] = m \/ new[i] \in Remembered(th)
           /\ m \in Remembered(new)
           /\ Len(new) = MaxThread \/ Remembered(th) \subseteq Remembered(new)
           /\ Len(th) = MaxThread => Len(new) = MaxThread
<1> DEFINE longer == Append(th, m)
           new == Remember(th, m)
           n == Len(th)
<1>1. /\ longer \in Seq(Sends) /\ Len(longer) = n + 1 /\ n \in Nat
      /\ longer[n + 1] = m /\ \A i \in 1..n : longer[i] = th[i]
  OBVIOUS
<1>2. \A i, j \in 1..(n + 1) : longer[i] = longer[j] => i = j
  <2> SUFFICES ASSUME NEW i \in 1..(n + 1), NEW j \in 1..(n + 1), longer[i] = longer[j]
               PROVE  i = j
    OBVIOUS
  <2>1. (i \in 1..n \/ i = n + 1) /\ (j \in 1..n \/ j = n + 1)
    BY <1>1
  <2> HIDE DEF longer
  <2> QED
    BY <2>1, <1>1
<1>3. CASE n + 1 <= MaxThread
  <2>1. new = longer
    BY <1>1, <1>3 DEF Remember
  <2>2. Len(new) = n + 1
    BY <2>1, <1>1
  <2> HIDE DEF new, longer
  <2>3. \A i \in 1..Len(new) : new[i] = m \/ new[i] \in Remembered(th)
    <3> SUFFICES ASSUME NEW i \in 1..(n + 1) PROVE longer[i] = m \/ longer[i] \in Remembered(th)
      BY <2>1, <2>2
    <3>1. i \in 1..n \/ i = n + 1
      BY <1>1
    <3> QED
      BY <3>1, <1>1 DEF Remembered
  <2>4. m \in Remembered(new)
    <3>1. n + 1 \in 1..Len(new) /\ new[n + 1] = m
      BY <2>1, <2>2, <1>1
    <3> QED
      BY <3>1 DEF Remembered
  <2>5. Remembered(th) \subseteq Remembered(new)
    <3>1. \A i \in 1..n : i \in 1..(n + 1) /\ new[i] = th[i]
      BY <2>1, <1>1
    <3> QED
      BY <3>1, <2>2 DEF Remembered
  <2>6. new \in Seq(Sends) /\ Len(new) <= MaxThread
    BY <2>1, <2>2, <1>1, <1>3
  <2>7. \A i, j \in 1..Len(new) : new[i] = new[j] => i = j
    BY <2>1, <2>2, <1>2
  <2>8. n = MaxThread => Len(new) = MaxThread
    BY <1>1, <1>3
  <2> QED
    BY <2>3, <2>4, <2>5, <2>6, <2>7, <2>8 DEF new
<1>4. CASE ~(n + 1 <= MaxThread)
  <2>1. n = MaxThread
    BY <1>1, <1>4
  <2>2. new = Tail(longer)
    BY <1>1, <2>1 DEF Remember
  <2>3. longer # <<>>
    BY <1>1
  <2>4. new \in Seq(Sends) /\ Len(new) = n /\ \A i \in 1..n : new[i] = longer[i + 1]
    BY <1>1, <2>2, <2>3
  <2> HIDE DEF new, longer
  <2>5. \A i \in 1..n : i + 1 \in 1..(n + 1)
    BY <1>1
  <2>6. \A i, j \in 1..n : new[i] = new[j] => i = j
    <3> SUFFICES ASSUME NEW i \in 1..n, NEW j \in 1..n, new[i] = new[j] PROVE i = j
      OBVIOUS
    <3>1. i + 1 = j + 1
      BY <2>4, <2>5, <1>2
    <3> QED
      BY <3>1, <1>1
  <2>7. \A i \in 1..n : new[i] = m \/ new[i] \in Remembered(th)
    <3> SUFFICES ASSUME NEW i \in 1..n PROVE new[i] = m \/ new[i] \in Remembered(th)
      OBVIOUS
    <3>1. i + 1 \in 1..n \/ i + 1 = n + 1
      BY <1>1
    <3> QED
      BY <3>1, <2>4, <1>1 DEF Remembered
  <2>8. m \in Remembered(new)
    <3>1. n \in 1..n
      BY <2>1
    <3>2. new[n] = m
      BY <3>1, <2>4, <1>1
    <3> QED
      BY <3>1, <3>2, <2>4 DEF Remembered
  <2> QED
    BY <2>1, <2>4, <2>6, <2>7, <2>8 DEF new
<1> QED
  BY <1>1, <1>3, <1>4

\* An answer enters the thread of the agent that was asked, and no other.
LEMMA AnswerKeepsMemory ==
    ASSUME IInv, MemoryInv, NEW m \in Sends, NEW r \in Runs, Answer(m, r)
    PROVE  MemoryInv'
<1> DEFINE legs == [leg[m] EXCEPT ![r] = Over(@)]
           b == leg[m][r].agent
           new == Remember(thread[r][b], m)
<1>1. /\ leg[m][r].stage = "asked" /\ Return(m, legs) /\ UNCHANGED runVars
      /\ thread' = [thread EXCEPT ![r][b] = Remember(@, m)]
      /\ result' = [result EXCEPT ![m] = Replied(m, r)]
  BY DEF Answer
<1>2. b \in Agents
  BY <1>1 DEF IInv, LegsInv
<1>3. send[m].stage # "new"
  BY <1>1 DEF MemoryInv, AskedInv, NoLeg
<1>4. /\ legs \in [Runs -> Leg] /\ legs[r].stage = "over"
      /\ \A q \in Runs : /\ legs[q].agent = leg[m][q].agent
                         /\ leg[m][q].stage = "over" => legs[q].stage = "over"
  <2>1. leg[m] \in [Runs -> Leg]
    BY DEF IInv, TypeOK
  <2>2. \A l \in Leg : /\ Over(l) \in Leg /\ Over(l).stage = "over"
                       /\ Over(l).agent = l.agent
    BY DEF Over, Leg
  <2> QED
    BY <2>1, <2>2
<1> HIDE DEF legs
<1>5. /\ AskedInv'
      /\ \A n \in Sends : \A q \in Runs :
             /\ leg'[n][q].agent = leg[n][q].agent
             /\ leg[n][q].stage = "over" => leg'[n][q].stage = "over"
  BY <1>1, <1>3, <1>4, EndKeepsAsked DEF MemoryInv
<1>6. leg'[m][r].stage = "over" /\ id' = id
  BY <1>1, <1>4 DEF Return, runVars, IInv, TypeOK
<1>7. /\ \A q \in Runs : \A a \in Agents : thread[q][a] \in Seq(Sends)
      /\ thread'[r][b] = new
      /\ \A q \in Runs : \A a \in Agents :
             q # r \/ a # b => thread'[q][a] = thread[q][a]
  <2>1. thread \in [Runs -> [Agents -> Seq(Sends)]]
    BY DEF IInv, TypeOK
  <2> QED
    BY <2>1, <1>1, <1>2
<1>8. Recalls(r, thread[r][b]) /\ thread[r][b] \in Seq(Sends)
  BY <1>2, <1>7 DEF MemoryInv, ThreadInv
<1>9. \A i \in 1..Len(thread[r][b]) : thread[r][b][i] # m
  BY <1>1, <1>8 DEF Recalls
<1>10. /\ new \in Seq(Sends) /\ Len(new) <= MaxThread
       /\ \A i, j \in 1..Len(new) : new[i] = new[j] => i = j
       /\ \A i \in 1..Len(new) : new[i] = m \/ new[i] \in Remembered(thread[r][b])
       /\ m \in Remembered(new)
       /\ Len(new) = MaxThread \/ Remembered(thread[r][b]) \subseteq Remembered(new)
       /\ Len(thread[r][b]) = MaxThread => Len(new) = MaxThread
  BY <1>8, <1>9, RememberKeeps DEF Recalls
<1> HIDE DEF new
<1>11. ThreadInv'
  <2> SUFFICES ASSUME NEW q \in Runs, NEW a \in Agents PROVE Recalls(q, thread[q][a])'
    BY DEF ThreadInv
  <2>1. CASE q # r \/ a # b
    <3> DEFINE th == thread[q][a]
    <3>1. Recalls(q, th) /\ th \in Seq(Sends) /\ th' = th
      BY <2>1, <1>7 DEF MemoryInv, ThreadInv
    <3>2. \A i \in 1..Len(th) : th[i] \in Sends
      BY <3>1
    <3> HIDE DEF th
    <3>3. \A i \in 1..Len(th) : leg'[th[i]][q].stage = "over"
      BY <3>1, <3>2, <1>5 DEF Recalls
    <3> QED
      BY <3>1, <3>3 DEF Recalls, th
  <2>2. CASE q = r /\ a = b
    <3>1. \A n \in Remembered(thread[r][b]) : n \in Sends /\ leg[n][r].stage = "over"
      BY <1>8 DEF Recalls, Remembered
    <3>2. \A i \in 1..Len(new) : leg'[new[i]][r].stage = "over"
      BY <3>1, <1>5, <1>6, <1>10
    <3>3. thread'[q][a] = new
      BY <2>2, <1>7
    <3> QED
      BY <2>2, <3>2, <3>3, <1>10 DEF Recalls
  <2> QED
    BY <2>1, <2>2
<1>12. HeardInv'
  <2> SUFFICES ASSUME NEW n \in Sends, NEW q \in Runs, leg[n][q].agent # 0,
                      id[q] \in result'[n].replies
               PROVE  Has(thread'[q][leg[n][q].agent], n)
    BY <1>5, <1>6 DEF HeardInv, Has, Remembered
  <2> DEFINE a == leg[n][q].agent
  <2>1. a \in Agents
    <3>1. a \in Agents \cup {0}
      BY DEF IInv, TypeOK, Leg
    <3> QED
      BY <3>1
  <2>2. CASE n = m /\ q = r
    BY <2>2, <1>7, <1>10 DEF Has
  <2>3. CASE ~(n = m /\ q = r)
    <3>1. id[q] \in result[n].replies
      <4>1. CASE n # m
        BY <4>1, <1>1 DEF IInv, TypeOK
      <4>2. CASE n = m
        <5>1. id[q] # id[r]
          BY <4>2, <2>3, <1>2 DEF MemoryInv, AskedInv, Agents
        <5>2. result[m] \in SendResult /\ result'[m] = Replied(m, r)
          BY <1>1 DEF IInv, TypeOK
        <5>3. Replied(m, r).replies \subseteq result[m].replies \cup {id[r]}
          BY <5>2 DEF Replied, SendResult
        <5> QED
          BY <4>2, <5>1, <5>2, <5>3
      <4> QED
        BY <4>1, <4>2
    <3>2. Has(thread[q][a], n)
      BY <3>1 DEF MemoryInv, HeardInv
    <3>3. CASE q # r \/ a # b
      BY <3>2, <3>3, <2>1, <1>7
    <3>4. CASE q = r /\ a = b
      BY <3>2, <3>4, <1>7, <1>10 DEF Has
    <3> QED
      BY <3>3, <3>4
  <2> QED
    BY <2>2, <2>3
<1> QED
  BY <1>5, <1>11, <1>12 DEF MemoryInv

\* Every step keeps what threads remember.
LEMMA StepKeepsMemory == ASSUME IInv, MemoryInv, [Next]_vars PROVE MemoryInv'
<1>1. CASE UNCHANGED vars
  BY <1>1 DEF vars, MemoryInv, AskedInv, ThreadInv, HeardInv, Recalls, Has, Remembered
<1>2. CASE Participant
  BY <1>2, ParticipantIds, ParticipantKeepsMemory DEF Participant, IInv
<1>3. CASE SendAny
  BY <1>3, SendKeepsMemory DEF SendAny
<1>4. ASSUME NEW m \in Sends, NEW r \in Runs, TimeOut(m, r) PROVE MemoryInv'
  <2> DEFINE legs == [leg[m] EXCEPT ![r].waiting = FALSE]
  <2>1. leg[m] \in [Runs -> Leg]
    BY DEF IInv, TypeOK
  <2>2. \A l \in Leg : LET k == [l EXCEPT !.waiting = FALSE]
                       IN k \in Leg /\ k.stage = l.stage /\ k.agent = l.agent
    BY DEF Leg
  <2>3. legs = [leg[m] EXCEPT ![r] = [leg[m][r] EXCEPT !.waiting = FALSE]]
    BY <2>1
  <2>4. /\ legs \in [Runs -> Leg]
        /\ \A q \in Runs : legs[q].stage = leg[m][q].stage /\ legs[q].agent = leg[m][q].agent
    BY <2>1, <2>2, <2>3
  <2>5. /\ Return(m, legs) /\ GiveUp(m, {r}) /\ UNCHANGED <<runVars, thread>>
        /\ leg[m][r].waiting
    BY <1>4 DEF TimeOut
  <2>6. send[m].stage # "new"
    BY <2>5 DEF MemoryInv, AskedInv, NoLeg
  <2> HIDE DEF legs
  <2> QED
    BY <2>4, <2>5, <2>6, GiveUpKeepsMemory
<1>5. ASSUME NEW m \in Sends, Abort(m) PROVE MemoryInv'
  <2> DEFINE legs == [r \in Runs |-> [leg[m][r] EXCEPT !.waiting = FALSE]]
  <2>1. \A r \in Runs : leg[m][r] \in Leg
    BY DEF IInv, TypeOK
  <2>2. \A l \in Leg : LET k == [l EXCEPT !.waiting = FALSE]
                       IN k \in Leg /\ k.stage = l.stage /\ k.agent = l.agent
    BY DEF Leg
  <2>3. /\ legs \in [Runs -> Leg]
        /\ \A q \in Runs : legs[q].stage = leg[m][q].stage /\ legs[q].agent = leg[m][q].agent
    BY <2>1, <2>2
  <2>4. /\ Return(m, legs) /\ GiveUp(m, Runs) /\ UNCHANGED <<runVars, thread>>
        /\ send[m].stage # "new"
    BY <1>5 DEF Abort, Open
  <2> HIDE DEF legs
  <2> QED
    BY <2>3, <2>4, GiveUpKeepsMemory
<1>6. ASSUME NEW m \in Sends, NEW r \in Runs, RespondThrows(m, r) PROVE MemoryInv'
  <2> DEFINE legs == [leg[m] EXCEPT ![r] = Over(@)]
  <2>1. leg[m] \in [Runs -> Leg]
    BY DEF IInv, TypeOK
  <2>2. \A l \in Leg : Over(l) \in Leg /\ Over(l).stage = "over" /\ Over(l).agent = l.agent
    BY DEF Over, Leg
  <2>3. /\ legs \in [Runs -> Leg]
        /\ \A q \in Runs : /\ legs[q].agent = leg[m][q].agent
                           /\ leg[m][q].stage = "over" => legs[q].stage = "over"
    BY <2>1, <2>2
  <2>4. /\ Return(m, legs) /\ GiveUp(m, {r}) /\ UNCHANGED <<runVars, thread>>
        /\ leg[m][r].stage = "asked"
    BY <1>6 DEF RespondThrows
  <2>5. send[m].stage # "new"
    BY <2>4 DEF MemoryInv, AskedInv, NoLeg
  <2> HIDE DEF legs
  <2> QED
    BY <2>3, <2>4, <2>5, GiveUpKeepsMemory
<1> QED
  BY <1>1, <1>2, <1>3, <1>4, <1>5, <1>6, AnswerKeepsMemory
     DEF Next, Timer, Responder

\* A thread without repetitions has as many exchanges as it is long.
LEMMA RememberedCount ==
    ASSUME NEW r \in Runs, NEW th \in Seq(Sends), Recalls(r, th)
    PROVE  Cardinality(Remembered(th)) = Len(th)
<1>1. Len(th) \in Nat
  OBVIOUS
<1>2. th \in [1..Len(th) -> Remembered(th)]
  BY DEF Remembered
<1>3. \A i, j \in 1..Len(th) : th[i] = th[j] => i = j
  BY DEF Recalls
<1>4. \A n \in Remembered(th) : \E i \in 1..Len(th) : th[i] = n
  BY DEF Remembered
<1>5. th \in Bijection(1..Len(th), Remembered(th))
  BY <1>2, <1>3, <1>4 DEF Bijection, Injection, Surjection, IsInjective
<1>6. ExistsBijection(1..Len(th), Remembered(th))
  BY <1>5 DEF ExistsBijection
<1> QED
  BY <1>1, <1>6, FS_CountingElements

\* Only a send asks, and what the target's thread holds at that moment is shown.
LEMMA OnlySendAsks ==
    ASSUME IInv, [Next]_vars, NEW m \in Sends, NEW r \in Runs,
           leg[m][r].stage = "none", leg'[m][r].stage = "asked"
    PROVE  /\ leg'[m][r].agent = agent[r] /\ agent[r] \in Agents
           /\ leg'[m][r].shown = Remembered(thread[r][agent[r]])
<1>1. leg \in [Sends -> [Runs -> Leg]] /\ agent \in [Runs -> Agents \cup {0}]
  BY DEF IInv, TypeOK
<1>2. ASSUME NEW n \in Sends, NEW legs \in [Runs -> Leg], Return(n, legs),
             \A q \in Runs : legs[q].stage = "asked" => leg[n][q].stage = "asked"
      PROVE  FALSE
  BY <1>1, <1>2 DEF Return
<1>3. ~UNCHANGED leg
  OBVIOUS
<1>4. ~Participant
  BY <1>3 DEF Participant, Reserve, Attach, Unregister
<1>5. ~UNCHANGED vars
  BY <1>3 DEF vars
<1>6. ASSUME NEW n \in Sends, NEW q \in Runs, TimeOut(n, q) PROVE FALSE
  <2> DEFINE legs == [leg[n] EXCEPT ![q].waiting = FALSE]
  <2>1. \A l \in Leg : LET k == [l EXCEPT !.waiting = FALSE]
                       IN k \in Leg /\ k.stage = l.stage
    BY DEF Leg
  <2>2. legs = [leg[n] EXCEPT ![q] = [leg[n][q] EXCEPT !.waiting = FALSE]]
    BY <1>1
  <2>3. legs \in [Runs -> Leg] /\ \A p \in Runs : legs[p].stage = leg[n][p].stage
    BY <1>1, <2>1, <2>2
  <2>4. Return(n, legs)
    BY <1>6 DEF TimeOut
  <2> HIDE DEF legs
  <2> QED
    BY <2>3, <2>4, <1>2
<1>7. ASSUME NEW n \in Sends, Abort(n) PROVE FALSE
  <2> DEFINE legs == [q \in Runs |-> [leg[n][q] EXCEPT !.waiting = FALSE]]
  <2>1. \A l \in Leg : LET k == [l EXCEPT !.waiting = FALSE]
                       IN k \in Leg /\ k.stage = l.stage
    BY DEF Leg
  <2>2. \A p \in Runs : leg[n][p] \in Leg
    BY <1>1
  <2>3. legs \in [Runs -> Leg] /\ \A p \in Runs : legs[p].stage = leg[n][p].stage
    BY <2>1, <2>2
  <2>4. Return(n, legs)
    BY <1>7 DEF Abort
  <2> HIDE DEF legs
  <2> QED
    BY <2>3, <2>4, <1>2
<1>8. ASSUME NEW n \in Sends, NEW q \in Runs, RespondThrows(n, q) \/ Answer(n, q)
      PROVE  FALSE
  <2> DEFINE legs == [leg[n] EXCEPT ![q] = Over(@)]
  <2>1. Return(n, legs)
    BY <1>8 DEF RespondThrows, Answer
  <2>2. /\ legs \in [Runs -> Leg]
        /\ \A p \in Runs : legs[p].stage = "asked" => leg[n][p].stage = "asked"
    BY OverLegs
  <2> HIDE DEF legs
  <2> QED
    BY <2>1, <2>2, <1>2
<1>9. PICK n \in Sends, s \in Runs, to \in Ids \cup {All}, mode \in {"reply", "notify"},
           timed \in BOOLEAN, signalled \in BOOLEAN :
           Send(n, s, to, mode, timed, signalled)
  BY <1>4, <1>5, <1>6, <1>7, <1>8 DEF Next, Timer, Responder, SendAny
<1> DEFINE asked == IF mode = "reply" THEN {t \in Targets(s, to) : agent[t] > 0} ELSE {}
           legs == [t \in Runs |-> IF t \in asked THEN Ask(t) ELSE NoLeg]
<1>10. leg' = [leg EXCEPT ![n] = legs]
  BY <1>9 DEF Send
<1>11. n = m /\ leg'[m][r] = legs[r]
  BY <1>1, <1>10
<1>12. agent[r] > 0 /\ legs[r] = Ask(r)
  BY <1>11 DEF NoLeg
<1> HIDE DEF legs
<1>13. agent[r] \in Agents
  BY <1>1, <1>12 DEF Agents
<1> QED
  BY <1>11, <1>12, <1>13 DEF Ask

-----------------------------------------------------------------------------
(* The theorems *)

\* No step changes what the invariant reads without changing a variable.
LEMMA Stuttering == IInv /\ UNCHANGED vars => IInv'
BY DEF vars, IInv, TypeOK, LiveIsReachable, LegsInv, StageInv, AccountInv, Account,
       Racing, IdsOf

\* The inductive invariant holds in every state of the bus.
THEOREM Invariance == Spec => []IInv
<1>1. ASSUME IInv, [Next]_vars PROVE IInv'
  <2>1. CASE UNCHANGED vars
    BY <1>1, <2>1, Stuttering
  <2>2. CASE Participant
    BY <1>1, <2>2, ReserveStep, AttachStep, UnregisterStep DEF Participant
  <2>3. CASE SendAny
    BY <1>1, <2>3, SendStep DEF SendAny
  <2>4. CASE Timer
    BY <1>1, <2>4, TimeOutStep DEF Timer
  <2>5. CASE Responder
    BY <1>1, <2>5, RespondThrowsStep, AnswerStep DEF Responder
  <2>6. CASE \E m \in Sends : Abort(m)
    BY <1>1, <2>6, AbortStep
  <2> QED
    BY <1>1, <2>1, <2>2, <2>3, <2>4, <2>5, <2>6 DEF Next
<1> QED
  BY <1>1, InitIInv, PTL DEF Spec

\* Every variable of the bus keeps its type.
THEOREM TypeCorrect == Spec => []TypeOK
<1>1. IInv => TypeOK
  BY DEF IInv
<1> QED
  BY <1>1, Invariance, PTL

\* reserve() and unregister() leave every live agent under its own id.
THEOREM LiveAgentsAreReachable == Spec => []LiveIsReachable
<1>1. IInv => LiveIsReachable
  BY DEF IInv
<1> QED
  BY <1>1, Invariance, PTL

\* A send that returned has delivered to or failed for each of its targets,
\* never both, and no answer that lost its race is among the replies.
THEOREM EveryTargetIsAccounted == Spec => []ResultsAddUp
<1>1. IInv => ResultsAddUp
  <2> SUFFICES ASSUME IInv, NEW m \in Sends, send[m].stage = "settled"
               PROVE  /\ result[m].delivered \cup result[m].failed = send[m].targets
                      /\ result[m].delivered \cap result[m].failed = {}
                      /\ result[m].replies =
                             IF send[m].mode = "reply" THEN result[m].delivered ELSE {}
    BY DEF ResultsAddUp
  <2>1. Account(m) /\ Racing(m) = {}
    BY DEF IInv, AccountInv, StageInv
  <2>2. IdsOf(Racing(m)) = {}
    BY <2>1 DEF IdsOf
  <2> QED
    BY <2>1, <2>2 DEF Account
<1> QED
  BY <1>1, Invariance, PTL

\* A responder that is asked shows every exchange whose answer was received,
\* up to its cap, whichever order the dispatches on its thread ended in.
THEOREM AnswersAreRemembered == Spec => ConversationRemembered
<1> DEFINE Shows(m, r) ==
        LET asked == leg'[m][r]
            heard == {n \in Sends : /\ leg[n][r].agent = asked.agent
                                    /\ id[r] \in result[n].replies}
        IN leg[m][r].stage = "none" /\ asked.stage = "asked" =>
            heard \subseteq asked.shown \/ Cardinality(asked.shown) = MaxThread
<1>1. Init => MemoryInv
  BY InitMemory
<1>2. IInv /\ MemoryInv /\ [Next]_vars => MemoryInv'
  BY StepKeepsMemory
<1>3. Spec => []MemoryInv
  BY <1>1, <1>2, Invariance, PTL DEF Spec
<1>4. ASSUME IInv, MemoryInv, [Next]_vars
      PROVE  \A m \in Sends, r \in Runs : Shows(m, r)
  <2> SUFFICES ASSUME NEW m \in Sends, NEW r \in Runs, leg[m][r].stage = "none",
                      leg'[m][r].stage = "asked"
               PROVE  Shows(m, r)
    OBVIOUS
  <2>1. /\ leg'[m][r].agent = agent[r] /\ agent[r] \in Agents
        /\ leg'[m][r].shown = Remembered(thread[r][agent[r]])
    BY <1>4, OnlySendAsks
  <2> DEFINE th == thread[r][agent[r]]
  <2>2. th \in Seq(Sends) /\ Recalls(r, th)
    BY <1>4, <2>1 DEF IInv, TypeOK, MemoryInv, ThreadInv
  <2>3. ASSUME NEW n \in Sends, leg[n][r].agent = agent[r], id[r] \in result[n].replies
        PROVE  n \in Remembered(th) \/ Len(th) = MaxThread
    <3>1. leg[n][r].agent # 0
      BY <2>1, <2>3 DEF Agents
    <3> QED
      BY <1>4, <2>3, <3>1 DEF MemoryInv, HeardInv, Has
  <2>4. Cardinality(Remembered(th)) = Len(th)
    BY <2>2, RememberedCount
  <2> HIDE DEF th
  <2> QED
    BY <2>1, <2>3, <2>4 DEF th
<1>5. IInv /\ MemoryInv /\ [Next]_vars => [\A m \in Sends, r \in Runs : Shows(m, r)]_vars
  BY <1>4
<1> QED
  BY <1>3, <1>5, Invariance, PTL DEF Spec, ConversationRemembered

=============================================================================
