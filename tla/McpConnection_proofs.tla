------------------------- MODULE McpConnection_proofs -------------------------
(* Type correctness of McpConnection and its four safety properties, for any *)
(* set of calls and any number of connects, clients and reconnect attempts.  *)
EXTENDS McpConnection, TLAPS

CallRec(n) == [stage : {"idle"} \cup InFlight \cup Settled, client : Clients,
               proc : 0..n, retried : BOOLEAN, aborted : BOOLEAN]

\* Only the entry's client initializes or has a process, and a client that has
\* completed a handshake is that one or one before it.
OthersOff ==
    /\ \A c \in Clients : c # client => init[c] = NoInit /\ proc[c] = 0
    /\ shaken \subseteq 1..client

\* What is never put back when a server is off; the client of a disabled server
\* is a fresh one.
DisabledInv == DisabledStaysOff /\ (disabled => client \notin shaken)

\* A call that is yet to be sent, or sent once more, has not been run.
Unrun == {"idle", "sent", "refreshing"}
AppliedInv ==
    /\ AppliedOnce
    /\ \A k \in Calls : call[k].stage \in Unrun => applied[k] = 0

\* After a dispose with no call in flight, none ever is.
DisposedInv ==
    /\ NothingAfterDispose
    /\ ~present /\ open = {} => \A k \in Calls : call[k].stage \notin InFlight

IInv == TypeOK /\ OthersOff /\ OneProcess /\ DisabledInv /\ AppliedInv /\ DisposedInv

\* What a step of the client does to the calls: each goes on as it was, fails, is
\* rejected while it is with the server or waits for a token, or has its token.
Rejects(old, new) ==
    \A k \in Calls :
        \/ new[k].stage = old[k].stage
        \/ new[k].stage = "failed"
        \/ old[k].stage \in {"sent", "ran", "refreshing"} /\ new[k].stage = "rejected"
        \/ old[k].stage = "refreshing" /\ new[k].stage = "sent"

-----------------------------------------------------------------------------
USE McpAssumption

\* A call that ended keeps its type and has failed.
LEMMA EndedRejects ==
    ASSUME NEW n, NEW by, NEW calls \in [Calls -> CallRec(n)]
    PROVE  Ended(by, calls) \in [Calls -> CallRec(n)] /\ Rejects(calls, Ended(by, calls))
  BY DEF Ended, Rejects, CallRec, Settled, InFlight

\* What the transport rejects keeps its type and is rejected.
LEMMA RejectedRejects ==
    ASSUME NEW n, NEW c, NEW calls \in [Calls -> CallRec(n)]
    PROVE  Rejected(c, calls) \in [Calls -> CallRec(n)] /\ Rejects(calls, Rejected(c, calls))
  BY DEF Rejected, Rejects, CallRec, Settled, InFlight

\* An interrupted initialize() ends at most one call.
LEMMA InterruptedRejects ==
    ASSUME NEW n, NEW i, NEW calls \in [Calls -> CallRec(n)]
    PROVE  Interrupted(i, calls) \in [Calls -> CallRec(n)] /\ Rejects(calls, Interrupted(i, calls))
  BY EndedRejects DEF Interrupted, Rejects

\* Rejections compose.
LEMMA RejectsTwice ==
    ASSUME NEW a, NEW b, NEW c, Rejects(a, b), Rejects(b, c)
    PROVE  Rejects(a, c)
  BY DEF Rejects

\* A rejection makes no call unrun and puts none in flight.
LEMMA RejectsKeeps ==
    ASSUME IInv, UNCHANGED <<applied, open>>, Rejects(call, call')
    PROVE  /\ AppliedInv'
           /\ ~present /\ open = {} => \A k \in Calls : call'[k].stage \notin InFlight
  BY DEF IInv, Rejects, AppliedInv, AppliedOnce, Unrun, DisposedInv, InFlight

\* A larger number of processes changes no type.
LEMMA CallRecGrows ==
    ASSUME NEW n \in Nat, NEW calls \in [Calls -> CallRec(n)]
    PROVE  calls \in [Calls -> CallRec(n + 1)]
  BY DEF CallRec

\* The calls' type, as the lemmas use it.
LEMMA TypeParts ==
    TypeOK => call \in [Calls -> CallRec(spawned)]
  BY DEF TypeOK, CallRec

\* Initially nothing runs and no call is made.
LEMMA InitIInv == Init => IInv
<1> SUFFICES ASSUME Init PROVE IInv
    OBVIOUS
<1> USE DEF Init
<1>1. TypeOK
  <2>1. 1 \in Clients
    BY DEF Clients
  <2>2. NoCall \in [stage : {"idle"} \cup InFlight \cup Settled, client : Clients,
                   proc : 0..spawned, retried : BOOLEAN, aborted : BOOLEAN]
    BY <2>1 DEF NoCall
  <2>3. {remote, present, disabled, connected, listed} \subseteq BOOLEAN
    OBVIOUS
  <2>4. call \in [Calls -> [stage : {"idle"} \cup InFlight \cup Settled, client : Clients,
                          proc : 0..spawned, retried : BOOLEAN, aborted : BOOLEAN]]
    BY <2>2
  <2>5. /\ init \in [Clients -> Inits \cup {NoInit}] /\ stuck \in [Clients -> SUBSET Initiators]
        /\ refreshing \in [Clients -> BOOLEAN] /\ proc \in [Clients -> 0..spawned]
        /\ applied \in [Calls -> Nat]
    OBVIOUS
  <2>6. /\ attempts \in 0..MaxAttempts /\ client \in Clients /\ connects \in 0..MaxConnects
        /\ spawned \in Nat /\ running \subseteq 1..spawned
        /\ shaken \subseteq Clients /\ open \subseteq Calls
    BY <2>1
  <2> QED
    BY <2>3, <2>4, <2>5, <2>6 DEF TypeOK
<1>2. OthersOff /\ OneProcess /\ DisabledInv
  BY DEF OthersOff, OneProcess, DisabledInv, DisabledStaysOff
<1>3. AppliedInv /\ DisposedInv
  BY DEF AppliedInv, AppliedOnce, DisposedInv, NothingAfterDispose
<1> QED
  BY <1>1, <1>2, <1>3 DEF IInv

-----------------------------------------------------------------------------
(* Helpers: what Begin, CloseClient and Fails do to the invariant's parts *)

\* initialize() of the entry's client keeps the types.
LEMMA BeginTypes ==
    ASSUME IInv, NEW by \in Initiators, NEW resets \in BOOLEAN,
           NEW calls \in [Calls -> CallRec(spawned)], Begin(by, resets, calls)
    PROVE  /\ init' \in [Clients -> Inits \cup {NoInit}]
           /\ stuck' \in [Clients -> SUBSET Initiators]
           /\ call' \in [Calls -> CallRec(spawned)]
           /\ Rejects(calls, call')
           /\ \A c \in Clients : c # client => init'[c] = init[c]
<1>1. PICK stage \in {"config", "auth"} :
        init' = [init EXCEPT ![client] = [by |-> by, stage |-> stage, resets |-> resets]]
  BY DEF Begin
<1>2. [by |-> by, stage |-> stage, resets |-> resets] \in Inits
  BY DEF Inits
<1>3. client \in Clients /\ init \in [Clients -> Inits \cup {NoInit}]
      /\ stuck \in [Clients -> SUBSET Initiators]
  BY DEF IInv, TypeOK
<1>4. init' \in [Clients -> Inits \cup {NoInit}]
      /\ \A c \in Clients : c # client => init'[c] = init[c]
  BY <1>1, <1>2, <1>3
<1>5. stuck' \in [Clients -> SUBSET Initiators]
  <2>1. Waits(init[client]) => init[client].by \in Initiators
    BY <1>3 DEF Waits, Inits, NoInit
  <2> QED
    BY <1>3, <2>1 DEF Begin, StuckNow
<1>6. call' \in [Calls -> CallRec(spawned)] /\ Rejects(calls, call')
  BY InterruptedRejects DEF Begin
<1> QED
  BY <1>4, <1>5, <1>6

\* The client's dispose() leaves it without initialize() and process.
LEMMA CloseTypes ==
    ASSUME IInv, CloseClient(client)
    PROVE  /\ init' \in [Clients -> Inits \cup {NoInit}]
           /\ \A c \in Clients : init'[c] = NoInit
           /\ stuck' \in [Clients -> SUBSET Initiators]
           /\ call' \in [Calls -> CallRec(spawned)]
           /\ Rejects(call, call')
           /\ proc' \in [Clients -> 0..spawned]
           /\ \A c \in Clients : proc'[c] = 0
           /\ running' = {} /\ spawned' = spawned
<1>1. call \in [Calls -> CallRec(spawned)]
  BY TypeParts DEF IInv
<1>2. Interrupted(init[client], call) \in [Calls -> CallRec(spawned)]
      /\ Rejects(call, Interrupted(init[client], call))
  BY <1>1, InterruptedRejects
<1>3. call' \in [Calls -> CallRec(spawned)]
      /\ Rejects(Interrupted(init[client], call), call')
  BY <1>2, RejectedRejects DEF CloseClient
<1>4. Rejects(call, call')
  BY <1>2, <1>3, RejectsTwice
<1>5. stuck' \in [Clients -> SUBSET Initiators]
  BY DEF CloseClient, StuckNow, Waits, Inits, NoInit, IInv, TypeOK
<1>6. init' \in [Clients -> Inits \cup {NoInit}] /\ \A c \in Clients : init'[c] = NoInit
  BY DEF CloseClient, IInv, TypeOK, OthersOff
<1>7. proc' = [proc EXCEPT ![client] = 0] /\ running' = running \ {proc[client]}
      /\ spawned' = spawned
  BY DEF CloseClient, CloseTransport
<1>8. proc' \in [Clients -> 0..spawned] /\ \A c \in Clients : proc'[c] = 0
  BY <1>7 DEF IInv, TypeOK, OthersOff
<1>9. running' = {}
  BY <1>7 DEF IInv, OneProcess
<1> QED
  BY <1>3, <1>4, <1>5, <1>6, <1>7, <1>8, <1>9

\* A client that initializes is the entry's, of a server that is on and whose
\* manager is not disposed of, or was with a call in flight.
LEMMA Initializing ==
    ASSUME IInv, NEW c \in Clients, init[c] # NoInit
    PROVE  /\ c = client /\ init[c] \in Inits /\ disabled = FALSE
           /\ ~(~present /\ open = {})
  BY DEF IInv, TypeOK, OthersOff, DisabledInv, DisabledStaysOff, DisposedInv, NothingAfterDispose

-----------------------------------------------------------------------------
(* Initializing *)

\* connectAll(), reconnect() and enable() find, or make, the server enabled.
LEMMA ByUserStep ==
    ASSUME IInv, NEW resets \in BOOLEAN, ByUser(resets),
           disabled' = FALSE, attempts' \in 0..MaxAttempts
    PROVE  IInv'
<1>1. connects' \in Initiators /\ connects' \in 0..MaxConnects
  BY DEF ByUser, IInv, TypeOK, Initiators
<1>2. call \in [Calls -> CallRec(spawned)]
  BY TypeParts DEF IInv
<1>3. /\ init' \in [Clients -> Inits \cup {NoInit}]
      /\ stuck' \in [Clients -> SUBSET Initiators]
      /\ call' \in [Calls -> CallRec(spawned)] /\ Rejects(call, call')
      /\ \A c \in Clients : c # client => init'[c] = init[c]
  BY <1>1, <1>2, BeginTypes DEF ByUser
<1>4. TypeOK'
  BY <1>1, <1>3 DEF ByUser, IInv, TypeOK, CallRec, procVars
<1>5. OthersOff' /\ OneProcess'
  BY <1>3 DEF ByUser, IInv, OthersOff, OneProcess, procVars
<1>6. DisabledInv'
  BY DEF DisabledInv, DisabledStaysOff
<1>7. AppliedInv'
  BY <1>3, RejectsKeeps DEF ByUser
<1>8. DisposedInv'
  BY DEF ByUser, DisposedInv, NothingAfterDispose, IInv, TypeOK
<1> QED
  BY <1>4, <1>5, <1>6, <1>7, <1>8 DEF IInv

\* Each of the three actions of the user is one of these.
LEMMA UserStep ==
    ASSUME IInv, ConnectAll \/ Reconnect \/ Enable
    PROVE  IInv'
<1>1. attempts \in 0..MaxAttempts /\ 0 \in 0..MaxAttempts /\ disabled \in BOOLEAN
  BY DEF IInv, TypeOK
<1>2. CASE ConnectAll
  <2>1. disabled' = FALSE /\ attempts' \in 0..MaxAttempts /\ ByUser(TRUE)
    BY <1>1, <1>2 DEF ConnectAll
  <2> QED
    BY <2>1, ByUserStep
<1>3. CASE Reconnect \/ Enable
  <2>1. disabled' = FALSE /\ attempts' \in 0..MaxAttempts /\ ByUser(FALSE)
    BY <1>1, <1>3 DEF Reconnect, Enable
  <2> QED
    BY <2>1, ByUserStep
<1> QED
  BY <1>2, <1>3

\* The next stage of an initialize() whose client is in charge.
LEMMA AuthDoneStep ==
    ASSUME IInv, NEW c \in Clients, AuthDone(c) \/ HandshakeUnauthorized(c)
    PROVE  IInv'
<1>1. init[c] # NoInit
  BY DEF AuthDone, HandshakeUnauthorized, NoInit
<1>2. c = client /\ init[c] \in Inits /\ disabled = FALSE /\ ~(~present /\ open = {})
  BY <1>1, Initializing
<1>3. PICK stage \in {"config", "reauth"} : init' = [init EXCEPT ![c].stage = stage]
  BY DEF AuthDone, HandshakeUnauthorized
<1>4. init' \in [Clients -> Inits \cup {NoInit}] /\ \A d \in Clients : d # c => init'[d] = init[d]
  <2>1. [init[c] EXCEPT !.stage = stage] \in Inits
    BY <1>2 DEF Inits
  <2> QED
    BY <1>3, <2>1 DEF IInv, TypeOK
<1>5. refreshing' \in [Clients -> BOOLEAN]
  BY DEF AuthDone, HandshakeUnauthorized, IInv, TypeOK
<1>6. UNCHANGED <<remote, entryVars, stuck, procVars, call, applied, ghosts>>
  BY DEF AuthDone, HandshakeUnauthorized
<1>7. TypeOK'
  BY <1>4, <1>5, <1>6 DEF IInv, TypeOK, entryVars, procVars, ghosts
<1>8. OthersOff' /\ OneProcess'
  BY <1>2, <1>4, <1>6 DEF IInv, OthersOff, OneProcess, entryVars, procVars, ghosts
<1>9. DisabledInv' /\ DisposedInv'
  BY <1>2, <1>6 DEF DisabledInv, DisabledStaysOff, DisposedInv, NothingAfterDispose, entryVars, ghosts
<1>10. AppliedInv'
  BY <1>6 DEF IInv, AppliedInv, AppliedOnce
<1> QED
  BY <1>7, <1>8, <1>9, <1>10 DEF IInv

\* start() replaces the process of the entry's client.
LEMMA ConfigDoneStep ==
    ASSUME IInv, NEW c \in Clients, ConfigDone(c)
    PROVE  IInv'
<1>1. init[c] # NoInit
  BY DEF ConfigDone, NoInit
<1>2. c = client /\ init[c] \in Inits /\ disabled = FALSE /\ ~(~present /\ open = {})
  BY <1>1, Initializing
<1>3. init' \in [Clients -> Inits \cup {NoInit}] /\ \A d \in Clients : d # c => init'[d] = init[d]
  <2>1. [init[c] EXCEPT !.stage = "handshake"] \in Inits
    BY <1>2 DEF Inits
  <2> QED
    BY <2>1 DEF IInv, TypeOK, ConfigDone
<1>4. UNCHANGED <<remote, entryVars, stuck, refreshing, call, applied, ghosts>>
  BY DEF ConfigDone
<1>5. /\ spawned' \in Nat /\ proc' \in [Clients -> 0..spawned'] /\ running' \subseteq 1..spawned'
      /\ call' \in [Calls -> CallRec(spawned')]
      /\ \A d \in Clients : d # c => proc'[d] = proc[d]
      /\ running' \subseteq {proc'[c]}
  <2>1. call \in [Calls -> CallRec(spawned)] /\ spawned \in Nat
    BY TypeParts DEF IInv, TypeOK
  <2>2. CASE remote
    BY <1>2, <1>4, <2>1, <2>2 DEF ConfigDone, procVars, IInv, TypeOK, OneProcess
  <2>3. CASE ~remote
    <3>1. /\ spawned' = spawned + 1 /\ proc' = [proc EXCEPT ![c] = spawned']
          /\ running' = (running \ {proc[c]}) \cup {spawned'}
      BY <2>3 DEF ConfigDone
    <3>2. call' \in [Calls -> CallRec(spawned')]
      BY <1>4, <2>1, <3>1, CallRecGrows
    <3>3. proc' \in [Clients -> 0..spawned'] /\ running' \subseteq 1..spawned'
      <4>1. proc \in [Clients -> 0..spawned] /\ running \subseteq 1..spawned
        BY DEF IInv, TypeOK
      <4>2. 0..spawned \subseteq 0..spawned' /\ 1..spawned \subseteq 1..spawned'
            /\ spawned' \in 0..spawned' /\ spawned' \in 1..spawned'
        BY <2>1, <3>1
      <4>3. proc' \in [Clients -> 0..spawned']
        BY <3>1, <4>1, <4>2
      <4>4. running' \subseteq 1..spawned'
        BY <3>1, <4>1, <4>2
      <4> QED
        BY <4>3, <4>4
    <3>4. proc'[c] = spawned' /\ \A d \in Clients : d # c => proc'[d] = proc[d]
      BY <3>1 DEF IInv, TypeOK
    <3>5. running' \subseteq {proc'[c]}
      BY <1>2, <3>1, <3>4 DEF IInv, OneProcess
    <3> QED
      BY <2>1, <3>1, <3>2, <3>3, <3>4, <3>5
  <2> QED
    BY <2>2, <2>3
<1>6. TypeOK'
  BY <1>3, <1>4, <1>5 DEF IInv, TypeOK, entryVars, ghosts, CallRec
<1>7. OthersOff' /\ OneProcess'
  BY <1>2, <1>3, <1>4, <1>5 DEF IInv, OthersOff, OneProcess, entryVars, ghosts
<1>8. DisabledInv' /\ DisposedInv'
  BY <1>2, <1>4 DEF DisabledInv, DisabledStaysOff, DisposedInv, NothingAfterDispose, entryVars, ghosts
<1>9. AppliedInv'
  BY <1>4 DEF IInv, AppliedInv, AppliedOnce
<1> QED
  BY <1>6, <1>7, <1>8, <1>9 DEF IInv

\* The client of a completed handshake is the entry's, of a server that is on.
LEMMA HandshakeOkStep ==
    ASSUME IInv, NEW c \in Clients, HandshakeOk(c)
    PROVE  IInv'
<1>1. init[c] # NoInit
  BY DEF HandshakeOk, NoInit
<1>2. c = client /\ init[c] \in Inits /\ disabled = FALSE /\ ~(~present /\ open = {})
  BY <1>1, Initializing
<1>3. init' \in [Clients -> Inits \cup {NoInit}]
      /\ \A d \in Clients : d # client => init'[d] = init[d]
  BY <1>2 DEF HandshakeOk, IInv, TypeOK
<1>4. call' \in [Calls -> CallRec(spawned)] /\ Rejects(call, call')
  BY TypeParts, EndedRejects DEF HandshakeOk, IInv
<1>5. UNCHANGED <<remote, present, disabled, client, stuck, refreshing, procVars, applied,
                  connects, open>>
  BY DEF HandshakeOk
<1>6. TypeOK'
  <2>1. attempts' \in 0..MaxAttempts /\ connected' = TRUE /\ listed' = TRUE
        /\ shaken' \subseteq Clients
    BY DEF HandshakeOk, IInv, TypeOK
  <2> QED
    BY <1>3, <1>4, <1>5, <2>1 DEF IInv, TypeOK, CallRec, procVars
<1>7. OthersOff' /\ OneProcess'
  <2>1. shaken' \subseteq 1..client
    BY <1>2 DEF HandshakeOk, IInv, OthersOff, TypeOK, Clients
  <2> QED
    BY <1>3, <1>5, <2>1 DEF IInv, OthersOff, OneProcess, procVars
<1>8. DisabledInv' /\ DisposedInv'
  BY <1>2, <1>5 DEF DisabledInv, DisabledStaysOff, DisposedInv, NothingAfterDispose
<1>9. AppliedInv'
  BY <1>4, <1>5, RejectsKeeps
<1> QED
  BY <1>6, <1>7, <1>8, <1>9 DEF IInv

\* A failed initialize() takes the tools of a connect away, and its process.
LEMMA FailsStep ==
    ASSUME IInv, NEW c \in Clients, NEW calls \in [Calls -> CallRec(spawned)],
           Rejects(call, calls), Fails(c, calls),
           c = client, disabled = FALSE, ~(~present /\ open = {}),
           refreshing' \in [Clients -> BOOLEAN],
           UNCHANGED <<remote, present, disabled, attempts, client, stuck, applied, ghosts>>
    PROVE  IInv'
<1>1. init' \in [Clients -> Inits \cup {NoInit}] /\ \A d \in Clients : d # c => init'[d] = init[d]
  BY DEF Fails, IInv, TypeOK
<1>2. call' \in [Calls -> CallRec(spawned)] /\ Rejects(call, call')
  <2>1. Ended(init[c].by, calls) \in [Calls -> CallRec(spawned)]
        /\ Rejects(calls, Ended(init[c].by, calls))
    BY EndedRejects
  <2>2. call' \in [Calls -> CallRec(spawned)] /\ Rejects(Ended(init[c].by, calls), call')
    BY <2>1, RejectedRejects DEF Fails
  <2> QED
    BY <2>1, <2>2, RejectsTwice
<1>3. /\ proc' \in [Clients -> 0..spawned] /\ spawned' = spawned /\ running' = {}
      /\ \A d \in Clients : d # c => proc'[d] = proc[d]
  <2>1. proc' = [proc EXCEPT ![c] = 0] /\ running' = running \ {proc[c]} /\ spawned' = spawned
    BY DEF Fails, CloseTransport
  <2>2. running' = {}
    BY <2>1 DEF IInv, OneProcess
  <2>3. proc \in [Clients -> 0..spawned] /\ spawned \in Nat
    BY DEF IInv, TypeOK
  <2>4. proc' \in [Clients -> 0..spawned] /\ \A d \in Clients : d # c => proc'[d] = proc[d]
    BY <2>1, <2>3
  <2> QED
    BY <2>1, <2>2, <2>4
<1>4. connected' \in BOOLEAN /\ listed' \in BOOLEAN
  BY DEF Fails
<1>5. TypeOK'
  BY <1>1, <1>2, <1>3, <1>4 DEF IInv, TypeOK, CallRec, ghosts
<1>6. OthersOff' /\ OneProcess'
  BY <1>1, <1>3 DEF IInv, OthersOff, OneProcess, ghosts
<1>7. DisabledInv' /\ DisposedInv'
  BY DEF DisabledInv, DisabledStaysOff, DisposedInv, NothingAfterDispose, ghosts
<1>8. AppliedInv'
  BY <1>2, RejectsKeeps DEF ghosts
<1> QED
  BY <1>5, <1>6, <1>7, <1>8 DEF IInv

\* A time-out, an error or an abort of initialize() hits the entry's client.
LEMMA InitFailsStep ==
    ASSUME IInv, NEW c \in Clients, InitFails(c)
    PROVE  IInv'
<1>1. c = client /\ disabled = FALSE /\ ~(~present /\ open = {})
  BY Initializing DEF InitFails
<1>2. call \in [Calls -> CallRec(spawned)] /\ Rejects(call, call)
  BY TypeParts DEF IInv, Rejects
<1>3. refreshing' \in [Clients -> BOOLEAN]
  BY DEF InitFails, IInv, TypeOK
<1> QED
  BY <1>1, <1>2, <1>3, FailsStep DEF InitFails

-----------------------------------------------------------------------------
(* Steps that touch neither the process nor who initializes *)

\* The calls, and what the entry shows, change; nothing starts.
LEMMA CallStep ==
    ASSUME IInv, call' \in [Calls -> CallRec(spawned)],
           UNCHANGED <<remote, present, disabled, client, init, procVars, ghosts>>,
           refreshing' \in [Clients -> BOOLEAN], stuck' \in [Clients -> SUBSET Initiators],
           attempts' \in 0..MaxAttempts, connected' \in BOOLEAN, listed' \in BOOLEAN,
           disabled => ~connected' /\ ~listed',
           applied' \in [Calls -> Nat], AppliedInv',
           ~present /\ open = {} => \A k \in Calls : call'[k].stage \notin InFlight
    PROVE  IInv'
<1>1. TypeOK'
  BY DEF IInv, TypeOK, CallRec, procVars, ghosts
<1>2. OthersOff' /\ OneProcess'
  BY DEF IInv, OthersOff, OneProcess, procVars, ghosts
<1>3. DisabledInv'
  BY DEF IInv, DisabledInv, DisabledStaysOff, procVars, ghosts
<1>4. DisposedInv'
  BY DEF IInv, DisposedInv, NothingAfterDispose, procVars, ghosts
<1> QED
  BY <1>1, <1>2, <1>3, <1>4 DEF IInv

\* A superseded initialize() that rejects late only takes away.
LEMMA StuckRejectsStep ==
    ASSUME IInv, NEW c \in Clients, StuckRejects(c)
    PROVE  IInv'
<1>1. PICK by \in stuck[c] :
        /\ stuck' = [stuck EXCEPT ![c] = @ \ {by}]
        /\ connected' = (connected /\ by \in Calls)
        /\ listed' = (listed /\ by \in Calls)
        /\ call' = Ended(by, call)
        /\ UNCHANGED <<remote, present, disabled, attempts, client, init, refreshing,
                       procVars, applied, ghosts>>
  BY DEF StuckRejects
<1>2. call' \in [Calls -> CallRec(spawned)] /\ Rejects(call, call')
  BY <1>1, TypeParts, EndedRejects DEF IInv
<1>3. AppliedInv' /\ (~present /\ open = {} => \A k \in Calls : call'[k].stage \notin InFlight)
  BY <1>1, <1>2, RejectsKeeps DEF ghosts
<1>4. /\ stuck' \in [Clients -> SUBSET Initiators] /\ refreshing' \in [Clients -> BOOLEAN]
      /\ attempts' \in 0..MaxAttempts /\ applied' \in [Calls -> Nat]
  BY <1>1 DEF IInv, TypeOK
<1>5. connected' \in BOOLEAN /\ listed' \in BOOLEAN /\ (disabled => ~connected' /\ ~listed')
  BY <1>1 DEF IInv, DisabledInv, DisabledStaysOff
<1> QED
  BY <1>1, <1>2, <1>3, <1>4, <1>5, CallStep

\* The settled refresh of a handshake is one of the entry's client.
LEMMA RefreshDoneStep ==
    ASSUME IInv, NEW c \in Clients, RefreshDone(c)
    PROVE  IInv'
<1> DEFINE calls(ok) == [k \in Calls |->
              IF call[k].stage = "refreshing" /\ call[k].client = c
              THEN [call[k] EXCEPT !.stage = IF ok THEN "sent" ELSE "rejected"]
              ELSE call[k]]
<1>1. PICK ok \in BOOLEAN :
        IF init[c].stage = "reauth" /\ ~ok
        THEN Fails(c, calls(ok))
        ELSE /\ init' = IF init[c].stage = "reauth"
                        THEN [init EXCEPT ![c].stage = "rehandshake"] ELSE init
             /\ call' = calls(ok)
             /\ UNCHANGED <<connected, listed, procVars>>
  BY DEF RefreshDone
<1>2. UNCHANGED <<remote, present, disabled, attempts, client, stuck, applied, ghosts>>
      /\ refreshing' \in [Clients -> BOOLEAN]
  BY DEF RefreshDone, IInv, TypeOK
<1>3. calls(ok) \in [Calls -> CallRec(spawned)] /\ Rejects(call, calls(ok))
  <2>1. call \in [Calls -> CallRec(spawned)]
    BY TypeParts DEF IInv
  <2> QED
    BY <2>1 DEF CallRec, InFlight, Rejects
<1>4. ASSUME init[c].stage = "reauth"
      PROVE  c = client /\ init[c] \in Inits /\ disabled = FALSE /\ ~(~present /\ open = {})
  <2>1. init[c] # NoInit
    BY <1>4 DEF NoInit
  <2> QED
    BY <2>1, Initializing
<1>5. CASE init[c].stage = "reauth" /\ ~ok
  <2>1. Fails(c, calls(ok))
    BY <1>1, <1>5
  <2> HIDE DEF calls
  <2> QED
    BY <1>2, <1>3, <1>4, <1>5, <2>1, FailsStep
<1>6. CASE ~(init[c].stage = "reauth" /\ ~ok)
  <2>1. call' = calls(ok) /\ UNCHANGED <<connected, listed, procVars>>
    BY <1>1, <1>6
  <2> HIDE DEF calls
  <2>2. AppliedInv' /\ (~present /\ open = {} => \A k \in Calls : call'[k].stage \notin InFlight)
    BY <1>2, <1>3, <2>1, RejectsKeeps DEF ghosts
  <2>3. CASE init[c].stage # "reauth"
    <3>1. init' = init
      BY <1>1, <2>3
    <3> QED
      BY <1>2, <1>3, <2>1, <2>2, <3>1, CallStep DEF IInv, TypeOK, DisabledInv, DisabledStaysOff
  <2>4. CASE init[c].stage = "reauth"
    <3>1. init' = [init EXCEPT ![c].stage = "rehandshake"]
      BY <1>1, <1>6, <2>4
    <3>2. init' \in [Clients -> Inits \cup {NoInit}]
          /\ \A d \in Clients : d # c => init'[d] = init[d]
      <4>1. [init[c] EXCEPT !.stage = "rehandshake"] \in Inits
        BY <1>4, <2>4 DEF Inits
      <4> QED
        BY <3>1, <4>1 DEF IInv, TypeOK
    <3>3. TypeOK'
      BY <1>2, <1>3, <2>1, <3>2 DEF IInv, TypeOK, CallRec, procVars, ghosts
    <3>4. OthersOff' /\ OneProcess'
      BY <1>2, <1>4, <2>1, <2>4, <3>2 DEF IInv, OthersOff, OneProcess, procVars, ghosts
    <3>5. DisabledInv' /\ DisposedInv'
      BY <1>2, <1>4, <2>4 DEF DisabledInv, DisabledStaysOff, DisposedInv, NothingAfterDispose, ghosts
    <3> QED
      BY <2>2, <3>3, <3>4, <3>5 DEF IInv
  <2> QED
    BY <2>3, <2>4
<1> QED
  BY <1>5, <1>6

\* The client of a disabled server has completed no handshake.
LEMMA ToolsChangedStep ==
    ASSUME IInv, ToolsChanged
    PROVE  IInv'
<1>1. call' \in [Calls -> CallRec(spawned)] /\ Rejects(call, call')
  BY TypeParts DEF ToolsChanged, IInv, Rejects
<1>2. AppliedInv' /\ (~present /\ open = {} => \A k \in Calls : call'[k].stage \notin InFlight)
  BY <1>1, RejectsKeeps DEF ToolsChanged, ghosts
<1>3. ~disabled
  BY DEF ToolsChanged, IInv, DisabledInv
<1> QED
  BY <1>1, <1>2, <1>3, CallStep DEF ToolsChanged, IInv, TypeOK, initVars

-----------------------------------------------------------------------------
(* Switching off *)

\* The next client is a fresh one, with neither initialize() nor process.
LEMMA DisableStep ==
    ASSUME IInv, Disable
    PROVE  IInv'
<1>1. /\ init' \in [Clients -> Inits \cup {NoInit}] /\ \A c \in Clients : init'[c] = NoInit
      /\ stuck' \in [Clients -> SUBSET Initiators]
      /\ call' \in [Calls -> CallRec(spawned)] /\ Rejects(call, call')
      /\ proc' \in [Clients -> 0..spawned] /\ \A c \in Clients : proc'[c] = 0
      /\ running' = {} /\ spawned' = spawned
  BY CloseTypes DEF Disable
<1>2. client \in Clients /\ client' = client + 1 /\ client' \in Clients
  BY DEF Disable, IInv, TypeOK, Clients
<1>3. TypeOK'
  <2>1. /\ UNCHANGED <<remote, present, refreshing, applied, connects, shaken, open>>
        /\ disabled' = TRUE /\ connected' = FALSE /\ attempts' = 0 /\ listed' = FALSE
    BY DEF Disable, ghosts
  <2>2. {remote, present, disabled, connected, listed}' \subseteq BOOLEAN
    BY <2>1 DEF IInv, TypeOK
  <2>3. attempts' \in 0..MaxAttempts /\ spawned' \in Nat /\ running' \subseteq 1..spawned'
    BY <1>1, <2>1 DEF IInv, TypeOK
  <2>4. /\ refreshing' \in [Clients -> BOOLEAN] /\ applied' \in [Calls -> Nat]
        /\ connects' \in 0..MaxConnects /\ shaken' \subseteq Clients /\ open' \subseteq Calls
    BY <2>1 DEF IInv, TypeOK
  <2> QED
    BY <1>1, <1>2, <2>2, <2>3, <2>4 DEF TypeOK, CallRec
<1>4. shaken' \subseteq 1..client' /\ client' \notin shaken'
  BY <1>2 DEF Disable, IInv, OthersOff, Clients, ghosts
<1>5. OthersOff' /\ OneProcess' /\ DisabledInv'
  BY <1>1, <1>4 DEF Disable, OthersOff, OneProcess, DisabledInv, DisabledStaysOff
<1>6. AppliedInv' /\ DisposedInv'
  BY <1>1, RejectsKeeps DEF Disable, ghosts, DisposedInv, NothingAfterDispose
<1> QED
  BY <1>3, <1>5, <1>6 DEF IInv

\* With no call in flight at dispose() there is none after it.
LEMMA DisposeStep ==
    ASSUME IInv, Dispose
    PROVE  IInv'
<1>1. /\ init' \in [Clients -> Inits \cup {NoInit}] /\ \A c \in Clients : init'[c] = NoInit
      /\ stuck' \in [Clients -> SUBSET Initiators]
      /\ call' \in [Calls -> CallRec(spawned)] /\ Rejects(call, call')
      /\ proc' \in [Clients -> 0..spawned] /\ \A c \in Clients : proc'[c] = 0
      /\ running' = {} /\ spawned' = spawned
  BY CloseTypes DEF Dispose
<1>2. UNCHANGED <<remote, disabled, connected, attempts, listed, client, refreshing,
                  applied, connects, shaken>> /\ present' = FALSE
      /\ open' = {k \in Calls : call[k].stage \in InFlight}
  BY DEF Dispose
<1>3. TypeOK'
  BY <1>1, <1>2 DEF IInv, TypeOK, CallRec
<1>4. OthersOff' /\ OneProcess' /\ DisabledInv'
  BY <1>1, <1>2 DEF IInv, OthersOff, OneProcess, DisabledInv, DisabledStaysOff
<1>5. AppliedInv'
  BY <1>1, <1>2 DEF IInv, AppliedInv, AppliedOnce, Rejects, Unrun
<1>6. DisposedInv'
  BY <1>1, <1>2 DEF DisposedInv, NothingAfterDispose, Rejects, InFlight
<1> QED
  BY <1>3, <1>4, <1>5, <1>6 DEF IInv

-----------------------------------------------------------------------------
(* Tool calls *)

\* A call that starts after dispose() fails at once.
LEMMA CallStartsStep ==
    ASSUME IInv, NEW k \in Calls, CallStarts(k)
    PROVE  IInv'
<1>1. PICK stage \in {"failed", "sent", "rejected"} :
        /\ ~present => stage = "failed"
        /\ call' = [call EXCEPT ![k] = [NoCall EXCEPT
                        !.stage = stage, !.client = client, !.proc = proc[client]]]
  BY DEF CallStarts
<1>2. call \in [Calls -> CallRec(spawned)] /\ client \in Clients /\ proc[client] \in 0..spawned
  BY TypeParts DEF IInv, TypeOK
<1>3. [NoCall EXCEPT !.stage = stage, !.client = client, !.proc = proc[client]]
          \in CallRec(spawned)
  BY <1>2 DEF NoCall, CallRec, InFlight, Settled
<1>4. call' \in [Calls -> CallRec(spawned)]
  BY <1>1, <1>2, <1>3
<1>5. call'[k].stage = stage /\ \A j \in Calls : j # k => call'[j] = call[j]
  BY <1>1, <1>2 DEF NoCall
<1>6. UNCHANGED <<remote, entryVars, initVars, procVars, applied, ghosts>>
      /\ call[k].stage = "idle"
  BY DEF CallStarts
<1>7. AppliedInv'
  BY <1>5, <1>6 DEF IInv, AppliedInv, AppliedOnce, Unrun
<1>8. ~present /\ open = {} => \A j \in Calls : call'[j].stage \notin InFlight
  BY <1>1, <1>5 DEF IInv, DisposedInv, InFlight
<1> QED
  BY <1>4, <1>6, <1>7, <1>8, CallStep DEF IInv, TypeOK, DisabledInv, DisabledStaysOff,
     entryVars, initVars

\* The server runs a call that is sent, which it has not run yet.
LEMMA ServerRunsStep ==
    ASSUME IInv, NEW k \in Calls, ServerRuns(k)
    PROVE  IInv'
<1>1. call \in [Calls -> CallRec(spawned)] /\ applied \in [Calls -> Nat]
  BY TypeParts DEF IInv, TypeOK
<1>2. call' = [call EXCEPT ![k].stage = "ran"] /\ applied' = [applied EXCEPT ![k] = @ + 1]
      /\ call[k].stage = "sent" /\ UNCHANGED <<remote, entryVars, initVars, procVars, ghosts>>
  BY DEF ServerRuns
<1>3. call' \in [Calls -> CallRec(spawned)] /\ applied' \in [Calls -> Nat]
  BY <1>1, <1>2 DEF CallRec, InFlight
<1>4. /\ call'[k].stage = "ran" /\ applied'[k] = applied[k] + 1
      /\ \A j \in Calls : j # k => call'[j] = call[j] /\ applied'[j] = applied[j]
  BY <1>1, <1>2 DEF CallRec
<1>5. applied[k] = 0
  BY <1>2 DEF IInv, AppliedInv, Unrun
<1>6. AppliedInv'
  BY <1>4, <1>5 DEF IInv, AppliedInv, AppliedOnce, Unrun
<1>7. ~present /\ open = {} => \A j \in Calls : call'[j].stage \notin InFlight
  BY <1>2 DEF IInv, DisposedInv, InFlight
<1> QED
  BY <1>2, <1>3, <1>6, <1>7, CallStep DEF IInv, TypeOK, DisabledInv, DisabledStaysOff,
     entryVars, initVars

\* A 401 stands for a call that did not reach the tool.
LEMMA CallUnauthorizedStep ==
    ASSUME IInv, NEW k \in Calls, CallUnauthorized(k)
    PROVE  IInv'
<1>1. call \in [Calls -> CallRec(spawned)]
  BY TypeParts DEF IInv
<1>2. /\ call' = [call EXCEPT ![k].stage = "refreshing", ![k].retried = TRUE]
      /\ refreshing' = [refreshing EXCEPT ![call[k].client] = TRUE]
      /\ call[k].stage = "sent"
      /\ UNCHANGED <<remote, entryVars, init, stuck, procVars, applied, ghosts>>
  BY DEF CallUnauthorized
<1>3. call' \in [Calls -> CallRec(spawned)] /\ refreshing' \in [Clients -> BOOLEAN]
  <2>1. call' \in [Calls -> CallRec(spawned)]
    BY <1>1, <1>2 DEF CallRec, InFlight
  <2>2. refreshing' \in [Clients -> BOOLEAN]
    BY <1>2 DEF IInv, TypeOK
  <2> QED
    BY <2>1, <2>2
<1>4. call'[k].stage = "refreshing" /\ \A j \in Calls : j # k => call'[j] = call[j]
  BY <1>1, <1>2 DEF CallRec
<1>5. AppliedInv'
  BY <1>2, <1>4 DEF IInv, AppliedInv, AppliedOnce, Unrun
<1>6. ~present /\ open = {} => \A j \in Calls : call'[j].stage \notin InFlight
  BY <1>2 DEF IInv, DisposedInv, InFlight
<1> QED
  BY <1>2, <1>3, <1>5, <1>6, CallStep DEF IInv, TypeOK, DisabledInv, DisabledStaysOff, entryVars

\* A call settles, or is aborted while it waits for a token.
LEMMA CallSettlesStep ==
    ASSUME IInv, NEW k \in Calls, CallAnswered(k) \/ CallRefused(k) \/ CallAborts(k)
    PROVE  IInv'
<1>1. call \in [Calls -> CallRec(spawned)]
  BY TypeParts DEF IInv
<1>2. /\ UNCHANGED <<remote, present, disabled, listed, client, initVars, procVars,
                     applied, ghosts>>
      /\ attempts' \in 0..MaxAttempts /\ connected' \in BOOLEAN
      /\ disabled => ~connected'
      /\ call[k].stage \in InFlight
  <2>1. UNCHANGED <<remote, present, disabled, listed, client, initVars, procVars,
                    applied, ghosts>> /\ call[k].stage \in InFlight
    BY DEF CallAnswered, CallRefused, CallAborts, entryVars, InFlight
  <2>2. attempts' = attempts \/ attempts' = 0
    BY DEF CallAnswered, CallRefused, CallAborts, entryVars
  <2>3. attempts' \in 0..MaxAttempts
    BY <2>2 DEF IInv, TypeOK
  <2>4. connected \in BOOLEAN /\ disabled \in BOOLEAN /\ (disabled => ~connected)
    BY DEF IInv, TypeOK, DisabledInv, DisabledStaysOff
  <2>5. connected' = (connected \/ ~disabled) \/ connected' = connected
    BY DEF CallAnswered, CallRefused, CallAborts, entryVars
  <2>6. connected' \in BOOLEAN
    BY <2>4, <2>5
  <2>7. disabled => ~connected'
    <3>1. CASE connected' = (connected \/ ~disabled)
      BY <2>4, <3>1
    <3>2. CASE connected' = connected
      BY <2>4, <3>2
    <3> QED
      BY <2>5, <3>1, <3>2
  <2> QED
    BY <2>1, <2>3, <2>6, <2>7
<1>3. \/ \E s \in Settled : call' = [call EXCEPT ![k].stage = s]
      \/ call' = [call EXCEPT ![k].aborted = TRUE]
  BY DEF CallAnswered, CallRefused, CallAborts, Settled
<1>4. call' \in [Calls -> CallRec(spawned)]
  BY <1>1, <1>3 DEF CallRec
<1>5. /\ call'[k].stage \in Settled \/ call'[k].stage = call[k].stage
      /\ \A j \in Calls : j # k => call'[j] = call[j]
  BY <1>1, <1>3 DEF CallRec
<1>6. AppliedInv'
  BY <1>2, <1>5 DEF IInv, AppliedInv, AppliedOnce, Unrun, Settled
<1>7. ~present /\ open = {} => \A j \in Calls : call'[j].stage \notin InFlight
  BY <1>2 DEF IInv, DisposedInv
<1> QED
  BY <1>2, <1>4, <1>6, <1>7, CallStep DEF IInv, TypeOK, DisabledInv, DisabledStaysOff, initVars

\* The catch of callTool re-initializes only a server that is on, and only for
\* a call that was in flight.
LEMMA CallFailsStep ==
    ASSUME IInv, NEW k \in Calls, CallFails(k)
    PROVE  IInv'
<1>1. call \in [Calls -> CallRec(spawned)]
  BY TypeParts DEF IInv
<1>2. /\ call[k].stage \in {"sent", "ran", "rejected"}
      /\ UNCHANGED <<remote, present, disabled, client, refreshing, procVars, applied, ghosts>>
  BY DEF CallFails
<1>3. ~(~present /\ open = {})
  BY <1>2 DEF IInv, DisposedInv, InFlight
<1>4. CASE call[k].aborted \/ disabled \/ ~(attempts < MaxAttempts)
  <2>1. /\ call' = [call EXCEPT ![k].stage = "failed"]
        /\ UNCHANGED <<attempts, listed, init, stuck>>
        /\ connected' = connected \/ connected' = FALSE
    BY <1>4 DEF CallFails
  <2>2. call' \in [Calls -> CallRec(spawned)] /\ Rejects(call, call')
    BY <1>1, <2>1 DEF CallRec, Settled, Rejects
  <2>3. AppliedInv'
    BY <1>2, <2>2, RejectsKeeps DEF ghosts
  <2>4. /\ refreshing' \in [Clients -> BOOLEAN] /\ stuck' \in [Clients -> SUBSET Initiators]
        /\ attempts' \in 0..MaxAttempts /\ applied' \in [Calls -> Nat]
    BY <1>2, <2>1 DEF IInv, TypeOK
  <2>5. connected' \in BOOLEAN /\ listed' \in BOOLEAN /\ (disabled => ~connected' /\ ~listed')
    <3>1. connected \in BOOLEAN /\ listed \in BOOLEAN /\ (disabled => ~connected /\ ~listed)
      BY DEF IInv, TypeOK, DisabledInv, DisabledStaysOff
    <3>2. CASE connected' = connected
      BY <2>1, <3>1, <3>2
    <3>3. CASE connected' = FALSE
      BY <2>1, <3>1, <3>3
    <3> QED
      BY <2>1, <3>2, <3>3
  <2> QED
    BY <1>2, <1>3, <2>1, <2>2, <2>3, <2>4, <2>5, CallStep
<1>5. CASE ~(call[k].aborted \/ disabled \/ ~(attempts < MaxAttempts))
  <2> DEFINE calls == [call EXCEPT ![k].stage = "healing"]
  <2>1. /\ connected' = FALSE /\ attempts' = attempts + 1
        /\ Begin(k, TRUE, calls)
        /\ listed' = (listed /\ ~TakesTools(init[client]))
    BY <1>5 DEF CallFails
  <2>2. calls \in [Calls -> CallRec(spawned)]
    BY <1>1 DEF CallRec, InFlight
  <2>3. calls[k].stage = "healing" /\ \A j \in Calls : j # k => calls[j] = call[j]
    BY <1>1 DEF CallRec
  <2> HIDE DEF calls
  <2>4. /\ init' \in [Clients -> Inits \cup {NoInit}]
        /\ stuck' \in [Clients -> SUBSET Initiators]
        /\ call' \in [Calls -> CallRec(spawned)]
        /\ Rejects(calls, call')
        /\ \A c \in Clients : c # client => init'[c] = init[c]
    BY <2>1, <2>2, BeginTypes DEF Initiators
  <2>5. attempts' \in 0..MaxAttempts
    BY <1>5, <2>1 DEF IInv, TypeOK
  <2>6. TypeOK'
    <3>1. {remote, present, disabled, connected, listed}' \subseteq BOOLEAN
      BY <1>2, <2>1 DEF IInv, TypeOK
    <3>2. /\ refreshing' \in [Clients -> BOOLEAN] /\ applied' \in [Calls -> Nat]
          /\ connects' \in 0..MaxConnects /\ shaken' \subseteq Clients /\ open' \subseteq Calls
          /\ spawned' \in Nat /\ proc' \in [Clients -> 0..spawned'] /\ running' \subseteq 1..spawned'
          /\ client' \in Clients /\ spawned' = spawned
      BY <1>2 DEF IInv, TypeOK, procVars, ghosts
    <3> QED
      BY <2>4, <2>5, <3>1, <3>2 DEF TypeOK, CallRec
  <2>7. OthersOff' /\ OneProcess'
    BY <1>2, <2>4 DEF IInv, OthersOff, OneProcess, procVars, ghosts
  <2>8. DisabledInv' /\ DisposedInv'
    BY <1>2, <1>3, <1>5 DEF DisabledInv, DisabledStaysOff, DisposedInv, NothingAfterDispose, ghosts
  <2>9. AppliedInv'
    BY <1>2, <2>3, <2>4 DEF IInv, AppliedInv, AppliedOnce, Rejects, Unrun
  <2> QED
    BY <2>6, <2>7, <2>8, <2>9 DEF IInv
<1> QED
  BY <1>4, <1>5

\* A process that dies is the entry's client's.
LEMMA ProcessExitsStep ==
    ASSUME IInv, NEW c \in Clients, ProcessExits(c)
    PROVE  IInv'
<1>1. UNCHANGED <<remote, present, disabled, attempts, client, stuck, refreshing,
                  applied, ghosts>> /\ proc[c] \in running
  BY DEF ProcessExits
<1>2. call \in [Calls -> CallRec(spawned)] /\ Rejects(call, call)
      /\ refreshing' \in [Clients -> BOOLEAN]
  BY <1>1, TypeParts DEF IInv, TypeOK, Rejects
<1>3. CASE init[c].stage = "handshake"
  <2>1. init[c] # NoInit
    BY <1>3 DEF NoInit
  <2>2. c = client /\ disabled = FALSE /\ ~(~present /\ open = {})
    BY <2>1, Initializing
  <2> QED
    BY <1>1, <1>2, <1>3, <2>2, FailsStep DEF ProcessExits
<1>4. CASE init[c].stage # "handshake"
  <2>1. /\ running' = running \ {proc[c]} /\ call' = Rejected(c, call)
        /\ UNCHANGED <<connected, listed, init, proc, spawned>>
    BY <1>4 DEF ProcessExits
  <2>2. call' \in [Calls -> CallRec(spawned)] /\ Rejects(call, call')
    BY <1>2, <2>1, RejectedRejects
  <2>3. TypeOK'
    BY <1>1, <1>2, <2>1, <2>2 DEF IInv, TypeOK, CallRec, ghosts
  <2>4. OthersOff' /\ OneProcess' /\ DisabledInv'
    BY <1>1, <2>1 DEF IInv, OthersOff, OneProcess, DisabledInv, DisabledStaysOff, ghosts
  <2>5. AppliedInv' /\ (~present /\ open = {} => \A k \in Calls : call'[k].stage \notin InFlight)
    BY <1>1, <2>2, RejectsKeeps DEF ghosts
  <2>6. DisposedInv'
    BY <1>1, <2>1, <2>5 DEF IInv, DisposedInv, NothingAfterDispose, ghosts
  <2> QED
    BY <2>3, <2>4, <2>5, <2>6 DEF IInv
<1> QED
  BY <1>3, <1>4

-----------------------------------------------------------------------------
(* Every step, and the theorems *)

\* Every step keeps the invariant.
LEMMA NextStep == IInv /\ [Next]_vars => IInv'
<1> SUFFICES ASSUME IInv, [Next]_vars PROVE IInv'
    OBVIOUS
<1>1. CASE ConnectAll \/ Reconnect \/ Enable
  BY <1>1, UserStep
<1>2. CASE Disable \/ Dispose \/ ToolsChanged
  BY <1>2, DisableStep, DisposeStep, ToolsChangedStep
<1>3. ASSUME NEW c \in Clients, InitStep(c)
      PROVE  IInv'
  BY <1>3, AuthDoneStep, ConfigDoneStep, HandshakeOkStep, InitFailsStep DEF InitStep
<1>4. ASSUME NEW c \in Clients, StuckRejects(c) \/ RefreshDone(c) \/ ProcessExits(c)
      PROVE  IInv'
  BY <1>4, StuckRejectsStep, RefreshDoneStep, ProcessExitsStep
<1>5. ASSUME NEW k \in Calls, CallStarts(k) \/ ServerRuns(k) \/ CallUnauthorized(k)
      PROVE  IInv'
  BY <1>5, CallStartsStep, ServerRunsStep, CallUnauthorizedStep
<1>6. ASSUME NEW k \in Calls, CallAnswered(k) \/ CallRefused(k) \/ CallAborts(k)
      PROVE  IInv'
  BY <1>6, CallSettlesStep
<1>7. ASSUME NEW k \in Calls, CallFails(k)
      PROVE  IInv'
  BY <1>7, CallFailsStep
<1>8. CASE UNCHANGED vars
  BY <1>8 DEF vars, entryVars, initVars, procVars, ghosts, IInv, TypeOK, OthersOff, OneProcess,
     DisabledInv, DisabledStaysOff, AppliedInv, AppliedOnce, DisposedInv, NothingAfterDispose
<1> QED
  BY <1>1, <1>2, <1>3, <1>4, <1>5, <1>6, <1>7, <1>8 DEF Next

\* The inductive invariant of one server's connection: only the entry's client
\* initializes or owns a process, the client of a disabled server is fresh, a
\* call that may still be sent has not been run, and after a dispose() without
\* calls in flight there never is one.
THEOREM Invariance == Spec => []IInv
<1> QED
  BY InitIInv, NextStep, PTL DEF Spec

\* Every variable keeps its type; the reconnects that failing calls start stay
\* within maxReconnectAttempts.
THEOREM TypeCorrect == Spec => []TypeOK
<1>1. IInv => TypeOK
  BY DEF IInv
<1> QED
  BY <1>1, Invariance, PTL

\* disable() wins over every handshake, answer, refresh and tools/list_changed
\* that was under way: nothing connects, lists, initializes or spawns until the
\* server is enabled.
THEOREM StaysOff == Spec => []DisabledStaysOff
<1>1. IInv => DisabledStaysOff
  BY DEF IInv, DisabledInv
<1> QED
  BY <1>1, Invariance, PTL

\* However initialize() is superseded, aborted and started again, at most one
\* subprocess runs, the one of the entry's client.
THEOREM SingleProcess == Spec => []OneProcess
<1>1. IInv => OneProcess
  BY DEF IInv
<1> QED
  BY <1>1, Invariance, PTL

\* callTool never makes the server run a call twice, through any sequence of 401s,
\* time-outs, deaths of the process and re-initializations.
THEOREM RunsOnce == Spec => []AppliedOnce
<1>1. IInv => AppliedOnce
  BY DEF IInv, AppliedInv
<1> QED
  BY <1>1, Invariance, PTL

\* After dispose() nothing spawns or connects, unless a call was in flight.
THEOREM DisposedIsQuiet == Spec => []NothingAfterDispose
<1>1. IInv => NothingAfterDispose
  BY DEF IInv, DisposedInv
<1> QED
  BY <1>1, Invariance, PTL
=============================================================================
