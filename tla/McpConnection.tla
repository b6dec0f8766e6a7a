---------------------------- MODULE McpConnection ----------------------------
(* One MCP server as mcp/manager.ts and mcp/client.ts see it, over the stdio *)
(* transport (a subprocess) or, with remote, over HTTP with OAuth.  The user *)
(* connects, disables, enables and disposes at any time; tool calls run      *)
(* concurrently and a call that fails at the transport re-initializes the    *)
(* client.  An initialize() is superseded by the next one: it rejects at     *)
(* once, except while it awaits a token refresh, which no abort reaches.     *)
(*                                                                           *)
(* A step is the code up to the next await; the promise reactions of one     *)
(* rejection run in the same step, but for tool calls, whose catch is a step *)
(* of its own (CallFails).  The catalogue of tools is one tool, listed or    *)
(* not; lastError, notifications to the host, resources and prompts are left *)
(* out, and so is the SSE transport.                                         *)
EXTENDS Naturals, FiniteSets

CONSTANTS Calls,         \* tool calls
          MaxConnects,   \* bound on connects that the user or the boot starts
          MaxClients,    \* bound on McpClient objects (disable makes a new one)
          MaxAttempts    \* maxReconnectAttempts

ASSUME McpAssumption ==
    /\ IsFiniteSet(Calls) /\ \A k \in Calls : k \notin Nat
    /\ MaxConnects \in Nat /\ MaxClients \in Nat \ {0} /\ MaxAttempts \in Nat

VARIABLES
    remote,        \* the server is configured by url: HTTP and OAuth
    present,       \* the entry is in the manager's map: not disposed
    disabled, connected, attempts,
    listed,        \* toolNames holds the tool
    client,        \* entry.client
    init,          \* per client: the initialize() of initializeController
    stuck,         \* per client: who awaits an aborted one that refreshes
    refreshing,    \* per client: refreshInFlight of a forced refresh
    proc,          \* per client: the transport's process, 0 for none
    running,       \* processes that run
    spawned,       \* processes ever started
    call,          \* the tool calls
    applied,       \* how often the server has run each call
    connects,
    shaken,        \* clients that have completed a handshake
    open           \* calls that were in flight at dispose()

entryVars == <<present, disabled, connected, attempts, listed, client>>
initVars == <<init, stuck, refreshing>>
procVars == <<proc, running, spawned>>
ghosts == <<connects, shaken, open>>
vars == <<remote, entryVars, initVars, procVars, call, applied, ghosts>>

Clients == 1..MaxClients
Initiators == Calls \cup 1..MaxConnects
NoInit == [by |-> 0, stage |-> "none", resets |-> FALSE]
Inits == [by : Initiators, resets : BOOLEAN,
          stage : {"auth", "config", "handshake", "reauth", "rehandshake"}]
NoCall == [stage |-> "idle", client |-> 1, proc |-> 0,
           retried |-> FALSE, aborted |-> FALSE]
InFlight == {"sent", "ran", "refreshing", "rejected", "healing"}
Settled == {"done", "failed"}

-----------------------------------------------------------------------------
(* What a rejection reaches *)

\* The awaits of an initialize() that an abort does not end.
Waits(i) == i.stage \in {"auth", "reauth"}
EndsNow(i) == i # NoInit /\ ~Waits(i)

\* The catch around initialize(): a connect of the user takes the tools away,
\* a tool call keeps them and throws the error it began with.
Ended(by, calls) ==
    IF by \in Calls THEN [calls EXCEPT ![by].stage = "failed"] ELSE calls

TakesTools(i) == EndsNow(i) /\ i.by \notin Calls

\* Only the stdio transport rejects its pending requests.
Rejected(c, calls) ==
    [k \in Calls |-> IF /\ ~remote /\ calls[k].client = c
                        /\ calls[k].stage \in {"sent", "ran"}
                     THEN [calls[k] EXCEPT !.stage = "rejected"] ELSE calls[k]]

Interrupted(i, calls) == IF EndsNow(i) THEN Ended(i.by, calls) ELSE calls

StuckNow(c) == IF Waits(init[c]) THEN [stuck EXCEPT ![c] = @ \cup {init[c].by}]
               ELSE stuck

\* transport.dispose()
CloseTransport(c) ==
    /\ proc' = [proc EXCEPT ![c] = 0]
    /\ running' = running \ {proc[c]}
    /\ UNCHANGED spawned

-----------------------------------------------------------------------------
(* Initializing *)

Init ==
    /\ remote \in BOOLEAN
    /\ present = TRUE /\ disabled \in BOOLEAN /\ connected = FALSE
    /\ attempts = 0 /\ listed = FALSE /\ client = 1
    /\ init = [c \in Clients |-> NoInit]
    /\ stuck = [c \in Clients |-> {}]
    /\ refreshing = [c \in Clients |-> FALSE]
    /\ proc = [c \in Clients |-> 0]
    /\ running = {} /\ spawned = 0
    /\ call = [k \in Calls |-> NoCall]
    /\ applied = [k \in Calls |-> 0]
    /\ connects = 0 /\ shaken = {} /\ open = {}

\* Faulty: the call behind a superseded initialize() is not told.
Begin_Silent(by, resets, calls) ==
    /\ \E stage \in {"config"} \cup (IF remote THEN {"auth"} ELSE {}) :
        init' = [init EXCEPT ![client] =
                    [by |-> by, stage |-> stage, resets |-> resets]]
    /\ stuck' = StuckNow(client)
    /\ call' = calls

\* initialize() up to its first await: it supersedes the running one.  An
\* expired token is refreshed first.
Begin(by, resets, calls) ==
    /\ \E stage \in {"config"} \cup (IF remote THEN {"auth"} ELSE {}) :
        init' = [init EXCEPT ![client] =
                    [by |-> by, stage |-> stage, resets |-> resets]]
    /\ stuck' = StuckNow(client)
    /\ call' = Interrupted(init[client], calls)

ByUser(resets) ==
    /\ present /\ connects < MaxConnects
    /\ connects' = connects + 1
    /\ Begin(connects', resets, call)
    /\ connected' = (connected /\ ~TakesTools(init[client]))
    /\ listed' = (listed /\ ~TakesTools(init[client]))
    /\ UNCHANGED <<remote, present, client, refreshing, procVars, applied, shaken, open>>

\* At boot and from /mcp; a disabled server is skipped.
ConnectAll ==
    /\ ~disabled
    /\ ByUser(TRUE)
    /\ UNCHANGED <<disabled, attempts>>

\* The panel's reconnect does nothing for a disabled server; enable clears
\* the flag and reconnects.
Reconnect ==
    /\ ~disabled
    /\ attempts' = 0
    /\ ByUser(FALSE)
    /\ UNCHANGED disabled

Enable ==
    /\ disabled' = FALSE /\ attempts' = 0
    /\ ByUser(FALSE)

\* The refresh of an expired token has settled; it never rejects.
AuthDone(c) ==
    /\ init[c].stage = "auth"
    /\ init' = [init EXCEPT ![c].stage = "config"]
    /\ UNCHANGED <<remote, entryVars, stuck, refreshing, procVars, call, applied, ghosts>>

\* Faulty: the process of the connection before is left running.
ConfigDone_Leaks(c) ==
    /\ init[c].stage = "config"
    /\ init' = [init EXCEPT ![c].stage = "handshake"]
    /\ IF remote THEN UNCHANGED procVars ELSE
        /\ spawned' = spawned + 1
        /\ proc' = [proc EXCEPT ![c] = spawned']
        /\ running' = running \cup {spawned'}
    /\ UNCHANGED <<remote, entryVars, stuck, refreshing, call, applied, ghosts>>

\* The configuration is resolved and transport.start() opens a new session:
\* over stdio it kills the old process, whose pending calls stay pending.
ConfigDone(c) ==
    /\ init[c].stage = "config"
    /\ init' = [init EXCEPT ![c].stage = "handshake"]
    /\ IF remote THEN UNCHANGED procVars ELSE
        /\ spawned' = spawned + 1
        /\ proc' = [proc EXCEPT ![c] = spawned']
        /\ running' = (running \ {proc[c]}) \cup {spawned'}
    /\ UNCHANGED <<remote, entryVars, stuck, refreshing, call, applied, ghosts>>

\* A first 401 forces a refresh, which concurrent 401s share.
HandshakeUnauthorized(c) ==
    /\ remote /\ init[c].stage = "handshake"
    /\ init' = [init EXCEPT ![c].stage = "reauth"]
    /\ refreshing' = [refreshing EXCEPT ![c] = TRUE]
    /\ UNCHANGED <<remote, entryVars, stuck, procVars, call, applied, ghosts>>

HandshakeOk(c) ==
    /\ init[c].stage \in {"handshake", "rehandshake"}
    /\ init' = [init EXCEPT ![c] = NoInit]
    /\ connected' = TRUE /\ listed' = TRUE
    /\ attempts' = IF init[c].resets THEN 0 ELSE attempts
    /\ shaken' = shaken \cup {c}
    /\ call' = Ended(init[c].by, call)
    /\ UNCHANGED <<remote, present, disabled, client, stuck, refreshing,
                   procVars, applied, connects, open>>

\* The part of initialize() and of its caller after an error: a time-out, an
\* error of the server, or the abort of the signal it was called with.
Fails(c, calls) ==
    /\ init' = [init EXCEPT ![c] = NoInit]
    /\ connected' = (connected /\ init[c].by \in Calls)
    /\ listed' = (listed /\ init[c].by \in Calls)
    /\ call' = Rejected(c, Ended(init[c].by, calls))
    /\ CloseTransport(c)

InitFails(c) ==
    /\ init[c] # NoInit
    /\ init[c].stage # "reauth"
    /\ Fails(c, call)
    /\ UNCHANGED <<remote, present, disabled, attempts, client, stuck, refreshing,
                   applied, ghosts>>

\* A superseded initialize() whose refresh has settled sees the abort only
\* now, whatever happened to the connection meanwhile.
StuckRejects(c) == \E by \in stuck[c] :
    /\ stuck' = [stuck EXCEPT ![c] = @ \ {by}]
    /\ connected' = (connected /\ by \in Calls)
    /\ listed' = (listed /\ by \in Calls)
    /\ call' = Ended(by, call)
    /\ UNCHANGED <<remote, present, disabled, attempts, client, init, refreshing,
                   procVars, applied, ghosts>>

\* The shared refresh settles: who waited for it sends again or fails.
RefreshDone(c) == \E ok \in BOOLEAN :
    /\ refreshing[c]
    /\ refreshing' = [refreshing EXCEPT ![c] = FALSE]
    /\ LET calls == [k \in Calls |->
              IF call[k].stage = "refreshing" /\ call[k].client = c
              THEN [call[k] EXCEPT !.stage = IF ok THEN "sent" ELSE "rejected"]
              ELSE call[k]]
       IN  IF init[c].stage = "reauth" /\ ~ok
           THEN Fails(c, calls)
           ELSE /\ init' = IF init[c].stage = "reauth"
                           THEN [init EXCEPT ![c].stage = "rehandshake"] ELSE init
                /\ call' = calls
                /\ UNCHANGED <<connected, listed, procVars>>
    /\ UNCHANGED <<remote, present, disabled, attempts, client, stuck, applied, ghosts>>

\* tools/list_changed: the tools are listed again.
ToolsChanged ==
    /\ present /\ client \in shaken
    /\ remote \/ proc[client] \in running
    /\ listed' = TRUE
    /\ UNCHANGED <<remote, present, disabled, connected, attempts, client, initVars,
                   procVars, call, applied, ghosts>>

-----------------------------------------------------------------------------
(* Switching off *)

\* Faulty: dispose() leaves the running initialize() alone.
CloseClient_KeepsInit(c) ==
    /\ UNCHANGED <<init, stuck>>
    /\ call' = Rejected(c, call)
    /\ CloseTransport(c)

\* McpClient.dispose()
CloseClient(c) ==
    /\ init' = [init EXCEPT ![c] = NoInit]
    /\ stuck' = StuckNow(c)
    /\ call' = Rejected(c, Interrupted(init[c], call))
    /\ CloseTransport(c)

Disable ==
    /\ present /\ client < MaxClients
    /\ disabled' = TRUE /\ connected' = FALSE /\ attempts' = 0 /\ listed' = FALSE
    /\ CloseClient(client)
    /\ client' = client + 1
    /\ UNCHANGED <<remote, present, refreshing, applied, ghosts>>

\* McpManager.dispose(), at session_shutdown.
Dispose ==
    /\ present
    /\ present' = FALSE
    /\ CloseClient(client)
    /\ open' = {k \in Calls : call[k].stage \in InFlight}
    /\ UNCHANGED <<remote, disabled, connected, attempts, listed, client, refreshing,
                   applied, connects, shaken>>

-----------------------------------------------------------------------------
(* Tool calls *)

\* A call to a tool that is not listed, or over stdio to a process that is
\* gone, fails without being sent.
CallStarts(k) ==
    /\ call[k].stage = "idle"
    /\ \E stage \in Settled \cup InFlight :
        /\ stage = IF ~present \/ ~listed THEN "failed"
                   ELSE IF remote \/ proc[client] \in running THEN "sent"
                   ELSE "rejected"
        /\ call' = [call EXCEPT ![k] = [NoCall EXCEPT
                        !.stage = stage, !.client = client, !.proc = proc[client]]]
    /\ UNCHANGED <<remote, entryVars, initVars, procVars, applied, ghosts>>

ServerRuns(k) ==
    /\ call[k].stage = "sent"
    /\ remote \/ call[k].proc \in running
    /\ applied' = [applied EXCEPT ![k] = @ + 1]
    /\ call' = [call EXCEPT ![k].stage = "ran"]
    /\ UNCHANGED <<remote, entryVars, initVars, procVars, ghosts>>

\* A 401 came from the gate in front of the tool: the call is sent once more
\* after the refresh.
CallUnauthorized(k) ==
    /\ remote /\ call[k].stage = "sent" /\ ~call[k].retried
    /\ call' = [call EXCEPT ![k].stage = "refreshing", ![k].retried = TRUE]
    /\ refreshing' = [refreshing EXCEPT ![call[k].client] = TRUE]
    /\ UNCHANGED <<remote, entryVars, init, stuck, procVars, applied, ghosts>>

\* Faulty: the answer of a server that was disabled meanwhile counts.
CallAnswered_Resurrects(k) ==
    /\ call[k].stage = "ran"
    /\ remote \/ call[k].proc \in running
    /\ call' = [call EXCEPT ![k].stage = "done"]
    /\ connected' = TRUE /\ attempts' = 0
    /\ UNCHANGED <<remote, present, disabled, listed, client, initVars, procVars,
                   applied, ghosts>>

\* The answer proves the server healthy unless the server is disabled.
CallAnswered(k) ==
    /\ call[k].stage = "ran"
    /\ remote \/ call[k].proc \in running
    /\ call' = [call EXCEPT ![k].stage = "done"]
    /\ connected' = (connected \/ ~disabled)
    /\ attempts' = IF disabled THEN attempts ELSE 0
    /\ UNCHANGED <<remote, present, disabled, listed, client, initVars, procVars,
                   applied, ghosts>>

\* A JSON-RPC error, of a live server.
CallRefused(k) ==
    /\ call[k].stage \in {"sent", "ran"}
    /\ remote \/ call[k].proc \in running
    /\ call' = [call EXCEPT ![k].stage = "failed"]
    /\ UNCHANGED <<remote, entryVars, initVars, procVars, applied, ghosts>>

\* The user aborts the call; a call that awaits the refresh does not hear it,
\* and one that re-initializes has its initialize() aborted (InitFails).
CallAborts(k) ==
    /\ \/ /\ call[k].stage \in {"sent", "ran"}
          /\ call' = [call EXCEPT ![k].stage = "failed"]
       \/ /\ call[k].stage = "refreshing" /\ ~call[k].aborted
          /\ call' = [call EXCEPT ![k].aborted = TRUE]
    /\ UNCHANGED <<remote, entryVars, initVars, procVars, applied, ghosts>>

\* Faulty: after a transport failure the call is sent again.
CallFails_Resends(k) ==
    /\ call[k].stage \in {"sent", "ran", "rejected"}
    /\ connected' = FALSE
    /\ IF ~disabled /\ attempts < MaxAttempts
       THEN /\ attempts' = attempts + 1
            /\ call' = [call EXCEPT ![k].stage = "sent", ![k].client = client,
                                    ![k].proc = proc[client]]
       ELSE /\ call' = [call EXCEPT ![k].stage = "failed"]
            /\ UNCHANGED attempts
    /\ UNCHANGED <<remote, present, disabled, listed, client, initVars, procVars,
                   applied, ghosts>>

\* The catch of callTool: the time-out of a call that is sent, a failure of
\* the network, or what another step has rejected.  The client is initialized
\* for the calls to come; this one is never sent again.
CallFails(k) ==
    /\ call[k].stage \in {"sent", "ran", "rejected"}
    /\ IF call[k].aborted
       THEN /\ call' = [call EXCEPT ![k].stage = "failed"]
            /\ UNCHANGED <<connected, attempts, listed, init, stuck>>
       ELSE /\ connected' = FALSE
            /\ IF ~disabled /\ attempts < MaxAttempts
               THEN /\ attempts' = attempts + 1
                    /\ Begin(k, TRUE, [call EXCEPT ![k].stage = "healing"])
                    /\ listed' = (listed /\ ~TakesTools(init[client]))
               ELSE /\ call' = [call EXCEPT ![k].stage = "failed"]
                    /\ UNCHANGED <<attempts, listed, init, stuck>>
    /\ UNCHANGED <<remote, present, disabled, client, refreshing, procVars, applied, ghosts>>

\* The subprocess dies: every pending request of its transport is rejected,
\* those sent to an earlier process and those of a handshake too.
ProcessExits(c) ==
    /\ proc[c] \in running
    /\ IF init[c].stage = "handshake"
       THEN Fails(c, call)
       ELSE /\ running' = running \ {proc[c]}
            /\ call' = Rejected(c, call)
            /\ UNCHANGED <<connected, listed, init, proc, spawned>>
    /\ UNCHANGED <<remote, present, disabled, attempts, client, stuck, refreshing,
                   applied, ghosts>>

-----------------------------------------------------------------------------
InitStep(c) == AuthDone(c) \/ ConfigDone(c) \/ HandshakeUnauthorized(c)
               \/ HandshakeOk(c) \/ InitFails(c)

Next ==
    \/ ConnectAll \/ Reconnect \/ Enable \/ Disable \/ Dispose \/ ToolsChanged
    \/ \E c \in Clients : InitStep(c) \/ StuckRejects(c) \/ RefreshDone(c) \/ ProcessExits(c)
    \/ \E k \in Calls : \/ CallStarts(k) \/ ServerRuns(k) \/ CallUnauthorized(k)
                        \/ CallAnswered(k) \/ CallRefused(k) \/ CallAborts(k) \/ CallFails(k)

Spec == Init /\ [][Next]_vars

\* Every request, command and refresh has a time-out of its own.
FairSpec ==
    /\ Spec
    /\ \A c \in Clients : /\ WF_vars(InitStep(c))
                          /\ WF_vars(StuckRejects(c))
                          /\ WF_vars(RefreshDone(c))
    /\ \A k \in Calls : WF_vars(CallFails(k))

-----------------------------------------------------------------------------
(* Properties *)

\* Every variable keeps its type; the reconnects of failing calls stay within
\* maxReconnectAttempts.
TypeOK ==
    /\ {remote, present, disabled, connected, listed} \subseteq BOOLEAN
    /\ attempts \in 0..MaxAttempts /\ client \in Clients
    /\ init \in [Clients -> Inits \cup {NoInit}]
    /\ stuck \in [Clients -> SUBSET Initiators]
    /\ refreshing \in [Clients -> BOOLEAN]
    /\ spawned \in Nat /\ proc \in [Clients -> 0..spawned] /\ running \subseteq 1..spawned
    /\ call \in [Calls -> [stage : {"idle"} \cup InFlight \cup Settled, client : Clients,
                           proc : 0..spawned, retried : BOOLEAN, aborted : BOOLEAN]]
    /\ applied \in [Calls -> Nat] /\ connects \in 0..MaxConnects
    /\ shaken \subseteq Clients /\ open \subseteq Calls

\* disable() "tears down the live transport": whatever was in flight, a
\* disabled server is not connected, offers no tool, initializes nothing and
\* runs no process.
DisabledStaysOff ==
    disabled => /\ ~connected /\ ~listed
                /\ \A c \in Clients : init[c] = NoInit
                /\ running = {}

\* start() "always hands the handshake a fresh subprocess": at most one runs,
\* and it is the one of the entry's client.
OneProcess == running \subseteq {proc[client]}

\* callTool: "the call is never re-sent", but for a 401 that did not reach the
\* tool; the server runs no call twice.
AppliedOnce == \A k \in Calls : applied[k] <= 1

\* dispose() leaves nothing that spawns or connects, but for the calls that
\* were in flight then and re-initialize when they fail.
NothingAfterDispose ==
    ~present /\ open = {} => running = {} /\ \A c \in Clients : init[c] = NoInit

\* callTool answers: no call waits for ever for a process that was killed, a
\* superseded initialize() or a shared refresh.
EveryCallSettles == \A k \in Calls :
    (call[k].stage \in InFlight) ~> (call[k].stage \in Settled)
=============================================================================
