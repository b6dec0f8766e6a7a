------------------------------ MODULE RunSlots ------------------------------
(***************************************************************************)
(* The process-wide slot budget of live subagents                          *)
(* (packages/coding-agent/src/core/coordinator/slots.ts), together with    *)
(* the way spawn.ts and the coordinator extension use it: a run takes one  *)
(* slot, holds it while its Agent's prompt executes, lends it to every     *)
(* nested run its tools start, and takes it back when the last of them has *)
(* settled.                                                                *)
(*                                                                         *)
(* A call is one invocation of withRunSlot (kind "run") or of              *)
(* yieldRunSlotWhile (kind "join", the task tool's op:"join").  A call     *)
(* whose Parent is NoCall runs outside any lease: the main session's own   *)
(* spawns, and detached spawns (withoutLease).  Each step is the code      *)
(* between two awaits.                                                     *)
(***************************************************************************)
EXTENDS Naturals, Sequences, FiniteSets, SequencesExt

CONSTANTS
    Calls,           \* invocations of withRunSlot / yieldRunSlotWhile
    NoCall,          \* no enclosing lease
    Parent,          \* the run in whose turn a call is made
    Ancestors,       \* the runs whose abort signal reaches a call's signal
    Kind,            \* "run" or "join"
    Target,          \* the detached run a join waits for
    MaxConcurrency,  \* PIT_SUBAGENT_MAX_CONCURRENCY
    MaxQueue,        \* PIT_SUBAGENT_MAX_QUEUE
    MaxPrompts       \* bound: prompts one run starts (first attempt and retries)

ASSUME CallsAssumption ==
    /\ IsFiniteSet(Calls)
    /\ NoCall \notin Calls
    /\ Parent \in [Calls -> Calls \cup {NoCall}]
    /\ Kind \in [Calls -> {"run", "join"}]
    /\ Target \in [Calls -> Calls \cup {NoCall}]
    /\ Ancestors \in [Calls -> SUBSET Calls]
    /\ \A c \in Calls : c \notin Ancestors[c]
    /\ \A c \in Calls : Ancestors[c] =
          IF Parent[c] = NoCall THEN {} ELSE {Parent[c]} \cup Ancestors[Parent[c]]
    /\ \A c \in Calls : Parent[c] # NoCall => Kind[Parent[c]] = "run"
    /\ \A c \in Calls : Kind[c] = "join" => Parent[c] # NoCall /\ Target[c] \in Calls

ASSUME BoundsAssumption ==
    /\ MaxConcurrency \in Nat \ {0}
    /\ MaxQueue \in Nat \ {0}
    /\ MaxPrompts \in Nat \ {0}

VARIABLES
    active,    \* slots taken
    waiters,   \* queued acquireOne calls, oldest first
    grants,    \* acquireOne calls that resolved and whose caller has not resumed
    lease,     \* the SlotLease of each run
    chain,     \* each lease's promise chain: operations not yet finished
    awaiting,  \* leases whose chain head (a reacquire) awaits acquireOne
    pc,        \* where each call is
    aborted,   \* calls whose abort signal has fired
    live,      \* runs whose Agent is executing a prompt
    prompts    \* prompts each run has started

vars == <<active, waiters, grants, lease, chain, awaiting, pc, aborted, live, prompts>>

Runs == {c \in Calls : Kind[c] = "run"}

\* An acquireOne call: a run's first slot, or the slot a lease takes back.
Waiter == [who : Calls, why : {"run", "reacquire"}]

Waits(c, w) == [who |-> c, why |-> w]

LeaseOp == [op : {"yield", "reacquire", "close"}, by : Calls]

PC == {"idle", "yielding", "acquire", "queued", "running", "joining",
       "closing", "leaving", "reacquiring", "done"}

NoLease == [held |-> FALSE, closed |-> FALSE, pending |-> 0, suspended |-> 0]

Lease == [held : BOOLEAN, closed : BOOLEAN, pending : Nat, suspended : Nat]

-----------------------------------------------------------------------------
(* Signals.  A run's abort reaches the runs its tools started.  The code    *)
(* fires those listeners in one dispatch; here each listener is a step, and *)
(* a call already counts as cancelled once one of its ancestors is.         *)

Cancelled(c) == ({c} \cup Ancestors[c]) \cap aborted # {}

\* Calls made from inside p's turn that have started and not returned.
Children(p) == {c \in Calls : Parent[c] = p}
Outstanding(p) == {c \in Children(p) : pc[c] \notin {"idle", "done"}}

-----------------------------------------------------------------------------
(* acquireOne and releaseOne.                                               *)

\* Take a slot at once.  (acquireOne, fast path)
TakeSlot(w) ==
    /\ active < MaxConcurrency
    /\ active' = active + 1
    /\ grants' = grants \cup {w}
    /\ UNCHANGED waiters

\* Queue behind the cap.  (acquireOne, slow path)
Enqueue(w) ==
    /\ active >= MaxConcurrency
    /\ waiters' = Append(waiters, w)
    /\ UNCHANGED <<active, grants>>

\* A variant of ReleaseOne (negative test): the wake-up is lost.
ReleaseWithoutWake ==
    /\ active' = IF active > 0 THEN active - 1 ELSE 0
    /\ UNCHANGED <<waiters, grants>>

\* Give a slot back and wake the oldest waiter, which counts itself in.
ReleaseOne ==
    LET left == IF active > 0 THEN active - 1 ELSE 0
    IN IF waiters = <<>>
       THEN /\ active' = left
            /\ UNCHANGED <<waiters, grants>>
       ELSE /\ active' = left + 1
            /\ waiters' = Tail(waiters)
            /\ grants' = grants \cup {Head(waiters)}

\* Release the slot of lease l when it is held and the rest of the code says so.
ReleaseIf(cond) ==
    IF cond THEN ReleaseOne ELSE UNCHANGED <<active, waiters, grants>>

-----------------------------------------------------------------------------
(* withRunSlot / yieldRunSlotWhile, up to the callback.                     *)

Init ==
    /\ active = 0
    /\ waiters = <<>>
    /\ grants = {}
    /\ lease = [c \in Calls |-> NoLease]
    /\ chain = [c \in Calls |-> <<>>]
    /\ awaiting = {}
    /\ pc = [c \in Calls |-> "idle"]
    /\ aborted = {}
    /\ live = {}
    /\ prompts = [c \in Calls |-> 0]

\* A call outside any lease goes straight to acquireOne.
CallDetached(c) ==
    /\ pc[c] = "idle"
    /\ Parent[c] = NoCall
    /\ pc' = [pc EXCEPT ![c] = "acquire"]
    /\ UNCHANGED <<active, waiters, grants, lease, chain, awaiting, aborted, live, prompts>>

\* A variant of CallNested (negative test): the enclosing lease is kept while the child runs.
CallNestedHolding(c) ==
    /\ pc[c] = "idle"
    /\ Parent[c] \in live
    /\ Kind[c] = "join" => pc[Target[c]] # "idle"
    /\ pc' = [pc EXCEPT ![c] = IF Kind[c] = "join" THEN "joining" ELSE "acquire"]
    /\ UNCHANGED <<active, waiters, grants, lease, chain, awaiting, aborted, live, prompts>>

\* A call made from a tool of a live run first yields the enclosing lease.
\* op:"join" only waits for handles that were spawned.
CallNested(c) ==
    /\ pc[c] = "idle"
    /\ Parent[c] \in live
    /\ Kind[c] = "join" => pc[Target[c]] # "idle"
    /\ chain' = [chain EXCEPT ![Parent[c]] = Append(@, [op |-> "yield", by |-> c])]
    /\ pc' = [pc EXCEPT ![c] = "yielding"]
    /\ UNCHANGED <<active, waiters, grants, lease, awaiting, aborted, live, prompts>>

\* acquireOne(signal): rejected, granted at once, rejected by a full queue, or queued.
AcquireRejected(c) ==
    /\ pc[c] = "acquire"
    /\ \/ Cancelled(c)
       \/ active >= MaxConcurrency /\ Len(waiters) >= MaxQueue
    /\ pc' = [pc EXCEPT ![c] = "leaving"]
    /\ UNCHANGED <<active, waiters, grants, lease, chain, awaiting, aborted, live, prompts>>

Acquire(c) ==
    /\ pc[c] = "acquire"
    /\ ~ Cancelled(c)
    /\ \/ TakeSlot(Waits(c, "run"))
       \/ Len(waiters) < MaxQueue /\ Enqueue(Waits(c, "run"))
    /\ pc' = [pc EXCEPT ![c] = "queued"]
    /\ UNCHANGED <<lease, chain, awaiting, aborted, live, prompts>>

\* acquireOne resolved: the lease exists from here on and fn is entered.
EnterRun(c) ==
    /\ pc[c] = "queued"
    /\ Waits(c, "run") \in grants
    /\ grants' = grants \ {Waits(c, "run")}
    /\ lease' = [lease EXCEPT ![c] = [NoLease EXCEPT !.held = TRUE]]
    /\ pc' = [pc EXCEPT ![c] = "running"]
    /\ UNCHANGED <<active, waiters, chain, awaiting, aborted, live, prompts>>

-----------------------------------------------------------------------------
(* The callback: an Agent prompt raced against the run's abort signal.      *)

\* racePrompt: agent.prompt and holdCurrentSlotUntil on its promise.
StartPrompt(c) ==
    /\ pc[c] = "running"
    /\ c \notin live
    /\ ~ Cancelled(c)
    /\ prompts[c] < MaxPrompts
    /\ live' = live \cup {c}
    /\ prompts' = [prompts EXCEPT ![c] = @ + 1]
    /\ lease' = [lease EXCEPT ![c].pending = @ + 1]
    /\ UNCHANGED <<active, waiters, grants, chain, awaiting, pc, aborted>>

\* The prompt's promise settles and finishSettlement runs.  An Agent that was
\* not aborted awaits every tool call, so its nested calls have returned.
PromptSettles(c) ==
    LET left == IF lease[c].pending > 0 THEN lease[c].pending - 1 ELSE 0
        frees == lease[c].closed /\ left = 0 /\ lease[c].held
    IN /\ c \in live
       /\ Cancelled(c) \/ Outstanding(c) = {}
       /\ live' = live \ {c}
       /\ lease' = [lease EXCEPT ![c].pending = left,
                                 ![c].held = @ /\ ~ frees]
       /\ ReleaseIf(frees)
       /\ UNCHANGED <<chain, awaiting, pc, aborted, prompts>>

\* fn returns or throws: the prompt settled, or the abort won the race.
CallbackReturns(c) ==
    /\ pc[c] = "running"
    /\ \/ c \notin live /\ prompts[c] > 0
       \/ Cancelled(c)
    /\ chain' = [chain EXCEPT ![c] = Append(@, [op |-> "close", by |-> c])]
    /\ pc' = [pc EXCEPT ![c] = "closing"]
    /\ UNCHANGED <<active, waiters, grants, lease, awaiting, aborted, live, prompts>>

\* The joined run settled, or the join was cancelled.
JoinReturns(c) ==
    /\ pc[c] = "joining"
    /\ Cancelled(c) \/ pc[Target[c]] = "done"
    /\ pc' = [pc EXCEPT ![c] = "leaving"]
    /\ UNCHANGED <<active, waiters, grants, lease, chain, awaiting, aborted, live, prompts>>

\* finally: reacquire the enclosing lease, if there is one.
Leave(c) ==
    /\ pc[c] = "leaving"
    /\ IF Parent[c] = NoCall
       THEN /\ pc' = [pc EXCEPT ![c] = "done"]
            /\ UNCHANGED chain
       ELSE /\ chain' = [chain EXCEPT ![Parent[c]] = Append(@, [op |-> "reacquire", by |-> c])]
            /\ pc' = [pc EXCEPT ![c] = "reacquiring"]
    /\ UNCHANGED <<active, waiters, grants, lease, awaiting, aborted, live, prompts>>

\* The run's signal fires.  A queued acquireOne leaves the queue and rejects.
Abort(c) ==
    /\ pc[c] \notin {"idle", "done"} \/ c \in live
    /\ c \notin aborted
    /\ aborted' = aborted \cup {c}
    /\ IF Contains(waiters, Waits(c, "run"))
       THEN /\ \E i \in 1..Len(waiters) :
                 /\ waiters[i] = Waits(c, "run")
                 /\ waiters' = RemoveAt(waiters, i)
            /\ pc' = [pc EXCEPT ![c] = "leaving"]
       ELSE UNCHANGED <<waiters, pc>>
    /\ UNCHANGED <<active, grants, lease, chain, awaiting, live, prompts>>

-----------------------------------------------------------------------------
(* The lease's promise chain: operations run one at a time, in order.       *)

AtHead(l, op) ==
    /\ chain[l] # <<>>
    /\ Head(chain[l]).op = op
    /\ l \notin awaiting

Caller(l) == Head(chain[l]).by

YieldSlot(l) ==
    LET frees == ~ lease[l].closed /\ lease[l].held
    IN /\ AtHead(l, "yield")
       /\ lease' = IF lease[l].closed THEN lease
                   ELSE [lease EXCEPT ![l].suspended = @ + 1,
                                      ![l].held = FALSE]
       /\ ReleaseIf(frees)
       /\ chain' = [chain EXCEPT ![l] = Tail(@)]
       /\ pc' = [pc EXCEPT ![Caller(l)] =
                   IF Kind[Caller(l)] = "join" THEN "joining" ELSE "acquire"]
       /\ UNCHANGED <<awaiting, aborted, live, prompts>>

\* reacquire of all but the last descendant, or of a closed lease: only the count moves.
ReacquireDone(l) ==
    LET left == IF lease[l].suspended > 0 THEN lease[l].suspended - 1 ELSE 0
    IN /\ AtHead(l, "reacquire")
       /\ lease[l].closed \/ left > 0 \/ lease[l].held
       /\ lease' = IF lease[l].closed THEN lease
                   ELSE [lease EXCEPT ![l].suspended = left]
       /\ chain' = [chain EXCEPT ![l] = Tail(@)]
       /\ pc' = [pc EXCEPT ![Caller(l)] = "done"]
       /\ UNCHANGED <<active, waiters, grants, awaiting, aborted, live, prompts>>

\* A variant of ReacquireSlot (negative test): the lease is marked held without a slot.
ReacquireUnpaid(l) ==
    /\ AtHead(l, "reacquire")
    /\ ~ lease[l].closed /\ lease[l].suspended <= 1 /\ ~ lease[l].held
    /\ lease' = [lease EXCEPT ![l].suspended = 0, ![l].held = TRUE]
    /\ chain' = [chain EXCEPT ![l] = Tail(@)]
    /\ pc' = [pc EXCEPT ![Caller(l)] = "done"]
    /\ UNCHANGED <<active, waiters, grants, awaiting, aborted, live, prompts>>

\* The last descendant settled: await a slot, past the queue cap if need be.
ReacquireSlot(l) ==
    LET left == IF lease[l].suspended > 0 THEN lease[l].suspended - 1 ELSE 0
    IN /\ AtHead(l, "reacquire")
       /\ ~ lease[l].closed /\ left = 0 /\ ~ lease[l].held
       /\ lease' = [lease EXCEPT ![l].suspended = left]
       /\ TakeSlot(Waits(l, "reacquire")) \/ Enqueue(Waits(l, "reacquire"))
       /\ awaiting' = awaiting \cup {l}
       /\ UNCHANGED <<chain, pc, aborted, live, prompts>>

\* acquireOne resolved inside reacquire: the lease is held again.
ReacquireResumes(l) ==
    /\ l \in awaiting
    /\ Waits(l, "reacquire") \in grants
    /\ grants' = grants \ {Waits(l, "reacquire")}
    /\ awaiting' = awaiting \ {l}
    /\ lease' = [lease EXCEPT ![l].held = TRUE]
    /\ chain' = [chain EXCEPT ![l] = Tail(@)]
    /\ pc' = [pc EXCEPT ![Caller(l)] = "done"]
    /\ UNCHANGED <<active, waiters, aborted, live, prompts>>

\* A variant of Close (negative test): it releases a slot the lease has already yielded.
CloseWithoutHeldCheck(l) ==
    /\ AtHead(l, "close")
    /\ lease' = [lease EXCEPT ![l].closed = TRUE, ![l].held = FALSE]
    /\ ReleaseIf(lease[l].pending = 0)
    /\ chain' = [chain EXCEPT ![l] = Tail(@)]
    /\ pc' = [pc EXCEPT ![l] = "leaving"]
    /\ UNCHANGED <<awaiting, aborted, live, prompts>>

Close(l) ==
    LET frees == lease[l].pending = 0 /\ lease[l].held
    IN /\ AtHead(l, "close")
       /\ lease' = [lease EXCEPT ![l].closed = TRUE,
                                 ![l].held = @ /\ ~ frees]
       /\ ReleaseIf(frees)
       /\ chain' = [chain EXCEPT ![l] = Tail(@)]
       /\ pc' = [pc EXCEPT ![l] = "leaving"]
       /\ UNCHANGED <<awaiting, aborted, live, prompts>>

-----------------------------------------------------------------------------
Step(c) ==
    \/ AcquireRejected(c) \/ Acquire(c) \/ EnterRun(c)
    \/ PromptSettles(c) \/ CallbackReturns(c) \/ JoinReturns(c) \/ Leave(c)
    \/ YieldSlot(c) \/ ReacquireDone(c) \/ ReacquireSlot(c)
    \/ ReacquireResumes(c) \/ Close(c)

\* What the model and the user decide: whether to delegate, retry or cancel.
Choice(c) == CallDetached(c) \/ CallNested(c) \/ StartPrompt(c) \/ Abort(c)

Next == \E c \in Calls : Step(c) \/ Choice(c)

Spec == Init /\ [][Next]_vars

\* Every pending continuation runs, every started prompt settles once it may,
\* and a run that was given its slot prompts its Agent.  Nothing obliges
\* anybody to start a call or to cancel one.
Fairness == \A c \in Calls : WF_vars(Step(c)) /\ WF_vars(StartPrompt(c))

FairSpec == Spec /\ Fairness

-----------------------------------------------------------------------------
(* Properties.                                                              *)

\* Every variable has its type, and the counter stays within the cap.
TypeOK ==
    /\ active \in 0..MaxConcurrency
    /\ waiters \in Seq(Waiter)
    /\ grants \subseteq Waiter
    /\ lease \in [Calls -> Lease]
    /\ chain \in [Calls -> Seq(LeaseOp)]
    /\ awaiting \subseteq Calls
    /\ pc \in [Calls -> PC]
    /\ aborted \subseteq Calls
    /\ live \subseteq Calls
    /\ prompts \in [Calls -> Nat]

\* Who owns a slot: held leases, and the callers of resolved acquires that
\* have not resumed.
Owners == {c \in Calls : lease[c].held \/ \E w \in grants : w.who = c}

\* The counter of slots.ts is exactly the number of owners, whatever the
\* interleaving of yields, reacquires, aborts and closes: no slot is released
\* twice and none leaks.
SlotAccounting == active = Cardinality(Owners)

\* Seen from outside, the budget is a set of at most MaxConcurrency owners
\* that a release, a wake-up and a yield change one slot at a time ("costs
\* exactly ONE slot for as long as its Agent is actually running", slots.ts).
Budget == INSTANCE SlotBudget
    WITH Agents <- Calls, Slots <- MaxConcurrency, owners <- Owners

ImplementsBudget == Budget!Spec

\* Nobody queues while a slot is free: a release always reaches a waiter.
NoIdleSlot == waiters # <<>> => active = MaxConcurrency

\* Every call that began returns: nested runs cannot deadlock the budget.
EveryCallReturns == \A c \in Calls : pc[c] # "idle" ~> pc[c] = "done"

=============================================================================
