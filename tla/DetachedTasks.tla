---------------------------- MODULE DetachedTasks ----------------------------
(* The detached subagents of built-ins/coordinator-extension.ts: task(spawn)  *)
(* starts one under a name and returns, and the parent later joins or cancels *)
(* it by that name, from tool calls that run side by side, or stops all of    *)
(* them with Esc.  The coordinator keeps an entry per name, a tombstone of an *)
(* entry that had to make room, and a reservation that outlives the           *)
(* tombstone; a task that was cancelled goes on until it notices.             *)
(*                                                                            *)
(* A step is the code up to the next await.  A task's own waits are its work  *)
(* (the child agent, which AgentRun and RunSlots model) and, once that is     *)
(* over, the files it writes before it settles.  Left out: resuming and       *)
(* continuing, the teardown of the session, poll and list, which only read,   *)
(* the registry and the stored outputs, and the token budget.                 *)
EXTENDS Naturals, FiniteSets, SequencesExt, SubSequences

CONSTANTS Names,        \* the names the parent spawns under
          MaxTasks,     \* bound on the tasks, numbered as they are spawned
          MaxJoins,     \* bound on the joins, numbered likewise
          MaxPending,   \* PENDING_MAX
          MaxEvicted,   \* EVICTED_PENDING_MAX
          MaxReserved   \* RESERVED_ASYNC_MAX

ASSUME TasksAssumption ==
    {MaxTasks, MaxJoins, MaxPending, MaxEvicted, MaxReserved} \subseteq Nat \ {0}

VARIABLES
    reinject,   \* PIT_ASYNC_REINJECT: results are put into the chat by themselves
    name,       \* the name each task is spawned under
    task,       \* the tasks; the number of one is its generation
    pending,    \* the entries in the order of the map, as tasks
    evicted,    \* the tombstones in the order of the map
    reserved,   \* the reservations in the order of the map, as tasks
    join,       \* the joins
    collected,  \* tasks that a join has acknowledged
    forgotten   \* tasks whose reservation had to make room

maps == <<pending, evicted, reserved, forgotten>>
config == <<reinject, name>>
vars == <<config, task, maps, join, collected>>

Tasks == 1..MaxTasks
Joins == 1..MaxJoins
Statuses == {"running", "done", "error", "cancelled"}

\* stage is where the task's own code is, status what its entry says, outcome
\* what the end of the run has decided that it will say, told what the host was
\* told and delivered whether that was put into the chat; clean says that no
\* task of the name was winding down at the spawn.
NoTask == [stage |-> "new", status |-> "running", outcome |-> "running", told |-> "",
           delivered |-> FALSE, clean |-> FALSE]
NoJoin == [stage |-> "new", entries |-> {}, others |-> {}]

Tombs == [task : Tasks, delivered : BOOLEAN]

NamesOf(ts) == {name[t] : t \in ts}
FirstFew(seq, n) == SubSeq(seq, 1, IF n < Len(seq) THEN n ELSE Len(seq))
LastFew(seq, n) == IF Len(seq) > n THEN SubSeq(seq, Len(seq) - n + 1, Len(seq)) ELSE seq

\* Map.set of each of ts: a key that is there keeps its place.
SetEntries(seq, ts) ==
    [i \in DOMAIN seq |-> IF name[seq[i]] \in NamesOf(Range(ts))
                          THEN CHOOSE t \in Range(ts) : name[t] = name[seq[i]]
                          ELSE seq[i]]
    \o Only(ts, {t \in Tasks : name[t] \notin NamesOf(Range(seq))})
SetEntry(seq, t) == SetEntries(seq, <<t>>)

WithoutName(seq, n) == Only(seq, {t \in Tasks : name[t] # n})

-----------------------------------------------------------------------------
(* Entries, tombstones and reservations *)

\* The reservations that make room, oldest first: never one whose name has an
\* entry or a tombstone.
Unprotected(entries, tombs, rs) ==
    LET held == NamesOf(Range(entries)) \cup {name[tombs[i].task] : i \in DOMAIN tombs}
    IN  Range(FirstFew(Only(rs, {t \in Tasks : name[t] \notin held}),
                       Len(rs) - MaxReserved))

\* prunePending: settled entries that make room, oldest first, leave tombstones.
Pruned(tasks, entries, tombs, rs) ==
    LET settled == Only(entries, {t \in Tasks : tasks[t].status # "running"})
        out == FirstFew(settled, Len(entries) - MaxPending)
        stay == Only(entries, Tasks \ Range(out))
        fresh == [i \in DOMAIN out |-> [task |-> out[i], delivered |-> tasks[out[i]].delivered]]
        others == Only(tombs, {b \in Tombs : name[b.task] \notin NamesOf(Range(out))})
        left == LastFew(others \o fresh, MaxEvicted)
        lost == Unprotected(stay, left, rs)
    IN  /\ pending' = stay
        /\ evicted' = left
        /\ reserved' = Only(rs, Tasks \ lost)
        /\ forgotten' = forgotten \cup lost

\* notifyAsyncComplete tells the host once and marks the name's tombstone.
Told(tasks, ts) ==
    [t \in Tasks |->
        IF t \in ts /\ tasks[t].told = ""
        THEN [tasks[t] EXCEPT !.told = tasks[t].status, !.delivered = reinject]
        ELSE tasks[t]]

Marked(ts) ==
    LET news == NamesOf({t \in ts : task[t].told = ""})
    IN  [i \in DOMAIN evicted |->
            [evicted[i] EXCEPT !.delivered = @ \/ (reinject /\ name[evicted[i].task] \in news)]]

-----------------------------------------------------------------------------
(* Spawning and cancelling *)

Init ==
    /\ reinject \in BOOLEAN
    /\ name \in [Tasks -> Names] /\ name[1] = CHOOSE n \in Names : TRUE
    /\ task = [t \in Tasks |-> NoTask]
    /\ pending = <<>> /\ evicted = <<>> /\ reserved = <<>>
    /\ join = [j \in Joins |-> NoJoin]
    /\ collected = {} /\ forgotten = {}

\* An entry that a spawn may replace: settled, and its result not waiting.
Replaceable(n) ==
    \A t \in Range(pending) :
        name[t] = n => /\ task[t].status # "running"
                       /\ task[t].status = "done" => task[t].delivered

\* A delivered tombstone gives the name back, an undelivered one keeps it.
FreedBy(n) == \E i \in DOMAIN evicted : name[evicted[i].task] = n /\ evicted[i].delivered
KeptBy(n) == \E i \in DOMAIN evicted : name[evicted[i].task] = n /\ ~evicted[i].delivered

WindingDown(n) == \E t \in Tasks : name[t] = n /\ task[t].stage \notin {"new", "over"}

\* The run starts at once and comes back at its first wait; then the entry and
\* the reservation are set, and the name is in use from here on.
Spawn(t) ==
    /\ task[t].stage = "new" /\ \A u \in 1..(t - 1) : task[u].stage # "new"
    /\ Replaceable(name[t]) /\ ~KeptBy(name[t])
    /\ FreedBy(name[t]) \/ name[t] \notin NamesOf(Range(reserved))
    /\ LET tasks == [task EXCEPT ![t].stage = "work", ![t].clean = ~WindingDown(name[t])]
       IN  /\ task' = tasks
           /\ Pruned(tasks, SetEntry(pending, t),
                     Only(evicted, {b \in Tombs : name[b.task] # name[t]}),
                     Append(WithoutName(reserved, name[t]), t))
    /\ UNCHANGED <<config, join, collected>>

\* markPendingCancelled for the running tasks ts: their entries settle at once,
\* the runs go on until they notice.
Cancel(ts) ==
    LET tasks == Told([t \in Tasks |-> IF t \in ts THEN [task[t] EXCEPT !.status = "cancelled"]
                                       ELSE task[t]], ts)
    IN  /\ task' = tasks
        /\ Pruned(tasks, pending, Marked(ts),
                  SetEntries(reserved, Only(pending, ts)))
        /\ UNCHANGED <<config, join, collected>>

RunningTasks == {t \in Range(pending) : task[t].status = "running"}

\* op "cancel" of one handle.
CancelOne == \E t \in RunningTasks : Cancel({t})

\* Esc: all detached tasks at once.  The maps make room once, after the last;
\* in the code after each, with the same entries and tombstones in the end.
AbortAll == RunningTasks # {} /\ Cancel(RunningTasks)

-----------------------------------------------------------------------------
(* The end of a task *)

\* runWithAcceptance returns: what the entry will say is decided here, before
\* the files are written.
RunReturns(t) ==
    /\ task[t].stage = "work"
    /\ \E outcome \in {"done", "error"} :
        task' = [task EXCEPT ![t].stage = "keeping",
                             ![t].outcome = IF task[t].status = "cancelled" THEN "cancelled"
                                            ELSE outcome]
    /\ UNCHANGED <<config, maps, join, collected>>

\* Faulty: the name is given back as soon as the host has been told.
Finish_Told(t, tasks, rs) ==
    LET told == Told([tasks EXCEPT ![t].stage = "over"], {t})
    IN  /\ task' = told
        /\ Pruned(told, pending, Marked({t}),
                  WithoutName(rs, name[t]))

\* The end of the task's own code: prune, notify, and give the name back if the
\* result went into the chat.
Finish(t, tasks, rs) ==
    LET told == Told([tasks EXCEPT ![t].stage = "over"], {t})
    IN  /\ task' = told
        /\ Pruned(told, pending, Marked({t}),
                  IF told[t].delivered THEN WithoutName(rs, name[t]) ELSE rs)

\* The output is stored and its digest in the entry; nothing looks at what has
\* become of the entry meanwhile.
Kept(t) ==
    /\ task[t].stage = "keeping"
    /\ Finish(t, [task EXCEPT ![t].status = task[t].outcome], SetEntry(reserved, t))
    /\ UNCHANGED <<config, join, collected>>

\* The run throws: no slot, an abort, a provider that fails for good.
RunThrows(t) ==
    /\ task[t].stage = "work"
    /\ task' = [task EXCEPT ![t].stage = "failing",
                            ![t].status = IF @ = "cancelled" THEN @ ELSE "error"]
    /\ reserved' = SetEntry(reserved, t)
    /\ UNCHANGED <<config, pending, evicted, forgotten, join, collected>>

\* The partial output is stored and the state to resume from.
Failed(t) ==
    /\ task[t].stage = "failing"
    /\ Finish(t, task, reserved)
    /\ UNCHANGED <<config, join, collected>>

-----------------------------------------------------------------------------
(* Joining *)

Buried == {evicted[i].task : i \in DOMAIN evicted}

\* What a join holds on to while it waits: per name the entry, or else the
\* tombstone, or else the reservation.
Join(j, ns) ==
    LET entries == {t \in Range(pending) : name[t] \in ns}
        tombs == {t \in Buried : name[t] \in ns \ NamesOf(entries)}
        kept == {t \in Range(reserved) : name[t] \in ns \ NamesOf(entries \cup tombs)}
    IN  /\ join[j].stage = "new" /\ \A i \in 1..(j - 1) : join[i].stage # "new"
        /\ NamesOf(entries \cup tombs \cup kept) = ns
        /\ join' = [join EXCEPT ![j] = [stage |-> "waiting", entries |-> entries,
                                        others |-> tombs \cup kept]]
    /\ UNCHANGED <<config, task, maps, collected>>

\* Faulty: the names are given back, whoever has them by now.
Releases_ByName(j, t) == name[t] \in NamesOf(join[j].entries \cup join[j].others)

\* The generations a join acknowledges.
Releases(j, t) == t \in join[j].entries \cup join[j].others

\* All the tasks it waits for are over; others settled long ago.
JoinReturns(j) ==
    /\ join[j].stage = "waiting"
    /\ \A t \in join[j].entries : task[t].stage = "over"
    /\ join' = [join EXCEPT ![j] = [NoJoin EXCEPT !.stage = "over"]]
    /\ pending' = Only(pending, {t \in Tasks : ~Releases(j, t)})
    /\ evicted' = Only(evicted, {b \in Tombs : ~Releases(j, b.task)})
    /\ reserved' = Only(reserved, {t \in Tasks : ~Releases(j, t)})
    /\ collected' = collected \cup join[j].entries \cup join[j].others
    /\ UNCHANGED <<config, task, forgotten>>

\* The signal of the join's tool call.
JoinAborts(j) ==
    /\ join[j].stage = "waiting" /\ join[j].entries # {}
    /\ join' = [join EXCEPT ![j] = [NoJoin EXCEPT !.stage = "over"]]
    /\ UNCHANGED <<config, task, maps, collected>>

-----------------------------------------------------------------------------
Run(t) == RunReturns(t) \/ RunThrows(t) \/ Kept(t) \/ Failed(t)

Next ==
    \/ \E t \in Tasks : Spawn(t) \/ Run(t)
    \/ CancelOne \/ AbortAll
    \/ \E j \in Joins : JoinReturns(j) \/ JoinAborts(j)
                        \/ \E ns \in SUBSET Names \ {{}} : Join(j, ns)

Spec == Init /\ [][Next]_vars

-----------------------------------------------------------------------------
(* Properties *)

\* Every variable keeps its type; a map has one value per name.
TypeOK ==
    /\ reinject \in BOOLEAN /\ name \in [Tasks -> Names]
    /\ task \in [Tasks -> [stage : {"new", "work", "keeping", "failing", "over"},
                           status : Statuses, outcome : Statuses, told : Statuses \cup {""},
                           delivered : BOOLEAN, clean : BOOLEAN]]
    /\ pending \in Seq(Tasks) /\ reserved \in Seq(Tasks) /\ evicted \in Seq(Tombs)
    /\ \A i, h \in DOMAIN pending : name[pending[i]] = name[pending[h]] => i = h
    /\ \A i, h \in DOMAIN reserved : name[reserved[i]] = name[reserved[h]] => i = h
    /\ \A i, h \in DOMAIN evicted : name[evicted[i].task] = name[evicted[h].task] => i = h
    /\ join \in [Joins -> [stage : {"new", "waiting", "over"}, entries : SUBSET Tasks,
                           others : SUBSET Tasks]]
    /\ collected \subseteq Tasks /\ forgotten \subseteq Tasks

\* A running task keeps its entry, and with it the controller that Esc and
\* cancel abort it by: no spawn, join or prune takes it away ("orphaning the
\* first run's AbortController").
RunningIsCancellable ==
    \A t \in Tasks : task[t].stage # "new" /\ task[t].status = "running" => t \in Range(pending)

\* A settled task whose result was neither put into the chat nor acknowledged
\* by a join is found under its name, if only as a tombstone or a reservation;
\* excepted are a reservation that had to make room and a task spawned while a
\* cancelled one of its name was winding down, whose end rewrites the
\* reservation.
ResultsStayReachable ==
    \A t \in Tasks \ (collected \cup forgotten) :
        task[t].stage = "over" /\ task[t].clean /\ ~task[t].delivered =>
            t \in Range(pending) \cup Buried \cup Range(reserved)

\* A result that a join calls "already delivered to the chat automatically when
\* it finished" was delivered: what was put into the chat was the result, not
\* the notice of a cancel ("it re-injects the result into the chat (returns
\* true), so poll/join won't repeat it").
DeliveredWasTheResult ==
    \A t \in Tasks :
        task[t].stage = "over" /\ task[t].status = "done" /\ task[t].delivered
            => task[t].told = "done"
=============================================================================
