---------------------------- MODULE SessionStore ----------------------------
(* A session as session-manager.ts keeps it: an append-only tree of entries *)
(* in memory and, line by line, in a JSONL file that another process may    *)
(* open after this one was killed.  The first durable entry (a user or an   *)
(* assistant message) writes everything so far synchronously; what follows  *)
(* goes through a queue that one asynchronous drain at a time appends, and  *)
(* agent-session.ts awaits that queue at the end of every prompt.           *)
(*                                                                          *)
(* An append that fails writes nothing (one write() call, bounced before it *)
(* starts; the three attempts of a transient failure are one append here);  *)
(* a crash in the middle of one leaves the lines written so far and, with   *)
(* TornTails, the beginning of the next.  Migration of old versions,        *)
(* sessions without a file, and the fall-back of the atomic rewrite on      *)
(* Windows are left out.                                                    *)
EXTENDS Naturals, FiniteSets, SequencesExt, SubSequences

CONSTANTS MaxId,        \* bound on the entries ever appended
          MaxFaults,    \* bound on failed appends
          MaxCrashes,   \* bound on crashes
          TornTails     \* a crash may leave a line half written

ASSUME StoreAssumption ==
    /\ MaxId \in Nat /\ MaxFaults \in Nat /\ MaxCrashes \in Nat
    /\ TornTails \in BOOLEAN

VARIABLES
    file,       \* the file: does it exist, its lines, does the last end in \n
    up,         \* a process has the session open
    mem,        \* fileEntries
    leaf,       \* leafId, 0 for null
    durable,    \* _hasDurableEntry
    flushed,    \* flushed
    onDisk,     \* _persistedEntryCount
    queue,      \* _writeQueue
    pending,    \* lines in the append of the running drain, 0 if none runs
    flushing,   \* the prompt's final flushWrites() is awaited
    failures,   \* _consecutivePersistFailures
    nextId, faults, crashes,
    saved,      \* ids that a flush which answered without error has covered
    gone        \* ids that a torn line swallowed or that a fork filtered out

fileVars == <<file, faults, crashes>>
memVars == <<mem, leaf, nextId>>
flushVars == <<durable, flushed, onDisk>>
queueVars == <<queue, pending, flushing>>
ghosts == <<saved, gone>>
vars == <<fileVars, up, memVars, flushVars, queueVars, failures, ghosts>>

-----------------------------------------------------------------------------
(* Entries, lines and files *)

Kinds == {"talk", "note", "label"}
Entry(id, parent, kind, target) ==
    [id |-> id, parent |-> parent, kind |-> kind, target |-> target]
Header == Entry(0, 0, "header", 0)
Garbage == Entry(0, 0, "garbage", 0)
Entries == [id : 1..MaxId, parent : 0..MaxId, kind : Kinds, target : 0..MaxId]

IsDurable(e) == e.kind = "talk"

NoFile == [made |-> FALSE, lines |-> <<>>, clean |-> TRUE]
Whole(lines) == [made |-> TRUE, lines |-> lines, clean |-> TRUE]

Ids(lines) == {lines[i].id : i \in DOMAIN lines} \ {0}

\* The lines of an append land in f; the last is whole or cut before its \n.
\* When f itself ends in the middle of a line, the first merges with it.
Written(f, lines, whole) ==
    [made  |-> TRUE,
     lines |-> IF f.clean \/ lines = <<>> THEN f.lines \o lines
               ELSE Front(f.lines) \o <<Garbage>> \o Tail(lines),
     clean |-> IF lines = <<>> THEN f.clean ELSE whole]

\* The entries that this merge makes unreadable.
Swallowed(f, lines) ==
    IF f.clean \/ lines = <<>> THEN {} ELSE {Last(f.lines).id, Head(lines).id} \ {0}

Readable(f) == Only(f.lines, Entries \cup {Header})

\* A file whose first readable line is no header is rejected as a whole.
Load(f) == LET es == Readable(f) IN
    IF es # <<>> /\ es[1] = Header THEN es ELSE <<>>

\* From an entry to the root, or to the first parent that is not there: the
\* least set of ids that holds the entry and the parents of its own.  A parent
\* is appended before its children, so the way back is the order of the file.
HoldsParents(es, ids) ==
    \A e \in Range(es) : e.id \in ids /\ e.parent \in Ids(es) => e.parent \in ids
Above(es, id) ==
    {i \in Ids(es) : \A ids \in SUBSET Ids(es) : id \in ids /\ HoldsParents(es, ids) => i \in ids}
Path(es, id) == Only(es, {e \in Range(es) : e.id \in Above(es, id)})

LeafOf(es) == Last(es).id
-----------------------------------------------------------------------------
(* Opening a session *)

\* setSessionFile of a new SessionManager: a missing file gives a session in
\* memory only, a file without a valid header is replaced by a fresh header.
AdoptMissing ==
    /\ mem' = <<Header>> /\ leaf' = 0
    /\ durable' = FALSE /\ flushed' = FALSE /\ onDisk' = 0
    /\ file' = NoFile

AdoptCorrupt ==
    /\ mem' = <<Header>> /\ leaf' = 0
    /\ durable' = FALSE /\ flushed' = TRUE /\ onDisk' = 1
    /\ file' = Whole(<<Header>>)

AdoptValid(f) ==
    /\ mem' = Load(f) /\ leaf' = LeafOf(Load(f))
    /\ durable' = (\E e \in Range(Load(f)) : IsDurable(e))
    /\ flushed' = TRUE /\ onDisk' = Len(Load(f))
    /\ file' = f

Adopt(f) ==
    /\ \/ ~f.made /\ AdoptMissing
       \/ f.made /\ Load(f) = <<>> /\ AdoptCorrupt
       \/ f.made /\ Load(f) # <<>> /\ AdoptValid(f)
    /\ queue' = <<>> /\ pending' = 0 /\ flushing' = FALSE
    /\ failures' = 0

Init ==
    /\ file = NoFile /\ up = TRUE
    /\ mem = <<Header>> /\ leaf = 0
    /\ durable = FALSE /\ flushed = FALSE /\ onDisk = 0
    /\ queue = <<>> /\ pending = 0 /\ flushing = FALSE
    /\ failures = 0
    /\ nextId = 1 /\ faults = 0 /\ crashes = 0
    /\ saved = {} /\ gone = {}

\* The next process resumes the session.
Open ==
    /\ ~up
    /\ up' = TRUE
    /\ Adopt(file)
    /\ gone' = IF Load(file) = <<>> THEN gone \cup Ids(file.lines) ELSE gone
    /\ UNCHANGED <<nextId, faults, crashes, saved>>

-----------------------------------------------------------------------------
(* Appending *)

\* The entry joins the tree below the leaf and becomes the leaf.
Grow(e) ==
    /\ up /\ nextId <= MaxId
    /\ mem' = Append(mem, e)
    /\ leaf' = e.id
    /\ nextId' = nextId + 1

NewEntries == {Entry(nextId, leaf, kind, 0) : kind \in Kinds \ {"label"}}
    \cup {Entry(nextId, leaf, "label", target) : target \in Ids(mem)}

\* Nothing worth a file yet: the entry waits in memory.
AppendDeferred(e) ==
    /\ Grow(e)
    /\ ~durable /\ ~IsDurable(e)
    /\ flushed' = FALSE
    /\ UNCHANGED <<fileVars, up, durable, onDisk, queueVars, ghosts, failures>>

\* The first durable entry, and the one after a failed initial flush, write
\* every entry that is not on disk yet.
Synchronous(e) == IF durable THEN ~flushed ELSE IsDurable(e)
Unwritten(e) == queue \o SubSeq(Append(mem, e), onDisk + 1, Len(mem) + 1)

AppendFlushed(e) ==
    /\ Grow(e)
    /\ Synchronous(e)
    /\ file' = Written(file, Unwritten(e), TRUE)
    /\ durable' = TRUE /\ flushed' = TRUE
    /\ onDisk' = Len(mem')
    /\ queue' = <<>>
    /\ failures' = 0
    /\ saved' = saved \cup Ids(mem')
    /\ gone' = gone \cup Swallowed(file, Unwritten(e))
    /\ UNCHANGED <<faults, crashes, up, pending, flushing>>

\* Faulty: a failed initial flush is taken for done.
AppendFails_Flushed(e) ==
    /\ Grow(e)
    /\ Synchronous(e)
    /\ faults < MaxFaults
    /\ faults' = faults + 1
    /\ durable' = TRUE /\ flushed' = TRUE
    /\ failures' = failures + 1
    /\ UNCHANGED <<file, crashes, up, onDisk, queueVars, ghosts>>

\* Faulty: the entries of a failed initial flush count as written.
AppendFails_Counted(e) ==
    /\ Grow(e)
    /\ Synchronous(e)
    /\ faults < MaxFaults
    /\ faults' = faults + 1
    /\ durable' = TRUE /\ flushed' = FALSE /\ onDisk' = Len(mem')
    /\ failures' = failures + 1
    /\ UNCHANGED <<file, crashes, up, queueVars, ghosts>>

AppendFails(e) ==
    /\ Grow(e)
    /\ Synchronous(e)
    /\ faults < MaxFaults
    /\ faults' = faults + 1
    /\ durable' = TRUE /\ flushed' = FALSE
    /\ failures' = failures + 1
    /\ UNCHANGED <<file, crashes, up, onDisk, queueVars, ghosts>>

\* Every later entry is queued; the drain starts unless one is running.
AppendQueued(e) ==
    /\ Grow(e)
    /\ durable /\ flushed
    /\ queue' = Append(queue, e)
    /\ pending' = IF pending = 0 THEN Len(queue') ELSE pending
    /\ UNCHANGED <<fileVars, up, flushVars, flushing, ghosts, failures>>

AppendEntry == \E e \in NewEntries :
    AppendDeferred(e) \/ AppendFlushed(e) \/ AppendFails(e) \/ AppendQueued(e)

\* branch() and resetLeaf(): the next entry grows elsewhere.
Branch ==
    /\ up
    /\ leaf' \in (Ids(mem) \cup {0}) \ {leaf}
    /\ UNCHANGED <<fileVars, up, mem, nextId, flushVars, queueVars, failures, ghosts>>

-----------------------------------------------------------------------------
(* Draining and flushing *)

\* A flush that answers without error vouches for what memory holds, except
\* after a failed initial flush, whose entries are not in the queue.
Vouched == IF flushed THEN saved \cup Ids(mem) ELSE saved

\* Faulty: the drain writes one batch and does not look again.
DrainWrites_Once ==
    /\ pending > 0
    /\ file' = Written(file, SubSeq(queue, 1, pending), TRUE)
    /\ gone' = gone \cup Swallowed(file, SubSeq(queue, 1, pending))
    /\ queue' = SubSeq(queue, pending + 1, Len(queue)) /\ pending' = 0
    /\ flushing' = FALSE
    /\ saved' = IF flushing THEN saved \cup (Ids(mem) \ Ids(queue')) ELSE saved
    /\ failures' = 0
    /\ UNCHANGED <<faults, crashes, up, memVars, flushVars>>

\* The append of the running drain settles; the drain takes what was queued
\* meanwhile as its next batch, and ends with an empty queue.
DrainWrites ==
    /\ pending > 0
    /\ LET batch == SubSeq(queue, 1, pending)
           rest  == SubSeq(queue, pending + 1, Len(queue))
       IN  /\ file' = Written(file, batch, TRUE)
           /\ gone' = gone \cup Swallowed(file, batch)
           /\ queue' = rest
           /\ pending' = Len(rest)
           /\ flushing' = (flushing /\ rest # <<>>)
           /\ saved' = IF flushing /\ rest = <<>> THEN Vouched ELSE saved
    /\ failures' = 0
    /\ UNCHANGED <<faults, crashes, up, memVars, flushVars>>

\* A failed append ends the drain, rejects whoever waits for it and leaves
\* the queue for the next append or flush.
DrainFails ==
    /\ pending > 0
    /\ faults < MaxFaults
    /\ faults' = faults + 1
    /\ pending' = 0
    /\ flushing' = FALSE
    /\ failures' = failures + 1
    /\ UNCHANGED <<file, crashes, up, memVars, flushVars, queue, ghosts>>

\* flushWrites() at the end of a prompt: it joins the running drain, starts
\* one for what a failed drain left, or has nothing to wait for.
FlushWaits ==
    /\ up /\ ~flushing
    /\ queue # <<>>
    /\ pending' = IF pending = 0 THEN Len(queue) ELSE pending
    /\ flushing' = TRUE
    /\ UNCHANGED <<fileVars, up, memVars, flushVars, queue, failures, ghosts>>

\* Faulty: the flush does not wait for the running drain.
FlushReturns_Early ==
    /\ up /\ ~flushing
    /\ saved' = Vouched
    /\ UNCHANGED <<fileVars, up, memVars, flushVars, queueVars, failures, gone>>

FlushReturns ==
    /\ up /\ ~flushing
    /\ queue = <<>>
    /\ saved' = Vouched
    /\ UNCHANGED <<fileVars, up, memVars, flushVars, queueVars, failures, gone>>

-----------------------------------------------------------------------------
(* Crashes *)

\* What a killed append of batch may have written of it: k lines and, torn,
\* the next one without its end ("cut") or only without its \n ("bare").
PartsOf(batch) ==
    {[lines |-> SubSeq(batch, 1, k), whole |-> TRUE] : k \in 0..Len(batch)}
    \cup (IF ~TornTails THEN {} ELSE
        UNION {{[lines |-> Append(SubSeq(batch, 1, k - 1), line), whole |-> FALSE] :
                line \in {batch[k], Garbage}} : k \in DOMAIN batch})

\* The process dies; only the file and what it holds of batch remain.
Killed(batch) ==
    /\ crashes < MaxCrashes
    /\ crashes' = crashes + 1
    /\ \E part \in PartsOf(batch) :
        /\ file' = IF batch = <<>> THEN file ELSE Written(file, part.lines, part.whole)
        /\ gone' = gone \cup Swallowed(file, part.lines)
    /\ up' = FALSE
    /\ mem' = <<>> /\ leaf' = 0
    /\ durable' = FALSE /\ flushed' = FALSE /\ onDisk' = 0
    /\ queue' = <<>> /\ pending' = 0 /\ flushing' = FALSE
    /\ failures' = 0
    /\ UNCHANGED <<faults, saved>>

Crash == up /\ Killed(SubSeq(queue, 1, pending)) /\ UNCHANGED nextId

CrashInFlush == \E e \in NewEntries :
    /\ up /\ nextId <= MaxId
    /\ Synchronous(e)
    /\ Killed(Unwritten(e))
    /\ nextId' = nextId + 1

-----------------------------------------------------------------------------
(* Forking *)

\* agent-session-runtime.ts: when the flush has answered, the file is opened
\* anew and createBranchedSession writes the path to the chosen entry, without
\* its label entries and with new ones for the labels that are set, to a file
\* that the next session opens.  A path without a durable entry writes none.
Labelled(es) == {e.target : e \in {l \in Range(es) : l.kind = "label"}}

Relabels(targets, parent) == [i \in 1..Cardinality(targets) |->
    Entry(nextId + i - 1, IF i = 1 THEN parent ELSE nextId + i - 2, "label",
          SetToSeq(targets)[i])]

Forked(es, id) ==
    LET path == Only(Path(es, id), {e \in Range(es) : e.kind # "label"})
    IN  <<Header>> \o path \o
        Relabels(Labelled(es) \cap Ids(path), IF path = <<>> THEN 0 ELSE Last(path).id)

Fork ==
    /\ up /\ ~flushing /\ queue = <<>>
    /\ \E id \in Ids(Load(file)) :
        LET es     == Load(file)
            forked == Forked(es, id)
        IN  /\ nextId' = nextId + Cardinality(Ids(forked) \ Ids(es))
            /\ nextId' <= MaxId + 1
            /\ IF \E e \in Range(forked) : IsDurable(e)
               THEN Adopt(Whole(forked)) /\ saved' = Ids(forked)
               ELSE Adopt(NoFile) /\ saved' = {}
            /\ gone' = gone \cup (Ids(Path(es, id)) \ Ids(forked))
    /\ UNCHANGED <<up, faults, crashes>>

-----------------------------------------------------------------------------
Next == \/ AppendEntry \/ Branch
        \/ DrainWrites \/ DrainFails \/ FlushWaits \/ FlushReturns
        \/ Crash \/ CrashInFlush \/ Open \/ Fork

Spec == Init /\ [][Next]_vars

\* An asynchronous append always settles.
FairSpec == Spec /\ WF_vars(DrainWrites \/ DrainFails)

-----------------------------------------------------------------------------
(* Properties *)

\* Every variable keeps its type; the drain takes lines of the queue.
TypeOK ==
    /\ file.made \in BOOLEAN /\ file.clean \in BOOLEAN
    /\ file.lines \in Seq(Entries \cup {Header, Garbage})
    /\ mem \in Seq(Entries \cup {Header}) /\ leaf \in 0..MaxId
    /\ queue \in Seq(Entries) /\ pending \in 0..Len(queue)
    /\ {up, durable, flushed, flushing} \subseteq BOOLEAN
    /\ onDisk \in Nat /\ failures \in 0..MaxFaults
    /\ nextId \in 1..(MaxId + 1)
    /\ faults \in 0..MaxFaults /\ crashes \in 0..MaxCrashes
    /\ saved \subseteq 1..MaxId /\ gone \subseteq 1..MaxId

\* The header is written once, and nothing comes before it but a torn line.
OneHeader ==
    \A i \in DOMAIN file.lines :
        file.lines[i] = Header => \A j \in 1..(i - 1) : file.lines[j] = Garbage

\* Entries stand in the order in which they were appended, each once.
InOrder(es) ==
    \A i, j \in DOMAIN es : i < j /\ es[i].id # 0 /\ es[j].id # 0 => es[i].id < es[j].id

\* _persist, _drainQueue and setSessionFile: once the initial flush has
\* succeeded, the file followed by the queue is memory, every entry once and in
\* order, whatever failed, crashed or was resumed, but for the lines that merged
\* with one torn by a crash; and there is one header.
WrittenOnceInOrder ==
    /\ OneHeader
    /\ up /\ flushed /\ durable =>
        LET Kept(es) == {e \in Range(es) : e.id \notin gone \cup {0}}
        IN  /\ InOrder(mem) /\ InOrder(file.lines \o queue)
            /\ Kept(file.lines \o queue) = Kept(mem)

\* prompt() awaits flushWrites() so that a kill between turns cannot lose the
\* turn: what an answered flush covered is in the file ever after.
SavedSurvives == saved \ gone \subseteq Ids(Readable(file))

\* A resumed or running session reaches the parent of every entry, so that
\* the context built from its leaf goes back to a root; a torn line and a
\* label that a fork left out are the only ways to lose one.
ParentsKept ==
    \A i \in DOMAIN mem :
        mem[i].parent \in {0} \cup gone \cup Ids(SubSeq(mem, 1, i - 1))

\* _drainQueue loops: what is queued while an append runs is written too,
\* unless an append fails or the process dies.
QueueDrains == (queue # <<>>) ~> (queue = <<>> \/ failures > 0)

\* "Create a new session file containing only the path from root to the
\* specified leaf" (createBranchedSession): a forked session still reaches
\* the root from every entry.
ReachesRoot == \A e \in Range(mem) : e.parent \in {0} \cup Ids(mem)
=============================================================================
