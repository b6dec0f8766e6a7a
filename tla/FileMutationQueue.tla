------------------------- MODULE FileMutationQueue -------------------------
(***************************************************************************)
(* The per-file queue that serialises every file mutation of the built-in  *)
(* and extension tools                                                     *)
(* (packages/coding-agent/src/core/tools/file-mutation-queue.ts).          *)
(*                                                                         *)
(* A call is one invocation of withFileMutationQueues on a set of files,   *)
(* or of withFileMutationQueue when the set is a singleton (an empty list, *)
(* which queues nothing, is left out).  It joins the queue of its first    *)
(* file, and each time it has a file it joins the queue of the next, in    *)
(* key order; when it has the last one its mutation fn starts.  A link is  *)
(* one call's place in one file's queue, that is one activation of         *)
(* withFileMutationQueue: it has a lock to give back (its releaseNext) and *)
(* a promise to settle (its answer), at different times.                   *)
(*                                                                         *)
(* The promise chain of a file is modelled by the calls `ahead' of a link: *)
(* currentQueue is settled once all of them have released.  The map        *)
(* fileMutationQueues is `tail'.  Files are numbered by their key order.   *)
(* A definition X_Y is a faulty variant of X for negative tests.           *)
(***************************************************************************)
EXTENDS Naturals, FiniteSets

CONSTANTS
    Calls,      \* invocations of withFileMutationQueues
    NoCall,     \* no entry in the map
    Files,      \* mutation-queue keys, numbered in lexicographic order
    FilesOf,    \* the keys a call locks
    Abortable,  \* the calls that were given an abort signal
    MayHang     \* the calls whose mutation may never settle

ASSUME CallsAssumption ==
    /\ NoCall \notin Calls
    /\ IsFiniteSet(Files)
    /\ Files \subseteq Nat
    /\ FilesOf \in [Calls -> SUBSET Files]
    /\ \A c \in Calls : FilesOf[c] # {}
    /\ Abortable \subseteq Calls
    /\ MayHang \subseteq Calls

VARIABLES
    stage,     \* where each link is in withFileMutationQueue
    ahead,     \* for each link, the calls its currentQueue waits for
    tail,      \* fileMutationQueues: the last link of each file's chain
    released,  \* links whose releaseNext was called
    answered,  \* links whose promise was settled to the caller
    working,   \* calls whose fn is executing
    aborted    \* calls whose signal was aborted

vars == <<stage, ahead, tail, released, answered, working, aborted>>

Links == Calls \X Files

Stages == {"none", "waiting", "locked", "operating", "settled"}

TypeOK ==
    /\ stage \in [Calls -> [Files -> Stages]]
    /\ ahead \in [Calls -> [Files -> SUBSET Calls]]
    /\ tail \in [Files -> Calls \cup {NoCall}]
    /\ released \subseteq Links
    /\ answered \subseteq Links
    /\ working \subseteq Calls
    /\ aborted \subseteq Abortable

Init ==
    /\ stage = [c \in Calls |-> [f \in Files |-> "none"]]
    /\ ahead = [c \in Calls |-> [f \in Files |-> {}]]
    /\ tail = [f \in Files |-> NoCall]
    /\ released = {}
    /\ answered = {}
    /\ working = {}
    /\ aborted = {}

----------------------------------------------------------------------------
(* Lock order and the chain of a file                                      *)


\* The files call c locks before file f.
Before_AsGiven(c, f) ==
    IF c = CHOOSE d \in Calls :
               \A e \in Calls : Cardinality(FilesOf[e]) <= Cardinality(FilesOf[d])
    THEN {g \in FilesOf[c] : g > f}
    ELSE {g \in FilesOf[c] : g < f}
Before(c, f) == {g \in FilesOf[c] : g < f}

First(c, f) == f \in FilesOf[c] /\ Before(c, f) = {}
Last(c, f)  == f \in FilesOf[c] /\ Before(c, f) \cup {f} = FilesOf[c]
Follows(c, f, g) == g \in FilesOf[c] /\ Before(c, g) = Before(c, f) \cup {f}

\* currentQueue: the links that must release before link <<c, f>> may go on.
Turn(c, f) == \A d \in ahead[c][f] : <<d, f>> \in released

\* The synchronous part of withFileMutationQueue: chain behind the map's entry
\* and become the entry.
Join_Unchained(c, f) ==
    /\ ahead' = [ahead EXCEPT ![c][f] = {tail[f]} \ {NoCall}]
    /\ tail' = [tail EXCEPT ![f] = c]
Join(c, f) ==
    /\ ahead' = [ahead EXCEPT ![c][f] =
                    IF tail[f] = NoCall THEN {} ELSE {tail[f]} \cup ahead[tail[f]][f]]
    /\ tail' = [tail EXCEPT ![f] = c]

\* release: at most once, and the entry goes if it is still this link's.
Release_KeepsEntry(c, f) ==
    /\ released' = released \cup {<<c, f>>}
    /\ UNCHANGED tail
Release(c, f) ==
    /\ released' = released \cup {<<c, f>>}
    /\ tail' = [tail EXCEPT ![f] = IF @ = c THEN NoCall ELSE @]

----------------------------------------------------------------------------
(* One link                                                                *)

\* A tool calls withFileMutationQueues: the first activation runs up to its await.
Start(c, f) ==
    /\ First(c, f)
    /\ stage[c][f] = "none"
    /\ Join(c, f)
    /\ stage' = [stage EXCEPT ![c][f] = "waiting"]
    /\ UNCHANGED <<released, answered, working, aborted>>

\* currentQueue settled and the signal is still quiet: the file is this call's,
\* and the pre-image is captured if the caller asked for one.
Lock(c, f) ==
    /\ stage[c][f] = "waiting"
    /\ c \notin aborted
    /\ Turn(c, f)
    /\ stage' = [stage EXCEPT ![c][f] = "locked"]
    /\ UNCHANGED <<ahead, tail, released, answered, working, aborted>>

\* The signal fires before the operation exists: the call is rejected, and the
\* finally block releases the link at once.
RejectWaiter_InTurn(c, f) ==
    /\ stage[c][f] = "waiting"
    /\ c \in aborted
    /\ Turn(c, f)
    /\ stage' = [stage EXCEPT ![c][f] = "settled"]
    /\ answered' = answered \cup {<<c, f>>}
    /\ Release(c, f)
    /\ UNCHANGED <<ahead, working, aborted>>
RejectWaiter(c, f) ==
    /\ stage[c][f] = "waiting"
    /\ c \in aborted
    /\ stage' = [stage EXCEPT ![c][f] = "settled"]
    /\ answered' = answered \cup {<<c, f>>}
    /\ Release(c, f)
    /\ UNCHANGED <<ahead, working, aborted>>

\* The capture is over: the operation starts.  It is fn for the last file, and
\* the activation for the next file otherwise.
StartFn(c, f) ==
    /\ stage[c][f] = "locked"
    /\ Last(c, f)
    /\ stage' = [stage EXCEPT ![c][f] = "operating"]
    /\ working' = working \cup {c}
    /\ UNCHANGED <<ahead, tail, released, answered, aborted>>

LockNext(c, f) ==
    /\ stage[c][f] = "locked"
    /\ \E g \in Files :
          /\ Follows(c, f, g)
          /\ stage' = [stage EXCEPT ![c][f] = "operating", ![c][g] = "waiting"]
          /\ Join(c, g)
    /\ UNCHANGED <<released, answered, working, aborted>>

\* The operation is still running when its timer or the signal wins the race:
\* the caller is rejected and the lock stays.
TimeOut_Releases(c, f) ==
    /\ stage[c][f] = "operating"
    /\ <<c, f>> \notin answered
    /\ answered' = answered \cup {<<c, f>>}
    /\ Release(c, f)
    /\ UNCHANGED <<stage, ahead, working, aborted>>
TimeOut(c, f) ==
    /\ stage[c][f] = "operating"
    /\ <<c, f>> \notin answered
    /\ answered' = answered \cup {<<c, f>>}
    /\ UNCHANGED <<stage, ahead, tail, released, working, aborted>>

RejectRunning(c, f) ==
    /\ stage[c][f] = "operating"
    /\ c \in aborted
    /\ <<c, f>> \notin answered
    /\ answered' = answered \cup {<<c, f>>}
    /\ UNCHANGED <<stage, ahead, tail, released, working, aborted>>

\* operation.then(release, release), and the answer if it was not given yet.
Settle(c, f) ==
    /\ stage[c][f] = "operating"
    /\ stage' = [stage EXCEPT ![c][f] = "settled"]
    /\ answered' = answered \cup {<<c, f>>}
    /\ Release(c, f)

\* fn returns or throws.
FnSettles(c, f) ==
    /\ c \in working
    /\ Last(c, f)
    /\ working' = working \ {c}
    /\ Settle(c, f)
    /\ UNCHANGED <<ahead, aborted>>

\* The operation of an earlier file is the next file's activation, which settles
\* when it answers.
NextSettles(c, f) ==
    /\ \E g \in Files : Follows(c, f, g) /\ <<c, g>> \in answered
    /\ Settle(c, f)
    /\ UNCHANGED <<ahead, working, aborted>>

----------------------------------------------------------------------------
(* The environment and the specification                                   *)

Called(c)   == \E f \in Files : First(c, f) /\ stage[c][f] # "none"
Answered(c) == \E f \in Files : First(c, f) /\ <<c, f>> \in answered

\* Esc, or a parent's abort: before the call, while it is pending or after it was
\* answered.
Abort(c) ==
    /\ c \in Abortable \ aborted
    /\ aborted' = aborted \cup {c}
    /\ UNCHANGED <<stage, ahead, tail, released, answered, working>>

\* What the event loop takes up by itself once it is possible.
Link(c, f) ==
    \/ Lock(c, f)
    \/ RejectWaiter(c, f)
    \/ StartFn(c, f)
    \/ LockNext(c, f)
    \/ TimeOut(c, f)
    \/ RejectRunning(c, f)
    \/ NextSettles(c, f)

Next ==
    \/ \E c \in Calls, f \in Files : Start(c, f) \/ Link(c, f) \/ FnSettles(c, f)
    \/ \E c \in Calls : Abort(c)

Spec == Init /\ [][Next]_vars

\* Timers fire and promise reactions run, and a mutation settles unless it may
\* hang (writeFile on a dead network mount is why the timer exists).  A call takes
\* finitely many steps, so that fairness to all of them is fairness to each.
Progress ==
    \E c \in Calls, f \in Files :
        Link(c, f) \/ (c \notin MayHang /\ FnSettles(c, f))

FairSpec == Spec /\ WF_vars(Progress)

----------------------------------------------------------------------------
(* Safety                                                                  *)

\* A link that has its file and whose operation has not settled.
AtWork(c, f) == stage[c][f] \in {"locked", "operating"}

\* Until a signal fires, two calls are never at work on one file: pre-image
\* capture, read-modify-write and every file of a multi-file mutation are serial,
\* whatever times out ("Serialize mutation operations targeting the same file").
ExclusiveUntilAbort ==
    aborted = {} =>
        \A f \in Files : \A c, d \in Calls :
            c # d /\ AtWork(c, f) => ~AtWork(d, f)

\* With aborts anywhere, nobody works on a file before everybody it queued behind,
\* directly or through others, is through with it: an aborted waiter in the middle
\* of the chain does not let its successor past the holder.
NoOvertaking ==
    \A c, d \in Calls, f \in Files :
        AtWork(c, f) /\ d \in ahead[c][f] =>
            \A e \in {d} \cup ahead[d][f] : stage[e][f] = "settled"

\* The map holds an entry only for a file somebody still has to release: the
\* process-global map does not grow with the files it has seen.
EntriesAreLive ==
    \A f \in Files : tail[f] # NoCall => <<tail[f], f>> \notin released

----------------------------------------------------------------------------
(* Liveness                                                                *)

\* Esc frees the caller even when a mutation ahead of it, or its own, never
\* settles.
AbortAnswers == \A c \in Calls : (c \in aborted /\ Called(c)) ~> Answered(c)

\* Every place in a queue is given back, unless a mutation that may hang is
\* executing: calls that lock several files in any combination never hold them
\* while they wait for each other in a circle (their callers would time out and
\* never see it), and a timed-out or aborted call never strands those behind it.
QueuesDrain ==
    \A c \in Calls, f \in Files :
        stage[c][f] = "waiting" ~> (<<c, f>> \in released \/ MayHang \cap working # {})

----------------------------------------------------------------------------
(* What the source says and the code does not do                           *)

\* "On timeout the caller rejects, but the queue slot remains held until the
\* underlying mutation settles." (lines 36-37)
LocksHeldWhileWorking ==
    \A c \in working : \A f \in FilesOf[c] : <<c, f>> \notin released
=============================================================================
