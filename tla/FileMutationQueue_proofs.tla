---------------------- MODULE FileMutationQueue_proofs ----------------------
(***************************************************************************)
(* Proofs about FileMutationQueue, for any number of calls and files.      *)
(*                                                                         *)
(* The invariant says what the promise chain of a file amounts to: the     *)
(* links ahead of a link are closed under being ahead, a link at work has  *)
(* nobody unreleased ahead of it, and - as long as no signal has fired -   *)
(* every link that has not released is the map's entry or ahead of it, so  *)
(* that two such links are always ordered.  An abort breaks exactly that   *)
(* last part, which is why exclusion is proved under aborted = {} and the  *)
(* rest without it.                                                        *)
(***************************************************************************)
EXTENDS FileMutationQueue, TLAPS

\* The lock of a link is given back only when its operation is over.
ReleasedIsSettled ==
    \A c \in Calls, f \in Files : <<c, f>> \in released => stage[c][f] = "settled"

\* A call joins the queues of its files in order, each when it works on the last.
JoinsInOrder ==
    \A c \in Calls, f, g \in Files :
        stage[c][g] # "none" /\ f \in FilesOf[c] /\ f < g =>
            stage[c][f] \in {"operating", "settled"}

\* Only links that were joined are in a chain.
ChainEntered ==
    /\ \A f \in Files : tail[f] # NoCall => stage[tail[f]][f] # "none"
    /\ \A c, d \in Calls, f \in Files : d \in ahead[c][f] => stage[d][f] # "none"

\* Being ahead is transitive: currentQueue settles after everything before it.
AheadIsClosed ==
    \A c, d \in Calls, f \in Files : d \in ahead[c][f] => ahead[d][f] \subseteq ahead[c][f]

\* A call works on a file only when everybody ahead has released it.
WorkersHadTurn == \A c \in Calls, f \in Files : AtWork(c, f) => Turn(c, f)

\* A link in the queue: joined and not released.
Queued(c, f) == stage[c][f] # "none" /\ <<c, f>> \notin released

\* Until a signal fires, the map's entry is behind every queued link ...
EntryIsLast ==
    aborted = {} =>
        \A c \in Calls, f \in Files :
            Queued(c, f) =>
                tail[f] \in Calls /\ (c = tail[f] \/ c \in ahead[tail[f]][f])

\* ... and any two queued links of a file are ordered.
QueuedAreOrdered ==
    aborted = {} =>
        \A c, d \in Calls, f \in Files :
            Queued(c, f) /\ Queued(d, f) /\ c # d => c \in ahead[d][f] \/ d \in ahead[c][f]

ChainInv ==
    /\ ReleasedIsSettled
    /\ ChainEntered
    /\ AheadIsClosed
    /\ WorkersHadTurn
    /\ EntriesAreLive
    /\ EntryIsLast
    /\ QueuedAreOrdered

IInv == TypeOK /\ JoinsInOrder /\ ChainInv

----------------------------------------------------------------------------
(* The three things a step can do to the chains                            *)

\* A step that leaves the chains alone and moves links forward preserves the chain
\* invariant, provided a link starts to work only in its turn.
LEMMA ChainKept ==
    ASSUME TypeOK, TypeOK', ChainInv,
           UNCHANGED <<ahead, tail, released>>,
           aborted \subseteq aborted',
           \A c \in Calls, f \in Files :
               /\ stage'[c][f] = "none" <=> stage[c][f] = "none"
               /\ stage[c][f] = "settled" => stage'[c][f] = "settled"
               /\ stage'[c][f] \in {"locked", "operating"} => AtWork(c, f) \/ Turn(c, f)
    PROVE  ChainInv'
<1>1. ReleasedIsSettled'
  BY DEF ChainInv, ReleasedIsSettled
<1>2. ChainEntered'
  BY DEF ChainInv, ChainEntered, TypeOK
<1>3. AheadIsClosed'
  BY DEF ChainInv, AheadIsClosed
<1>4. WorkersHadTurn'
  BY DEF ChainInv, WorkersHadTurn, AtWork, Turn
<1>5. EntriesAreLive'
  BY DEF ChainInv, EntriesAreLive
<1>6. aborted' = {} => aborted = {}
  OBVIOUS
<1>7. EntryIsLast'
  BY <1>6 DEF ChainInv, EntryIsLast, Queued
<1>8. QueuedAreOrdered'
  BY <1>6 DEF ChainInv, QueuedAreOrdered, Queued
<1> QED
  BY <1>1, <1>2, <1>3, <1>4, <1>5, <1>7, <1>8 DEF ChainInv

\* Every link but a's in g neither joins, nor comes back to life, nor starts to work.
OthersKeepOn(a, g) ==
    \A c \in Calls, f \in Files :
        <<c, f>> # <<a, g>> =>
            /\ stage'[c][f] = "none" <=> stage[c][f] = "none"
            /\ stage[c][f] = "settled" => stage'[c][f] = "settled"
            /\ stage'[c][f] \in {"locked", "operating"} => AtWork(c, f)

\* A link that joins behind the map's entry.
LEMMA ChainJoined ==
    ASSUME TypeOK, TypeOK', ChainInv,
           NEW a \in Calls, NEW g \in Files,
           stage[a][g] = "none", stage'[a][g] = "waiting",
           Join(a, g),
           UNCHANGED <<released, aborted>>,
           OthersKeepOn(a, g)
    PROVE  ChainInv'
<1> USE DEF OthersKeepOn
<1> DEFINE t == tail[g]
<1>a. \A c \in Calls, f \in Files : <<c, f>> # <<a, g>> => ahead'[c][f] = ahead[c][f]
  BY DEF Join, TypeOK, Links
<1>b. /\ ahead'[a][g] = IF t = NoCall THEN {} ELSE {t} \cup ahead[t][g]
      /\ tail'[g] = a
      /\ \A f \in Files : f # g => tail'[f] = tail[f]
  BY DEF Join, TypeOK, Links
<1>c. <<a, g>> \notin released
  BY DEF ChainInv, ReleasedIsSettled
<1>d. t # NoCall => t \in Calls /\ stage[t][g] # "none"
  BY DEF ChainInv, ChainEntered, TypeOK
<1>e. \A c \in Calls, f \in Files : a \in ahead[c][f] => f # g
  BY DEF ChainInv, ChainEntered
<1>f. NoCall \notin Calls
  BY CallsAssumption
<1>1. ReleasedIsSettled'
  BY <1>c DEF ChainInv, ReleasedIsSettled
<1>2. ChainEntered'
  <2>1. \A c \in Calls, f \in Files : stage[c][f] # "none" => stage'[c][f] # "none"
    OBVIOUS
  <2>2. ASSUME NEW f \in Files, tail'[f] # NoCall PROVE stage'[tail'[f]][f] # "none"
    <3>1. CASE f = g
      BY <3>1, <1>b
    <3>2. CASE f # g
      <4>1. tail'[f] = tail[f] /\ tail[f] \in Calls
        BY <3>2, <2>2, <1>b DEF TypeOK
      <4>2. stage[tail[f]][f] # "none"
        BY <4>1, <2>2 DEF ChainInv, ChainEntered
      <4> QED
        BY <4>1, <4>2, <2>1
    <3> QED
      BY <3>1, <3>2
  <2>3. \A c, d \in Calls, f \in Files : d \in ahead'[c][f] => stage'[d][f] # "none"
    BY <2>1, <1>a, <1>b, <1>d DEF ChainInv, ChainEntered
  <2> QED
    BY <2>2, <2>3 DEF ChainEntered
<1>3. AheadIsClosed'
  <2> SUFFICES ASSUME NEW c \in Calls, NEW d \in Calls, NEW f \in Files, d \in ahead'[c][f]
               PROVE  ahead'[d][f] \subseteq ahead'[c][f]
    BY DEF AheadIsClosed
  <2>1. CASE <<c, f>> = <<a, g>>
    <3>1. t # NoCall /\ d \in {t} \cup ahead[t][g]
      BY <2>1, <1>b
    <3>2. d # a
      BY <3>1, <1>d, <1>e
    <3>3. ahead[d][g] \subseteq {t} \cup ahead[t][g]
      BY <3>1, <1>d DEF ChainInv, AheadIsClosed
    <3> QED
      BY <2>1, <3>1, <3>2, <3>3, <1>a, <1>b
  <2>2. CASE <<c, f>> # <<a, g>>
    <3>1. d \in ahead[c][f]
      BY <2>2, <1>a
    <3>2. <<d, f>> # <<a, g>>
      BY <3>1, <1>e
    <3> QED
      BY <2>2, <3>1, <3>2, <1>a DEF ChainInv, AheadIsClosed
  <2> QED
    BY <2>1, <2>2
<1>4. WorkersHadTurn'
  BY <1>a DEF ChainInv, WorkersHadTurn, AtWork, Turn
<1>5. EntriesAreLive'
  BY <1>b, <1>c DEF ChainInv, EntriesAreLive
<1>6. \A c \in Calls : aborted = {} /\ Queued(c, g) => t # NoCall /\ c \in {t} \cup ahead[t][g]
  BY <1>f DEF ChainInv, EntryIsLast
<1>7. \A c \in Calls, f \in Files :
        <<c, f>> # <<a, g>> => (Queued(c, f)' <=> Queued(c, f))
  BY DEF Queued
<1>8. EntryIsLast'
  <2> SUFFICES ASSUME aborted = {}, NEW c \in Calls, NEW f \in Files, Queued(c, f)'
               PROVE  tail'[f] \in Calls /\ (c = tail'[f] \/ c \in ahead'[tail'[f]][f])
    BY DEF EntryIsLast
  <2>1. CASE f = g
    BY <2>1, <1>b, <1>6, <1>7
  <2>2. CASE f # g
    BY <2>2, <1>a, <1>b, <1>7 DEF ChainInv, EntryIsLast
  <2> QED
    BY <2>1, <2>2
<1>9. QueuedAreOrdered'
  <2> SUFFICES ASSUME aborted = {}, NEW c \in Calls, NEW d \in Calls, NEW f \in Files,
                      Queued(c, f)' /\ Queued(d, f)' /\ c # d
               PROVE  c \in ahead'[d][f] \/ d \in ahead'[c][f]
    BY DEF QueuedAreOrdered
  <2>1. CASE <<c, f>> = <<a, g>>
    BY <2>1, <1>b, <1>6, <1>7
  <2>2. CASE <<d, f>> = <<a, g>>
    BY <2>2, <1>b, <1>6, <1>7
  <2>3. CASE <<c, f>> # <<a, g>> /\ <<d, f>> # <<a, g>>
    BY <2>3, <1>a, <1>7 DEF ChainInv, QueuedAreOrdered
  <2> QED
    BY <2>1, <2>2, <2>3
<1> QED
  BY <1>1, <1>2, <1>3, <1>4, <1>5, <1>8, <1>9 DEF ChainInv

\* A link that is over and releases: after its turn, or because of an abort.
LEMMA ChainReleased ==
    ASSUME TypeOK, TypeOK', ChainInv,
           NEW a \in Calls, NEW g \in Files,
           stage[a][g] # "none",
           AtWork(a, g) \/ aborted # {},
           stage' = [stage EXCEPT ![a][g] = "settled"],
           Release(a, g),
           UNCHANGED <<ahead, aborted>>
    PROVE  ChainInv'
<1>a. /\ stage'[a][g] = "settled"
      /\ \A c \in Calls, f \in Files : <<c, f>> # <<a, g>> => stage'[c][f] = stage[c][f]
  BY DEF TypeOK, Links
<1>b. /\ tail'[g] = IF tail[g] = a THEN NoCall ELSE tail[g]
      /\ \A f \in Files : f # g => tail'[f] = tail[f]
  BY DEF Release, TypeOK
<1>c. /\ released' = released \cup {<<a, g>>}
      /\ NoCall \notin Calls
  BY CallsAssumption DEF Release
<1>1. ReleasedIsSettled'
  BY <1>a, <1>c DEF ChainInv, ReleasedIsSettled
<1>2. ChainEntered'
  BY <1>a, <1>b, <1>c DEF ChainInv, ChainEntered, TypeOK
<1>3. AheadIsClosed'
  BY DEF ChainInv, AheadIsClosed
<1>4. WorkersHadTurn'
  BY <1>a, <1>c DEF ChainInv, WorkersHadTurn, AtWork, Turn
<1>5. EntriesAreLive'
  BY <1>b, <1>c DEF ChainInv, EntriesAreLive, TypeOK
<1>6. \A c \in Calls, f \in Files : Queued(c, f)' => Queued(c, f) /\ <<c, f>> # <<a, g>>
  BY <1>a, <1>c DEF Queued
<1>7. EntryIsLast'
  <2> SUFFICES ASSUME aborted = {}, NEW c \in Calls, NEW f \in Files, Queued(c, f)'
               PROVE  tail'[f] \in Calls /\ (c = tail'[f] \/ c \in ahead[tail'[f]][f])
    BY DEF EntryIsLast
  <2>1. Queued(c, f) /\ tail[f] \in Calls /\ (c = tail[f] \/ c \in ahead[tail[f]][f])
    BY <1>6 DEF ChainInv, EntryIsLast
  <2>2. ~(f = g /\ tail[g] = a)
    BY <1>6, <2>1 DEF ChainInv, WorkersHadTurn, Turn, Queued
  <2> QED
    BY <2>1, <2>2, <1>b
<1>8. QueuedAreOrdered'
  BY <1>6 DEF ChainInv, QueuedAreOrdered
<1> QED
  BY <1>1, <1>2, <1>3, <1>4, <1>5, <1>7, <1>8 DEF ChainInv

----------------------------------------------------------------------------
(* Inductiveness                                                           *)

\* What the lock order is built from.
LEMMA FollowsIsLater ==
    ASSUME NEW c \in Calls, NEW f \in FilesOf[c], NEW g \in Files, Follows(c, f, g)
    PROVE  /\ g \in FilesOf[c]
           /\ f < g
           /\ \A h \in FilesOf[c] : h < g => h = f \/ h < f
BY DEF Follows, Before

\* Every step keeps the types.
LEMMA TypeStep == TypeOK /\ [Next]_vars => TypeOK'
<1> SUFFICES ASSUME TypeOK, [Next]_vars
             PROVE  TypeOK'
  OBVIOUS
<1> USE DEF TypeOK, Links, Stages
<1>1. CASE UNCHANGED vars
  BY <1>1 DEF vars
<1>2. ASSUME NEW c \in Calls, NEW f \in Files, Start(c, f)
      PROVE  TypeOK'
  BY <1>2 DEF Start, Join, First
<1>3. ASSUME NEW c \in Calls, NEW f \in Files, Lock(c, f)
      PROVE  TypeOK'
  BY <1>3 DEF Lock
<1>4. ASSUME NEW c \in Calls, NEW f \in Files, RejectWaiter(c, f)
      PROVE  TypeOK'
  BY <1>4 DEF RejectWaiter, Release
<1>5. ASSUME NEW c \in Calls, NEW f \in Files, StartFn(c, f)
      PROVE  TypeOK'
  BY <1>5 DEF StartFn
<1>6. ASSUME NEW c \in Calls, NEW f \in Files, LockNext(c, f)
      PROVE  TypeOK'
  <2>1. PICK g \in Files :
            /\ stage' = [stage EXCEPT ![c][f] = "operating", ![c][g] = "waiting"]
            /\ Join(c, g)
    BY <1>6 DEF LockNext
  <2>2. stage' \in [Calls -> [Files -> {"none", "waiting", "locked", "operating", "settled"}]]
    BY <2>1
  <2>3. ahead' \in [Calls -> [Files -> SUBSET Calls]] /\ tail' \in [Files -> Calls \cup {NoCall}]
    BY <2>1 DEF Join
  <2>4. UNCHANGED <<released, answered, working, aborted>>
    BY <1>6 DEF LockNext
  <2> QED
    BY <2>2, <2>3, <2>4
<1>7. ASSUME NEW c \in Calls, NEW f \in Files, TimeOut(c, f)
      PROVE  TypeOK'
  BY <1>7 DEF TimeOut
<1>8. ASSUME NEW c \in Calls, NEW f \in Files, RejectRunning(c, f)
      PROVE  TypeOK'
  BY <1>8 DEF RejectRunning
<1>9. ASSUME NEW c \in Calls, NEW f \in Files, NextSettles(c, f)
      PROVE  TypeOK'
  BY <1>9 DEF NextSettles, Settle, Release
<1>10. ASSUME NEW c \in Calls, NEW f \in Files, FnSettles(c, f)
       PROVE  TypeOK'
  BY <1>10 DEF FnSettles, Settle, Release
<1>11. ASSUME NEW c \in Calls, Abort(c)
       PROVE  TypeOK'
  BY <1>11 DEF Abort
<1> QED
  BY <1>1, <1>2, <1>3, <1>4, <1>5, <1>6, <1>7, <1>8, <1>9, <1>10, <1>11 DEF Next, Link

\* A step of a link that is waiting or at work leaves the order of joins intact.
LEMMA OrderStep ==
    ASSUME TypeOK, TypeOK', JoinsInOrder,
           NEW a \in Calls, NEW g \in Files,
           \/ Lock(a, g) \/ RejectWaiter(a, g) \/ StartFn(a, g)
           \/ NextSettles(a, g) \/ FnSettles(a, g)
    PROVE  JoinsInOrder'
<1>1. \A c \in Calls, f \in Files : <<c, f>> # <<a, g>> => stage'[c][f] = stage[c][f]
  BY DEF Lock, RejectWaiter, StartFn, NextSettles, FnSettles, Settle, TypeOK
<1>2. \/ stage[a][g] \in {"waiting", "locked"} /\ stage'[a][g] # "none"
      \/ stage[a][g] # "none" /\ stage'[a][g] \in {"operating", "settled"}
  BY DEF Lock, RejectWaiter, StartFn, NextSettles, FnSettles, Settle, TypeOK
<1> QED
  BY <1>1, <1>2 DEF JoinsInOrder

\* The invariant holds initially.
LEMMA InitInv == Init => IInv
<1> SUFFICES ASSUME Init
             PROVE  IInv
  OBVIOUS
<1>1. TypeOK
  BY DEF Init, TypeOK, Links, Stages
<1>2. JoinsInOrder
  BY DEF Init, JoinsInOrder
<1>3. ChainInv
  BY DEF Init, ChainInv, ReleasedIsSettled, ChainEntered, AheadIsClosed, WorkersHadTurn,
         EntriesAreLive, EntryIsLast, QueuedAreOrdered, Queued, AtWork
<1> QED
  BY <1>1, <1>2, <1>3 DEF IInv

\* Every step preserves it.
LEMMA NextInv == IInv /\ [Next]_vars => IInv'
<1> SUFFICES ASSUME IInv, [Next]_vars
             PROVE  IInv'
  OBVIOUS
<1> USE DEF IInv
<1>t. TypeOK /\ TypeOK'
  BY TypeStep
<1>1. CASE UNCHANGED vars
  <2>1. JoinsInOrder'
    BY <1>1 DEF vars, JoinsInOrder
  <2>2. ChainInv'
    BY <1>1, <1>t, ChainKept DEF vars, AtWork
  <2> QED
    BY <1>t, <2>1, <2>2
<1>2. ASSUME NEW c \in Calls, NEW f \in Files, Start(c, f)
      PROVE  IInv'
  <2>1. /\ stage'[c][f] = "waiting"
        /\ \A d \in Calls, g \in Files : <<d, g>> # <<c, f>> => stage'[d][g] = stage[d][g]
    BY <1>2, <1>t DEF Start, TypeOK
  <2>2. JoinsInOrder'
    BY <1>2, <2>1 DEF Start, First, Before, JoinsInOrder
  <2>3. ChainInv'
    BY <1>2, <1>t, <2>1, ChainJoined DEF Start, AtWork, OthersKeepOn
  <2> QED
    BY <1>t, <2>2, <2>3
<1>3. ASSUME NEW c \in Calls, NEW f \in Files, Lock(c, f)
      PROVE  IInv'
  <2>1. JoinsInOrder'
    BY <1>3, <1>t, OrderStep
  <2>2. ChainInv'
    BY <1>3, <1>t, ChainKept DEF Lock, AtWork, TypeOK
  <2> QED
    BY <1>t, <2>1, <2>2
<1>4. ASSUME NEW c \in Calls, NEW f \in Files, RejectWaiter(c, f)
      PROVE  IInv'
  <2>1. JoinsInOrder'
    BY <1>4, <1>t, OrderStep
  <2>2. ChainInv'
    BY <1>4, <1>t, ChainReleased DEF RejectWaiter
  <2> QED
    BY <1>t, <2>1, <2>2
<1>5. ASSUME NEW c \in Calls, NEW f \in Files, StartFn(c, f)
      PROVE  IInv'
  <2>1. JoinsInOrder'
    BY <1>5, <1>t, OrderStep
  <2>2. ChainInv'
    BY <1>5, <1>t, ChainKept DEF StartFn, AtWork, TypeOK
  <2> QED
    BY <1>t, <2>1, <2>2
<1>6. ASSUME NEW c \in Calls, NEW f \in Files, LockNext(c, f)
      PROVE  IInv'
  <2> PICK g \in Files : /\ Follows(c, f, g)
                         /\ stage' = [stage EXCEPT ![c][f] = "operating", ![c][g] = "waiting"]
                         /\ Join(c, g)
    BY <1>6 DEF LockNext
  <2>1. stage[c][f] = "locked" /\ UNCHANGED <<released, aborted>>
    BY <1>6 DEF LockNext
  <2>2. f \in FilesOf[c] /\ f # g
    BY CallsAssumption DEF Follows, Before
  <2>3. g \in FilesOf[c] /\ f < g /\ (\A h \in FilesOf[c] : h < g => h = f \/ h < f)
    BY <2>2, FollowsIsLater
  <2>4. /\ stage'[c][f] = "operating" /\ stage'[c][g] = "waiting"
        /\ \A d \in Calls, h \in Files :
               <<d, h>> # <<c, f>> /\ <<d, h>> # <<c, g>> => stage'[d][h] = stage[d][h]
    BY <1>t, <2>2 DEF TypeOK
  <2>5. stage[c][g] = "none"
    BY <2>1, <2>2, <2>3 DEF JoinsInOrder
  <2>6. JoinsInOrder'
    <3> SUFFICES ASSUME NEW d \in Calls, NEW h \in Files, NEW k \in Files,
                        stage'[d][k] # "none", h \in FilesOf[d], h < k
                 PROVE  stage'[d][h] \in {"operating", "settled"}
      BY DEF JoinsInOrder
    <3>1. CASE d = c /\ k = g
      BY <3>1, <2>1, <2>2, <2>3, <2>4 DEF JoinsInOrder
    <3>2. CASE ~(d = c /\ k = g)
      <4>1. stage[d][k] # "none"
        BY <3>2, <2>1, <2>4
      <4>2. stage[d][h] \in {"operating", "settled"}
        BY <4>1 DEF JoinsInOrder
      <4> QED
        BY <4>2, <2>1, <2>4, <2>5
    <3> QED
      BY <3>1, <3>2
  <2>7. OthersKeepOn(c, g)
    BY <2>1, <2>4 DEF OthersKeepOn, AtWork
  <2>8. ChainInv'
    <3>1. TypeOK /\ TypeOK' /\ ChainInv
      BY <1>t
    <3>2. /\ stage[c][g] = "none" /\ stage'[c][g] = "waiting"
          /\ Join(c, g) /\ UNCHANGED <<released, aborted>>
      BY <2>1, <2>4, <2>5
    <3> QED
      BY <3>1, <3>2, <2>7, ChainJoined, Zenon
  <2> QED
    BY <1>t, <2>6, <2>8
<1>7. ASSUME NEW c \in Calls, NEW f \in Files, TimeOut(c, f) \/ RejectRunning(c, f) \/ Abort(c)
      PROVE  IInv'
  <2>1. UNCHANGED <<stage, ahead, tail, released>> /\ aborted \subseteq aborted'
    BY <1>7 DEF TimeOut, RejectRunning, Abort
  <2>2. JoinsInOrder'
    BY <2>1 DEF JoinsInOrder
  <2>3. ChainInv'
    BY <2>1, <1>t, ChainKept DEF AtWork
  <2> QED
    BY <1>t, <2>2, <2>3
<1>8. ASSUME NEW c \in Calls, NEW f \in Files, NextSettles(c, f) \/ FnSettles(c, f)
      PROVE  IInv'
  <2>1. JoinsInOrder'
    BY <1>8, <1>t, OrderStep
  <2>2. ChainInv'
    BY <1>8, <1>t, ChainReleased DEF NextSettles, FnSettles, Settle, AtWork
  <2> QED
    BY <1>t, <2>1, <2>2
<1>9. ASSUME NEW c \in Calls, Abort(c)
      PROVE  IInv'
  BY <1>9, <1>7, CallsAssumption
<1> QED
  BY <1>1, <1>2, <1>3, <1>4, <1>5, <1>6, <1>7, <1>8, <1>9 DEF Next, Link

----------------------------------------------------------------------------
(* Theorems                                                                *)

\* The chain invariant holds in every reachable state.
THEOREM Invariance == Spec => []IInv
BY InitInv, NextInv, PTL DEF Spec

\* Every variable keeps its type.
THEOREM TypeCorrect == Spec => []TypeOK
<1>1. IInv => TypeOK
  BY DEF IInv
<1> QED
  BY <1>1, Invariance, PTL

\* Until a signal fires, two calls are never at work on one file, whatever times
\* out and however the sets of files overlap.
THEOREM Exclusive == Spec => []ExclusiveUntilAbort
<1>1. IInv => ExclusiveUntilAbort
  <2> SUFFICES ASSUME IInv, aborted = {}, NEW f \in Files, NEW c \in Calls, NEW d \in Calls,
                      c # d, AtWork(c, f), AtWork(d, f)
               PROVE  FALSE
    BY DEF ExclusiveUntilAbort
  <2>1. Queued(c, f) /\ Queued(d, f)
    BY DEF IInv, ChainInv, ReleasedIsSettled, Queued, AtWork
  <2>2. c \in ahead[d][f] \/ d \in ahead[c][f]
    BY <2>1 DEF IInv, ChainInv, QueuedAreOrdered
  <2>3. Turn(c, f) /\ Turn(d, f)
    BY DEF IInv, ChainInv, WorkersHadTurn
  <2> QED
    BY <2>1, <2>2, <2>3 DEF Turn, Queued
<1> QED
  BY <1>1, Invariance, PTL

\* Nobody works on a file before everybody it queued behind is through with it,
\* wherever aborts and timeouts strike.
THEOREM InQueueOrder == Spec => []NoOvertaking
<1>1. IInv => NoOvertaking
  <2> SUFFICES ASSUME IInv, NEW c \in Calls, NEW d \in Calls, NEW f \in Files,
                      AtWork(c, f), d \in ahead[c][f],
                      NEW e \in {d} \cup ahead[d][f]
               PROVE  stage[e][f] = "settled"
    BY DEF NoOvertaking
  <2>1. e \in Calls /\ e \in ahead[c][f]
    BY DEF IInv, TypeOK, ChainInv, AheadIsClosed
  <2>2. <<e, f>> \in released
    BY <2>1 DEF IInv, ChainInv, WorkersHadTurn, Turn
  <2> QED
    BY <2>1, <2>2 DEF IInv, ChainInv, ReleasedIsSettled
<1> QED
  BY <1>1, Invariance, PTL

\* The map never keeps an entry whose link has released.
THEOREM EntriesStayLive == Spec => []EntriesAreLive
<1>1. IInv => EntriesAreLive
  BY DEF IInv, ChainInv
<1> QED
  BY <1>1, Invariance, PTL
=============================================================================
