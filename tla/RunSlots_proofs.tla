--------------------------- MODULE RunSlots_proofs ---------------------------
(***************************************************************************)
(* Proofs about RunSlots, for every call tree and every cap.               *)
(*                                                                         *)
(* The slot counter of slots.ts is only right if no slot is released by    *)
(* somebody who does not own one and no waiter is woken twice.  The        *)
(* inductive invariant therefore says who may be queued (QueueInv,         *)
(* PendingInv), which leases can be touched (LeaseInv) and what each       *)
(* lease's promise chain holds (ChainInv); SlotAccounting follows.         *)
(***************************************************************************)
EXTENDS RunSlots, FiniteSetTheorems, SequenceTheorems, TLAPS

\* The acquireOne calls that are queued or resolved and not consumed.
Queued == {waiters[i] : i \in 1..Len(waiters)}
Pending == Queued \cup grants

\* A call that has not entered its callback.
Waiting(c) == pc[c] \in {"idle", "yielding", "acquire", "queued"}

\* No acquireOne is queued twice, or queued after it resolved.
QueueInv ==
    /\ \A i, j \in 1..Len(waiters) : waiters[i] = waiters[j] => i = j
    /\ \A i \in 1..Len(waiters) : waiters[i] \notin grants

\* A pending acquireOne has exactly the caller its kind says.
PendingInv ==
    \A w \in Pending : IF w.why = "run" THEN pc[w.who] = "queued"
                                        ELSE w.who \in awaiting

\* A run that has not started owns nothing; a lease being re-taken is not held.
LeaseInv ==
    \A c \in Calls :
        /\ Waiting(c) => ~ lease[c].held /\ c \notin awaiting /\ c \notin live
                         /\ chain[c] = <<>>
        /\ c \in awaiting => ~ lease[c].held /\ chain[c] # <<>>

\* An operation in a chain belongs to the call that is waiting for it.
OpOK(l, o) ==
    /\ o.op = "yield" => pc[o.by] = "yielding" /\ Parent[o.by] = l
    /\ o.op = "reacquire" => pc[o.by] = "reacquiring" /\ Parent[o.by] = l
    /\ o.op = "close" => pc[l] = "closing" /\ o.by = l

ChainOK(l) ==
    /\ \A i \in 1..Len(chain[l]) : OpOK(l, chain[l][i])
    /\ \A i, j \in 1..Len(chain[l]) : chain[l][i].by = chain[l][j].by => i = j

ChainInv == \A l \in Calls : ChainOK(l)

\* A call is made in the turn of a run that has entered its callback.
TreeInv ==
    \A c \in Calls : pc[c] # "idle" /\ Parent[c] # NoCall => ~ Waiting(Parent[c])

IInv ==
    /\ TypeOK
    /\ QueueInv
    /\ PendingInv
    /\ LeaseInv
    /\ ChainInv
    /\ TreeInv
    /\ SlotAccounting

-----------------------------------------------------------------------------
(* Sequences.                                                               *)

LEMMA AppendFacts ==
    ASSUME NEW S, NEW s \in Seq(S), NEW e \in S
    PROVE  /\ Append(s, e) \in Seq(S)
           /\ Append(s, e) # <<>>
           /\ Len(Append(s, e)) = Len(s) + 1
           /\ \A i \in 1..Len(s) : Append(s, e)[i] = s[i]
           /\ Append(s, e)[Len(s) + 1] = e
OBVIOUS

LEMMA TailFacts ==
    ASSUME NEW S, NEW s \in Seq(S), s # <<>>
    PROVE  /\ Head(s) \in S
           /\ Head(s) = s[1]
           /\ Tail(s) \in Seq(S)
           /\ Len(s) \in Nat \ {0}
           /\ Len(Tail(s)) = Len(s) - 1
           /\ \A i \in 1..Len(Tail(s)) : Tail(s)[i] = s[i + 1]
BY HeadTailProperties

LEMMA RemoveAtFacts ==
    ASSUME NEW S, NEW s \in Seq(S), NEW i \in 1..Len(s)
    PROVE  /\ RemoveAt(s, i) \in Seq(S)
           /\ Len(RemoveAt(s, i)) = Len(s) - 1
           /\ \A j \in 1..Len(s) - 1 :
                 RemoveAt(s, i)[j] = IF j < i THEN s[j] ELSE s[j + 1]
<1> DEFINE a == SubSeq(s, 1, i - 1)
           b == SubSeq(s, i + 1, Len(s))
<1>1. Len(s) \in Nat /\ \A k \in 1..Len(s) : s[k] \in S
  OBVIOUS
<1>2. /\ a \in Seq(S)
      /\ Len(a) = i - 1
      /\ \A k \in 1..i - 1 : a[k] = s[k]
  BY <1>1
<1>3. /\ b \in Seq(S)
      /\ Len(b) = Len(s) - i
      /\ \A k \in 1..Len(s) - i : b[k] = s[i + k]
  BY <1>1
<1>4. /\ a \o b \in Seq(S)
      /\ Len(a \o b) = Len(s) - 1
      /\ \A k \in 1..Len(s) - 1 :
            (a \o b)[k] = IF k <= i - 1 THEN a[k] ELSE b[k - (i - 1)]
  <2> HIDE DEF a, b
  <2>1. /\ a \o b \in Seq(S)
        /\ Len(a \o b) = Len(a) + Len(b)
        /\ \A k \in 1..Len(a) + Len(b) :
              (a \o b)[k] = IF k <= Len(a) THEN a[k] ELSE b[k - Len(a)]
    BY <1>2, <1>3, ConcatProperties
  <2>2. Len(a) = i - 1 /\ Len(a) + Len(b) = Len(s) - 1
    BY <1>1, <1>2, <1>3
  <2> QED BY <2>1, <2>2
<1>5. ASSUME NEW j \in 1..Len(s) - 1
      PROVE  (a \o b)[j] = IF j < i THEN s[j] ELSE s[j + 1]
  <2>1. CASE j < i
    <3> HIDE DEF a, b
    <3> QED BY <1>1, <1>2, <1>4, <2>1
  <2>2. CASE ~ (j < i)
    <3>1. j - (i - 1) \in 1..Len(s) - i
      BY <1>1, <2>2
    <3> HIDE DEF a, b
    <3>2. (a \o b)[j] = b[j - (i - 1)] /\ b[j - (i - 1)] = s[i + (j - (i - 1))]
      BY <1>1, <1>3, <1>4, <2>2, <3>1
    <3> QED BY <1>1, <2>2, <3>2
  <2> QED BY <2>1, <2>2
<1> QED BY <1>4, <1>5 DEF RemoveAt

-----------------------------------------------------------------------------
(* What the queue operations do to the pending acquires.                    *)

LEMMA ReleaseQueue ==
    ASSUME TypeOK, QueueInv, ReleaseOne
    PROVE  /\ waiters' \in Seq(Waiter)
           /\ grants' \subseteq Waiter
           /\ QueueInv'
           /\ Pending' = Pending
<1>1. CASE waiters = <<>>
  BY <1>1 DEF TypeOK, QueueInv, ReleaseOne, Pending, Queued
<1>2. CASE waiters # <<>>
  <2>1. /\ waiters' = Tail(waiters)
        /\ grants' = grants \cup {Head(waiters)}
    BY <1>2 DEF ReleaseOne
  <2>2. waiters \in Seq(Waiter) /\ grants \subseteq Waiter
    BY DEF TypeOK
  <2>3. /\ Head(waiters) \in Waiter
        /\ Head(waiters) = waiters[1]
        /\ waiters' \in Seq(Waiter)
        /\ Len(waiters) \in Nat \ {0}
        /\ Len(waiters') = Len(waiters) - 1
        /\ \A i \in 1..Len(waiters') : waiters'[i] = waiters[i + 1]
    BY <1>2, <2>1, <2>2, TailFacts
  <2>4. QueueInv'
    BY <2>1, <2>3 DEF QueueInv
  <2>5. Pending' = Pending
    <3>1. ASSUME NEW w \in Pending' PROVE w \in Pending
      BY <2>1, <2>3, <3>1 DEF Pending, Queued
    <3>2. ASSUME NEW w \in Pending PROVE w \in Pending'
      <4>1. CASE w \in grants
        BY <2>1, <4>1 DEF Pending
      <4>2. CASE w \in Queued
        <5>1. PICK i \in 1..Len(waiters) : w = waiters[i]
          BY <4>2 DEF Queued
        <5>2. CASE i = 1
          BY <2>1, <2>3, <5>1, <5>2 DEF Pending
        <5>3. CASE i # 1
          <6>1. i - 1 \in 1..Len(waiters') /\ waiters'[i - 1] = waiters[i]
            BY <2>3, <5>1, <5>3
          <6> QED BY <5>1, <6>1 DEF Pending, Queued
        <5> QED BY <5>2, <5>3
      <4> QED BY <4>1, <4>2 DEF Pending
    <3> QED BY <3>1, <3>2
  <2> QED BY <2>1, <2>2, <2>3, <2>4, <2>5
<1> QED BY <1>1, <1>2

LEMMA AcquireQueue ==
    ASSUME TypeOK, QueueInv, NEW w \in Waiter, w \notin Pending,
           TakeSlot(w) \/ Enqueue(w)
    PROVE  /\ waiters' \in Seq(Waiter)
           /\ grants' \subseteq Waiter
           /\ QueueInv'
           /\ Pending' = Pending \cup {w}
<1>1. CASE TakeSlot(w)
  BY <1>1 DEF TypeOK, QueueInv, TakeSlot, Pending, Queued
<1>2. CASE Enqueue(w)
  <2>1. /\ waiters' = Append(waiters, w)
        /\ grants' = grants
        /\ waiters \in Seq(Waiter)
        /\ grants \subseteq Waiter
    BY <1>2 DEF Enqueue, TypeOK
  <2>2. /\ waiters' \in Seq(Waiter)
        /\ Len(waiters) \in Nat
        /\ Len(waiters') = Len(waiters) + 1
        /\ \A i \in 1..Len(waiters) : waiters'[i] = waiters[i]
        /\ waiters'[Len(waiters) + 1] = w
    BY <2>1, AppendFacts
  <2>3. \A i \in 1..Len(waiters') :
           i \in 1..Len(waiters) \/ i = Len(waiters) + 1
    BY <2>2
  <2>4. QueueInv'
    BY <2>1, <2>2, <2>3 DEF QueueInv, Pending, Queued
  <2>5. Pending' = Pending \cup {w}
    <3>1. Queued' \subseteq Queued \cup {w}
      BY <2>2, <2>3 DEF Queued
    <3>2. Queued \subseteq Queued'
      BY <2>2 DEF Queued
    <3>3. w \in Queued'
      BY <2>2 DEF Queued
    <3> QED BY <2>1, <3>1, <3>2, <3>3 DEF Pending
  <2> QED BY <2>1, <2>2, <2>4, <2>5
<1> QED BY <1>1, <1>2

LEMMA ResumeQueue ==
    ASSUME TypeOK, QueueInv, NEW w \in grants,
           grants' = grants \ {w}, waiters' = waiters
    PROVE  /\ grants' \subseteq Waiter
           /\ QueueInv'
           /\ Pending' = Pending \ {w}
BY DEF TypeOK, QueueInv, Pending, Queued

LEMMA RemoveQueue ==
    ASSUME TypeOK, QueueInv, NEW i \in 1..Len(waiters),
           waiters' = RemoveAt(waiters, i), grants' = grants
    PROVE  /\ waiters' \in Seq(Waiter)
           /\ QueueInv'
           /\ Pending' = Pending \ {waiters[i]}
<1>1. waiters \in Seq(Waiter) /\ Len(waiters) \in Nat
  BY DEF TypeOK
<1>2. /\ waiters' \in Seq(Waiter)
      /\ Len(waiters') = Len(waiters) - 1
      /\ \A j \in 1..Len(waiters) - 1 :
            waiters'[j] = IF j < i THEN waiters[j] ELSE waiters[j + 1]
  BY <1>1, RemoveAtFacts
<1>3. ASSUME NEW j \in 1..Len(waiters')
      PROVE  \E k \in 1..Len(waiters) :
                k # i /\ waiters'[j] = waiters[k] /\ (j < i <=> k < i)
                /\ k = IF j < i THEN j ELSE j + 1
  BY <1>1, <1>2
<1>4. QueueInv'
  <2>1. ASSUME NEW j \in 1..Len(waiters'), NEW k \in 1..Len(waiters'),
               waiters'[j] = waiters'[k]
        PROVE  j = k
    BY <1>3, <2>1, <1>2, <1>1 DEF QueueInv
  <2>2. ASSUME NEW j \in 1..Len(waiters')
        PROVE  waiters'[j] \notin grants'
    BY <1>3 DEF QueueInv
  <2> QED BY <2>1, <2>2 DEF QueueInv
<1>5. Queued' = Queued \ {waiters[i]}
  <2>1. ASSUME NEW w \in Queued' PROVE w \in Queued \ {waiters[i]}
    <3>1. PICK j \in 1..Len(waiters') : w = waiters'[j]
      BY DEF Queued
    <3>2. PICK k \in 1..Len(waiters) : k # i /\ w = waiters[k]
      BY <1>3, <3>1
    <3> QED BY <3>2 DEF Queued, QueueInv
  <2>2. ASSUME NEW w \in Queued, w # waiters[i] PROVE w \in Queued'
    <3>1. PICK k \in 1..Len(waiters) : w = waiters[k] /\ k # i
      BY <2>2 DEF Queued
    <3>2. CASE k < i
      <4>1. k \in 1..Len(waiters') /\ waiters'[k] = w
        BY <1>1, <1>2, <3>1, <3>2
      <4> QED BY <4>1 DEF Queued
    <3>3. CASE ~ (k < i)
      <4>1. k - 1 \in 1..Len(waiters') /\ waiters'[k - 1] = w
        BY <1>1, <1>2, <3>1, <3>3
      <4> QED BY <4>1 DEF Queued
    <3> QED BY <3>2, <3>3
  <2> QED BY <2>1, <2>2
<1>6. waiters[i] \notin grants
  BY DEF QueueInv
<1> QED BY <1>2, <1>4, <1>5, <1>6 DEF Pending

-----------------------------------------------------------------------------
(* Who owns a slot.                                                         *)

LEMMA OwnersFinite == IsFiniteSet(Owners) /\ Cardinality(Owners) \in Nat
BY CallsAssumption, FS_Subset, FS_CardinalityType DEF Owners

\* The caller of a pending acquireOne holds no lease and has no other grant.
LEMMA PendingOwnsNothing ==
    ASSUME TypeOK, PendingInv, LeaseInv, NEW w \in Pending
    PROVE  /\ w \in Waiter
           /\ ~ lease[w.who].held
           /\ \A v \in grants : v.who = w.who => v = w
<1>1. Pending \subseteq Waiter
  BY DEF TypeOK, Pending, Queued
<1>2. w \in Waiter /\ w.who \in Calls
  BY <1>1 DEF Waiter
<1>3. ~ lease[w.who].held
  BY <1>2 DEF PendingInv, LeaseInv, Waiting
<1>4. ASSUME NEW v \in grants, v.who = w.who PROVE v = w
  <2>1. v \in Pending /\ v \in Waiter
    BY <1>1 DEF Pending
  <2>2. v.why = w.why
    BY <1>2, <1>4, <2>1 DEF PendingInv, LeaseInv, Waiting, Waiter
  <2> QED BY <1>2, <1>4, <2>1, <2>2 DEF Waiter
<1> QED BY <1>2, <1>3, <1>4

LEMMA ReleaseOwners ==
    ASSUME IInv, NEW l \in Calls, lease[l].held, ReleaseOne,
           \A c \in Calls : lease'[c].held = (lease[c].held /\ c # l)
    PROVE  active' \in 0..MaxConcurrency /\ SlotAccounting'
<1>1. /\ l \in Owners
      /\ active = Cardinality(Owners)
      /\ active \in 0..MaxConcurrency
      /\ MaxConcurrency \in Nat
  BY BoundsAssumption DEF IInv, TypeOK, SlotAccounting, Owners
<1>2. \A w \in grants : w.who \in Calls /\ w.who # l
  BY PendingOwnsNothing DEF IInv, Pending, Waiter
<1>3. /\ IsFiniteSet(Owners \ {l})
      /\ Cardinality(Owners \ {l}) = Cardinality(Owners) - 1
  BY <1>1, OwnersFinite, FS_RemoveElement
<1>4. Cardinality(Owners) > 0
  BY <1>1, <1>3, OwnersFinite, FS_CardinalityType
<1>5. CASE waiters = <<>>
  <2>1. active' = active - 1 /\ grants' = grants
    BY <1>1, <1>4, <1>5 DEF ReleaseOne
  <2>2. Owners' = Owners \ {l}
    BY <1>2, <2>1 DEF Owners
  <2> QED BY <1>1, <1>3, <1>4, <2>1, <2>2 DEF SlotAccounting
<1>6. CASE waiters # <<>>
  <2>1. active' = active /\ grants' = grants \cup {Head(waiters)}
    BY <1>1, <1>4, <1>6 DEF ReleaseOne
  <2>2. Head(waiters) \in Pending /\ Head(waiters) \notin grants
    <3>1. Head(waiters) = waiters[1] /\ 1 \in 1..Len(waiters)
      BY <1>6, TailFacts DEF IInv, TypeOK
    <3> QED BY <3>1 DEF IInv, QueueInv, Pending, Queued
  <2> DEFINE h == Head(waiters).who
  <2>3. h \in Calls /\ h \notin Owners
    BY <2>2, PendingOwnsNothing DEF IInv, Waiter, Owners
  <2>4. Owners' = (Owners \ {l}) \cup {h}
    BY <1>2, <2>1, <2>3 DEF Owners
  <2>5. Cardinality(Owners') = Cardinality(Owners)
    <3> DEFINE rest == Owners \ {l}
    <3>1. h \notin rest /\ IsFiniteSet(rest) /\ Cardinality(rest) = Cardinality(Owners) - 1
      BY <1>3, <2>3
    <3>2. Owners' = rest \cup {h}
      BY <2>4
    <3> HIDE DEF rest, h
    <3>3. Cardinality(rest \cup {h}) = Cardinality(rest) + 1
      BY <3>1, FS_AddElement
    <3> QED BY <3>1, <3>2, <3>3, OwnersFinite
  <2> QED BY <1>1, <2>1, <2>5 DEF SlotAccounting
<1> QED BY <1>5, <1>6

LEMMA AcquireOwners ==
    ASSUME IInv, NEW w \in Waiter, TakeSlot(w) \/ Enqueue(w),
           w.who \notin Owners,
           \A c \in Calls : lease'[c].held = lease[c].held
    PROVE  active' \in 0..MaxConcurrency /\ SlotAccounting'
<1>1. /\ active = Cardinality(Owners)
      /\ active \in 0..MaxConcurrency
      /\ MaxConcurrency \in Nat
  BY BoundsAssumption DEF IInv, TypeOK, SlotAccounting
<1>2. CASE TakeSlot(w)
  <2>1. active' = active + 1 /\ active < MaxConcurrency /\ grants' = grants \cup {w}
    BY <1>2 DEF TakeSlot
  <2>2. Owners' = Owners \cup {w.who}
    BY <2>1 DEF Owners, Waiter
  <2>3. Cardinality(Owners') = Cardinality(Owners) + 1
    BY <2>2, OwnersFinite, FS_AddElement
  <2> QED BY <1>1, <2>1, <2>3 DEF SlotAccounting
<1>3. CASE Enqueue(w)
  BY <1>1, <1>3 DEF Enqueue, SlotAccounting, Owners
<1> QED BY <1>2, <1>3

\* A resumed acquire: the slot passes from the grant to the lease.
LEMMA ResumeOwners ==
    ASSUME IInv, NEW w \in grants, grants' = grants \ {w}, active' = active,
           \A c \in Calls : lease'[c].held = (lease[c].held \/ c = w.who)
    PROVE  SlotAccounting'
<1>1. w \in Pending /\ w.who \in Calls
  BY DEF IInv, TypeOK, Pending, Waiter
<1>2. Owners' = Owners
  BY <1>1, PendingOwnsNothing DEF IInv, Owners
<1> QED BY <1>2 DEF IInv, SlotAccounting

LEMMA SameOwners ==
    ASSUME IInv, grants' = grants, active' = active,
           \A c \in Calls : lease'[c].held = lease[c].held
    PROVE  SlotAccounting'
BY DEF IInv, SlotAccounting, Owners

-----------------------------------------------------------------------------
(* What the steps do to the promise chains.                                 *)

\* The states in which a call waits for its operation on a chain.
OnChain == {"yielding", "reacquiring", "closing"}

LEMMA ChainUnchanged ==
    ASSUME TypeOK, ChainInv, NEW c \in Calls, NEW p, pc[c] \notin OnChain,
           pc' = [pc EXCEPT ![c] = p], chain' = chain
    PROVE  ChainInv'
<1>1. \A l \in Calls : \A i \in 1..Len(chain[l]) :
         chain[l][i] \in LeaseOp
  BY DEF TypeOK
<1>2. \A l \in Calls : \A i \in 1..Len(chain[l]) :
         /\ chain[l][i].by \in Calls
         /\ chain[l][i].by # c
         /\ pc[chain[l][i].by] \in OnChain
  BY <1>1 DEF ChainInv, ChainOK, OpOK, LeaseOp, OnChain
<1>3. \A d \in Calls : d # c => pc'[d] = pc[d]
  BY DEF TypeOK
<1>4. \A l \in Calls : pc[l] = "closing" => pc'[l] = "closing"
  BY <1>3 DEF OnChain
<1> QED BY <1>1, <1>2, <1>3, <1>4 DEF ChainInv, ChainOK, OpOK

LEMMA ChainAppended ==
    ASSUME TypeOK, ChainInv, NEW l \in Calls, NEW o \in LeaseOp,
           pc[o.by] \notin OnChain,
           chain' = [chain EXCEPT ![l] = Append(@, o)],
           pc' = [pc EXCEPT ![o.by] = CASE o.op = "yield" -> "yielding"
                                        [] o.op = "reacquire" -> "reacquiring"
                                        [] o.op = "close" -> "closing"],
           o.op = "close" => o.by = l,
           o.op # "close" => Parent[o.by] = l
    PROVE  ChainInv'
<1>1. /\ o.by \in Calls
      /\ o.op \in {"yield", "reacquire", "close"}
      /\ chain \in [Calls -> Seq(LeaseOp)]
      /\ pc \in [Calls -> PC]
  BY DEF TypeOK, LeaseOp
<1>2. \A m \in Calls : \A i \in 1..Len(chain[m]) :
         /\ chain[m][i].by \in Calls
         /\ chain[m][i].by # o.by
         /\ chain[m][i].op \in {"yield", "reacquire", "close"}
         /\ pc[chain[m][i].by] \in OnChain
  <2>1. ASSUME NEW m \in Calls, NEW i \in 1..Len(chain[m])
        PROVE  chain[m][i] \in LeaseOp
    BY <1>1
  <2>2. ASSUME NEW m \in Calls, NEW i \in 1..Len(chain[m])
        PROVE  OpOK(m, chain[m][i])
    BY DEF ChainInv, ChainOK
  <2> QED BY <2>1, <2>2 DEF OpOK, LeaseOp, OnChain
<1>3. \A d \in Calls : d # o.by => pc'[d] = pc[d]
  BY <1>1
<1>4. /\ chain'[l] \in Seq(LeaseOp)
      /\ Len(chain[l]) \in Nat
      /\ Len(chain'[l]) = Len(chain[l]) + 1
      /\ \A i \in 1..Len(chain[l]) : chain'[l][i] = chain[l][i]
      /\ chain'[l][Len(chain[l]) + 1] = o
  BY <1>1, AppendFacts
<1>5. \A m \in Calls : m # l => chain'[m] = chain[m]
  BY <1>1
<1>6. ASSUME NEW m \in Calls, m # l
      PROVE  ChainOK(m)'
  BY <1>1, <1>2, <1>3, <1>5, <1>6 DEF ChainInv, ChainOK, OpOK, OnChain
<1>7. ChainOK(l)'
  <2>1. \A i \in 1..Len(chain'[l]) : i \in 1..Len(chain[l]) \/ i = Len(chain[l]) + 1
    BY <1>4
  <2>2. ASSUME NEW i \in 1..Len(chain'[l])
        PROVE  OpOK(l, chain[l][i])'
    <3>1. CASE i \in 1..Len(chain[l])
      BY <1>1, <1>2, <1>3, <1>4, <3>1 DEF ChainInv, ChainOK, OpOK, OnChain
    <3>2. CASE i = Len(chain[l]) + 1
      BY <1>1, <1>4, <3>2 DEF OpOK
    <3> QED BY <2>1, <3>1, <3>2
  <2>3. ASSUME NEW i \in 1..Len(chain'[l]), NEW j \in 1..Len(chain'[l]),
               chain'[l][i].by = chain'[l][j].by
        PROVE  i = j
    BY <1>2, <1>4, <2>1, <2>3 DEF ChainInv, ChainOK, OpOK
  <2> QED BY <2>2, <2>3 DEF ChainOK
<1> QED BY <1>6, <1>7 DEF ChainInv

LEMMA ChainPopped ==
    ASSUME TypeOK, ChainInv, NEW l \in Calls, NEW p, chain[l] # <<>>,
           chain' = [chain EXCEPT ![l] = Tail(@)],
           pc' = [pc EXCEPT ![Caller(l)] = p]
    PROVE  ChainInv'
<1>1. /\ chain \in [Calls -> Seq(LeaseOp)]
      /\ pc \in [Calls -> PC]
  BY DEF TypeOK
<1>2. /\ Head(chain[l]) \in LeaseOp
      /\ Head(chain[l]) = chain[l][1]
      /\ Len(chain[l]) \in Nat \ {0}
      /\ Len(chain'[l]) = Len(chain[l]) - 1
      /\ \A i \in 1..Len(chain'[l]) : chain'[l][i] = chain[l][i + 1]
  BY <1>1, TailFacts
<1>3. \A m \in Calls : m # l => chain'[m] = chain[m]
  BY <1>1
<1>4. \A d \in Calls : d # Caller(l) => pc'[d] = pc[d]
  BY <1>1
<1>5. \A m \in Calls : \A i \in 1..Len(chain[m]) : chain[m][i] \in LeaseOp
  BY <1>1
<1>6. ASSUME NEW m \in Calls, NEW i \in 1..Len(chain[m]), m # l \/ i # 1
      PROVE  /\ chain[m][i].by \in Calls
             /\ chain[m][i].by # Caller(l)
  BY <1>2, <1>5, <1>6 DEF ChainInv, ChainOK, OpOK, LeaseOp, Caller
<1>7. ASSUME NEW m \in Calls, m # l PROVE ChainOK(m)'
  BY <1>3, <1>4, <1>5, <1>6, <1>7 DEF ChainInv, ChainOK, OpOK, LeaseOp
<1>8. ChainOK(l)'
  <2>1. \A i \in 1..Len(chain'[l]) :
           i + 1 \in 1..Len(chain[l]) /\ i + 1 # 1
    BY <1>2
  <2> QED BY <1>2, <1>4, <1>5, <1>6, <2>1 DEF ChainInv, ChainOK, OpOK, LeaseOp
<1> QED BY <1>7, <1>8 DEF ChainInv

-----------------------------------------------------------------------------
(* The invariant is inductive: one lemma per step of slots.ts.              *)

\* A call is somewhere before, in or after its callback; only these steps
\* move it without touching the queue, the leases or the chains.
LEMMA PlainStep ==
    ASSUME IInv, NEW c \in Calls, NEW p \in PC,
           pc[c] \notin OnChain \cup {"queued"},
           Waiting(c) \/ p \notin {"idle", "yielding", "acquire", "queued"},
           pc[c] # "idle" \/ Parent[c] = NoCall,
           pc' = [pc EXCEPT ![c] = p],
           UNCHANGED <<active, waiters, grants, lease, chain, awaiting, aborted, live, prompts>>
    PROVE  IInv'
<1> USE DEF IInv
<1>1. TypeOK'
  BY DEF TypeOK
<1>2. QueueInv' /\ Pending' = Pending
  BY DEF QueueInv, Pending, Queued
<1>3. PendingInv'
  BY <1>2, PendingOwnsNothing DEF PendingInv, TypeOK, Waiter
<1>4. LeaseInv'
  BY DEF LeaseInv, Waiting, TypeOK
<1>5. ChainInv'
  BY ChainUnchanged
<1>6. SlotAccounting'
  BY SameOwners
<1>7. TreeInv'
  BY CallsAssumption DEF TreeInv, Waiting, TypeOK
<1> QED BY <1>1, <1>2, <1>3, <1>4, <1>5, <1>6, <1>7

LEMMA CallDetachedStep ==
    ASSUME IInv, NEW c \in Calls, CallDetached(c) PROVE IInv'
BY PlainStep DEF CallDetached, PC, OnChain, Waiting

LEMMA AcquireRejectedStep ==
    ASSUME IInv, NEW c \in Calls, AcquireRejected(c) PROVE IInv'
BY PlainStep DEF AcquireRejected, PC, OnChain

LEMMA JoinReturnsStep ==
    ASSUME IInv, NEW c \in Calls, JoinReturns(c) PROVE IInv'
BY PlainStep DEF JoinReturns, PC, OnChain

\* Appending an operation to a lease's chain on behalf of a call.
LEMMA AppendStep ==
    ASSUME IInv, NEW l \in Calls, NEW o \in LeaseOp,
           pc[o.by] \notin OnChain \cup {"queued"},
           ~ Waiting(l),
           o.op = "yield" => Waiting(o.by),
           o.op = "close" => o.by = l,
           o.op # "close" => Parent[o.by] = l,
           chain' = [chain EXCEPT ![l] = Append(@, o)],
           pc' = [pc EXCEPT ![o.by] = CASE o.op = "yield" -> "yielding"
                                        [] o.op = "reacquire" -> "reacquiring"
                                        [] o.op = "close" -> "closing"],
           UNCHANGED <<active, waiters, grants, lease, awaiting, aborted, live, prompts>>
    PROVE  IInv'
<1> USE DEF IInv
<1>1. /\ o.by \in Calls
      /\ o.op \in {"yield", "reacquire", "close"}
      /\ chain \in [Calls -> Seq(LeaseOp)]
      /\ pc \in [Calls -> PC]
  BY DEF TypeOK, LeaseOp
<1>2. chain'[l] \in Seq(LeaseOp) /\ chain'[l] # <<>>
  BY <1>1, AppendFacts
<1>3. \A m \in Calls : m # l => chain'[m] = chain[m]
  BY <1>1
<1>4. /\ o.op = "yield" => pc'[o.by] = "yielding"
      /\ o.op = "reacquire" => pc'[o.by] = "reacquiring"
      /\ o.op = "close" => pc'[o.by] = "closing"
  BY <1>1
<1>5. \A d \in Calls : d # o.by => pc'[d] = pc[d]
  BY <1>1
<1>6. TypeOK'
  <2>1. pc' \in [Calls -> PC]
    BY <1>1, <1>4 DEF PC
  <2>2. chain' \in [Calls -> Seq(LeaseOp)]
    BY <1>1, <1>2
  <2> QED BY <2>1, <2>2 DEF TypeOK
<1>7. QueueInv' /\ Pending' = Pending
  BY DEF QueueInv, Pending, Queued
<1>8. PendingInv'
  BY <1>5, <1>7, PendingOwnsNothing DEF PendingInv, Waiter
<1>9. \A d \in Calls : Waiting(d)' => Waiting(d)
  BY <1>1, <1>4, <1>5 DEF Waiting
<1>10. LeaseInv'
  BY <1>2, <1>3, <1>9 DEF LeaseInv
<1>11. ChainInv'
  BY ChainAppended
<1>12. SlotAccounting'
  BY SameOwners
<1>13. TreeInv'
  <2>1. ASSUME NEW d \in Calls, pc'[d] # "idle", Parent[d] # NoCall
        PROVE  ~ Waiting(Parent[d])
    <3>1. CASE d = o.by /\ o.op # "close"
      BY <3>1
    <3>2. CASE d # o.by \/ o.op = "close"
      BY <1>5, <2>1, <3>2 DEF TreeInv, Waiting
    <3> QED BY <3>1, <3>2
  <2> QED BY <1>9, <2>1, CallsAssumption DEF TreeInv
<1> QED BY <1>6, <1>7, <1>8, <1>10, <1>11, <1>12, <1>13

LEMMA CallNestedStep ==
    ASSUME IInv, NEW c \in Calls, CallNested(c) PROVE IInv'
<1> DEFINE o == [op |-> "yield", by |-> c]
<1>1. Parent[c] \in Calls /\ ~ Waiting(Parent[c])
  BY DEF IInv, TypeOK, LeaseInv, CallNested
<1>2. o \in LeaseOp /\ o.op = "yield" /\ o.by = c
  BY DEF LeaseOp
<1>3. pc[c] \notin OnChain \cup {"queued"} /\ Waiting(c)
  BY DEF CallNested, OnChain, Waiting
<1> QED BY <1>1, <1>2, <1>3, AppendStep DEF CallNested

LEMMA CallbackReturnsStep ==
    ASSUME IInv, NEW c \in Calls, CallbackReturns(c) PROVE IInv'
<1> DEFINE o == [op |-> "close", by |-> c]
<1>1. o \in LeaseOp /\ o.op = "close" /\ o.by = c
  BY DEF LeaseOp
<1>2. pc[c] \notin OnChain \cup {"queued"} /\ ~ Waiting(c)
  BY DEF CallbackReturns, OnChain, Waiting
<1> QED BY <1>1, <1>2, AppendStep DEF CallbackReturns

LEMMA LeaveStep ==
    ASSUME IInv, NEW c \in Calls, Leave(c) PROVE IInv'
<1>1. CASE Parent[c] = NoCall
  BY <1>1, PlainStep DEF Leave, PC, OnChain
<1>2. CASE Parent[c] # NoCall
  <2> DEFINE o == [op |-> "reacquire", by |-> c]
  <2>1. Parent[c] \in Calls /\ ~ Waiting(Parent[c])
    BY <1>2, CallsAssumption DEF IInv, TreeInv, Leave
  <2>2. o \in LeaseOp /\ o.op = "reacquire" /\ o.by = c
    BY DEF LeaseOp
  <2>3. pc[c] \notin OnChain \cup {"queued"}
    BY DEF Leave, OnChain
  <2> QED BY <1>2, <2>1, <2>2, <2>3, AppendStep DEF Leave
<1> QED BY <1>1, <1>2

LEMMA AcquireStep ==
    ASSUME IInv, NEW c \in Calls, Acquire(c) PROVE IInv'
<1> USE DEF IInv
<1> DEFINE w == Waits(c, "run")
<1>1. w \in Waiter /\ w.who = c /\ w.why = "run"
  BY DEF Waits, Waiter
<1>2. TakeSlot(w) \/ Enqueue(w)
  BY DEF Acquire
<1>3. pc[c] = "acquire" /\ pc' = [pc EXCEPT ![c] = "queued"]
  BY DEF Acquire
<1>4. \A d \in Calls : d # c => pc'[d] = pc[d]
  BY DEF Acquire, TypeOK
<1>5. pc'[c] = "queued" /\ pc' \in [Calls -> PC]
  BY <1>3 DEF TypeOK, PC
<1>6. w \notin Pending
  BY <1>1, <1>3 DEF PendingInv
<1>7. c \notin Owners
  <2>1. ~ lease[c].held /\ c \notin awaiting
    BY <1>3 DEF LeaseInv, Waiting
  <2>2. ASSUME NEW v \in grants, v.who = c PROVE FALSE
    BY <1>3, <2>1, <2>2 DEF PendingInv, Pending
  <2> QED BY <2>1, <2>2 DEF Owners
<1> HIDE DEF w
<1>8. /\ waiters' \in Seq(Waiter)
      /\ grants' \subseteq Waiter
      /\ QueueInv'
      /\ Pending' = Pending \cup {w}
  BY <1>1, <1>2, <1>6, AcquireQueue
<1>9. active' \in 0..MaxConcurrency /\ SlotAccounting'
  BY <1>1, <1>2, <1>7, AcquireOwners DEF Acquire
<1>10. TypeOK'
  BY <1>5, <1>8, <1>9 DEF Acquire, TypeOK
<1>11. PendingInv'
  BY <1>1, <1>3, <1>4, <1>5, <1>8, PendingOwnsNothing DEF Acquire, PendingInv, Waiter
<1>12. LeaseInv' /\ TreeInv'
  BY <1>3, <1>4, CallsAssumption DEF Acquire, LeaseInv, TreeInv, Waiting
<1>13. ChainInv'
  BY <1>3, ChainUnchanged DEF Acquire, OnChain
<1> QED BY <1>8, <1>9, <1>10, <1>11, <1>12, <1>13

LEMMA EnterRunStep ==
    ASSUME IInv, NEW c \in Calls, EnterRun(c) PROVE IInv'
<1> USE DEF IInv
<1> DEFINE w == Waits(c, "run")
<1>1. w \in grants /\ w \in Pending /\ w.who = c /\ w.why = "run"
  BY DEF EnterRun, Waits, Pending
<1>2. pc[c] = "queued" /\ pc' = [pc EXCEPT ![c] = "running"]
  BY DEF EnterRun
<1>3. pc'[c] = "running" /\ \A d \in Calls : d # c => pc'[d] = pc[d]
  BY <1>2 DEF TypeOK
<1>4. /\ lease' \in [Calls -> Lease]
      /\ lease'[c].held = TRUE
      /\ \A d \in Calls : d # c => lease'[d] = lease[d]
  BY DEF EnterRun, TypeOK, Lease, NoLease
<1>5. grants' = grants \ {w} /\ waiters' = waiters /\ active' = active
  BY DEF EnterRun
<1> HIDE DEF w
<1>6. grants' \subseteq Waiter /\ QueueInv' /\ Pending' = Pending \ {w}
  BY <1>1, <1>5, ResumeQueue
<1>7. TypeOK'
  BY <1>2, <1>4, <1>6 DEF EnterRun, TypeOK, PC
<1>8. PendingInv'
  <2>1. ASSUME NEW v \in Pending' PROVE v \in Pending /\ v.who \in Calls /\ v # w
    BY <1>6, PendingOwnsNothing DEF Waiter
  <2>2. ASSUME NEW v \in Pending', v.why = "run" PROVE v.who # c
    <3>1. v \in Waiter /\ w \in Waiter
      BY <1>1, <2>1, PendingOwnsNothing
    <3> QED BY <1>1, <2>1, <2>2, <3>1 DEF Waiter
  <2> QED BY <1>3, <2>1, <2>2 DEF EnterRun, PendingInv
<1>9. c \notin awaiting
  BY <1>2 DEF LeaseInv, Waiting
<1>10. LeaseInv' /\ TreeInv'
  BY <1>2, <1>3, <1>4, <1>9, CallsAssumption DEF EnterRun, LeaseInv, TreeInv, Waiting
<1>11. ChainInv'
  BY <1>2, ChainUnchanged DEF EnterRun, OnChain
<1>12. SlotAccounting'
  <2>1. \A d \in Calls : lease'[d].held = (lease[d].held \/ d = w.who)
    BY <1>1, <1>4 DEF TypeOK, Lease
  <2> QED BY <1>1, <1>5, <2>1, ResumeOwners
<1> QED BY <1>6, <1>7, <1>8, <1>10, <1>11, <1>12

LEMMA StartPromptStep ==
    ASSUME IInv, NEW c \in Calls, StartPrompt(c) PROVE IInv'
<1> USE DEF IInv
<1>1. /\ lease' \in [Calls -> Lease]
      /\ \A d \in Calls : lease'[d].held = lease[d].held
  <2>1. lease[c] \in Lease /\ lease[c].pending + 1 \in Nat
    BY DEF TypeOK, Lease
  <2>2. [lease[c] EXCEPT !.pending = @ + 1] \in Lease
    BY <2>1 DEF Lease
  <2>3. lease' = [lease EXCEPT ![c] = [lease[c] EXCEPT !.pending = @ + 1]]
    BY <2>1 DEF StartPrompt, TypeOK
  <2>4. [lease[c] EXCEPT !.pending = @ + 1].held = lease[c].held
    BY <2>1 DEF Lease
  <2> QED BY <2>2, <2>3, <2>4 DEF TypeOK
<1>2. TypeOK'
  BY <1>1 DEF StartPrompt, TypeOK
<1>3. QueueInv' /\ PendingInv' /\ TreeInv'
  BY DEF StartPrompt, QueueInv, PendingInv, Pending, Queued, TreeInv, Waiting
<1>4. LeaseInv'
  BY <1>1 DEF StartPrompt, LeaseInv, Waiting
<1>5. ChainInv'
  BY DEF StartPrompt, ChainInv, ChainOK, OpOK
<1>6. SlotAccounting'
  BY <1>1, SameOwners DEF StartPrompt
<1> QED BY <1>2, <1>3, <1>4, <1>5, <1>6

-----------------------------------------------------------------------------
(* Steps that may release a slot or take one back.                          *)

LEMMA ReleaseIfFacts ==
    ASSUME IInv, NEW l \in Calls, NEW frees \in BOOLEAN, ReleaseIf(frees),
           frees => lease[l].held,
           \A c \in Calls : lease'[c].held = (lease[c].held /\ ~ (c = l /\ frees))
    PROVE  /\ active' \in 0..MaxConcurrency
           /\ waiters' \in Seq(Waiter)
           /\ grants' \subseteq Waiter
           /\ QueueInv'
           /\ Pending' = Pending
           /\ SlotAccounting'
<1> USE DEF IInv
<1>1. CASE frees
  <2>1. ReleaseOne
    BY <1>1 DEF ReleaseIf
  <2>2. \A c \in Calls : lease'[c].held = (lease[c].held /\ c # l)
    BY <1>1
  <2> QED BY <1>1, <2>1, <2>2, ReleaseQueue, ReleaseOwners
<1>2. CASE ~ frees
  <2>1. UNCHANGED <<active, waiters, grants>>
    BY <1>2 DEF ReleaseIf
  <2>2. \A c \in Calls : lease'[c].held = lease[c].held
    BY <1>2 DEF TypeOK, Lease
  <2>3. SlotAccounting'
    BY <2>1, <2>2, SameOwners
  <2> QED BY <2>1, <2>3 DEF TypeOK, QueueInv, Pending, Queued
<1> QED BY <1>1, <1>2

LEMMA PromptSettlesStep ==
    ASSUME IInv, NEW c \in Calls, PromptSettles(c) PROVE IInv'
<1> USE DEF IInv
<1> DEFINE left == IF lease[c].pending > 0 THEN lease[c].pending - 1 ELSE 0
           frees == lease[c].closed /\ left = 0 /\ lease[c].held
           new == [lease[c] EXCEPT !.pending = left, !.held = lease[c].held /\ ~ frees]
<1>1. lease[c] \in Lease /\ left \in Nat /\ frees \in BOOLEAN
  BY DEF TypeOK, Lease
<1>2. /\ lease' = [lease EXCEPT ![c].pending = left, ![c].held = @ /\ ~ frees]
      /\ ReleaseIf(frees)
      /\ UNCHANGED <<chain, awaiting, pc, aborted, prompts>>
      /\ live' = live \ {c}
  BY DEF PromptSettles
<1>3. frees => lease[c].held
  OBVIOUS
<1> HIDE DEF left, frees
<1>4. /\ new \in Lease
      /\ new.held = (lease[c].held /\ ~ frees)
  BY <1>1 DEF Lease
<1>5. lease'[c] = new /\ \A d \in Calls : d # c => lease'[d] = lease[d]
  BY <1>1, <1>2 DEF TypeOK, Lease
<1>6. lease' \in [Calls -> Lease]
  BY <1>2, <1>4, <1>5 DEF TypeOK
<1> HIDE DEF new
<1>7. \A d \in Calls : lease'[d].held = (lease[d].held /\ ~ (d = c /\ frees))
  BY <1>1, <1>4, <1>5 DEF TypeOK, Lease
<1>8. /\ active' \in 0..MaxConcurrency
      /\ waiters' \in Seq(Waiter)
      /\ grants' \subseteq Waiter
      /\ QueueInv'
      /\ Pending' = Pending
      /\ SlotAccounting'
  BY <1>1, <1>2, <1>3, <1>7, ReleaseIfFacts
<1>9. TypeOK'
  BY <1>2, <1>6, <1>8 DEF TypeOK
<1>10. PendingInv' /\ TreeInv'
  BY <1>2, <1>8 DEF PendingInv, TreeInv, Waiting
<1>11. LeaseInv'
  BY <1>2, <1>7 DEF LeaseInv, Waiting
<1>12. ChainInv'
  BY <1>2 DEF ChainInv, ChainOK, OpOK
<1> QED BY <1>8, <1>9, <1>10, <1>11, <1>12

LEMMA AbortStep ==
    ASSUME IInv, NEW c \in Calls, Abort(c) PROVE IInv'
<1> USE DEF IInv
<1>1. CASE Contains(waiters, Waits(c, "run"))
  <2>1. PICK i \in 1..Len(waiters) :
           waiters[i] = Waits(c, "run") /\ waiters' = RemoveAt(waiters, i)
    BY <1>1 DEF Abort
  <2> DEFINE w == waiters[i]
  <2>2. w \in Pending /\ w \in Waiter /\ w.who = c /\ w.why = "run"
    BY <2>1, PendingOwnsNothing DEF Waits, Pending, Queued
  <2>3. pc[c] = "queued" /\ pc' = [pc EXCEPT ![c] = "leaving"]
    BY <1>1, <2>2 DEF Abort, PendingInv
  <2>4. pc'[c] = "leaving" /\ \A d \in Calls : d # c => pc'[d] = pc[d]
    BY <2>3 DEF TypeOK
  <2>5. waiters' \in Seq(Waiter) /\ QueueInv' /\ Pending' = Pending \ {w}
    BY <2>1, RemoveQueue DEF Abort
  <2> HIDE DEF w
  <2>6. TypeOK'
    BY <2>3, <2>5 DEF Abort, TypeOK, PC
  <2>7. PendingInv'
    <3>1. ASSUME NEW v \in Pending' PROVE v \in Pending /\ v \in Waiter /\ v # w
      BY <2>5, PendingOwnsNothing
    <3>2. ASSUME NEW v \in Pending', v.why = "run" PROVE v.who # c
      BY <2>2, <3>1, <3>2 DEF Waiter
    <3> QED BY <2>4, <3>1, <3>2 DEF Abort, PendingInv, Waiter
  <2>8. LeaseInv' /\ TreeInv'
    BY <2>3, <2>4, CallsAssumption DEF Abort, LeaseInv, TreeInv, Waiting
  <2>9. ChainInv'
    BY <2>3, ChainUnchanged DEF Abort, OnChain
  <2>10. SlotAccounting'
    BY SameOwners DEF Abort
  <2> QED BY <2>5, <2>6, <2>7, <2>8, <2>9, <2>10
<1>2. CASE ~ Contains(waiters, Waits(c, "run"))
  BY <1>2, SameOwners
     DEF Abort, TypeOK, QueueInv, PendingInv, Pending, Queued, LeaseInv, Waiting,
         ChainInv, ChainOK, OpOK, TreeInv
<1> QED BY <1>1, <1>2

-----------------------------------------------------------------------------
(* The operations of a lease's promise chain.                               *)

\* The caller of the operation at the head of a chain is waiting for it.
LEMMA HeadFacts ==
    ASSUME IInv, NEW l \in Calls, chain[l] # <<>>
    PROVE  /\ Caller(l) \in Calls
           /\ ~ Waiting(l)
           /\ OpOK(l, Head(chain[l]))
           /\ pc[Caller(l)] \in OnChain
           /\ Tail(chain[l]) \in Seq(LeaseOp)
<1>1. /\ Head(chain[l]) \in LeaseOp
      /\ Head(chain[l]) = chain[l][1]
      /\ 1 \in 1..Len(chain[l])
      /\ Tail(chain[l]) \in Seq(LeaseOp)
  BY TailFacts DEF IInv, TypeOK
<1>2. OpOK(l, Head(chain[l]))
  BY <1>1 DEF IInv, ChainInv, ChainOK
<1>3. ~ Waiting(l)
  BY DEF IInv, LeaseInv
<1> QED BY <1>1, <1>2, <1>3 DEF OpOK, LeaseOp, Caller, OnChain

\* What popping an operation leaves as it was, whatever its caller does next.
LEMMA PopStep ==
    ASSUME IInv, NEW l \in Calls, NEW p \in PC, chain[l] # <<>>,
           p = "acquire" => pc[Caller(l)] = "yielding",
           p \notin {"idle", "yielding", "queued"},
           chain' = [chain EXCEPT ![l] = Tail(@)],
           pc' = [pc EXCEPT ![Caller(l)] = p],
           awaiting' \subseteq awaiting,
           l \notin awaiting',
           UNCHANGED <<aborted, live, prompts>>
    PROVE  /\ chain' \in [Calls -> Seq(LeaseOp)]
           /\ pc' \in [Calls -> PC]
           /\ \A d \in Calls : Waiting(d)' => Waiting(d)
           /\ \A d \in Calls : d # l => chain'[d] = chain[d]
           /\ \A d \in Calls : pc[d] = "queued" => pc'[d] = "queued"
           /\ ChainInv'
           /\ TreeInv'
<1> USE DEF IInv
<1>1. Caller(l) \in Calls /\ pc[Caller(l)] \in OnChain /\ Tail(chain[l]) \in Seq(LeaseOp)
  BY HeadFacts
<1>2. pc'[Caller(l)] = p /\ \A d \in Calls : d # Caller(l) => pc'[d] = pc[d]
  BY <1>1 DEF TypeOK
<1>3. chain' \in [Calls -> Seq(LeaseOp)] /\ pc' \in [Calls -> PC]
  BY <1>1 DEF TypeOK
<1>4. \A d \in Calls : d # l => chain'[d] = chain[d]
  BY DEF TypeOK
<1>5. \A d \in Calls : Waiting(d)' => Waiting(d)
  BY <1>1, <1>2 DEF Waiting
<1>6. \A d \in Calls : pc[d] = "queued" => pc'[d] = "queued"
  BY <1>1, <1>2 DEF OnChain
<1>7. ChainInv'
  BY ChainPopped
<1>8. TreeInv'
  <2>1. \A d \in Calls : pc'[d] # "idle" => pc[d] # "idle"
    BY <1>1, <1>2 DEF OnChain
  <2> QED BY <1>5, <2>1, CallsAssumption DEF TreeInv
<1> QED BY <1>3, <1>4, <1>5, <1>6, <1>7, <1>8

LEMMA YieldSlotStep ==
    ASSUME IInv, NEW l \in Calls, YieldSlot(l) PROVE IInv'
<1> USE DEF IInv
<1> DEFINE frees == ~ lease[l].closed /\ lease[l].held
           p == IF Kind[Caller(l)] = "join" THEN "joining" ELSE "acquire"
<1>1. chain[l] # <<>> /\ Head(chain[l]).op = "yield" /\ l \notin awaiting
  BY DEF YieldSlot, AtHead
<1>2. pc[Caller(l)] = "yielding"
  BY <1>1, HeadFacts DEF OpOK, Caller
<1>3. /\ lease' = IF lease[l].closed THEN lease
                  ELSE [lease EXCEPT ![l].suspended = @ + 1, ![l].held = FALSE]
      /\ ReleaseIf(frees)
      /\ chain' = [chain EXCEPT ![l] = Tail(@)]
      /\ pc' = [pc EXCEPT ![Caller(l)] = p]
      /\ UNCHANGED <<awaiting, aborted, live, prompts>>
  BY DEF YieldSlot
<1>4. p \in PC \ {"idle", "yielding", "queued"} /\ frees \in BOOLEAN
      /\ (frees => lease[l].held)
  BY DEF PC, TypeOK, Lease
<1>5. lease' \in [Calls -> Lease]
  <2> DEFINE new == [lease[l] EXCEPT !.suspended = lease[l].suspended + 1, !.held = FALSE]
  <2>1. CASE lease[l].closed
    BY <1>3, <2>1 DEF TypeOK
  <2>2. CASE ~ lease[l].closed
    <3>1. lease[l] \in Lease /\ lease[l].suspended + 1 \in Nat
      BY DEF TypeOK, Lease
    <3>2. new \in Lease
      BY <3>1 DEF Lease
    <3>3. lease'[l] = new /\ \A d \in Calls : d # l => lease'[d] = lease[d]
      BY <1>3, <2>2, <3>1 DEF TypeOK, Lease
    <3> HIDE DEF new
    <3> QED BY <1>3, <2>2, <3>2, <3>3 DEF TypeOK
  <2> QED BY <2>1, <2>2
<1>6. \A d \in Calls : lease'[d].held = (lease[d].held /\ ~ (d = l /\ frees))
  BY <1>3 DEF TypeOK, Lease
<1> HIDE DEF frees, p
<1>7. /\ active' \in 0..MaxConcurrency
      /\ waiters' \in Seq(Waiter)
      /\ grants' \subseteq Waiter
      /\ QueueInv'
      /\ Pending' = Pending
      /\ SlotAccounting'
  BY <1>3, <1>4, <1>6, ReleaseIfFacts
<1>8. /\ chain' \in [Calls -> Seq(LeaseOp)]
      /\ pc' \in [Calls -> PC]
      /\ \A d \in Calls : Waiting(d)' => Waiting(d)
      /\ \A d \in Calls : d # l => chain'[d] = chain[d]
      /\ \A d \in Calls : pc[d] = "queued" => pc'[d] = "queued"
      /\ ChainInv'
      /\ TreeInv'
  BY <1>1, <1>2, <1>3, <1>4, PopStep
<1>9. TypeOK'
  BY <1>3, <1>5, <1>7, <1>8 DEF TypeOK
<1>10. PendingInv'
  BY <1>3, <1>7, <1>8, PendingOwnsNothing DEF PendingInv, Waiter
<1>11. LeaseInv'
  BY <1>1, <1>3, <1>6, <1>8, HeadFacts DEF LeaseInv
<1> QED BY <1>7, <1>8, <1>9, <1>10, <1>11

LEMMA CloseStep ==
    ASSUME IInv, NEW l \in Calls, Close(l) PROVE IInv'
<1> USE DEF IInv
<1> DEFINE frees == lease[l].pending = 0 /\ lease[l].held
           new == [lease[l] EXCEPT !.closed = TRUE, !.held = lease[l].held /\ ~ frees]
<1>1. chain[l] # <<>> /\ Head(chain[l]).op = "close" /\ l \notin awaiting
  BY DEF Close, AtHead
<1>2. pc[Caller(l)] = "closing" /\ Caller(l) = l
  BY <1>1, HeadFacts DEF OpOK, Caller
<1>3. /\ lease' = [lease EXCEPT ![l].closed = TRUE, ![l].held = @ /\ ~ frees]
      /\ ReleaseIf(frees)
      /\ chain' = [chain EXCEPT ![l] = Tail(@)]
      /\ pc' = [pc EXCEPT ![Caller(l)] = "leaving"]
      /\ UNCHANGED <<awaiting, aborted, live, prompts>>
  BY <1>2 DEF Close
<1>4. frees \in BOOLEAN /\ (frees => lease[l].held) /\ lease[l] \in Lease
  BY DEF TypeOK, Lease
<1> HIDE DEF frees
<1>5. new \in Lease /\ new.held = (lease[l].held /\ ~ frees)
  BY <1>4 DEF Lease
<1>6. lease'[l] = new /\ \A d \in Calls : d # l => lease'[d] = lease[d]
  BY <1>3, <1>4 DEF TypeOK, Lease
<1>7. lease' \in [Calls -> Lease]
  BY <1>3, <1>5, <1>6 DEF TypeOK
<1> HIDE DEF new
<1>8. \A d \in Calls : lease'[d].held = (lease[d].held /\ ~ (d = l /\ frees))
  BY <1>5, <1>6 DEF TypeOK, Lease
<1>9. /\ active' \in 0..MaxConcurrency
      /\ waiters' \in Seq(Waiter)
      /\ grants' \subseteq Waiter
      /\ QueueInv'
      /\ Pending' = Pending
      /\ SlotAccounting'
  BY <1>3, <1>4, <1>8, ReleaseIfFacts
<1>10. /\ chain' \in [Calls -> Seq(LeaseOp)]
       /\ pc' \in [Calls -> PC]
       /\ \A d \in Calls : Waiting(d)' => Waiting(d)
       /\ \A d \in Calls : d # l => chain'[d] = chain[d]
       /\ \A d \in Calls : pc[d] = "queued" => pc'[d] = "queued"
       /\ ChainInv'
       /\ TreeInv'
  BY <1>1, <1>3, PopStep DEF PC
<1>11. TypeOK'
  BY <1>3, <1>7, <1>9, <1>10 DEF TypeOK
<1>12. PendingInv'
  BY <1>3, <1>9, <1>10, PendingOwnsNothing DEF PendingInv, Waiter
<1>13. LeaseInv'
  BY <1>1, <1>3, <1>8, <1>10, HeadFacts DEF LeaseInv
<1> QED BY <1>9, <1>10, <1>11, <1>12, <1>13

LEMMA ReacquireDoneStep ==
    ASSUME IInv, NEW l \in Calls, ReacquireDone(l) PROVE IInv'
<1> USE DEF IInv
<1> DEFINE left == IF lease[l].suspended > 0 THEN lease[l].suspended - 1 ELSE 0
           new == [lease[l] EXCEPT !.suspended = left]
<1>1. chain[l] # <<>> /\ l \notin awaiting
  BY DEF ReacquireDone, AtHead
<1>2. /\ lease' = IF lease[l].closed THEN lease
                  ELSE [lease EXCEPT ![l].suspended = left]
      /\ chain' = [chain EXCEPT ![l] = Tail(@)]
      /\ pc' = [pc EXCEPT ![Caller(l)] = "done"]
      /\ UNCHANGED <<active, waiters, grants, awaiting, aborted, live, prompts>>
  BY DEF ReacquireDone
<1>3. lease[l] \in Lease /\ left \in Nat
  BY DEF TypeOK, Lease
<1> HIDE DEF left
<1>4. new \in Lease /\ new.held = lease[l].held
  BY <1>3 DEF Lease
<1>5. ~ lease[l].closed => lease'[l] = new /\ \A d \in Calls : d # l => lease'[d] = lease[d]
  BY <1>2, <1>3 DEF TypeOK, Lease
<1> HIDE DEF new
<1>6. /\ lease' \in [Calls -> Lease]
      /\ \A d \in Calls : lease'[d].held = lease[d].held
  BY <1>2, <1>4, <1>5 DEF TypeOK
<1>7. /\ chain' \in [Calls -> Seq(LeaseOp)]
      /\ pc' \in [Calls -> PC]
      /\ \A d \in Calls : Waiting(d)' => Waiting(d)
      /\ \A d \in Calls : d # l => chain'[d] = chain[d]
      /\ \A d \in Calls : pc[d] = "queued" => pc'[d] = "queued"
      /\ ChainInv'
      /\ TreeInv'
  BY <1>1, <1>2, PopStep DEF PC
<1>8. TypeOK'
  BY <1>2, <1>6, <1>7 DEF TypeOK
<1>9. QueueInv' /\ Pending' = Pending
  BY <1>2 DEF QueueInv, Pending, Queued
<1>10. PendingInv'
  BY <1>2, <1>7, <1>9, PendingOwnsNothing DEF PendingInv, Waiter
<1>11. LeaseInv'
  BY <1>1, <1>2, <1>6, <1>7, HeadFacts DEF LeaseInv
<1>12. SlotAccounting'
  BY <1>2, <1>6, SameOwners
<1> QED BY <1>7, <1>8, <1>9, <1>10, <1>11, <1>12

LEMMA ReacquireSlotStep ==
    ASSUME IInv, NEW l \in Calls, ReacquireSlot(l) PROVE IInv'
<1> USE DEF IInv
<1> DEFINE w == Waits(l, "reacquire")
           left == IF lease[l].suspended > 0 THEN lease[l].suspended - 1 ELSE 0
           new == [lease[l] EXCEPT !.suspended = left]
<1>1. w \in Waiter /\ w.who = l /\ w.why = "reacquire"
  BY DEF Waits, Waiter
<1>2. chain[l] # <<>> /\ l \notin awaiting /\ ~ lease[l].held
  BY DEF ReacquireSlot, AtHead
<1>3. /\ lease' = [lease EXCEPT ![l].suspended = left]
      /\ TakeSlot(w) \/ Enqueue(w)
      /\ awaiting' = awaiting \cup {l}
      /\ UNCHANGED <<chain, pc, aborted, live, prompts>>
  BY DEF ReacquireSlot
<1>4. lease[l] \in Lease /\ left \in Nat
  BY DEF TypeOK, Lease
<1> HIDE DEF w, left
<1>5. new \in Lease /\ new.held = lease[l].held
  BY <1>4 DEF Lease
<1>6. lease'[l] = new /\ \A d \in Calls : d # l => lease'[d] = lease[d]
  BY <1>3, <1>4 DEF TypeOK, Lease
<1>7. lease' \in [Calls -> Lease]
  BY <1>3, <1>5, <1>6 DEF TypeOK
<1> HIDE DEF new
<1>8. \A d \in Calls : lease'[d].held = lease[d].held
  BY <1>5, <1>6
<1>9. w \notin Pending
  BY <1>1, <1>2 DEF PendingInv
<1>10. l \notin Owners
  <2>1. ~ Waiting(l)
    BY <1>2 DEF LeaseInv
  <2>2. ASSUME NEW v \in grants, v.who = l PROVE FALSE
    BY <1>2, <2>1, <2>2 DEF PendingInv, Pending, Waiting
  <2> QED BY <1>2, <2>2 DEF Owners
<1>11. /\ waiters' \in Seq(Waiter)
       /\ grants' \subseteq Waiter
       /\ QueueInv'
       /\ Pending' = Pending \cup {w}
  BY <1>1, <1>3, <1>9, AcquireQueue
<1>12. active' \in 0..MaxConcurrency /\ SlotAccounting'
  BY <1>1, <1>3, <1>8, <1>10, AcquireOwners
<1>13. TypeOK'
  BY <1>3, <1>7, <1>11, <1>12 DEF TypeOK
<1>14. PendingInv'
  BY <1>1, <1>3, <1>11 DEF PendingInv
<1>15. LeaseInv' /\ TreeInv'
  BY <1>2, <1>3, <1>8 DEF LeaseInv, TreeInv, Waiting
<1>16. ChainInv'
  BY <1>3 DEF ChainInv, ChainOK, OpOK
<1> QED BY <1>11, <1>12, <1>13, <1>14, <1>15, <1>16

LEMMA ReacquireResumesStep ==
    ASSUME IInv, NEW l \in Calls, ReacquireResumes(l) PROVE IInv'
<1> USE DEF IInv
<1> DEFINE w == Waits(l, "reacquire")
           new == [lease[l] EXCEPT !.held = TRUE]
<1>1. w \in grants /\ w \in Pending /\ w.who = l /\ w.why = "reacquire"
  BY DEF ReacquireResumes, Waits, Pending
<1>2. l \in awaiting /\ chain[l] # <<>>
  BY DEF ReacquireResumes, LeaseInv
<1>3. /\ grants' = grants \ {w}
      /\ awaiting' = awaiting \ {l}
      /\ lease' = [lease EXCEPT ![l].held = TRUE]
      /\ chain' = [chain EXCEPT ![l] = Tail(@)]
      /\ pc' = [pc EXCEPT ![Caller(l)] = "done"]
      /\ UNCHANGED <<active, waiters, aborted, live, prompts>>
  BY DEF ReacquireResumes
<1>4. lease[l] \in Lease
  BY DEF TypeOK
<1> HIDE DEF w
<1>5. new \in Lease /\ new.held = TRUE
  BY <1>4 DEF Lease
<1>6. lease'[l] = new /\ \A d \in Calls : d # l => lease'[d] = lease[d]
  BY <1>3, <1>4 DEF TypeOK, Lease
<1>7. lease' \in [Calls -> Lease]
  BY <1>3, <1>5, <1>6 DEF TypeOK
<1> HIDE DEF new
<1>8. \A d \in Calls : lease'[d].held = (lease[d].held \/ d = w.who)
  BY <1>1, <1>5, <1>6 DEF TypeOK, Lease
<1>9. grants' \subseteq Waiter /\ QueueInv' /\ Pending' = Pending \ {w}
  BY <1>1, <1>3, ResumeQueue
<1>10. /\ chain' \in [Calls -> Seq(LeaseOp)]
       /\ pc' \in [Calls -> PC]
       /\ \A d \in Calls : Waiting(d)' => Waiting(d)
       /\ \A d \in Calls : d # l => chain'[d] = chain[d]
       /\ \A d \in Calls : pc[d] = "queued" => pc'[d] = "queued"
       /\ ChainInv'
       /\ TreeInv'
  BY <1>2, <1>3, PopStep DEF PC
<1>11. TypeOK'
  BY <1>3, <1>7, <1>9, <1>10 DEF TypeOK
<1>12. PendingInv'
  <2>1. ASSUME NEW v \in Pending' PROVE v \in Pending /\ v \in Waiter /\ v # w
    BY <1>9, PendingOwnsNothing
  <2>2. ASSUME NEW v \in Pending', v.why # "run" PROVE v.who # l
    BY <1>1, <2>1, <2>2, PendingOwnsNothing DEF Waiter
  <2> QED BY <1>3, <1>10, <2>1, <2>2 DEF PendingInv, Waiter
<1>13. LeaseInv'
  <2>1. \A d \in Calls : d # l => lease'[d].held = lease[d].held
    BY <1>6
  <2>2. ~ Waiting(l)'
    BY <1>2, <1>10, HeadFacts
  <2> QED BY <1>3, <1>10, <2>1, <2>2 DEF LeaseInv
<1>14. SlotAccounting'
  BY <1>1, <1>3, <1>8, ResumeOwners
<1> QED BY <1>9, <1>10, <1>11, <1>12, <1>13, <1>14

-----------------------------------------------------------------------------
(* The theorems.                                                            *)

\* The invariant holds of every reachable state, whatever the tree of calls,
\* the cap, and the interleaving of acquires, yields, aborts and settlements.
THEOREM Invariance == Spec => []IInv
<1>1. Init => IInv
  <2> SUFFICES ASSUME Init PROVE IInv
    OBVIOUS
  <2>1. TypeOK
    BY BoundsAssumption DEF Init, TypeOK, Lease, NoLease, PC
  <2>2. QueueInv /\ PendingInv /\ LeaseInv /\ ChainInv /\ TreeInv
    BY DEF Init, QueueInv, PendingInv, Pending, Queued, LeaseInv, ChainInv, ChainOK,
           TreeInv, NoLease
  <2>3. Owners = {}
    BY DEF Init, Owners, NoLease
  <2>4. SlotAccounting
    BY <2>3, FS_EmptySet DEF SlotAccounting, Init
  <2> QED BY <2>1, <2>2, <2>4 DEF IInv
<1>2. IInv /\ [Next]_vars => IInv'
  <2> SUFFICES ASSUME IInv, [Next]_vars PROVE IInv'
    OBVIOUS
  <2>1. CASE UNCHANGED vars
    BY <2>1 DEF vars, IInv, TypeOK, QueueInv, PendingInv, Pending, Queued, LeaseInv,
                Waiting, ChainInv, ChainOK, OpOK, TreeInv, SlotAccounting, Owners
  <2>2. ASSUME NEW c \in Calls, Step(c) PROVE IInv'
    BY <2>2, AcquireRejectedStep, AcquireStep, EnterRunStep, PromptSettlesStep,
       CallbackReturnsStep, JoinReturnsStep, LeaveStep, YieldSlotStep,
       ReacquireDoneStep, ReacquireSlotStep, ReacquireResumesStep, CloseStep
       DEF Step
  <2>3. ASSUME NEW c \in Calls, Choice(c) PROVE IInv'
    BY <2>3, CallDetachedStep, CallNestedStep, StartPromptStep, AbortStep DEF Choice
  <2> QED BY <2>1, <2>2, <2>3 DEF Next
<1> QED BY <1>1, <1>2, PTL DEF Spec

\* The counter never exceeds the cap and every variable keeps its type.
THEOREM TypeCorrect == Spec => []TypeOK
<1>1. IInv => TypeOK
  BY DEF IInv
<1> QED BY <1>1, Invariance, PTL

\* The slot counter always equals the number of slot owners: no interleaving
\* of concurrent nested children releases a slot twice or leaks one.
THEOREM AccountingHolds == Spec => []SlotAccounting
<1>1. IInv => SlotAccounting
  BY DEF IInv
<1> QED BY <1>1, Invariance, PTL

-----------------------------------------------------------------------------
(* What a step does to the budget.  Every step leaves the owners alone,     *)
(* lets one in below the cap, lets one go, or hands the slot of one to      *)
(* another; and a slot is free only while nobody queues.                    *)

BudgetStep == Owners' = Owners \/ Budget!Next

\* A step that neither takes nor releases a slot, nor queues anybody.
LEMMA QuietStep ==
    ASSUME IInv, NoIdleSlot, active' = active, waiters # <<>> \/ waiters' = waiters,
           Owners' = Owners
    PROVE  NoIdleSlot' /\ BudgetStep
BY DEF NoIdleSlot, BudgetStep

\* A release gives the slot back or hands it to the oldest waiter.
LEMMA ReleaseStep ==
    ASSUME IInv, NoIdleSlot, NEW l \in Calls, lease[l].held, ReleaseOne,
           \A c \in Calls : lease'[c].held = (lease[c].held /\ c # l)
    PROVE  NoIdleSlot' /\ BudgetStep
<1>1. l \in Owners /\ active = Cardinality(Owners) /\ active \in 0..MaxConcurrency
  BY DEF IInv, TypeOK, SlotAccounting, Owners
<1>2. active > 0
  BY <1>1, OwnersFinite, FS_EmptySet
<1>3. \A w \in grants : w.who \in Calls /\ w.who # l
  BY PendingOwnsNothing DEF IInv, Pending, Waiter
<1>4. CASE waiters = <<>>
  <2>1. grants' = grants /\ waiters' = waiters
    BY <1>4 DEF ReleaseOne
  <2>2. Owners' = Owners \ {l}
    BY <1>3, <2>1 DEF Owners
  <2>3. Budget!Give(l)
    BY <1>1, <2>2 DEF Budget!Give
  <2> QED BY <1>4, <2>1, <2>3 DEF NoIdleSlot, BudgetStep, Budget!Next
<1>5. CASE waiters # <<>>
  <2> DEFINE h == Head(waiters).who
  <2>1. active' = active /\ grants' = grants \cup {Head(waiters)}
    BY <1>1, <1>2, <1>5 DEF ReleaseOne
  <2>2. Head(waiters) \in Pending /\ Head(waiters) \notin grants
    <3>1. Head(waiters) = waiters[1] /\ 1 \in 1..Len(waiters)
      BY <1>5, TailFacts DEF IInv, TypeOK
    <3> QED BY <3>1 DEF IInv, QueueInv, Pending, Queued
  <2>3. h \in Calls /\ h \notin Owners
    BY <2>2, PendingOwnsNothing DEF IInv, Waiter, Owners
  <2>4. Owners' = (Owners \ {l}) \cup {h}
    BY <1>3, <2>1, <2>3 DEF Owners
  <2>5. Budget!HandOver(l, h)
    BY <1>1, <2>3, <2>4 DEF Budget!HandOver
  <2>6. BudgetStep
    BY <2>3, <2>5 DEF BudgetStep, Budget!Next
  <2> QED BY <1>5, <2>1, <2>6 DEF NoIdleSlot
<1> QED BY <1>4, <1>5

\* A release that the settlement's condition decides.
LEMMA ReleaseIfStep ==
    ASSUME IInv, NoIdleSlot, NEW l \in Calls, NEW frees \in BOOLEAN, ReleaseIf(frees),
           frees => lease[l].held,
           \A c \in Calls : lease'[c].held = (lease[c].held /\ ~ (c = l /\ frees))
    PROVE  NoIdleSlot' /\ BudgetStep
<1>1. CASE frees
  <2>1. ReleaseOne /\ \A c \in Calls : lease'[c].held = (lease[c].held /\ c # l)
    BY <1>1 DEF ReleaseIf
  <2> QED BY <1>1, <2>1, ReleaseStep
<1>2. CASE ~ frees
  <2>1. UNCHANGED <<active, waiters, grants>>
    BY <1>2 DEF ReleaseIf
  <2>2. Owners' = Owners
    BY <1>2, <2>1 DEF Owners, IInv, TypeOK, Lease
  <2> QED BY <2>1, <2>2, QuietStep
<1> QED BY <1>1, <1>2

\* A new acquireOne takes a free slot, or queues because there is none.
LEMMA AcquireOneStep ==
    ASSUME IInv, NoIdleSlot, NEW w \in Waiter, TakeSlot(w) \/ Enqueue(w),
           w.who \notin Owners,
           \A c \in Calls : lease'[c].held = lease[c].held
    PROVE  NoIdleSlot' /\ BudgetStep
<1>1. active = Cardinality(Owners) /\ active \in 0..MaxConcurrency /\ w.who \in Calls
      /\ MaxConcurrency \in Nat
  BY BoundsAssumption DEF IInv, TypeOK, SlotAccounting, Waiter
<1>2. CASE TakeSlot(w)
  <2>1. active < MaxConcurrency /\ waiters' = waiters /\ grants' = grants \cup {w}
    BY <1>2 DEF TakeSlot
  <2>2. Owners' = Owners \cup {w.who}
    BY <2>1 DEF Owners, Waiter
  <2>3. Cardinality(Owners) < MaxConcurrency
    BY <1>1, <2>1
  <2>4. Budget!Take(w.who)
    <3>1. Budget!Cardinality(Owners) = Cardinality(Owners)
      BY DEF Budget!Cardinality, Cardinality, Budget!IsFiniteSet, IsFiniteSet
    <3> QED BY <2>2, <2>3, <3>1 DEF Budget!Take
  <2>5. BudgetStep
    BY <1>1, <2>4 DEF BudgetStep, Budget!Next
  <2>6. waiters' = <<>>
    BY <1>1, <2>1 DEF NoIdleSlot
  <2> QED BY <2>5, <2>6 DEF NoIdleSlot
<1>3. CASE Enqueue(w)
  <2>1. active' = MaxConcurrency /\ grants' = grants
    BY <1>1, <1>3 DEF Enqueue
  <2>2. Owners' = Owners
    BY <2>1 DEF Owners
  <2> QED BY <2>1, <2>2 DEF NoIdleSlot, BudgetStep
<1> QED BY <1>2, <1>3

\* A resumed acquireOne: its caller owned the slot already.
LEMMA ResumeStep ==
    ASSUME IInv, NoIdleSlot, NEW w \in grants, grants' = grants \ {w},
           UNCHANGED <<active, waiters>>,
           \A c \in Calls : lease'[c].held = (lease[c].held \/ c = w.who)
    PROVE  NoIdleSlot' /\ BudgetStep
<1>1. w \in Pending /\ w.who \in Calls
  BY DEF IInv, TypeOK, Pending, Waiter
<1>2. Owners' = Owners
  BY <1>1, PendingOwnsNothing DEF IInv, Owners
<1> QED BY <1>2, QuietStep

\* What the steps of a lease's owner do to its held flag.
LEMMA HeldFacts ==
    ASSUME IInv, NEW l \in Calls, NEW held \in BOOLEAN,
           \/ \E n \in Nat : lease' = [lease EXCEPT ![l].pending = n, ![l].held = held]
           \/ \E n \in Nat : lease' = [lease EXCEPT ![l].suspended = n, ![l].held = held]
           \/ lease' = [lease EXCEPT ![l].closed = TRUE, ![l].held = held]
           \/ lease' = [lease EXCEPT ![l] = [NoLease EXCEPT !.held = held]]
           \/ lease' = [lease EXCEPT ![l].held = held]
    PROVE  lease'[l].held = held /\ \A c \in Calls : c # l => lease'[c].held = lease[c].held
BY DEF IInv, TypeOK, Lease, NoLease

\* Calls outside any lease, rejections, joins and what the chains only record.
LEMMA OutsideStep ==
    ASSUME IInv, NoIdleSlot, NEW c \in Calls,
           \/ CallDetached(c) \/ CallNested(c) \/ AcquireRejected(c)
           \/ CallbackReturns(c) \/ JoinReturns(c) \/ Leave(c)
    PROVE  NoIdleSlot' /\ BudgetStep
<1>1. UNCHANGED <<active, waiters, grants, lease>>
  BY DEF CallDetached, CallNested, AcquireRejected, CallbackReturns, JoinReturns, Leave
<1>2. Owners' = Owners
  BY <1>1 DEF Owners
<1> QED BY <1>1, <1>2, QuietStep

\* withRunSlot's acquire: served or queued.
LEMMA AcquireBudget ==
    ASSUME IInv, NoIdleSlot, NEW c \in Calls, Acquire(c)
    PROVE  NoIdleSlot' /\ BudgetStep
<1> DEFINE w == Waits(c, "run")
<1>1. w \in Waiter /\ w.who = c /\ (TakeSlot(w) \/ Enqueue(w)) /\ UNCHANGED lease
  BY DEF Acquire, Waits, Waiter
<1>2. c \notin Owners
  <2>1. ~ lease[c].held /\ c \notin awaiting /\ pc[c] = "acquire"
    BY DEF Acquire, IInv, LeaseInv, Waiting
  <2>2. ASSUME NEW v \in grants, v.who = c PROVE FALSE
    BY <2>1, <2>2 DEF IInv, PendingInv, Pending
  <2> QED BY <2>1, <2>2 DEF Owners
<1> HIDE DEF w
<1> QED BY <1>1, <1>2, AcquireOneStep

\* A lease takes its slot again after its nested calls settled.
LEMMA ReacquireBudget ==
    ASSUME IInv, NoIdleSlot, NEW l \in Calls, ReacquireSlot(l)
    PROVE  NoIdleSlot' /\ BudgetStep
<1> DEFINE w == Waits(l, "reacquire")
<1>1. w \in Waiter /\ w.who = l /\ (TakeSlot(w) \/ Enqueue(w))
  BY DEF ReacquireSlot, Waits, Waiter
<1>2. l \notin Owners
  <2>1. chain[l] # <<>> /\ l \notin awaiting /\ ~ lease[l].held
    BY DEF ReacquireSlot, AtHead
  <2>2. ~ Waiting(l)
    BY <2>1 DEF IInv, LeaseInv
  <2>3. ASSUME NEW v \in grants, v.who = l PROVE FALSE
    BY <2>1, <2>2, <2>3 DEF IInv, PendingInv, Pending, Waiting
  <2> QED BY <2>1, <2>3 DEF Owners
<1>3. \A c \in Calls : lease'[c].held = lease[c].held
  BY DEF ReacquireSlot, IInv, TypeOK, Lease
<1> HIDE DEF w
<1> QED BY <1>1, <1>2, <1>3, AcquireOneStep

\* A caller resumes with the slot that a release gave it.
LEMMA ResumeBudget ==
    ASSUME IInv, NoIdleSlot, NEW c \in Calls, EnterRun(c) \/ ReacquireResumes(c)
    PROVE  NoIdleSlot' /\ BudgetStep
<1>1. PICK why \in {"run", "reacquire"} :
         Waits(c, why) \in grants /\ grants' = grants \ {Waits(c, why)}
  BY DEF EnterRun, ReacquireResumes
<1>2. Waits(c, why).who = c /\ UNCHANGED <<active, waiters>>
  BY DEF EnterRun, ReacquireResumes, Waits
<1>3. \A d \in Calls : lease'[d].held = (lease[d].held \/ d = c)
  <2>1. lease'[c].held = TRUE /\ \A d \in Calls : d # c => lease'[d].held = lease[d].held
    BY HeldFacts DEF EnterRun, ReacquireResumes
  <2> QED BY <2>1 DEF IInv, TypeOK, Lease
<1> QED BY <1>1, <1>2, <1>3, ResumeStep

\* The counts of a lease move, nobody's slot does.
LEMMA CountBudget ==
    ASSUME IInv, NoIdleSlot, NEW c \in Calls, StartPrompt(c) \/ ReacquireDone(c)
    PROVE  NoIdleSlot' /\ BudgetStep
<1>1. UNCHANGED <<active, waiters, grants>>
  BY DEF StartPrompt, ReacquireDone
<1>2. \A d \in Calls : lease'[d].held = lease[d].held
  <2>1. CASE lease' = [lease EXCEPT ![c].pending = @ + 1]
    BY <2>1 DEF IInv, TypeOK, Lease
  <2>2. ASSUME NEW n, lease' = lease \/ lease' = [lease EXCEPT ![c].suspended = n]
        PROVE  \A d \in Calls : lease'[d].held = lease[d].held
    BY <2>2 DEF IInv, TypeOK, Lease
  <2>3. CASE ReacquireDone(c)
    <3>1. \E n : lease' = lease \/ lease' = [lease EXCEPT ![c].suspended = n]
      BY <2>3 DEF ReacquireDone
    <3> QED BY <2>2, <3>1
  <2> QED BY <2>1, <2>3 DEF StartPrompt
<1>3. Owners' = Owners
  BY <1>1, <1>2 DEF Owners
<1> QED BY <1>1, <1>3, QuietStep

\* A cancelled waiter leaves the queue; nobody owned a slot for it.
LEMMA AbortBudget ==
    ASSUME IInv, NoIdleSlot, NEW c \in Calls, Abort(c)
    PROVE  NoIdleSlot' /\ BudgetStep
<1>1. UNCHANGED <<active, grants, lease>>
  BY DEF Abort
<1>2. waiters # <<>> \/ waiters' = waiters
  BY DEF Abort, Contains, IInv, TypeOK
<1>3. Owners' = Owners
  BY <1>1 DEF Owners
<1> QED BY <1>1, <1>2, <1>3, QuietStep

\* finishSettlement releases the slot of a closed lease with nothing left.
LEMMA PromptSettlesBudget ==
    ASSUME IInv, NoIdleSlot, NEW c \in Calls, PromptSettles(c)
    PROVE  NoIdleSlot' /\ BudgetStep
<1> DEFINE left == IF lease[c].pending > 0 THEN lease[c].pending - 1 ELSE 0
           frees == lease[c].closed /\ left = 0 /\ lease[c].held
<1>1. left \in Nat /\ frees \in BOOLEAN /\ (frees => lease[c].held)
      /\ lease[c].held \in BOOLEAN
  BY DEF IInv, TypeOK, Lease
<1>2. ReleaseIf(frees) /\ lease' = [lease EXCEPT ![c].pending = left,
                                                ![c].held = lease[c].held /\ ~ frees]
  BY DEF PromptSettles
<1> HIDE DEF left, frees
<1>3. \A d \in Calls : lease'[d].held = (lease[d].held /\ ~ (d = c /\ frees))
  <2>1. lease'[c].held = (lease[c].held /\ ~ frees)
        /\ \A d \in Calls : d # c => lease'[d].held = lease[d].held
    BY <1>1, <1>2, HeldFacts
  <2> QED BY <2>1 DEF IInv, TypeOK, Lease
<1> QED BY <1>1, <1>2, <1>3, ReleaseIfStep

\* withRunSlot's finally closes the lease and releases its slot.
LEMMA CloseBudget ==
    ASSUME IInv, NoIdleSlot, NEW l \in Calls, Close(l)
    PROVE  NoIdleSlot' /\ BudgetStep
<1> DEFINE frees == lease[l].pending = 0 /\ lease[l].held
<1>1. frees \in BOOLEAN /\ (frees => lease[l].held) /\ lease[l].held \in BOOLEAN
  BY DEF IInv, TypeOK, Lease
<1>2. ReleaseIf(frees) /\ lease' = [lease EXCEPT ![l].closed = TRUE,
                                                ![l].held = lease[l].held /\ ~ frees]
  BY DEF Close
<1> HIDE DEF frees
<1>3. \A d \in Calls : lease'[d].held = (lease[d].held /\ ~ (d = l /\ frees))
  <2>1. lease'[l].held = (lease[l].held /\ ~ frees)
        /\ \A d \in Calls : d # l => lease'[d].held = lease[d].held
    BY <1>1, <1>2, HeldFacts
  <2> QED BY <2>1 DEF IInv, TypeOK, Lease
<1> QED BY <1>1, <1>2, <1>3, ReleaseIfStep

\* yieldRunSlotWhile lends the slot of the enclosing lease.
LEMMA YieldBudget ==
    ASSUME IInv, NoIdleSlot, NEW l \in Calls, YieldSlot(l)
    PROVE  NoIdleSlot' /\ BudgetStep
<1> DEFINE frees == ~ lease[l].closed /\ lease[l].held
<1>1. frees \in BOOLEAN /\ (frees => lease[l].held) /\ ReleaseIf(frees)
  BY DEF YieldSlot, IInv, TypeOK, Lease
<1>2. lease' = IF lease[l].closed THEN lease
               ELSE [lease EXCEPT ![l].suspended = @ + 1, ![l].held = FALSE]
  BY DEF YieldSlot
<1>3. \A d \in Calls : lease'[d].held = (lease[d].held /\ ~ (d = l /\ frees))
  BY <1>2 DEF IInv, TypeOK, Lease
<1> HIDE DEF frees
<1> QED BY <1>1, <1>3, ReleaseIfStep

\* Every step of the system is a step of the budget or leaves the owners alone.
LEMMA NextBudget ==
    ASSUME IInv, NoIdleSlot, [Next]_vars
    PROVE  NoIdleSlot' /\ BudgetStep
<1>1. CASE UNCHANGED vars
  BY <1>1 DEF vars, NoIdleSlot, BudgetStep, Owners
<1>2. ASSUME NEW c \in Calls, Step(c) PROVE NoIdleSlot' /\ BudgetStep
  BY <1>2, OutsideStep, AcquireBudget, ResumeBudget, PromptSettlesBudget, YieldBudget,
     CountBudget, ReacquireBudget, CloseBudget
     DEF Step
<1>3. ASSUME NEW c \in Calls, Choice(c) PROVE NoIdleSlot' /\ BudgetStep
  BY <1>3, OutsideStep, CountBudget, AbortBudget DEF Choice
<1> QED BY <1>1, <1>2, <1>3 DEF Next

\* A release always reaches a waiter: nobody queues while a slot is free.
THEOREM NoSlotIdles == Spec => []NoIdleSlot
<1>1. Init => NoIdleSlot
  BY DEF Init, NoIdleSlot
<1>2. IInv /\ NoIdleSlot /\ [Next]_vars => NoIdleSlot'
  BY NextBudget
<1> QED BY <1>1, <1>2, Invariance, PTL DEF Spec

\* Leases, chains, the queue and its wake-ups together are the bounded set of
\* owners of SlotBudget, which every step changes by one slot at most: taken
\* below the cap, given back, or handed over.
THEOREM BudgetImplemented == Spec => ImplementsBudget
<1>1. Init => Budget!Init
  BY DEF Init, Budget!Init, Owners, NoLease
<1>2. IInv /\ NoIdleSlot /\ [Next]_vars => [Budget!Next]_Owners
  BY NextBudget DEF BudgetStep
<1> QED BY <1>1, <1>2, Invariance, NoSlotIdles, PTL DEF Spec, ImplementsBudget, Budget!Spec

=============================================================================
