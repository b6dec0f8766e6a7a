------------------------ MODULE DetachedTasks_proofs ------------------------
(* Detached tasks, for every set of names and every cap of the three maps.  *)
EXTENDS DetachedTasks, FiniteSetTheorems, TLAPS

-----------------------------------------------------------------------------
(* What a filtered sequence holds.                                          *)

\* Rank numbers the positions that stay, from 1 and without a gap.
LEMMA RankFacts ==
    ASSUME NEW at, IsFiniteSet(at), at \subseteq Nat
    PROVE  /\ Cardinality(at) \in Nat
           /\ \A i \in at : Rank(at, i) \in 1 .. Cardinality(at)
           /\ \A i, h \in at : Rank(at, i) = Rank(at, h) => i = h
           /\ \A k \in 1 .. Cardinality(at) : \E i \in at : Rank(at, i) = k
<1> DEFINE Below(i) == {h \in at : h <= i}
           c == Cardinality(at)
<1>1. c \in Nat
  BY FS_CardinalityType
<1>2. ASSUME NEW i \in at
      PROVE  /\ IsFiniteSet(Below(i)) /\ Cardinality(Below(i)) \in 1 .. c
             /\ Rank(at, i) = Cardinality(Below(i))
  <2>1. Below(i) \in SUBSET at
    OBVIOUS
  <2>2. IsFiniteSet(Below(i)) /\ Cardinality(Below(i)) <= c /\ Cardinality(Below(i)) \in Nat
    BY <2>1, FS_Subset, FS_CardinalityType
  <2>3. i \in Below(i)
    OBVIOUS
  <2>4. Cardinality(Below(i)) # 0
    BY <2>2, <2>3, FS_EmptySet
  <2> QED BY <1>1, <2>2, <2>4 DEF Rank
<1>3. ASSUME NEW i \in at, NEW h \in at, i < h
      PROVE  Rank(at, i) < Rank(at, h)
  <2>1. \A g \in at : g <= i => g <= h /\ g # h
    BY <1>3
  <2>6. Below(i) \in SUBSET (Below(h) \ {h})
    BY <2>1
  <2>2. h \in Below(h)
    OBVIOUS
  <2>3. IsFiniteSet(Below(h)) /\ IsFiniteSet(Below(h) \ {h})
        /\ Cardinality(Below(h) \ {h}) = Cardinality(Below(h)) - 1
    BY <1>2, <2>2, FS_RemoveElement
  <2>4. Cardinality(Below(i)) <= Cardinality(Below(h) \ {h})
    BY <2>3, <2>6, FS_Subset
  <2>5. Cardinality(Below(i)) \in 1 .. c /\ Cardinality(Below(h)) \in 1 .. c
        /\ Rank(at, i) = Cardinality(Below(i)) /\ Rank(at, h) = Cardinality(Below(h))
    BY <1>2
  <2> QED BY <1>1, <2>3, <2>4, <2>5
<1>4. \A i, h \in at : Rank(at, i) = Rank(at, h) => i = h
  <2> SUFFICES ASSUME NEW i \in at, NEW h \in at, Rank(at, i) = Rank(at, h), i # h
               PROVE  FALSE
    OBVIOUS
  <2>1. i \in Nat /\ h \in Nat /\ (i < h \/ h < i)
    OBVIOUS
  <2>2. Rank(at, i) \in 1 .. c
    BY <1>2
  <2> QED BY <1>1, <1>3, <2>1, <2>2
<1>5. \A i \in at : Rank(at, i) \in 1 .. c
  BY <1>2
<1> DEFINE f == [i \in at |-> Rank(at, i)]
<1>6. f \in Injection(at, 1 .. c)
  BY <1>4, <1>5 DEF Injection, IsInjective
<1>7. IsFiniteSet(1 .. c) /\ Cardinality(1 .. c) = c
  BY <1>1, FS_Interval
<1>8. f \in Surjection(at, 1 .. c)
  BY <1>6, <1>7, FS_Injection
<1>9. \A k \in 1 .. c : \E i \in at : Rank(at, i) = k
  BY <1>8 DEF Surjection
<1> QED BY <1>1, <1>4, <1>5, <1>9

\* Each element that is asked for is there once, at a place of its own.
LEMMA OnlyFacts ==
    ASSUME NEW T, NEW s \in Seq(T), NEW S
    PROVE  /\ Only(s, S) \in Seq(T)
           /\ Range(Only(s, S)) = Range(s) \cap S
           /\ \A k, l \in DOMAIN Only(s, S) : k # l =>
                \E i, h \in DOMAIN s :
                    i # h /\ Only(s, S)[k] = s[i] /\ Only(s, S)[l] = s[h]
<1> DEFINE at == Stays(s, S)
           c == Cardinality(at)
           P(k) == CHOOSE i \in at : Rank(at, i) = k
<1>1. DOMAIN s = 1 .. Len(s) /\ Len(s) \in Nat /\ \A i \in DOMAIN s : s[i] \in T
  OBVIOUS
<1>2. at \subseteq DOMAIN s /\ at \subseteq Nat /\ \A i \in DOMAIN s : i \in at <=> s[i] \in S
  BY <1>1 DEF Stays
<1> HIDE DEF at
<1>3. IsFiniteSet(at)
  <2>1. IsFiniteSet(1 .. Len(s))
    BY <1>1, FS_Interval
  <2>2. at \in SUBSET (1 .. Len(s))
    BY <1>1, <1>2
  <2> QED BY <2>1, <2>2, FS_Subset
<1>4. /\ c \in Nat
      /\ \A i \in at : Rank(at, i) \in 1 .. c
      /\ \A i, h \in at : Rank(at, i) = Rank(at, h) => i = h
      /\ \A k \in 1 .. c : \E i \in at : Rank(at, i) = k
  BY <1>2, <1>3, RankFacts
<1>5. \A k \in 1 .. c : P(k) \in at /\ Rank(at, P(k)) = k
  BY <1>4
<1>6. Only(s, S) = [k \in 1 .. c |-> s[P(k)]]
  BY DEF Only, at
<1> HIDE DEF P, c
<1>7. DOMAIN Only(s, S) = 1 .. c /\ \A k \in 1 .. c : Only(s, S)[k] = s[P(k)]
  BY <1>6
<1>8. Only(s, S) \in Seq(T)
  BY <1>1, <1>2, <1>4, <1>5, <1>6
<1>9. Range(Only(s, S)) \subseteq Range(s) \cap S
  BY <1>2, <1>5, <1>7 DEF Range
<1>10. ASSUME NEW i \in DOMAIN s, s[i] \in S
       PROVE  s[i] \in Range(Only(s, S))
  <2>1. i \in at
    BY <1>2, <1>10
  <2>2. Rank(at, i) \in 1 .. c
    BY <1>4, <2>1
  <2>3. P(Rank(at, i)) = i
    BY <1>4, <1>5, <2>1, <2>2
  <2> QED BY <1>7, <2>2, <2>3 DEF Range
<1>11. Range(s) \cap S \subseteq Range(Only(s, S))
  BY <1>10 DEF Range
<1>12. ASSUME NEW k \in 1 .. c, NEW l \in 1 .. c, k # l
       PROVE  \E i, h \in DOMAIN s :
                  i # h /\ Only(s, S)[k] = s[i] /\ Only(s, S)[l] = s[h]
  <2>1. P(k) \in DOMAIN s /\ P(l) \in DOMAIN s /\ P(k) # P(l)
    BY <1>2, <1>5, <1>12
  <2> QED BY <1>7, <2>1
<1>13. Range(Only(s, S)) = Range(s) \cap S
  BY <1>9, <1>11
<1> QED BY <1>7, <1>8, <1>12, <1>13


\* The elements of a joined sequence.
LEMMA ConcatFacts ==
    ASSUME NEW T, NEW s \in Seq(T), NEW u \in Seq(T)
    PROVE  /\ s \o u \in Seq(T) /\ Range(s \o u) = Range(s) \cup Range(u)
           /\ DOMAIN (s \o u) = 1 .. Len(s) + Len(u)
           /\ \A i \in DOMAIN s : (s \o u)[i] = s[i]
           /\ \A k \in DOMAIN (s \o u) : k \notin DOMAIN s =>
                k - Len(s) \in DOMAIN u /\ (s \o u)[k] = u[k - Len(s)]
<1>1. /\ s \o u \in Seq(T) /\ DOMAIN s = 1 .. Len(s) /\ DOMAIN u = 1 .. Len(u)
      /\ Len(s) \in Nat /\ Len(u) \in Nat /\ DOMAIN (s \o u) = 1 .. Len(s) + Len(u)
  OBVIOUS
<1>2. \A i \in 1 .. Len(s) : (s \o u)[i] = s[i]
  OBVIOUS
<1>3. ASSUME NEW k \in 1 .. Len(s) + Len(u), k \notin 1 .. Len(s)
      PROVE  k - Len(s) \in 1 .. Len(u) /\ (s \o u)[k] = u[k - Len(s)]
  BY <1>1, <1>3
<1>4. ASSUME NEW i \in 1 .. Len(u)
      PROVE  /\ Len(s) + i \in 1 .. Len(s) + Len(u) /\ (s \o u)[Len(s) + i] = u[i]
  BY <1>1
<1> DEFINE w == s \o u
<1>5. \A i \in 1 .. Len(u) : Len(s) + i \in DOMAIN w /\ w[Len(s) + i] = u[i]
  BY <1>1, <1>4
<1>6. DOMAIN w = 1 .. Len(s) + Len(u) /\ \A i \in 1 .. Len(s) : w[i] = s[i]
  BY <1>1, <1>2
<1>7. \A k \in DOMAIN w : k \notin 1 .. Len(s) => k - Len(s) \in 1 .. Len(u) /\ w[k] = u[k - Len(s)]
  BY <1>3, <1>6
<1> HIDE DEF w
<1>8. Range(u) \subseteq Range(w)
  BY <1>1, <1>5 DEF Range
<1>9. Range(s) \subseteq Range(w)
  <2>1. \A i \in 1 .. Len(s) : i \in DOMAIN w
    BY <1>1, <1>6
  <2> QED BY <1>1, <1>6, <2>1 DEF Range
<1>10. Range(w) \subseteq Range(s) \cup Range(u)
  BY <1>1, <1>6, <1>7 DEF Range
<1>11. Range(w) = Range(s) \cup Range(u)
  BY <1>8, <1>9, <1>10
<1> QED BY <1>1, <1>6, <1>7, <1>11 DEF w

\* The oldest and the newest few of a map.
LEMMA FirstFewFacts ==
    ASSUME NEW T, NEW s \in Seq(T), NEW n \in Int
    PROVE  /\ FirstFew(s, n) \in Seq(T) /\ Range(FirstFew(s, n)) \subseteq Range(s)
           /\ \A k \in DOMAIN FirstFew(s, n) : k \in DOMAIN s /\ FirstFew(s, n)[k] = s[k]
<1>1. FirstFew(s, n) \in Seq(T)
      /\ \A k \in DOMAIN FirstFew(s, n) : k \in DOMAIN s /\ FirstFew(s, n)[k] = s[k]
  BY DEF FirstFew
<1> QED BY <1>1 DEF Range

LEMMA LastFewFacts ==
    ASSUME NEW T, NEW s \in Seq(T), NEW n \in Nat
    PROVE  /\ LastFew(s, n) \in Seq(T) /\ Range(LastFew(s, n)) \subseteq Range(s)
           /\ \E d \in Nat : \A k \in DOMAIN LastFew(s, n) :
                k + d \in DOMAIN s /\ LastFew(s, n)[k] = s[k + d]
<1>1. CASE Len(s) > n
  <2> DEFINE d == Len(s) - n
  <2>1. LastFew(s, n) = SubSeq(s, d + 1, Len(s)) /\ d \in Nat
    BY <1>1 DEF LastFew
  <2>2. SubSeq(s, d + 1, Len(s)) \in Seq(T)
        /\ \A k \in DOMAIN SubSeq(s, d + 1, Len(s)) :
             k + d \in DOMAIN s /\ SubSeq(s, d + 1, Len(s))[k] = s[k + d]
    BY <1>1
  <2> HIDE DEF d
  <2> QED BY <2>1, <2>2 DEF Range
<1>2. CASE ~ (Len(s) > n)
  <2>1. LastFew(s, n) = s
    BY <1>2 DEF LastFew
  <2>2. 0 \in Nat /\ \A k \in DOMAIN s : k + 0 \in DOMAIN s /\ s[k] = s[k + 0]
    OBVIOUS
  <2> QED BY <2>1, <2>2
<1> QED BY <1>1, <1>2

-----------------------------------------------------------------------------
(* The maps.                                                                *)

\* A map has one value per name.
OneEach(seq) == \A i, h \in DOMAIN seq : name[seq[i]] = name[seq[h]] => i = h
OneTombEach(tombs) ==
    \A i, h \in DOMAIN tombs : name[tombs[i].task] = name[tombs[h].task] => i = h

LEMMA OneEachFacts ==
    ASSUME NEW s \in Seq(Tasks), OneEach(s),
           NEW t \in Range(s), NEW u \in Range(s), name[t] = name[u]
    PROVE  t = u
BY DEF OneEach, Range

LEMMA OnlyOneEach ==
    ASSUME NEW s \in Seq(Tasks), OneEach(s), NEW S
    PROVE  OneEach(Only(s, S))
<1> SUFFICES ASSUME NEW k \in DOMAIN Only(s, S), NEW l \in DOMAIN Only(s, S),
                    name[Only(s, S)[k]] = name[Only(s, S)[l]], k # l
             PROVE  FALSE
  BY DEF OneEach
<1>1. PICK i \in DOMAIN s, h \in DOMAIN s :
        i # h /\ Only(s, S)[k] = s[i] /\ Only(s, S)[l] = s[h]
  BY OnlyFacts
<1> QED BY <1>1 DEF OneEach

LEMMA OnlyOneTombEach ==
    ASSUME NEW s \in Seq(Tombs), OneTombEach(s), NEW S
    PROVE  OneTombEach(Only(s, S))
<1> SUFFICES ASSUME NEW k \in DOMAIN Only(s, S), NEW l \in DOMAIN Only(s, S),
                    name[Only(s, S)[k].task] = name[Only(s, S)[l].task], k # l
             PROVE  FALSE
  BY DEF OneTombEach
<1>1. PICK i \in DOMAIN s, h \in DOMAIN s :
        i # h /\ Only(s, S)[k] = s[i] /\ Only(s, S)[l] = s[h]
  BY OnlyFacts
<1> QED BY <1>1 DEF OneTombEach

\* Map.set replaces the value of a name that is there and adds the others.
LEMMA SetEntriesFacts ==
    ASSUME NEW s \in Seq(Tasks), OneEach(s), NEW ts \in Seq(Tasks), OneEach(ts)
    PROVE  /\ SetEntries(s, ts) \in Seq(Tasks) /\ OneEach(SetEntries(s, ts))
           /\ Range(SetEntries(s, ts)) =
                {t \in Range(s) : name[t] \notin NamesOf(Range(ts))} \cup Range(ts)
<1> DEFINE N == NamesOf(Range(ts))
           M == NamesOf(Range(s))
           kept == [i \in DOMAIN s |-> IF name[s[i]] \in N
                                       THEN CHOOSE t \in Range(ts) : name[t] = name[s[i]]
                                       ELSE s[i]]
           fresh == Only(ts, {t \in Tasks : name[t] \notin M})
<1>1. /\ DOMAIN s = 1 .. Len(s) /\ Len(s) \in Nat /\ \A i \in DOMAIN s : s[i] \in Tasks
      /\ Range(ts) \subseteq Tasks /\ Range(s) \subseteq Tasks
  BY DEF Range
<1>2. \A i \in DOMAIN s : name[s[i]] \in N => kept[i] \in Range(ts) /\ name[kept[i]] = name[s[i]]
  BY DEF NamesOf
<1>3. \A i \in DOMAIN s : name[s[i]] \notin N => kept[i] = s[i]
  OBVIOUS
<1>4. DOMAIN kept = DOMAIN s /\ \A i \in DOMAIN s : name[kept[i]] = name[s[i]]
  BY <1>2, <1>3
<1>5. kept \in Seq(Tasks)
  <2>1. kept \in [1 .. Len(s) -> Tasks]
    BY <1>1, <1>2, <1>3
  <2> HIDE DEF kept
  <2> QED BY <1>1, <2>1
<1>6. /\ fresh \in Seq(Tasks) /\ OneEach(fresh)
      /\ Range(fresh) = {t \in Range(ts) : name[t] \notin M}
  BY <1>1, OnlyFacts, OnlyOneEach
<1>7. SetEntries(s, ts) = kept \o fresh
  BY DEF SetEntries
<1> HIDE DEF kept, fresh
<1> DEFINE w == kept \o fresh
<1>8. /\ w \in Seq(Tasks) /\ Range(w) = Range(kept) \cup Range(fresh)
      /\ DOMAIN w = 1 .. Len(kept) + Len(fresh) /\ \A i \in DOMAIN kept : w[i] = kept[i]
      /\ \A k \in DOMAIN w : k \notin DOMAIN kept =>
           k - Len(kept) \in DOMAIN fresh /\ w[k] = fresh[k - Len(kept)]
  BY <1>5, <1>6, ConcatFacts
<1> HIDE DEF w
<1>9. OneEach(w)
  <2>1. Len(kept) \in Nat /\ Len(fresh) \in Nat
    BY <1>5, <1>6
  <2>2. \A k \in DOMAIN w : k \notin DOMAIN kept => w[k] \in Range(fresh)
    BY <1>8 DEF Range
  <2>3. \A k \in DOMAIN w : k \in DOMAIN kept => name[w[k]] \in M
    BY <1>4, <1>8 DEF NamesOf, Range
  <2>4. \A k \in DOMAIN w : k \notin DOMAIN kept => name[w[k]] \notin M
    BY <1>6, <2>2
  <2>5. ASSUME NEW k \in DOMAIN w, NEW l \in DOMAIN w, name[w[k]] = name[w[l]],
               k \in DOMAIN kept, l \in DOMAIN kept
        PROVE  k = l
    BY <1>4, <1>8, <2>5 DEF OneEach
  <2>6. ASSUME NEW k \in DOMAIN w, NEW l \in DOMAIN w, name[w[k]] = name[w[l]],
               k \notin DOMAIN kept, l \notin DOMAIN kept
        PROVE  k = l
    <3>1. k - Len(kept) = l - Len(kept)
      BY <1>6, <1>8, <2>6 DEF OneEach
    <3> QED BY <1>8, <2>1, <3>1
  <2> QED BY <2>3, <2>4, <2>5, <2>6 DEF OneEach
<1>10. Range(kept) \subseteq {t \in Range(s) : name[t] \notin N} \cup Range(ts)
  BY <1>2, <1>3, <1>4 DEF Range
<1>11. {t \in Range(s) : name[t] \notin N} \subseteq Range(kept)
  BY <1>3, <1>4 DEF Range
<1>12. Range(ts) \subseteq Range(kept) \cup Range(fresh)
  <2> SUFFICES ASSUME NEW t \in Range(ts), name[t] \in M PROVE t \in Range(kept)
    BY <1>6
  <2>1. PICK i \in DOMAIN s : name[s[i]] = name[t]
    BY DEF NamesOf, Range
  <2>2. kept[i] \in Range(ts) /\ name[kept[i]] = name[t]
    BY <1>2, <2>1 DEF NamesOf
  <2>3. kept[i] = t
    BY <2>2, OneEachFacts
  <2> QED BY <1>4, <2>3 DEF Range
<1>13. Range(fresh) \subseteq Range(ts)
  BY <1>6
<1> QED BY <1>7, <1>8, <1>9, <1>10, <1>11, <1>12, <1>13 DEF w

\* The same for a single task.
LEMMA SetEntryFacts ==
    ASSUME NEW s \in Seq(Tasks), OneEach(s), NEW t \in Tasks
    PROVE  /\ SetEntry(s, t) \in Seq(Tasks) /\ OneEach(SetEntry(s, t))
           /\ Range(SetEntry(s, t)) = {u \in Range(s) : name[u] # name[t]} \cup {t}
<1>1. <<t>> \in Seq(Tasks) /\ OneEach(<<t>>)
  BY DEF OneEach
<1>2. Range(<<t>>) = {t} /\ NamesOf({t}) = {name[t]}
  BY DEF Range, NamesOf
<1> QED BY <1>1, <1>2, SetEntriesFacts DEF SetEntry

\* Map.delete.
LEMMA WithoutNameFacts ==
    ASSUME NEW s \in Seq(Tasks), OneEach(s), NEW n
    PROVE  /\ WithoutName(s, n) \in Seq(Tasks) /\ OneEach(WithoutName(s, n))
           /\ Range(WithoutName(s, n)) = {u \in Range(s) : name[u] # n}
<1>1. Range(s) \subseteq Tasks
  BY DEF Range
<1> QED BY <1>1, OnlyFacts, OnlyOneEach DEF WithoutName

\* What makes room: only settled entries leave, each for a tombstone of its
\* own, and only what is recorded as forgotten loses its reservation.
MakesRoom(tasks, entries, tombs, rs) ==
    /\ pending' \in Seq(Tasks) /\ OneEach(pending')
    /\ evicted' \in Seq(Tombs) /\ OneTombEach(evicted')
    /\ reserved' \in Seq(Tasks) /\ OneEach(reserved')
    /\ Range(pending') \subseteq Range(entries)
    /\ \A t \in Range(entries) : tasks[t].status = "running" => t \in Range(pending')
    /\ \A b \in Range(evicted') :
         b \in Range(tombs) \/ (b.task \in Range(entries) /\ b.delivered = tasks[b.task].delivered)
    /\ Range(reserved') \subseteq Range(rs)
    /\ Range(rs) \subseteq Range(reserved') \cup forgotten'
    /\ forgotten \subseteq forgotten' /\ forgotten' \subseteq forgotten \cup Tasks

LEMMA PrunedFacts ==
    ASSUME NEW tasks, \A t \in Tasks : tasks[t].delivered \in BOOLEAN,
           NEW entries \in Seq(Tasks), OneEach(entries),
           NEW tombs \in Seq(Tombs), OneTombEach(tombs),
           NEW rs \in Seq(Tasks), OneEach(rs),
           Pruned(tasks, entries, tombs, rs)
    PROVE  MakesRoom(tasks, entries, tombs, rs)
<1> DEFINE settled == Only(entries, {t \in Tasks : tasks[t].status # "running"})
           out == FirstFew(settled, Len(entries) - MaxPending)
           stay == Only(entries, Tasks \ Range(out))
           fresh == [i \in DOMAIN out |-> [task |-> out[i], delivered |-> tasks[out[i]].delivered]]
           others == Only(tombs, {b \in Tombs : name[b.task] \notin NamesOf(Range(out))})
           left == LastFew(others \o fresh, MaxEvicted)
           lost == Unprotected(stay, left, rs)
<1>1. /\ pending' = stay /\ evicted' = left /\ reserved' = Only(rs, Tasks \ lost)
      /\ forgotten' = forgotten \cup lost
  BY DEF Pruned
<1>2. MaxPending \in Nat /\ MaxEvicted \in Nat /\ MaxReserved \in Nat
  BY TasksAssumption
<1>3. Range(entries) \subseteq Tasks /\ Range(rs) \subseteq Tasks /\ Range(tombs) \subseteq Tombs
  BY DEF Range
<1>4. /\ settled \in Seq(Tasks) /\ OneEach(settled)
      /\ Range(settled) = {t \in Range(entries) : tasks[t].status # "running"}
  BY <1>3, OnlyFacts, OnlyOneEach
<1> HIDE DEF settled
<1>5. /\ out \in Seq(Tasks) /\ Range(out) \subseteq Range(settled)
      /\ \A k \in DOMAIN out : k \in DOMAIN settled /\ out[k] = settled[k]
  <2>1. Len(entries) - MaxPending \in Int
    BY <1>2
  <2> QED BY <1>4, <2>1, FirstFewFacts
<1>6. OneEach(out)
  BY <1>4, <1>5 DEF OneEach
<1> HIDE DEF out
<1>7. /\ stay \in Seq(Tasks) /\ OneEach(stay) /\ Range(stay) = Range(entries) \ Range(out)
  BY <1>3, OnlyFacts, OnlyOneEach
<1> HIDE DEF stay
<1>8. /\ others \in Seq(Tombs) /\ OneTombEach(others)
      /\ Range(others) = {b \in Range(tombs) : name[b.task] \notin NamesOf(Range(out))}
  BY <1>3, OnlyFacts, OnlyOneTombEach
<1> HIDE DEF others
<1>9. DOMAIN fresh = DOMAIN out /\ DOMAIN out = 1 .. Len(out) /\ Len(out) \in Nat
      /\ \A i \in DOMAIN out : /\ fresh[i].task = out[i] /\ out[i] \in Tasks /\ out[i] \in Range(out)
                               /\ fresh[i] \in Tombs
                               /\ fresh[i].delivered = tasks[out[i]].delivered
  BY <1>5 DEF Range, Tombs
<1>10. fresh \in Seq(Tombs) /\ OneTombEach(fresh)
  <2>1. OneTombEach(fresh)
    BY <1>6, <1>9 DEF OneTombEach, OneEach
  <2>2. fresh = [i \in 1 .. Len(out) |-> fresh[i]]
    BY <1>9
  <2> HIDE DEF fresh
  <2>3. fresh \in [1 .. Len(out) -> Tombs]
    BY <1>9, <2>2
  <2> QED BY <1>9, <2>1, <2>3
<1> HIDE DEF fresh
<1> DEFINE w == others \o fresh
<1>11. /\ w \in Seq(Tombs) /\ Range(w) = Range(others) \cup Range(fresh)
       /\ DOMAIN w = 1 .. Len(others) + Len(fresh) /\ \A i \in DOMAIN others : w[i] = others[i]
       /\ \A k \in DOMAIN w : k \notin DOMAIN others =>
            k - Len(others) \in DOMAIN fresh /\ w[k] = fresh[k - Len(others)]
  BY <1>8, <1>10, ConcatFacts
<1> HIDE DEF w
<1>12. OneTombEach(w)
  <2>1. Len(others) \in Nat
    BY <1>8
  <2>2. \A k \in DOMAIN w : k \in DOMAIN others => name[w[k].task] \notin NamesOf(Range(out))
    <3>1. \A k \in DOMAIN others : others[k] \in Range(others)
      BY DEF Range
    <3> QED BY <1>8, <1>11, <3>1
  <2>3. \A k \in DOMAIN w : k \notin DOMAIN others => name[w[k].task] \in NamesOf(Range(out))
    BY <1>9, <1>11 DEF NamesOf
  <2>4. ASSUME NEW k \in DOMAIN w, NEW l \in DOMAIN w, name[w[k].task] = name[w[l].task],
               k \in DOMAIN others, l \in DOMAIN others
        PROVE  k = l
    BY <1>8, <1>11, <2>4 DEF OneTombEach
  <2>5. ASSUME NEW k \in DOMAIN w, NEW l \in DOMAIN w, name[w[k].task] = name[w[l].task],
               k \notin DOMAIN others, l \notin DOMAIN others
        PROVE  k = l
    <3>1. k - Len(others) = l - Len(others)
      BY <1>10, <1>11, <2>5 DEF OneTombEach
    <3> QED BY <1>11, <2>1, <3>1
  <2> QED BY <2>2, <2>3, <2>4, <2>5 DEF OneTombEach
<1>13. /\ left \in Seq(Tombs) /\ Range(left) \subseteq Range(w)
       /\ \E d \in Nat : \A k \in DOMAIN left : k + d \in DOMAIN w /\ left[k] = w[k + d]
  <2>1. left = LastFew(w, MaxEvicted)
    BY DEF w
  <2> HIDE DEF left
  <2> DEFINE v == LastFew(w, MaxEvicted)
  <2>2. /\ v \in Seq(Tombs) /\ Range(v) \subseteq Range(w)
        /\ \E d \in Nat : \A k \in DOMAIN v : k + d \in DOMAIN w /\ v[k] = w[k + d]
    <3>1. MaxEvicted \in Nat /\ w \in Seq(Tombs)
      BY <1>2, <1>11
    <3> QED BY <3>1, LastFewFacts
  <2>3. left = v
    BY <2>1
  <2> HIDE DEF v
  <2> QED BY <2>2, <2>3
<1> HIDE DEF left
<1>14. OneTombEach(left)
  <2>1. PICK d \in Nat : \A k \in DOMAIN left : k + d \in DOMAIN w /\ left[k] = w[k + d]
    BY <1>13
  <2>2. DOMAIN left \subseteq Nat
    <3>1. DOMAIN left = 1 .. Len(left)
      BY <1>13
    <3> QED BY <3>1
  <2>3. \A k, l \in DOMAIN left : name[left[k].task] = name[left[l].task] => k + d = l + d
    BY <1>12, <2>1 DEF OneTombEach
  <2>4. \A k, l \in Nat : k + d = l + d => k = l
    OBVIOUS
  <2> QED BY <2>2, <2>3, <2>4 DEF OneTombEach
<1>15. lost \subseteq Range(rs)
  <2> DEFINE held == NamesOf(Range(stay)) \cup {name[left[i].task] : i \in DOMAIN left}
             loose == Only(rs, {t \in Tasks : name[t] \notin held})
  <2>1. loose \in Seq(Tasks) /\ Range(loose) \subseteq Range(rs)
    BY OnlyFacts
  <2>2. lost = Range(FirstFew(loose, Len(rs) - MaxReserved))
    BY DEF Unprotected
  <2>3. Len(rs) - MaxReserved \in Int
    BY <1>2
  <2> HIDE DEF loose
  <2> QED BY <2>1, <2>2, <2>3, FirstFewFacts
<1> HIDE DEF lost
<1>16. /\ reserved' \in Seq(Tasks) /\ OneEach(reserved')
       /\ Range(reserved') = Range(rs) \ lost
  BY <1>1, <1>3, OnlyFacts, OnlyOneEach
<1>17. \A t \in Range(entries) : tasks[t].status = "running" => t \in Range(pending')
  BY <1>1, <1>4, <1>5, <1>7
<1>18. \A b \in Range(evicted') :
         b \in Range(tombs) \/ ( /\ b.task \in Range(entries)
                                 /\ b.delivered = tasks[b.task].delivered )
  <2>1. \A b \in Range(fresh) : b.task \in Range(out) /\ b.delivered = tasks[b.task].delivered
    BY <1>9 DEF Range
  <2> QED BY <1>1, <1>4, <1>5, <1>8, <1>11, <1>13, <2>1
<1>19. pending' \in Seq(Tasks) /\ OneEach(pending') /\ Range(pending') \subseteq Range(entries)
  BY <1>1, <1>7
<1>20. evicted' \in Seq(Tombs) /\ OneTombEach(evicted')
  BY <1>1, <1>13, <1>14
<1>21. /\ Range(reserved') \subseteq Range(rs) /\ Range(rs) \subseteq Range(reserved') \cup forgotten'
       /\ forgotten \subseteq forgotten' /\ forgotten' \subseteq forgotten \cup Tasks
  BY <1>1, <1>3, <1>15, <1>16
<1> QED BY <1>16, <1>17, <1>18, <1>19, <1>20, <1>21 DEF MakesRoom

-----------------------------------------------------------------------------
(* The invariant.                                                           *)

Active == {t \in Tasks : task[t].stage # "new"}

\* Where a task's own code is tells what its entry may say, and nothing is in
\* the chat that the host was not told.
StageOK(tasks) ==
    \A t \in Tasks :
        /\ tasks[t].stage = "new" => tasks[t].status = "running"
        /\ tasks[t].stage = "keeping" => tasks[t].outcome # "running"
        /\ tasks[t].stage \in {"failing", "over"} => tasks[t].status # "running"
        /\ tasks[t].told = "" => ~ tasks[t].delivered

\* The maps hold only what was spawned, and what a join holds on to without an
\* entry has settled.
KnownInv ==
    /\ Range(pending) \cup Range(reserved) \cup Buried \subseteq Active
    /\ \A j \in Joins : \A t \in join[j].others : t \in Active /\ task[t].status # "running"

\* The tasks that were spawned into a quiet name and whose result is still owed.
Outstanding ==
    {t \in Active \ (collected \cup forgotten) : task[t].clean /\ ~ task[t].delivered}

\* Such a task has its name for itself: the reservation is its own, no other
\* task of the name has an entry or a run that could take it, and no tombstone
\* gives the name away.
NameIsKept(t) ==
    /\ t \in Range(reserved)
    /\ \A u \in Tasks \ {t} :
         name[u] = name[t] => task[u].stage \in {"new", "over"} /\ u \notin Range(pending)
    /\ \A b \in Range(evicted) : name[b.task] = name[t] => ~ b.delivered

Inv ==
    /\ TypeOK
    /\ StageOK(task)
    /\ RunningIsCancellable
    /\ KnownInv
    /\ \A t \in Outstanding : NameIsKept(t)

Stages == {"new", "work", "keeping", "failing", "over"}
TaskStates ==
    [stage : Stages, status : Statuses, outcome : Statuses, told : Statuses \cup {""},
     delivered : BOOLEAN, clean : BOOLEAN]

LEMMA Types ==
    TypeOK <=>
        /\ reinject \in BOOLEAN /\ name \in [Tasks -> Names]
        /\ task \in [Tasks -> TaskStates]
        /\ pending \in Seq(Tasks) /\ OneEach(pending)
        /\ reserved \in Seq(Tasks) /\ OneEach(reserved)
        /\ evicted \in Seq(Tombs) /\ OneTombEach(evicted)
        /\ join \in [Joins -> [stage : {"new", "waiting", "over"}, entries : SUBSET Tasks,
                               others : SUBSET Tasks]]
        /\ collected \subseteq Tasks /\ forgotten \subseteq Tasks
BY DEF TypeOK, TaskStates, Stages, OneEach, OneTombEach

\* What notifyAsyncComplete changes of the tasks, and of the tombstones.
Announced(tasks, ts, new) ==
    /\ new \in [Tasks -> TaskStates] /\ StageOK(new)
    /\ \A t \in Tasks :
         /\ new[t].stage = tasks[t].stage
         /\ new[t].status = tasks[t].status
         /\ new[t].clean = tasks[t].clean
         /\ tasks[t].delivered => new[t].delivered
         /\ t \in ts /\ reinject /\ tasks[t].told = "" => new[t].delivered

LEMMA ToldFacts ==
    ASSUME NEW tasks \in [Tasks -> TaskStates], StageOK(tasks), reinject \in BOOLEAN, NEW ts
    PROVE  Announced(tasks, ts, Told(tasks, ts))
<1> DEFINE new == Told(tasks, ts)
<1>1. ASSUME NEW t \in Tasks
      PROVE  /\ new[t] \in TaskStates
             /\ new[t].stage = tasks[t].stage /\ new[t].status = tasks[t].status
             /\ new[t].clean = tasks[t].clean /\ new[t].outcome = tasks[t].outcome
             /\ tasks[t].delivered => new[t].delivered
             /\ t \in ts /\ reinject /\ tasks[t].told = "" => new[t].delivered
             /\ new[t].told = "" => ~ new[t].delivered
  <2>1. CASE t \in ts /\ tasks[t].told = ""
    <3>1. new[t] = [tasks[t] EXCEPT !.told = tasks[t].status, !.delivered = reinject]
      BY <2>1 DEF Told
    <3>2. tasks[t].status # ""
      BY DEF TaskStates, Statuses
    <3> QED BY <2>1, <3>1, <3>2 DEF TaskStates, StageOK
  <2>2. CASE ~ (t \in ts /\ tasks[t].told = "")
    <3>1. new[t] = tasks[t]
      BY <2>2 DEF Told
    <3> QED BY <2>2, <3>1 DEF StageOK
  <2> QED BY <2>1, <2>2
<1>2. new = [t \in Tasks |-> new[t]]
  BY DEF Told
<1> HIDE DEF new
<1>3. new \in [Tasks -> TaskStates]
  BY <1>1, <1>2
<1>4. StageOK(new)
  BY <1>1 DEF StageOK
<1>5. Announced(tasks, ts, new)
  BY <1>1, <1>3, <1>4 DEF Announced
<1> QED BY <1>5 DEF new

LEMMA MarkedFacts ==
    ASSUME evicted \in Seq(Tombs), OneTombEach(evicted), reinject \in BOOLEAN, NEW ts
    PROVE  /\ Marked(ts) \in Seq(Tombs) /\ OneTombEach(Marked(ts))
           /\ \A b \in Range(Marked(ts)) : \E c \in Range(evicted) :
                /\ b.task = c.task
                /\ b.delivered => \/ c.delivered
                                  \/ reinject /\ \E t \in ts : task[t].told = "" /\ name[t] = name[c.task]
<1> DEFINE new == Marked(ts)
<1>1. DOMAIN evicted = 1 .. Len(evicted) /\ Len(evicted) \in Nat
      /\ \A i \in DOMAIN evicted : evicted[i] \in Tombs /\ evicted[i] \in Range(evicted)
  BY DEF Range
<1>2. DOMAIN new = DOMAIN evicted /\ new = [i \in DOMAIN evicted |-> new[i]]
  BY DEF Marked
<1>3. ASSUME NEW i \in DOMAIN evicted
      PROVE  /\ new[i] \in Tombs /\ new[i].task = evicted[i].task
             /\ new[i].delivered =>
                  \/ evicted[i].delivered
                  \/ reinject /\ \E t \in ts : task[t].told = "" /\ name[t] = name[evicted[i].task]
  BY <1>1 DEF Marked, Tombs, NamesOf
<1> HIDE DEF new
<1>4. new \in Seq(Tombs)
  <2>1. new \in [1 .. Len(evicted) -> Tombs]
    BY <1>1, <1>2, <1>3
  <2> QED BY <1>1, <2>1
<1>5. OneTombEach(new)
  BY <1>2, <1>3 DEF OneTombEach
<1>6. ASSUME NEW b \in Range(new)
      PROVE  \E c \in Range(evicted) :
                /\ b.task = c.task
                /\ b.delivered => \/ c.delivered
                                  \/ reinject /\ \E t \in ts : task[t].told = "" /\ name[t] = name[c.task]
  <2>1. PICK i \in DOMAIN evicted : b = new[i]
    BY <1>2 DEF Range
  <2> QED BY <1>1, <1>3, <2>1
<1> QED BY <1>4, <1>5, <1>6 DEF new

-----------------------------------------------------------------------------
(* The steps.                                                               *)

LEMMA Start == Init => Inv
<1> SUFFICES ASSUME Init PROVE Inv
  OBVIOUS
<1>1. \A t \in Tasks : /\ task[t].stage = "new" /\ task[t].status = "running"
                        /\ task[t].told = "" /\ ~ task[t].delivered /\ ~ task[t].clean
  BY DEF Init, NoTask
<1>2. Range(pending) = {} /\ Range(reserved) = {} /\ Buried = {}
  BY DEF Init, Range, Buried
<1>3. TypeOK
  <2>1. NoTask \in TaskStates /\ NoJoin \in [stage : {"new", "waiting", "over"},
                                             entries : SUBSET Tasks, others : SUBSET Tasks]
    BY DEF NoTask, NoJoin, TaskStates, Stages, Statuses
  <2>2. <<>> \in Seq(Tasks) /\ <<>> \in Seq(Tombs) /\ OneEach(<<>>) /\ OneTombEach(<<>>)
    BY DEF OneEach, OneTombEach
  <2> QED BY <2>1, <2>2, Types DEF Init
<1>4. StageOK(task)
  BY <1>1 DEF StageOK
<1>5. RunningIsCancellable
  BY <1>1 DEF RunningIsCancellable
<1>6. KnownInv
  BY <1>2 DEF KnownInv, Init, NoJoin
<1>7. Outstanding = {}
  BY <1>1 DEF Outstanding, Active
<1> QED BY <1>3, <1>4, <1>5, <1>6, <1>7 DEF Inv

\* Any step that changes what the tasks say, keeps a reservation for each
\* result that is still owed, gives no name away that is taken, and at most makes room after that.
LEMMA SettlingKeeps ==
    ASSUME Inv, UNCHANGED <<config, join, collected>>,
           NEW tasks \in [Tasks -> TaskStates], StageOK(tasks), task' = tasks,
           \A t \in Tasks :
                /\ tasks[t].stage = "new" <=> task[t].stage = "new"
                /\ task[t].stage = "over" => tasks[t].stage = "over"
                /\ tasks[t].clean = task[t].clean
                /\ tasks[t].status = "running" => task[t].status = "running"
                /\ task[t].delivered => tasks[t].delivered,
           NEW tombs \in Seq(Tombs), OneTombEach(tombs),
           \A b \in Range(tombs) : \E c \in Range(evicted) :
                /\ b.task = c.task
                /\ b.delivered =>
                    c.delivered \/ \A t \in Outstanding : name[t] = name[b.task] => tasks[t].delivered,
           NEW rs \in Seq(Tasks), OneEach(rs), Range(rs) \subseteq Active,
           \A t \in Outstanding : tasks[t].delivered \/ t \in Range(rs),
           MakesRoom(tasks, pending, tombs, rs)
    PROVE  Inv'
<1>1. /\ reinject \in BOOLEAN /\ name \in [Tasks -> Names]
      /\ task \in [Tasks -> TaskStates]
      /\ pending \in Seq(Tasks) /\ OneEach(pending)
      /\ join \in [Joins -> [stage : {"new", "waiting", "over"}, entries : SUBSET Tasks,
                             others : SUBSET Tasks]]
      /\ collected \subseteq Tasks /\ forgotten \subseteq Tasks
  BY Types DEF Inv
<1>3. /\ pending' \in Seq(Tasks) /\ OneEach(pending')
      /\ evicted' \in Seq(Tombs) /\ OneTombEach(evicted')
      /\ reserved' \in Seq(Tasks) /\ OneEach(reserved')
      /\ Range(pending') \subseteq Range(pending)
      /\ \A t \in Range(pending) : tasks[t].status = "running" => t \in Range(pending')
      /\ \A b \in Range(evicted') :
           b \in Range(tombs) \/ (b.task \in Range(pending) /\ b.delivered = tasks[b.task].delivered)
      /\ Range(reserved') \subseteq Range(rs)
      /\ Range(rs) \subseteq Range(reserved') \cup forgotten'
      /\ forgotten \subseteq forgotten' /\ forgotten' \subseteq forgotten \cup Tasks
  BY DEF MakesRoom
<1>4. name' = name /\ reinject' = reinject /\ join' = join /\ collected' = collected
  BY DEF config
<1>5. TypeOK'
  <2>1. OneEach(pending)' /\ OneEach(reserved)' /\ OneTombEach(evicted)'
    BY <1>3, <1>4 DEF OneEach, OneTombEach
  <2>2. task' \in [Tasks -> TaskStates]
    OBVIOUS
  <2>3. collected' \subseteq Tasks /\ forgotten' \subseteq Tasks
    BY <1>1, <1>3, <1>4
  <2> QED BY <1>1, <1>3, <1>4, <2>1, <2>2, <2>3
           DEF TypeOK, TaskStates, Stages, OneEach, OneTombEach
<1>6. StageOK(task)'
  BY DEF StageOK
<1>7. RunningIsCancellable'
  <2> SUFFICES ASSUME NEW t \in Tasks, tasks[t].stage # "new", tasks[t].status = "running"
               PROVE  t \in Range(pending')
    BY DEF RunningIsCancellable
  <2>1. t \in Range(pending)
    BY DEF Inv, RunningIsCancellable
  <2> QED BY <1>3, <2>1
<1>8. Active' = Active
  BY DEF Active
<1>9. KnownInv'
  <2>1. Range(pending) \cup Buried \subseteq Active
        /\ \A j \in Joins : \A t \in join[j].others : t \in Active /\ task[t].status # "running"
    BY DEF Inv, KnownInv
  <2>2. \A b \in Range(evicted') : b.task \in Active
    <3>1. \A c \in Range(evicted) : c.task \in Buried
      BY DEF Buried, Range
    <3> QED BY <1>3, <2>1, <3>1
  <2>3. Buried' \subseteq Active'
    BY <1>8, <2>2 DEF Buried, Range
  <2>4. Range(pending') \cup Range(reserved') \subseteq Active'
    BY <1>3, <1>8, <2>1
  <2>5. \A j \in Joins : \A t \in join'[j].others : t \in Active' /\ task'[t].status # "running"
    BY <1>4, <1>8, <2>1 DEF Active
  <2> QED BY <2>3, <2>4, <2>5 DEF KnownInv
<1>10. ASSUME NEW t \in Outstanding' PROVE NameIsKept(t)'
  <2>1. /\ t \in Active /\ t \in Tasks /\ t \notin collected /\ t \notin forgotten'
        /\ tasks[t].clean /\ ~ tasks[t].delivered
    BY <1>4, <1>8 DEF Outstanding, Active
  <2>2. t \in Outstanding
    BY <1>3, <2>1 DEF Outstanding
  <2>3. NameIsKept(t)
    BY <2>2 DEF Inv
  <2>4. t \in Range(reserved')
    BY <1>3, <2>1, <2>2
  <2>5. ASSUME NEW u \in Tasks \ {t}, name[u] = name[t]
        PROVE  tasks[u].stage \in {"new", "over"} /\ u \notin Range(pending')
    <3>1. task[u].stage \in {"new", "over"} /\ u \notin Range(pending)
      BY <2>3, <2>5 DEF NameIsKept
    <3> QED BY <1>3, <3>1
  <2>6. ASSUME NEW b \in Range(evicted'), name[b.task] = name[t], b.delivered
        PROVE  FALSE
    <3>1. CASE b \in Range(tombs)
      <4>1. PICK c \in Range(evicted) :
              /\ b.task = c.task
              /\ b.delivered =>
                   c.delivered \/ \A v \in Outstanding : name[v] = name[b.task] => tasks[v].delivered
        BY <3>1
      <4>2. ~ c.delivered
        BY <2>3, <2>6, <4>1 DEF NameIsKept
      <4> QED BY <2>1, <2>2, <2>6, <4>1, <4>2
    <3>2. CASE b.task \in Range(pending) /\ b.delivered = tasks[b.task].delivered
      <4>1. b.task \in Tasks
        BY <1>1, <3>2 DEF Range
      <4>2. b.task = t
        BY <2>3, <2>6, <3>2, <4>1 DEF NameIsKept
      <4> QED BY <2>1, <2>6, <3>2, <4>2
    <3> QED BY <1>3, <3>1, <3>2
  <2> QED BY <1>4, <2>4, <2>5, <2>6 DEF NameIsKept
<1> QED BY <1>5, <1>6, <1>7, <1>9, <1>10 DEF Inv

\* The facts about a state that the steps below start from.
LEMMA Facts ==
    ASSUME Inv
    PROVE  /\ reinject \in BOOLEAN /\ name \in [Tasks -> Names]
           /\ task \in [Tasks -> TaskStates] /\ StageOK(task)
           /\ pending \in Seq(Tasks) /\ OneEach(pending) /\ Range(pending) \subseteq Active
           /\ reserved \in Seq(Tasks) /\ OneEach(reserved) /\ Range(reserved) \subseteq Active
           /\ evicted \in Seq(Tombs) /\ OneTombEach(evicted)
           /\ Buried \subseteq Active /\ \A b \in Range(evicted) : b.task \in Buried
           /\ join \in [Joins -> [stage : {"new", "waiting", "over"}, entries : SUBSET Tasks,
                                  others : SUBSET Tasks]]
           /\ \A j \in Joins : \A t \in join[j].others : t \in Active /\ task[t].status # "running"
           /\ collected \subseteq Tasks /\ forgotten \subseteq Tasks
           /\ \A t \in Active : task[t].status = "running" => t \in Range(pending)
           /\ \A t \in Outstanding : NameIsKept(t)
<1>1. \A b \in Range(evicted) : b.task \in Buried
  BY DEF Buried, Range
<1>2. \A t \in Active : task[t].status = "running" => t \in Range(pending)
  BY DEF Inv, RunningIsCancellable, Active
<1> QED BY <1>1, <1>2, Types DEF Inv, KnownInv

LEMMA CancelKeeps ==
    ASSUME Inv, NEW ts \in SUBSET RunningTasks, Cancel(ts)
    PROVE  Inv'
<1> DEFINE marked == [t \in Tasks |-> IF t \in ts THEN [task[t] EXCEPT !.status = "cancelled"]
                                      ELSE task[t]]
           tasks == Told(marked, ts)
           rs == SetEntries(reserved, Only(pending, ts))
<1>1. \A t \in ts : t \in Tasks /\ t \in Range(pending) /\ task[t].status = "running"
                    /\ task[t].stage \notin {"new", "failing", "over"}
  <2>1. \A t \in ts : t \in Range(pending) /\ task[t].status = "running"
    BY DEF RunningTasks
  <2>2. \A t \in Range(pending) : t \in Tasks /\ task[t].stage # "new"
    BY Facts DEF Active
  <2> QED BY <2>1, <2>2, Facts DEF StageOK
<1>2. /\ marked \in [Tasks -> TaskStates]
      /\ \A t \in Tasks : /\ marked[t].stage = task[t].stage /\ marked[t].clean = task[t].clean
                          /\ marked[t].told = task[t].told /\ marked[t].outcome = task[t].outcome
                          /\ marked[t].delivered = task[t].delivered
                          /\ t \notin ts => marked[t] = task[t]
                          /\ t \in ts => marked[t].status = "cancelled"
  <2>1. task \in [Tasks -> TaskStates]
    BY Facts
  <2>2. ASSUME NEW t \in Tasks
        PROVE  /\ marked[t] \in TaskStates
               /\ marked[t].stage = task[t].stage /\ marked[t].clean = task[t].clean
               /\ marked[t].told = task[t].told /\ marked[t].outcome = task[t].outcome
               /\ marked[t].delivered = task[t].delivered
               /\ t \notin ts => marked[t] = task[t]
               /\ t \in ts => marked[t].status = "cancelled"
    BY <2>1 DEF TaskStates, Statuses
  <2>3. marked \in [Tasks -> TaskStates]
    BY <2>2
  <2> QED BY <2>2, <2>3
<1> HIDE DEF marked
<1>3. StageOK(marked)
  BY <1>1, <1>2, Facts DEF StageOK
<1>4. /\ tasks \in [Tasks -> TaskStates] /\ StageOK(tasks)
      /\ \A t \in Tasks :
           /\ tasks[t].stage = marked[t].stage /\ tasks[t].status = marked[t].status
           /\ tasks[t].clean = marked[t].clean
           /\ marked[t].delivered => tasks[t].delivered
           /\ t \in ts /\ reinject /\ marked[t].told = "" => tasks[t].delivered
  <2>1. reinject \in BOOLEAN
    BY Facts
  <2>2. Announced(marked, ts, Told(marked, ts))
    BY <1>2, <1>3, <2>1, ToldFacts
  <2>3. Announced(marked, ts, tasks)
    BY <2>2
  <2> HIDE DEF tasks
  <2> QED BY <2>3 DEF Announced
<1>5. /\ task' = tasks /\ UNCHANGED <<config, join, collected>>
      /\ Pruned(tasks, pending, Marked(ts), rs)
  BY DEF Cancel, marked
<1> HIDE DEF tasks
<1>6. \A t \in Tasks :
           /\ tasks[t].stage = "new" <=> task[t].stage = "new"
           /\ task[t].stage = "over" => tasks[t].stage = "over"
           /\ tasks[t].clean = task[t].clean
           /\ tasks[t].status = "running" => task[t].status = "running"
           /\ task[t].delivered => tasks[t].delivered
  BY <1>2, <1>4
<1>7. /\ Marked(ts) \in Seq(Tombs) /\ OneTombEach(Marked(ts))
      /\ \A b \in Range(Marked(ts)) : \E c \in Range(evicted) :
           /\ b.task = c.task
           /\ b.delivered => \/ c.delivered
                             \/ reinject /\ \E t \in ts : task[t].told = "" /\ name[t] = name[c.task]
  BY Facts, MarkedFacts
<1>8. ASSUME NEW u \in ts, reinject, task[u].told = "",
             NEW t \in Outstanding, name[t] = name[u]
      PROVE  tasks[t].delivered
  <2>1. NameIsKept(t) /\ u \in Tasks /\ u \in Range(pending)
    BY <1>1, Facts
  <2>2. u = t
    BY <1>8, <2>1 DEF NameIsKept
  <2> QED BY <1>2, <1>4, <1>8, <2>1, <2>2
<1>9. \A b \in Range(Marked(ts)) : \E c \in Range(evicted) :
           /\ b.task = c.task
           /\ b.delivered =>
                c.delivered \/ \A t \in Outstanding : name[t] = name[b.task] => tasks[t].delivered
  <2> SUFFICES ASSUME NEW b \in Range(Marked(ts))
               PROVE  \E c \in Range(evicted) :
                        /\ b.task = c.task
                        /\ b.delivered => \/ c.delivered
                                          \/ \A t \in Outstanding :
                                                name[t] = name[b.task] => tasks[t].delivered
    OBVIOUS
  <2>1. PICK c \in Range(evicted) :
          /\ b.task = c.task
          /\ b.delivered => \/ c.delivered
                            \/ reinject /\ \E t \in ts : task[t].told = "" /\ name[t] = name[c.task]
    BY <1>7
  <2>2. ASSUME b.delivered, ~ c.delivered, NEW t \in Outstanding, name[t] = name[b.task]
        PROVE  tasks[t].delivered
    BY <1>8, <2>1, <2>2
  <2> QED BY <2>1, <2>2
<1>10. Only(pending, ts) \in Seq(Tasks) /\ OneEach(Only(pending, ts))
       /\ Range(Only(pending, ts)) = Range(pending) \cap ts
  BY Facts, OnlyFacts, OnlyOneEach
<1>11. /\ rs \in Seq(Tasks) /\ OneEach(rs)
       /\ Range(rs) = {t \in Range(reserved) : name[t] \notin NamesOf(Range(pending) \cap ts)}
                      \cup (Range(pending) \cap ts)
  <2> DEFINE ps == Only(pending, ts)
  <2>1. ps \in Seq(Tasks) /\ OneEach(ps) /\ Range(ps) = Range(pending) \cap ts
    BY <1>10
  <2> HIDE DEF ps
  <2>2. /\ SetEntries(reserved, ps) \in Seq(Tasks) /\ OneEach(SetEntries(reserved, ps))
        /\ Range(SetEntries(reserved, ps)) =
             {t \in Range(reserved) : name[t] \notin NamesOf(Range(ps))} \cup Range(ps)
    BY <2>1, Facts, SetEntriesFacts
  <2> QED BY <2>1, <2>2 DEF ps
<1> HIDE DEF rs
<1>12. Range(rs) \subseteq Active
  BY <1>11, Facts
<1>13. ASSUME NEW t \in Outstanding PROVE t \in Range(rs)
  <2>1. NameIsKept(t)
    BY Facts
  <2>2. CASE name[t] \notin NamesOf(Range(pending) \cap ts)
    BY <1>11, <2>1, <2>2 DEF NameIsKept
  <2>3. CASE name[t] \in NamesOf(Range(pending) \cap ts)
    <3>1. PICK u \in Range(pending) \cap ts : name[u] = name[t]
      BY <2>3 DEF NamesOf
    <3>2. u = t
      BY <1>1, <2>1, <3>1 DEF NameIsKept
    <3> QED BY <1>11, <3>2
  <2> QED BY <2>2, <2>3
<1>14. MakesRoom(tasks, pending, Marked(ts), rs)
  <2>1. \A t \in Tasks : tasks[t].delivered \in BOOLEAN
    BY <1>4 DEF TaskStates
  <2> QED BY <1>5, <1>7, <1>11, <2>1, Facts, PrunedFacts
<1> QED BY <1>4, <1>5, <1>6, <1>7, <1>9, <1>11, <1>12, <1>13, <1>14, SettlingKeeps

\* The end of a task's own code.
LEMMA FinishKeeps ==
    ASSUME Inv, UNCHANGED <<config, join, collected>>,
           NEW t \in Tasks, task[t].stage \in {"keeping", "failing"},
           NEW tasks \in [Tasks -> TaskStates], \A u \in Tasks \ {t} : tasks[u] = task[u],
           tasks[t].status # "running", tasks[t].told = task[t].told,
           tasks[t].delivered = task[t].delivered, tasks[t].clean = task[t].clean,
           NEW rs \in Seq(Tasks), OneEach(rs), Range(rs) \subseteq Range(reserved) \cup {t},
           \A u \in Range(reserved) : u \in Range(rs) \/ name[u] = name[t],
           t \in Range(reserved) => t \in Range(rs),
           Finish(t, tasks, rs)
    PROVE  Inv'
<1> DEFINE over == [tasks EXCEPT ![t].stage = "over"]
           new == Told(over, {t})
           kept == IF new[t].delivered THEN WithoutName(rs, name[t]) ELSE rs
<1>1. /\ task' = new /\ Pruned(new, pending, Marked({t}), kept)
  BY DEF Finish
<1>2. /\ reinject \in BOOLEAN /\ task \in [Tasks -> TaskStates] /\ StageOK(task)
      /\ \A u \in Outstanding : NameIsKept(u)
  BY Facts
<1>3. /\ over \in [Tasks -> TaskStates]
      /\ \A u \in Tasks : /\ over[u].clean = task[u].clean /\ over[u].told = task[u].told
                          /\ over[u].delivered = task[u].delivered
                          /\ u # t => over[u] = task[u]
      /\ over[t].stage = "over" /\ over[t].status # "running"
  BY <1>2 DEF TaskStates, Stages
<1> HIDE DEF over
<1>4. StageOK(over)
  BY <1>2, <1>3 DEF StageOK
<1>5. Announced(over, {t}, new)
  BY <1>2, <1>3, <1>4, ToldFacts
<1> HIDE DEF new
<1>6. /\ new \in [Tasks -> TaskStates] /\ StageOK(new)
      /\ \A u \in Tasks :
           /\ new[u].stage = over[u].stage /\ new[u].status = over[u].status
           /\ new[u].clean = over[u].clean
           /\ over[u].delivered => new[u].delivered
      /\ reinject /\ over[t].told = "" => new[t].delivered
  BY <1>5 DEF Announced
<1>7. \A u \in Tasks :
           /\ new[u].stage = "new" <=> task[u].stage = "new"
           /\ task[u].stage = "over" => new[u].stage = "over"
           /\ new[u].clean = task[u].clean
           /\ new[u].status = "running" => task[u].status = "running"
           /\ task[u].delivered => new[u].delivered
  <2> SUFFICES ASSUME NEW u \in Tasks
               PROVE  /\ new[u].stage = "new" <=> task[u].stage = "new"
                      /\ task[u].stage = "over" => new[u].stage = "over"
                      /\ new[u].clean = task[u].clean
                      /\ new[u].status = "running" => task[u].status = "running"
                      /\ task[u].delivered => new[u].delivered
    OBVIOUS
  <2>1. CASE u = t
    BY <1>3, <1>6, <2>1
  <2>2. CASE u # t
    BY <1>3, <1>6, <2>2
  <2> QED BY <2>1, <2>2
<1>8. \A u \in Outstanding : u = t \/ name[u] # name[t]
  BY <1>2 DEF NameIsKept
<1>9. /\ Marked({t}) \in Seq(Tombs) /\ OneTombEach(Marked({t}))
      /\ \A b \in Range(Marked({t})) : \E c \in Range(evicted) :
           /\ b.task = c.task
           /\ b.delivered => \/ c.delivered
                             \/ reinject /\ \E u \in {t} : task[u].told = "" /\ name[u] = name[c.task]
  BY Facts, MarkedFacts
<1>10. \A b \in Range(Marked({t})) : \E c \in Range(evicted) :
           /\ b.task = c.task
           /\ b.delivered =>
                c.delivered \/ \A u \in Outstanding : name[u] = name[b.task] => new[u].delivered
  <2> SUFFICES ASSUME NEW b \in Range(Marked({t}))
               PROVE  \E c \in Range(evicted) :
                        /\ b.task = c.task
                        /\ b.delivered => \/ c.delivered
                                          \/ \A u \in Outstanding :
                                                name[u] = name[b.task] => new[u].delivered
    OBVIOUS
  <2>1. PICK c \in Range(evicted) :
          /\ b.task = c.task
          /\ b.delivered => \/ c.delivered
                            \/ reinject /\ \E u \in {t} : task[u].told = "" /\ name[u] = name[c.task]
    BY <1>9
  <2>2. ASSUME b.delivered, ~ c.delivered, NEW u \in Outstanding, name[u] = name[b.task]
        PROVE  new[u].delivered
    <3>1. reinject /\ task[t].told = "" /\ name[t] = name[u]
      BY <2>1, <2>2
    <3>2. u = t
      BY <1>8, <3>1
    <3> QED BY <1>3, <1>6, <3>1, <3>2
  <2> QED BY <2>1, <2>2
<1>11. /\ kept \in Seq(Tasks) /\ OneEach(kept)
       /\ Range(kept) = IF new[t].delivered THEN {u \in Range(rs) : name[u] # name[t]} ELSE Range(rs)
  <2>1. /\ WithoutName(rs, name[t]) \in Seq(Tasks) /\ OneEach(WithoutName(rs, name[t]))
        /\ Range(WithoutName(rs, name[t])) = {u \in Range(rs) : name[u] # name[t]}
    BY WithoutNameFacts
  <2>2. CASE new[t].delivered
    BY <2>1, <2>2
  <2>3. CASE ~ new[t].delivered
    BY <2>3
  <2> QED BY <2>2, <2>3
<1> HIDE DEF kept
<1>12. Range(kept) \subseteq Active
  <2>1. t \in Active /\ Range(reserved) \subseteq Active
    BY Facts DEF Active
  <2> QED BY <1>11, <2>1
<1>13. \A u \in Outstanding : new[u].delivered \/ u \in Range(kept)
  <2> SUFFICES ASSUME NEW u \in Outstanding, ~ new[u].delivered PROVE u \in Range(kept)
    OBVIOUS
  <2>1. u \in Range(reserved)
    BY <1>2 DEF NameIsKept
  <2>2. u \in Range(rs)
    BY <1>8, <2>1
  <2> QED BY <1>8, <1>11, <2>2
<1>14. MakesRoom(new, pending, Marked({t}), kept)
  <2>1. \A u \in Tasks : new[u].delivered \in BOOLEAN
    BY <1>6 DEF TaskStates
  <2> QED BY <1>1, <1>9, <1>11, <2>1, Facts, PrunedFacts
<1> QED BY <1>1, <1>6, <1>7, <1>9, <1>10, <1>11, <1>12, <1>13, <1>14, SettlingKeeps

LEMMA KeptKeeps ==
    ASSUME Inv, NEW t \in Tasks, Kept(t)
    PROVE  Inv'
<1> DEFINE tasks == [task EXCEPT ![t].status = task[t].outcome]
           rs == SetEntry(reserved, t)
<1>1. /\ task[t].stage = "keeping" /\ Finish(t, tasks, rs)
      /\ UNCHANGED <<config, join, collected>>
  BY DEF Kept
<1>2. task \in [Tasks -> TaskStates] /\ StageOK(task)
  BY Facts
<1>3. /\ tasks \in [Tasks -> TaskStates] /\ \A u \in Tasks \ {t} : tasks[u] = task[u]
      /\ tasks[t].status = task[t].outcome /\ tasks[t].told = task[t].told
      /\ tasks[t].delivered = task[t].delivered /\ tasks[t].clean = task[t].clean
  BY <1>2 DEF TaskStates
<1>4. tasks[t].status # "running"
  BY <1>1, <1>2, <1>3 DEF StageOK
<1>5. /\ rs \in Seq(Tasks) /\ OneEach(rs)
      /\ Range(rs) = {u \in Range(reserved) : name[u] # name[t]} \cup {t}
  BY Facts, SetEntryFacts
<1> HIDE DEF tasks, rs
<1> QED BY <1>1, <1>3, <1>4, <1>5, FinishKeeps

LEMMA FailedKeeps ==
    ASSUME Inv, NEW t \in Tasks, Failed(t)
    PROVE  Inv'
<1>1. /\ task[t].stage = "failing" /\ Finish(t, task, reserved)
      /\ UNCHANGED <<config, join, collected>>
  BY DEF Failed
<1>2. task \in [Tasks -> TaskStates] /\ StageOK(task) /\ reserved \in Seq(Tasks) /\ OneEach(reserved)
  BY Facts
<1>3. task[t].status # "running"
  BY <1>1, <1>2 DEF StageOK
<1> QED BY <1>1, <1>2, <1>3, FinishKeeps

\* A step that leaves the maps alone, but for a reservation that is renewed.
LEMMA RestingKeeps ==
    ASSUME Inv, UNCHANGED <<config, join, collected, pending, evicted, forgotten>>,
           NEW t \in Tasks, task[t].stage \notin {"new", "over"},
           NEW tasks \in [Tasks -> TaskStates], StageOK(tasks), task' = tasks,
           \A u \in Tasks \ {t} : tasks[u] = task[u],
           tasks[t].stage # "new", tasks[t].clean = task[t].clean,
           tasks[t].delivered = task[t].delivered,
           tasks[t].status = "running" => task[t].status = "running",
           reserved' = reserved \/ reserved' = SetEntry(reserved, t)
    PROVE  Inv'
<1>1. /\ task \in [Tasks -> TaskStates] /\ \A u \in Outstanding : NameIsKept(u)
      /\ pending \in Seq(Tasks) /\ OneEach(pending)
      /\ evicted \in Seq(Tombs) /\ OneTombEach(evicted)
      /\ reserved \in Seq(Tasks) /\ OneEach(reserved) /\ Range(reserved) \subseteq Active
      /\ forgotten \subseteq Tasks
  BY Facts
<1>2. /\ SetEntry(reserved, t) \in Seq(Tasks) /\ OneEach(SetEntry(reserved, t))
      /\ Range(SetEntry(reserved, t)) = {u \in Range(reserved) : name[u] # name[t]} \cup {t}
  BY <1>1, SetEntryFacts
<1> DEFINE rs == reserved'
<1>3. \A u \in Outstanding : u = t \/ name[u] # name[t]
  BY <1>1 DEF NameIsKept
<1>4. rs \in Seq(Tasks) /\ OneEach(rs) /\ Range(rs) \subseteq Active
  BY <1>1, <1>2 DEF Active
<1>5. \A u \in Outstanding : u \in Range(rs)
  BY <1>1, <1>2, <1>3 DEF NameIsKept
<1>6. \A u \in Tasks :
           /\ tasks[u].stage = "new" <=> task[u].stage = "new"
           /\ task[u].stage = "over" => tasks[u].stage = "over"
           /\ tasks[u].clean = task[u].clean
           /\ tasks[u].status = "running" => task[u].status = "running"
           /\ task[u].delivered => tasks[u].delivered
  <2> SUFFICES ASSUME NEW u \in Tasks
               PROVE  /\ tasks[u].stage = "new" <=> task[u].stage = "new"
                      /\ task[u].stage = "over" => tasks[u].stage = "over"
                      /\ tasks[u].clean = task[u].clean
                      /\ tasks[u].status = "running" => task[u].status = "running"
                      /\ task[u].delivered => tasks[u].delivered
    OBVIOUS
  <2>1. CASE u = t
    BY <2>1
  <2>2. CASE u # t
    BY <2>2
  <2> QED BY <2>1, <2>2
<1>7. MakesRoom(tasks, pending, evicted, rs)
  BY <1>1, <1>4 DEF MakesRoom, OneEach, OneTombEach
<1>8. \A b \in Range(evicted) : \E c \in Range(evicted) :
         b.task = c.task /\ (b.delivered => c.delivered)
  OBVIOUS
<1> HIDE DEF rs
<1> QED BY <1>1, <1>4, <1>5, <1>6, <1>7, <1>8, SettlingKeeps

LEMMA RunReturnsKeeps ==
    ASSUME Inv, NEW t \in Tasks, RunReturns(t)
    PROVE  Inv'
<1>1. PICK outcome \in {"done", "error"} :
        task' = [task EXCEPT ![t].stage = "keeping",
                             ![t].outcome = IF task[t].status = "cancelled" THEN "cancelled"
                                            ELSE outcome]
  BY DEF RunReturns
<1>2. task \in [Tasks -> TaskStates] /\ StageOK(task)
  BY Facts
<1>3. task[t].stage = "work" /\ UNCHANGED <<config, maps, join, collected>>
  BY DEF RunReturns
<1> DEFINE tasks == task'
<1>4. /\ tasks \in [Tasks -> TaskStates] /\ \A u \in Tasks \ {t} : tasks[u] = task[u]
      /\ tasks[t].stage = "keeping" /\ tasks[t].outcome # "running"
      /\ tasks[t].status = task[t].status /\ tasks[t].told = task[t].told
      /\ tasks[t].delivered = task[t].delivered /\ tasks[t].clean = task[t].clean
  BY <1>1, <1>2 DEF TaskStates, Stages, Statuses
<1> HIDE DEF tasks
<1>5. StageOK(tasks)
  BY <1>2, <1>4 DEF StageOK
<1> QED BY <1>3, <1>4, <1>5, RestingKeeps DEF maps, tasks

LEMMA RunThrowsKeeps ==
    ASSUME Inv, NEW t \in Tasks, RunThrows(t)
    PROVE  Inv'
<1> DEFINE tasks == task'
           said == IF task[t].status = "cancelled" THEN task[t].status ELSE "error"
<1>1. /\ task[t].stage = "work" /\ reserved' = SetEntry(reserved, t)
      /\ UNCHANGED <<config, pending, evicted, forgotten, join, collected>>
      /\ task' = [task EXCEPT ![t].stage = "failing", ![t].status = said]
  BY DEF RunThrows
<1>2. task \in [Tasks -> TaskStates] /\ StageOK(task)
  BY Facts
<1>3. said \in Statuses /\ said # "running"
  BY DEF Statuses
<1> HIDE DEF said
<1>4. /\ tasks \in [Tasks -> TaskStates] /\ \A u \in Tasks \ {t} : tasks[u] = task[u]
      /\ tasks[t].stage = "failing" /\ tasks[t].status = said
      /\ tasks[t].told = task[t].told
      /\ tasks[t].delivered = task[t].delivered /\ tasks[t].clean = task[t].clean
  BY <1>1, <1>2, <1>3 DEF TaskStates, Stages
<1> HIDE DEF tasks
<1>5. StageOK(tasks)
  BY <1>2, <1>3, <1>4 DEF StageOK
<1> QED BY <1>1, <1>3, <1>4, <1>5, RestingKeeps DEF tasks

\* A join that begins or is given up holds on to what has settled.
LEMMA WaitingKeeps ==
    ASSUME Inv, UNCHANGED <<config, task, maps, collected>>,
           NEW j \in Joins,
           NEW v \in [stage : {"new", "waiting", "over"}, entries : SUBSET Tasks, others : SUBSET Tasks],
           join' = [join EXCEPT ![j] = v],
           \A t \in v.others : t \in Active /\ task[t].status # "running"
    PROVE  Inv'
<1>1. /\ task' = task /\ pending' = pending /\ reserved' = reserved /\ evicted' = evicted
      /\ forgotten' = forgotten /\ collected' = collected /\ name' = name /\ reinject' = reinject
  BY DEF maps, config
<1>2. join \in [Joins -> [stage : {"new", "waiting", "over"}, entries : SUBSET Tasks,
                          others : SUBSET Tasks]]
  BY Facts
<1>3. TypeOK'
  <2>1. join' \in [Joins -> [stage : {"new", "waiting", "over"}, entries : SUBSET Tasks,
                             others : SUBSET Tasks]]
    BY <1>2
  <2> QED BY <1>1, <2>1 DEF Inv, TypeOK
<1>4. StageOK(task)' /\ RunningIsCancellable'
  BY <1>1 DEF Inv, StageOK, RunningIsCancellable
<1>5. Active' = Active /\ Outstanding' = Outstanding /\ Buried' = Buried
  BY <1>1 DEF Active, Outstanding, Buried
<1>6. KnownInv'
  <2>1. \A i \in Joins : \A t \in join'[i].others : t \in Active /\ task[t].status # "running"
    <3> SUFFICES ASSUME NEW i \in Joins, NEW t \in join'[i].others
                 PROVE  t \in Active /\ task[t].status # "running"
      OBVIOUS
    <3>1. CASE i = j
      BY <1>2, <3>1
    <3>2. CASE i # j
      <4>1. join'[i] = join[i]
        BY <1>2, <3>2
      <4> QED BY <4>1, Facts
    <3> QED BY <3>1, <3>2
  <2> QED BY <1>1, <1>5, <2>1 DEF Inv, KnownInv
<1>7. ASSUME NEW t \in Outstanding' PROVE NameIsKept(t)'
  BY <1>1, <1>5 DEF Inv, NameIsKept
<1> QED BY <1>3, <1>4, <1>6, <1>7 DEF Inv

LEMMA JoinKeeps ==
    ASSUME Inv, NEW j \in Joins, NEW ns \in SUBSET Names, Join(j, ns)
    PROVE  Inv'
<1> DEFINE entries == {t \in Range(pending) : name[t] \in ns}
           tombs == {t \in Buried : name[t] \in ns \ NamesOf(entries)}
           kept == {t \in Range(reserved) : name[t] \in ns \ NamesOf(entries \cup tombs)}
           v == [stage |-> "waiting", entries |-> entries, others |-> tombs \cup kept]
<1>1. join' = [join EXCEPT ![j] = v] /\ UNCHANGED <<config, task, maps, collected>>
  BY DEF Join
<1>2. entries \subseteq Active /\ tombs \subseteq Active /\ kept \subseteq Active
  BY Facts
<1>3. Active \subseteq Tasks
  BY DEF Active
<1>4. v \in [stage : {"new", "waiting", "over"}, entries : SUBSET Tasks, others : SUBSET Tasks]
  BY <1>2, <1>3
<1>5. ASSUME NEW t \in v.others PROVE t \in Active /\ task[t].status # "running"
  <2>1. t \in Active /\ name[t] \in ns /\ name[t] \notin NamesOf(entries)
    BY <1>2, <1>5 DEF NamesOf
  <2>2. t \notin Range(pending)
    BY <2>1 DEF NamesOf
  <2> QED BY <2>1, <2>2, Facts
<1> HIDE DEF v
<1> QED BY <1>1, <1>4, <1>5, WaitingKeeps

LEMMA JoinAbortsKeeps ==
    ASSUME Inv, NEW j \in Joins, JoinAborts(j)
    PROVE  Inv'
<1> DEFINE v == [NoJoin EXCEPT !.stage = "over"]
<1>1. join' = [join EXCEPT ![j] = v] /\ UNCHANGED <<config, task, maps, collected>>
  BY DEF JoinAborts
<1>2. /\ v \in [stage : {"new", "waiting", "over"}, entries : SUBSET Tasks, others : SUBSET Tasks]
      /\ v.others = {}
  BY DEF NoJoin
<1> HIDE DEF v
<1> QED BY <1>1, <1>2, WaitingKeeps

LEMMA JoinReturnsKeeps ==
    ASSUME Inv, NEW j \in Joins, JoinReturns(j)
    PROVE  Inv'
<1> DEFINE released == join[j].entries \cup join[j].others
           v == [NoJoin EXCEPT !.stage = "over"]
<1>1. /\ reinject \in BOOLEAN /\ name \in [Tasks -> Names]
      /\ task \in [Tasks -> TaskStates] /\ StageOK(task)
      /\ pending \in Seq(Tasks) /\ OneEach(pending)
      /\ reserved \in Seq(Tasks) /\ OneEach(reserved)
      /\ evicted \in Seq(Tombs) /\ OneTombEach(evicted)
      /\ join \in [Joins -> [stage : {"new", "waiting", "over"}, entries : SUBSET Tasks,
                             others : SUBSET Tasks]]
      /\ collected \subseteq Tasks /\ forgotten \subseteq Tasks
  BY Facts
<1>2. /\ \A t \in join[j].entries : task[t].stage = "over"
      /\ join' = [join EXCEPT ![j] = v]
      /\ pending' = Only(pending, {t \in Tasks : ~ Releases(j, t)})
      /\ evicted' = Only(evicted, {b \in Tombs : ~ Releases(j, b.task)})
      /\ reserved' = Only(reserved, {t \in Tasks : ~ Releases(j, t)})
      /\ collected' = collected \cup released
      /\ task' = task /\ forgotten' = forgotten /\ name' = name /\ reinject' = reinject
  BY DEF JoinReturns, config
<1>3. \A t \in Tasks : Releases(j, t) <=> t \in released
  BY DEF Releases
<1>4. released \subseteq Tasks
  BY <1>1
<1>5. /\ pending' \in Seq(Tasks) /\ OneEach(pending') /\ Range(pending') = Range(pending) \ released
      /\ reserved' \in Seq(Tasks) /\ OneEach(reserved') /\ Range(reserved') = Range(reserved) \ released
      /\ evicted' \in Seq(Tombs) /\ OneTombEach(evicted') /\ Range(evicted') \subseteq Range(evicted)
  <2>1. Range(pending) \subseteq Tasks /\ Range(reserved) \subseteq Tasks
    BY <1>1 DEF Range
  <2>2. pending' \in Seq(Tasks) /\ OneEach(pending') /\ Range(pending') = Range(pending) \ released
    BY <1>1, <1>2, <1>3, <2>1, OnlyFacts, OnlyOneEach
  <2>3. reserved' \in Seq(Tasks) /\ OneEach(reserved') /\ Range(reserved') = Range(reserved) \ released
    BY <1>1, <1>2, <1>3, <2>1, OnlyFacts, OnlyOneEach
  <2>4. evicted' \in Seq(Tombs) /\ OneTombEach(evicted') /\ Range(evicted') \subseteq Range(evicted)
    BY <1>1, <1>2, OnlyFacts, OnlyOneTombEach
  <2> QED BY <2>2, <2>3, <2>4
<1>6. v \in [stage : {"new", "waiting", "over"}, entries : SUBSET Tasks, others : SUBSET Tasks]
      /\ v.others = {}
  BY DEF NoJoin
<1> HIDE DEF v, released
<1>7. TypeOK'
  <2>1. join' \in [Joins -> [stage : {"new", "waiting", "over"}, entries : SUBSET Tasks,
                             others : SUBSET Tasks]]
    BY <1>1, <1>2, <1>6
  <2>2. collected' \subseteq Tasks /\ forgotten' \subseteq Tasks
    BY <1>1, <1>2, <1>4
  <2> QED BY <1>1, <1>2, <1>5, <2>1, <2>2
          DEF TypeOK, TaskStates, Stages, OneEach, OneTombEach
<1>8. StageOK(task)'
  BY <1>1, <1>2 DEF StageOK
<1>9. RunningIsCancellable'
  <2> SUFFICES ASSUME NEW t \in Tasks, task[t].stage # "new", task[t].status = "running"
               PROVE  t \in Range(pending')
    BY <1>2 DEF RunningIsCancellable
  <2>1. t \in Range(pending)
    BY DEF Inv, RunningIsCancellable
  <2>2. t \notin join[j].entries
    BY <1>1, <1>2 DEF StageOK
  <2>3. t \notin join[j].others
    BY Facts
  <2> QED BY <1>5, <2>1, <2>2, <2>3 DEF released
<1>10. Active' = Active
  BY <1>2 DEF Active
<1>11. KnownInv'
  <2>1. \A i \in Joins : \A t \in join'[i].others : t \in Active /\ task[t].status # "running"
    <3> SUFFICES ASSUME NEW i \in Joins, NEW t \in join'[i].others
                 PROVE  t \in Active /\ task[t].status # "running"
      OBVIOUS
    <3>1. i # j
      BY <1>1, <1>2, <1>6
    <3>2. join'[i] = join[i]
      BY <1>1, <1>2, <3>1
    <3> QED BY <3>2, Facts
  <2>2. Range(pending) \cup Range(reserved) \cup Buried \subseteq Active
    BY Facts
  <2>3. Buried' \subseteq Buried
    BY <1>5 DEF Buried, Range
  <2> QED BY <1>2, <1>5, <1>10, <2>1, <2>2, <2>3 DEF KnownInv
<1>12. ASSUME NEW t \in Outstanding' PROVE NameIsKept(t)'
  <2>1. t \in Outstanding /\ t \notin released
    BY <1>2, <1>10, <1>12 DEF Outstanding
  <2>2. NameIsKept(t)
    BY <2>1, Facts
  <2> QED BY <1>2, <1>5, <2>1, <2>2 DEF NameIsKept
<1> QED BY <1>7, <1>8, <1>9, <1>11, <1>12 DEF Inv

\* A spawn takes a name that nobody is owed a result under.
LEMMA SpawnKeeps ==
    ASSUME Inv, NEW t \in Tasks, Spawn(t)
    PROVE  Inv'
<1> DEFINE tasks == [task EXCEPT ![t].stage = "work", ![t].clean = ~ WindingDown(name[t])]
           entries == SetEntry(pending, t)
           tombs == Only(evicted, {b \in Tombs : name[b.task] # name[t]})
           rs == Append(WithoutName(reserved, name[t]), t)
<1>1. /\ reinject \in BOOLEAN /\ name \in [Tasks -> Names]
      /\ task \in [Tasks -> TaskStates] /\ StageOK(task)
      /\ pending \in Seq(Tasks) /\ OneEach(pending) /\ Range(pending) \subseteq Active
      /\ reserved \in Seq(Tasks) /\ OneEach(reserved) /\ Range(reserved) \subseteq Active
      /\ evicted \in Seq(Tombs) /\ OneTombEach(evicted)
      /\ Buried \subseteq Active /\ \A b \in Range(evicted) : b.task \in Buried
      /\ join \in [Joins -> [stage : {"new", "waiting", "over"}, entries : SUBSET Tasks,
                             others : SUBSET Tasks]]
      /\ \A j \in Joins : \A u \in join[j].others : u \in Active /\ task[u].status # "running"
      /\ collected \subseteq Tasks /\ forgotten \subseteq Tasks
  BY Facts
<1>2. /\ task[t].stage = "new" /\ Replaceable(name[t])
      /\ FreedBy(name[t]) \/ name[t] \notin NamesOf(Range(reserved))
      /\ task' = tasks /\ Pruned(tasks, entries, tombs, rs)
      /\ join' = join /\ collected' = collected /\ name' = name /\ reinject' = reinject
  BY DEF Spawn, config
<1>3. /\ tasks \in [Tasks -> TaskStates] /\ \A u \in Tasks \ {t} : tasks[u] = task[u]
      /\ tasks[t].stage = "work" /\ tasks[t].clean = ~ WindingDown(name[t])
      /\ tasks[t].status = task[t].status /\ tasks[t].told = task[t].told
      /\ tasks[t].delivered = task[t].delivered
  <2> DEFINE quiet == ~ WindingDown(name[t])
  <2>1. quiet \in BOOLEAN
    BY DEF WindingDown
  <2>2. tasks = [task EXCEPT ![t].stage = "work", ![t].clean = quiet]
    OBVIOUS
  <2> HIDE DEF quiet, tasks
  <2>3. /\ tasks \in [Tasks -> TaskStates] /\ \A u \in Tasks \ {t} : tasks[u] = task[u]
        /\ tasks[t].stage = "work" /\ tasks[t].clean = quiet
        /\ tasks[t].status = task[t].status /\ tasks[t].told = task[t].told
        /\ tasks[t].delivered = task[t].delivered
    <3> DEFINE new == [task[t] EXCEPT !.stage = "work", !.clean = quiet]
    <3>1. task[t] \in TaskStates /\ task \in [Tasks -> TaskStates]
      BY <1>1
    <3>2. /\ new \in TaskStates /\ new.stage = "work" /\ new.clean = quiet
          /\ new.status = task[t].status /\ new.told = task[t].told
          /\ new.delivered = task[t].delivered
      BY <2>1, <3>1 DEF TaskStates, Stages
    <3>3. tasks = [u \in Tasks |-> IF u = t THEN new ELSE task[u]]
      BY <2>2, <3>1
    <3> HIDE DEF new
    <3> QED BY <3>1, <3>2, <3>3
  <2> QED BY <2>3 DEF quiet
<1> HIDE DEF tasks
<1>4. /\ entries \in Seq(Tasks) /\ OneEach(entries)
      /\ Range(entries) = {u \in Range(pending) : name[u] # name[t]} \cup {t}
  BY <1>1, SetEntryFacts
<1>5. /\ tombs \in Seq(Tombs) /\ OneTombEach(tombs)
      /\ Range(tombs) = Range(evicted) \cap {b \in Tombs : name[b.task] # name[t]}
  BY <1>1, OnlyFacts, OnlyOneTombEach
<1>6. /\ rs \in Seq(Tasks) /\ OneEach(rs)
      /\ Range(rs) = {u \in Range(reserved) : name[u] # name[t]} \cup {t}
  <2> DEFINE w == WithoutName(reserved, name[t])
  <2>1. w \in Seq(Tasks) /\ OneEach(w) /\ Range(w) = {u \in Range(reserved) : name[u] # name[t]}
    BY <1>1, WithoutNameFacts
  <2> HIDE DEF w
  <2>2. /\ Append(w, t) \in Seq(Tasks) /\ DOMAIN w = 1 .. Len(w) /\ Len(w) \in Nat
        /\ DOMAIN Append(w, t) = 1 .. Len(w) + 1 /\ Append(w, t)[Len(w) + 1] = t
        /\ \A i \in 1 .. Len(w) : Append(w, t)[i] = w[i]
    BY <2>1
  <2>3. \A i \in DOMAIN w : name[w[i]] # name[t]
    BY <2>1 DEF Range
  <2>4. \A i \in 1 .. Len(w) + 1 : i \in DOMAIN w \/ i = Len(w) + 1
    BY <2>2
  <2>5. \A i \in DOMAIN w : i \in 1 .. Len(w) + 1 /\ Append(w, t)[i] = w[i]
    BY <2>2
  <2>6. Len(w) + 1 \in 1 .. Len(w) + 1
    BY <2>2
  <2>7. OneEach(Append(w, t))
    BY <2>1, <2>2, <2>3, <2>4, <2>5 DEF OneEach
  <2>8. Range(Append(w, t)) = Range(w) \cup {t}
    BY <2>2, <2>4, <2>5, <2>6 DEF Range
  <2> QED BY <2>1, <2>2, <2>7, <2>8 DEF w
<1> HIDE DEF entries, tombs, rs
<1>7. MakesRoom(tasks, entries, tombs, rs)
  <2>1. \A u \in Tasks : tasks[u].delivered \in BOOLEAN
    BY <1>3 DEF TaskStates
  <2> QED BY <1>2, <1>4, <1>5, <1>6, <2>1, PrunedFacts
<1>8. /\ pending' \in Seq(Tasks) /\ OneEach(pending')
      /\ evicted' \in Seq(Tombs) /\ OneTombEach(evicted')
      /\ reserved' \in Seq(Tasks) /\ OneEach(reserved')
      /\ Range(pending') \subseteq Range(entries)
      /\ \A u \in Range(entries) : tasks[u].status = "running" => u \in Range(pending')
      /\ \A b \in Range(evicted') :
           b \in Range(tombs) \/ (b.task \in Range(entries) /\ b.delivered = tasks[b.task].delivered)
      /\ Range(reserved') \subseteq Range(rs)
      /\ Range(rs) \subseteq Range(reserved') \cup forgotten'
      /\ forgotten \subseteq forgotten' /\ forgotten' \subseteq forgotten \cup Tasks
  BY <1>7 DEF MakesRoom
<1>9. TypeOK'
  <2>1. OneEach(pending)' /\ OneEach(reserved)' /\ OneTombEach(evicted)'
    BY <1>2, <1>8 DEF OneEach, OneTombEach
  <2>2. collected' \subseteq Tasks /\ forgotten' \subseteq Tasks
    BY <1>1, <1>2, <1>8
  <2> QED BY <1>1, <1>2, <1>3, <1>8, <2>1, <2>2
          DEF TypeOK, TaskStates, Stages, OneEach, OneTombEach
<1>10. StageOK(task)'
  BY <1>1, <1>2, <1>3 DEF StageOK
<1>11. RunningIsCancellable'
  <2> SUFFICES ASSUME NEW u \in Tasks, tasks[u].stage # "new", tasks[u].status = "running"
               PROVE  u \in Range(pending')
    BY <1>2 DEF RunningIsCancellable
  <2>1. CASE u = t
    BY <1>4, <1>8, <2>1
  <2>2. CASE u # t
    <3>1. u \in Range(pending) /\ task[u].status = "running"
      BY <1>3, <2>2 DEF Inv, RunningIsCancellable
    <3>2. name[u] # name[t]
      BY <1>2, <3>1 DEF Replaceable
    <3> QED BY <1>4, <1>8, <3>1, <3>2
  <2> QED BY <2>1, <2>2
<1>12. Active' = Active \cup {t}
  BY <1>2, <1>3 DEF Active
<1>13. KnownInv'
  <2>1. Range(entries) \subseteq Active' /\ Range(rs) \subseteq Active'
    BY <1>1, <1>4, <1>6, <1>12
  <2>2. \A b \in Range(evicted') : b.task \in Active'
    BY <1>1, <1>5, <1>8, <1>12, <2>1
  <2>3. Buried' \subseteq Active'
    BY <2>2 DEF Buried, Range
  <2>4. \A j \in Joins : \A u \in join'[j].others : u \in Active' /\ task'[u].status # "running"
    <3>1. t \notin Active
      BY <1>2 DEF Active
    <3>2. Active \subseteq Tasks
      BY DEF Active
    <3> QED BY <1>1, <1>2, <1>3, <1>12, <3>1, <3>2
  <2> QED BY <1>8, <2>1, <2>3, <2>4 DEF KnownInv
<1>14. ASSUME NEW u \in Outstanding' PROVE NameIsKept(u)'
  <2>1. /\ u \in Tasks /\ u \in Active' /\ u \notin collected /\ u \notin forgotten'
        /\ tasks[u].clean /\ ~ tasks[u].delivered
    BY <1>2, <1>14 DEF Outstanding, Active
  <2>2. CASE u = t
    <3>1. ~ WindingDown(name[t])
      BY <1>3, <2>1, <2>2
    <3>2. \A x \in Tasks \ {t} : name[x] = name[t] => tasks[x].stage \in {"new", "over"}
      BY <1>3, <3>1 DEF WindingDown
    <3>3. \A x \in Tasks \ {t} : name[x] = name[t] => x \notin Range(pending')
      BY <1>4, <1>8
    <3>4. \A b \in Range(evicted') : name[b.task] = name[t] => ~ b.delivered
      <4> SUFFICES ASSUME NEW b \in Range(evicted'), name[b.task] = name[t] PROVE ~ b.delivered
        OBVIOUS
      <4>1. b.task \in Range(entries) /\ b.delivered = tasks[b.task].delivered
        BY <1>5, <1>8
      <4>2. b.task = t
        BY <1>4, <4>1
      <4> QED BY <2>1, <2>2, <4>1, <4>2
    <3>5. t \in Range(reserved')
      BY <1>6, <1>8, <2>1, <2>2
    <3> QED BY <1>2, <2>2, <3>2, <3>3, <3>4, <3>5 DEF NameIsKept
  <2>3. CASE u # t
    <3>1. u \in Outstanding
      BY <1>2, <1>3, <1>8, <1>12, <2>1, <2>3 DEF Outstanding
    <3>2. NameIsKept(u)
      BY <3>1, Facts
    <3>3. name[u] # name[t]
      <4> SUFFICES ASSUME name[u] = name[t] PROVE FALSE
        OBVIOUS
      <4>1. name[t] \in NamesOf(Range(reserved))
        BY <3>2 DEF NameIsKept, NamesOf
      <4>2. FreedBy(name[t])
        BY <1>2, <4>1
      <4>3. PICK i \in DOMAIN evicted : name[evicted[i].task] = name[t] /\ evicted[i].delivered
        BY <4>2 DEF FreedBy
      <4>4. evicted[i] \in Range(evicted)
        BY DEF Range
      <4> QED BY <3>2, <4>3, <4>4 DEF NameIsKept
    <3>4. u \in Range(reserved')
      BY <1>6, <1>8, <2>1, <3>2, <3>3 DEF NameIsKept
    <3>5. ASSUME NEW x \in Tasks \ {u}, name[x] = name[u]
          PROVE  tasks[x].stage \in {"new", "over"} /\ x \notin Range(pending')
      <4>1. x # t
        BY <3>3, <3>5
      <4>2. task[x].stage \in {"new", "over"} /\ x \notin Range(pending)
        BY <3>2, <3>5 DEF NameIsKept
      <4> QED BY <1>3, <1>4, <1>8, <4>1, <4>2
    <3>6. ASSUME NEW b \in Range(evicted'), name[b.task] = name[u]
          PROVE  ~ b.delivered
      <4>1. CASE b \in Range(tombs)
        BY <1>5, <3>2, <3>6, <4>1 DEF NameIsKept
      <4>2. CASE b.task \in Range(entries) /\ b.delivered = tasks[b.task].delivered
        <5>1. b.task \in Range(pending) /\ b.task \in Tasks
          BY <1>1, <1>4, <3>3, <3>6, <4>2 DEF Active
        <5>2. b.task = u
          BY <3>2, <3>6, <5>1 DEF NameIsKept
        <5> QED BY <2>1, <4>2, <5>2
      <4> QED BY <1>8, <4>1, <4>2
    <3> QED BY <1>2, <3>4, <3>5, <3>6 DEF NameIsKept
  <2> QED BY <2>2, <2>3
<1> QED BY <1>9, <1>10, <1>11, <1>13, <1>14 DEF Inv

-----------------------------------------------------------------------------
(* The theorems.                                                            *)

\* The strengthening behind the others: a task whose result is still owed has
\* its name to itself, in all the maps, until it is delivered, collected or
\* its reservation had to make room.
THEOREM Invariance == Spec => []Inv
<1>1. Init => Inv
  BY Start
<1>2. Inv /\ [Next]_vars => Inv'
  <2> SUFFICES ASSUME Inv, [Next]_vars PROVE Inv'
    OBVIOUS
  <2>1. CASE UNCHANGED vars
    <3>1. UNCHANGED <<reinject, name, task, pending, evicted, reserved, forgotten, join, collected>>
      BY <2>1 DEF vars, config, maps
    <3>2. TypeOK' /\ StageOK(task)' /\ RunningIsCancellable'
      BY <3>1 DEF Inv, TypeOK, StageOK, RunningIsCancellable
    <3>3. Active' = Active /\ Outstanding' = Outstanding /\ Buried' = Buried
      BY <3>1 DEF Outstanding, Active, Buried
    <3>4. KnownInv'
      BY <3>1, <3>3 DEF Inv, KnownInv
    <3>5. ASSUME NEW t \in Outstanding PROVE NameIsKept(t)'
      BY <3>1 DEF Inv, NameIsKept
    <3> QED BY <3>2, <3>3, <3>4, <3>5 DEF Inv
  <2>2. ASSUME NEW t \in Tasks, Spawn(t) PROVE Inv'
    BY <2>2, SpawnKeeps
  <2>3. ASSUME NEW t \in Tasks, Run(t) PROVE Inv'
    BY <2>3, RunReturnsKeeps, RunThrowsKeeps, KeptKeeps, FailedKeeps DEF Run
  <2>4. CASE CancelOne
    <3>1. PICK t \in RunningTasks : Cancel({t})
      BY <2>4 DEF CancelOne
    <3> QED BY <3>1, CancelKeeps
  <2>5. CASE AbortAll
    BY <2>5, CancelKeeps DEF AbortAll
  <2>6. ASSUME NEW j \in Joins, JoinReturns(j) PROVE Inv'
    BY <2>6, JoinReturnsKeeps
  <2>7. ASSUME NEW j \in Joins, JoinAborts(j) PROVE Inv'
    BY <2>7, JoinAbortsKeeps
  <2>8. ASSUME NEW j \in Joins, NEW ns \in SUBSET Names, Join(j, ns) PROVE Inv'
    BY <2>8, JoinKeeps
  <2> QED BY <2>1, <2>2, <2>3, <2>4, <2>5, <2>6, <2>7, <2>8 DEF Next
<1> QED BY <1>1, <1>2, PTL DEF Spec

\* Every variable keeps its type, and each of the three maps of
\* coordinator-extension.ts has one value per name, however often names are
\* spawned again, replaced and given back.
THEOREM TypeCorrect == Spec => []TypeOK
<1>1. Inv => TypeOK
  BY DEF Inv
<1> QED BY <1>1, Invariance, PTL

\* No spawn, join, cancel, Esc or prune takes a running task's entry, and with
\* it the controller it can be aborted by, at any cap and with any number of
\* joins in flight.
THEOREM RunningKeepsItsEntry == Spec => []RunningIsCancellable
<1>1. Inv => RunningIsCancellable
  BY DEF Inv
<1> QED BY <1>1, Invariance, PTL

\* A result nobody was given is still found under its name: what was spawned
\* into a quiet name keeps its reservation until it is delivered, joined or
\* forgotten at the cap.
THEOREM ResultsStay == Spec => []ResultsStayReachable
<1>1. Inv => ResultsStayReachable
  <2> SUFFICES ASSUME Inv, NEW t \in Tasks \ (collected \cup forgotten),
                      task[t].stage = "over", task[t].clean, ~ task[t].delivered
               PROVE  t \in Range(reserved)
    BY DEF ResultsStayReachable
  <2>1. t \in Outstanding
    BY DEF Outstanding, Active
  <2> QED BY <2>1 DEF Inv, NameIsKept
<1> QED BY <1>1, Invariance, PTL
=============================================================================
